------------------------------ MODULE Collector ------------------------------
(***************************************************************************)
(* The public data collector (data/session.py, data/collector.py): one     *)
(* session per venue connects, subscribes, pings and reconnects; both give *)
(* their records to one sink, which appends them and decides from them     *)
(* whether the live data of each venue may be relied upon.  Coverage       *)
(* replays the same records: "coverage" is what it has found so far.       *)
(*                                                                         *)
(* A connection dies some time before its session notices.  Timeouts are   *)
(* as long as they need to be: a session may find a connection failed      *)
(* whenever it is not finished with it.                                    *)
(***************************************************************************)
EXTENDS Coverage

CONSTANTS max_reconnects,
          MaxClock,      \* bound: the wall clock
          MaxFaults      \* bound: connections that fail and frames nobody can read

ASSUME BoundAssumption ==
    {max_reconnects, MaxFaults} \subseteq Nat /\ MaxClock \in Nat \ {0}

VARIABLES
    clock,
    stop,        \* the stop event
    session,     \* where the session of each venue is
    conn,        \* its connection_number
    alive,       \* the connection carries messages
    pending,     \* streams that are not acknowledged yet
    pinged,      \* an application ping is outstanding
    live,        \* _Sink, of each venue: conn_ids, ready_seen, application_pong_seen,
                 \* down and whether last_verified is not None
    barrier,     \* _Sink.bybit_barrier, with its conn_id
    coverage,    \* the replay of what was appended so far
    failures,    \* connections that failed so far
    quarantined, \* frames quarantined so far
    books,       \* history: topics with a snapshot on this Bybit connection
    stained,     \* history: this connection had a frame quarantined, or has the
                 \* id of the connection that subscribed before it
    dark         \* history: nanoseconds of the window without a connection since the
                 \* venue was first verified

link == <<session, conn, alive, pending, pinged>>
sink == <<live, barrier>>
vars == <<clock, stop, session, conn, alive, pending, pinged, live, barrier, coverage,
          failures, quarantined, books, stained, dark>>

Times == 1 .. MaxClock
Connections == 1 .. max_reconnects + 1
Updates(s) == IF s \in Books THEN {"snapshot", "delta", "skip"} ELSE {"other"}

\* The types; every connection of a session has a number.
TypeOK ==
    /\ clock \in Times
    /\ stop \in BOOLEAN
    /\ session \in [Venues -> {"connecting", "open", "backoff", "ended"}]
    /\ conn \in [Venues -> Connections]
    /\ alive \in [Venues -> BOOLEAN]
    /\ \A v \in Venues : pending[v] \subseteq Streams[v]
    /\ pinged \in [Venues -> BOOLEAN]
    /\ live \in [Venues -> [conn : Connections \cup {NoConn}, ready : BOOLEAN,
                            pong : BOOLEAN, down : BOOLEAN, verified : BOOLEAN]]
    /\ barrier \in [conn : Connections \cup {NoConn}, topics : SUBSET Books, gap : BOOLEAN]
    /\ coverage.failed \in BOOLEAN
    /\ coverage.pairing.explained \subseteq Times
    /\ {failures, quarantined} \subseteq 0 .. MaxFaults
    /\ books \subseteq Books
    /\ stained \in [Venues -> BOOLEAN]
    /\ dark \in [Venues -> SUBSET Times]

Init ==
    /\ clock = 1 /\ stop = FALSE
    /\ session = [v \in Venues |-> "connecting"]
    /\ conn = [v \in Venues |-> 1]
    /\ alive = [v \in Venues |-> FALSE]
    /\ pending = [v \in Venues |-> {}]
    /\ pinged = [v \in Venues |-> FALSE]
    /\ live = [v \in Venues |-> [conn |-> NoConn, ready |-> FALSE, pong |-> FALSE,
                                 down |-> FALSE, verified |-> FALSE]]
    /\ barrier = [conn |-> NoConn, topics |-> {}, gap |-> FALSE]
    /\ coverage = NoCoverage
    /\ failures = 0
    /\ quarantined = 0
    /\ books = {}
    /\ stained = [v \in Venues |-> FALSE]
    /\ dark = [v \in Venues |-> {}]

-----------------------------------------------------------------------------
\* A record of a session of v, at the time it is made.
Rec(v, schema) ==
    [venue |-> v, schema |-> schema, conn |-> conn[v], ns |-> clock,
     ready |-> FALSE, topic |-> "none", update |-> "none"]

\* _update_bybit: another connection starts the barrier anew.
_update_bybit(b, e) ==
    LET started == IF e.conn = b.conn THEN b
                   ELSE [conn |-> e.conn, topics |-> {}, gap |-> FALSE]
    IN  IF Observes(e) THEN observe(started, e.topic, e.update) ELSE started

\* _sequence: the frame shows a gap, or comes after one.
Gapped(b, e) == Observes(e) /\ e.topic \in Books /\ _update_bybit(b, e).gap

Acked(e) == e.schema = "subscription_ack" /\ e.ready

Pong(l, e) ==
    IF e.schema \in {"ping_sent", "pong"} THEN e.schema = "pong"
                                          ELSE l.pong /\ e.conn = l.conn

\* Mutant: the ACKs of an earlier connection count.
Ready_Kept(l, e) == Acked(e) \/ l.ready

Ready(l, e) == Acked(e) \/ (l.ready /\ e.schema # "subscription_send")

\* _advance_network_clock: the record is of a kind that verifies, and the
\* evidence is complete.
Verifies(l, b, e) ==
    /\ \/ e.schema = "pong"
       \/ e.venue = "hyperliquid" /\ Acked(e)
       \/ e.venue = "bybit" /\ e.schema = "raw_frame" /\ e.topic \in Books
    /\ Ready(l, e) /\ Pong(l, e)
    /\ e.venue = "bybit" => ready(_update_bybit(b, e))

Kept(l, b, e) ==
    /\ l.verified
    /\ e.conn = l.conn
    /\ e.schema \notin {"liveness_failure", "raw_quarantine"}
    /\ ~ Gapped(b, e)

\* _Sink.record, for one venue; mark_down leaves the connection as it is.
record(l, b, e) ==
    IF e.schema = "venue_down" THEN [l EXCEPT !.down = TRUE, !.verified = FALSE]
    ELSE [conn |-> e.conn, ready |-> Ready(l, e), pong |-> Pong(l, e),
          down |-> l.down /\ ~ Acked(e),
          verified |-> Kept(l, b, e) \/ Verifies(l, b, e)]

Recovers(l, e) == Acked(e) /\ l.down

\* _append, and replay so far: after an ACK the recovery of a venue that was
\* down, after a frame the gap it shows.
_append(c, l, b, e) ==
    LET next == _coverage_points(c, e)
    IN  CASE Recovers(l, e) ->
               _coverage_points(next, [e EXCEPT !.schema = "venue_recovered", !.conn = NoConn])
          [] Gapped(b, e) -> _coverage_points(next, [e EXCEPT !.schema = "bybit_sequence_gap"])
          [] OTHER -> next

Sink == [live |-> live, barrier |-> barrier, coverage |-> coverage, stop |-> stop]

\* A record reaches the sink s.
_emit(s, e) ==
    LET v == e.venue
    IN  [live |-> [s.live EXCEPT ![v] = record(@, s.barrier, e)],
         barrier |-> IF v = "bybit" /\ e.schema # "venue_down"
                     THEN _update_bybit(s.barrier, e) ELSE s.barrier,
         coverage |-> _append(s.coverage, s.live[v], s.barrier, e),
         stop |-> s.stop \/ Gapped(s.barrier, e)]

SinkIs(s) ==
    /\ live' = s.live
    /\ barrier' = s.barrier
    /\ coverage' = s.coverage
    /\ stop' = s.stop

Emits(e) == SinkIs(_emit(Sink, e))
EmitsBoth(e, f) == SinkIs(_emit(_emit(Sink, e), f))

-----------------------------------------------------------------------------
\* What a session does after a message, an exception or a pause: it ends when
\* the stop event is set.
Moves(v, to) == session' = [session EXCEPT ![v] = IF stop' THEN "ended" ELSE to]

Listening(v) == session[v] = "open" /\ alive[v]

\* _run_connection up to its first receive; the streams are subscribed to in
\* one record here.
Connect(v) ==
    /\ session[v] = "connecting"
    /\ IF stop THEN Emits(Rec(v, "subscription_send"))
               ELSE EmitsBoth(Rec(v, "subscription_send"), Rec(v, "ping_sent"))
    /\ Moves(v, "open")
    /\ alive' = [alive EXCEPT ![v] = TRUE]
    /\ pending' = [pending EXCEPT ![v] = Streams[v]]
    /\ pinged' = [pinged EXCEPT ![v] = TRUE]
    /\ stained' = [stained EXCEPT ![v] = coverage.states[v].conn = conn[v]]
    /\ books' = IF v = "bybit" THEN {} ELSE books
    /\ UNCHANGED <<clock, conn, failures, quarantined, dark>>

\* The next application ping; the connection may be dead.
Ping(v) ==
    /\ session[v] = "open" /\ ~ pinged[v] /\ ~ stop
    /\ Emits(Rec(v, "ping_sent"))
    /\ pinged' = [pinged EXCEPT ![v] = TRUE]
    /\ UNCHANGED <<clock, session, conn, alive, pending, failures, quarantined, books,
                   stained, dark>>

\* _handle_message, of the ACK of one stream, which may come again.
Ack(v, s) ==
    /\ Listening(v)
    /\ pending' = [pending EXCEPT ![v] = @ \ {s}]
    /\ Emits([Rec(v, "subscription_ack") EXCEPT !.ready = pending[v] \subseteq {s}])
    /\ Moves(v, "open")
    /\ UNCHANGED <<clock, conn, alive, pinged, failures, quarantined, books, stained, dark>>

\* _handle_message, of market data.
Frame(v, s, update) ==
    LET schema == IF pending[v] # {} THEN "pre_ack_frame" ELSE "raw_frame"
    IN  /\ Listening(v)
        /\ Emits([Rec(v, schema) EXCEPT !.topic = s, !.update = update])
        /\ Moves(v, "open")
        /\ books' = IF v # "bybit" \/ s \notin Books THEN books
                    ELSE CASE update = "snapshot" -> books \cup {s}
                           [] update = "delta" -> books
                           [] update = "skip" -> books \ {s}
        /\ UNCHANGED <<clock, conn, alive, pending, pinged, failures, quarantined,
                       stained, dark>>

\* _handle_message, of the pong that is waited for.
HandlePong(v) ==
    /\ Listening(v) /\ pinged[v]
    /\ Emits(Rec(v, "pong"))
    /\ Moves(v, "open")
    /\ pinged' = [pinged EXCEPT ![v] = FALSE]
    /\ UNCHANGED <<clock, conn, alive, pending, failures, quarantined, books, stained, dark>>

\* _handle_message, of a frame outside the protocol.
Quarantine(v) ==
    /\ Listening(v) /\ failures + quarantined < MaxFaults
    /\ Emits(Rec(v, "raw_quarantine"))
    /\ Moves(v, "open")
    /\ quarantined' = quarantined + 1
    /\ stained' = [stained EXCEPT ![v] = TRUE]
    /\ UNCHANGED <<clock, conn, alive, pending, pinged, failures, books, dark>>

\* The connection stops carrying messages.
Cut(v) ==
    /\ Listening(v) /\ failures + quarantined < MaxFaults
    /\ alive' = [alive EXCEPT ![v] = FALSE]
    /\ UNCHANGED <<clock, stop, session, conn, pending, pinged, sink, coverage, failures,
                   quarantined, books, stained, dark>>

\* Mutant: one reconnect too many.
Reconnects_OneMore(v) == conn[v] \leq max_reconnects + 1

Reconnects(v) == conn[v] \leq max_reconnects

\* run: connecting or the connection fails, an ACK or a pong is missing for too
\* long, or the peer closes.  Without a reconnect left the session returns, and
\* _supervise marks the venue down.
Fail(v) ==
    LET again == stop \/ Reconnects(v)
    IN  /\ session[v] \in {"connecting", "open"} /\ failures + quarantined < MaxFaults
        /\ IF again THEN Emits(Rec(v, "liveness_failure"))
                    ELSE EmitsBoth(Rec(v, "liveness_failure"),
                                   [Rec(v, "venue_down") EXCEPT !.conn = NoConn])
        /\ Moves(v, IF again THEN "connecting" ELSE "backoff")
        /\ conn' = [conn EXCEPT ![v] = IF again /\ ~ stop THEN @ + 1 ELSE @]
        /\ alive' = [alive EXCEPT ![v] = FALSE]
        /\ pending' = [pending EXCEPT ![v] = {}]
        /\ pinged' = [pinged EXCEPT ![v] = FALSE]
        /\ failures' = failures + 1
        /\ UNCHANGED <<clock, quarantined, books, stained, dark>>

\* _supervise: after the backoff another session starts, at connection 1.
Restart(v) ==
    /\ session[v] = "backoff" /\ ~ stop
    /\ session' = [session EXCEPT ![v] = "connecting"]
    /\ conn' = [conn EXCEPT ![v] = 1]
    /\ UNCHANGED <<clock, stop, alive, pending, pinged, sink, coverage, failures,
                   quarantined, books, stained, dark>>

\* The stop event is set.
Leave(v) ==
    /\ stop /\ session[v] \in {"open", "backoff"}
    /\ session' = [session EXCEPT ![v] = "ended"]
    /\ UNCHANGED <<clock, stop, conn, alive, pending, pinged, sink, coverage, failures,
                   quarantined, books, stained, dark>>

\* The owner sets the stop event; bound: at the last time there is.
Stop ==
    /\ ~ stop /\ clock = MaxClock
    /\ stop' = TRUE
    /\ UNCHANGED <<clock, link, sink, coverage, failures, quarantined, books, stained, dark>>

\* After the stop the sessions leave at once.
Tick ==
    /\ ~ stop /\ clock < MaxClock
    /\ clock' = clock + 1
    /\ dark' = [v \in Venues |->
                   IF \/ Listening(v) \/ clock < window_start_ns
                      \/ coverage.pairing.last_verified[v] = NoTime
                   THEN dark[v] ELSE dark[v] \cup {clock}]
    /\ UNCHANGED <<stop, link, sink, coverage, failures, quarantined, books, stained>>

Next ==
    \/ \E v \in Venues :
          \/ Connect(v) \/ Ping(v) \/ HandlePong(v) \/ Quarantine(v)
          \/ \E s \in Streams[v] : Ack(v, s) \/ \E update \in Updates(s) : Frame(v, s, update)
          \/ Cut(v) \/ Fail(v) \/ Restart(v) \/ Leave(v)
    \/ Stop \/ Tick

Spec == Init /\ [][Next]_vars

-----------------------------------------------------------------------------
\* Every stream of the venue's present connection is acknowledged, and the Bybit
\* books are complete there.
Current(v) ==
    /\ session[v] = "open" \/ stop
    /\ pending[v] = {}
    /\ v = "bybit" => books = Books

\* A venue counts as verified only by evidence of its present connection:
\* nothing that an earlier one has shown outlives it (_Sink.record).  A session
\* has a reconnect, or else the connection after a restart has the id of the one
\* before, and _update_bybit lets it keep the old books.
VerifiedIsCurrent ==
    max_reconnects > 0 => \A v \in Venues : live[v].verified => Current(v)

\* The same holds of the time that replay counts as verified (_coverage_points).
ReplayedIsCurrent ==
    \A v \in Venues :
        coverage.states[v].active /\ ~ coverage.failed
            => Current(v) /\ coverage.states[v].conn = conn[v]

\* What was live is found again by replay, and replay gets through the records,
\* but on a connection that had a frame quarantined or whose id was used before:
\* there the two differ (_Sink.record, _coverage_points).
LiveIsReplayed ==
    /\ coverage.failed => stained["bybit"]
    /\ \A v \in Venues :
          live[v].verified /\ ~ stained[v] /\ ~ coverage.failed => coverage.states[v].active

\* The times of the window in which a venue had no connection, and was verified
\* again later.
Outage == UNION {{t \in dark[v] : t < coverage.pairing.last_verified[v]} : v \in Venues}

\* An outage lies in explained gaps, or the window has an unexplained one, though
\* its session notices it later: the gap begins where the venue was verified last.
\* So a window that passes had no more of it than the limits allow, however many
\* hours are usable (pair_explained_intervals, window_coverage_ok).
OutageIsAccounted ==
    Outage # {} /\ ~ coverage.failed =>
        /\ Outage \subseteq coverage.pairing.explained \/ unexplained_gap_present(coverage.pairing)
        /\ replay_window_coverage(coverage.pairing, TRUE) =>
              /\ _merge_intervals(Outage) \leq MAX_EXPLAINED_GAP_NS
              /\ Cardinality(Outage) * 100
                    \leq (window_end_ns - window_start_ns) * MAX_EXPLAINED_GAP_PERCENT

\* Live and replay agree on every connection of Bybit without a quarantined frame:
\* after any outage a venue that is verified again is found verified by replay, and
\* the gap ends there (data/coverage.py:60: "Single source for live and replayed
\* Bybit sequence readiness").
RecoveryIsReplayed ==
    live["bybit"].verified /\ quarantined = 0 /\ ~ coverage.failed
        => coverage.states["bybit"].active
=============================================================================
