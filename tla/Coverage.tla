------------------------------ MODULE Coverage ------------------------------
(***************************************************************************)
(* What the records of a collector root prove about a window of time       *)
(* (data/coverage.py): the replay of its records finds the moments at      *)
(* which a venue was verified and the failures, and pairs these to the     *)
(* explained gaps of the window.  Both are left folds over the records in  *)
(* the order in which they were appended, so they are operators on a state *)
(* and one more record.                                                    *)
(***************************************************************************)
EXTENDS FiniteSetsExt, Integers

CONSTANTS Streams,          \* [Venues -> the streams subscribed there]
          Books,            \* the Bybit order book topics
          window_start_ns, window_end_ns,
          MAX_EXPLAINED_GAP_NS, MAX_EXPLAINED_GAP_PERCENT

ASSUME WindowAssumption ==
    /\ {window_start_ns, window_end_ns} \subseteq Nat
    /\ {MAX_EXPLAINED_GAP_NS, MAX_EXPLAINED_GAP_PERCENT} \subseteq Nat
    /\ window_start_ns < window_end_ns

Venues == {"hyperliquid", "bybit"}
NoTime == 0
NoGap == << >>
NoConn == 0  \* also the connection of what the collector itself records

\* The heartbeat has a schema for each of its phases here.
CONNECTION_SCHEMAS == {"ping_sent", "pong", "pre_ack_frame", "raw_frame",
                       "raw_quarantine", "subscription_ack"}
Explained == {"liveness_failure", "venue_down", "bybit_sequence_gap"}

-----------------------------------------------------------------------------
\* BybitBarrier: its topics have a snapshot and no missing update since.
NoBarrier == [topics |-> {}, gap |-> FALSE]

ready(barrier) == ~ barrier.gap /\ barrier.topics = Books

\* An update is a "snapshot", a "delta" that follows the update before it, or a
\* delta that does not: a "skip".
observe(barrier, topic, update) ==
    LET missing == update = "delta" /\ topic \notin barrier.topics
        gap == barrier.gap \/ missing \/ update = "skip"
    IN  IF topic \notin Books THEN barrier
        ELSE IF gap THEN [barrier EXCEPT !.gap = TRUE]
        ELSE [barrier EXCEPT !.topics = @ \cup {topic}]

Observes(e) == e.venue = "bybit" /\ e.schema \in {"pre_ack_frame", "raw_frame"}

-----------------------------------------------------------------------------
\* pair_explained_intervals; an interval is the set of its nanoseconds.
NoPairing == [last_verified |-> [v \in Venues |-> NoTime],
              pending |-> [v \in Venues |-> {}],
              explained |-> {},
              unexplained |-> FALSE]

\* Mutant: the interval is open at its start.
Interval_Open(start, ns) == Max({start, window_start_ns}) + 1 .. ns - 1

\* From the last verification on, as far as it lies in the window.
Interval(start, ns) == Max({start, window_start_ns}) .. ns - 1

Pair(p, v, ns, kind) ==
    IF ns \geq window_end_ns THEN p
    ELSE CASE kind = "hard_verified" ->
                LET starts == IF ns > window_start_ns THEN p.pending[v] ELSE {}
                IN  [p EXCEPT !.last_verified[v] = ns,
                              !.pending[v] = {},
                              !.explained = @ \cup UNION {Interval(s, ns) : s \in starts \ {NoTime}},
                              !.unexplained = @ \/ NoTime \in starts]
           [] kind = "explained_failure" ->
                [p EXCEPT !.pending[v] = @ \cup {p.last_verified[v]}]
           [] kind = "unexplained_failure" ->
                [p EXCEPT !.unexplained = @ \/ ns \geq window_start_ns]

unexplained_gap_present(p) == p.unexplained \/ \E v \in Venues : p.pending[v] # {}

\* Intervals that touch are one gap; the longest of them.
_merge_intervals(explained) ==
    LET intervals == {i \in explained \X explained : i[1] .. i[2] \subseteq explained}
    IN  Max({0} \cup {i[2] - i[1] + 1 : i \in intervals})

\* "usable": enough hours of the window have latencies (usable_latency_hours).
window_coverage_ok(maximum, total, unexplained, usable) ==
    /\ ~ unexplained
    /\ maximum \leq MAX_EXPLAINED_GAP_NS
    /\ total * 100 \leq (window_end_ns - window_start_ns) * MAX_EXPLAINED_GAP_PERCENT
    /\ usable

replay_window_coverage(p, usable) ==
    window_coverage_ok(_merge_intervals(p.explained), Cardinality(p.explained),
                       unexplained_gap_present(p), usable)

-----------------------------------------------------------------------------
\* _coverage_points, and what pairing makes of them.  "failed": it has raised.
NewConnection(conn) ==
    [conn |-> conn, ack |-> FALSE, pong |-> FALSE, active |-> FALSE, blocked |-> FALSE]

NoCoverage ==
    [states |-> [v \in Venues |-> NewConnection(NoConn)],
     barrier |-> NoBarrier, pending_gap |-> NoGap,
     pairing |-> NoPairing, failed |-> FALSE]

\* Mutant: only the first connection of a venue starts.
Starts_First(c, e) == e.schema = "subscription_send" /\ c.states[e.venue].conn = NoConn

\* The subscriptions of another connection than the last start anew.
Starts(c, e) == e.schema = "subscription_send" /\ e.conn # c.states[e.venue].conn

Started(c, e) ==
    IF ~ Starts(c, e) THEN c
    ELSE [c EXCEPT !.states[e.venue] = NewConnection(e.conn),
                   !.barrier = IF e.venue = "bybit" THEN NoBarrier ELSE @]

\* "missing Bybit sequence gap event", "orphan Bybit sequence gap" and
\* "collector connection mismatch".
Rejected(c, e) ==
    LET matching == e.schema = "bybit_sequence_gap" /\ c.pending_gap = <<e.ns, e.conn>>
    IN  \/ c.pending_gap # NoGap /\ ~ matching
        \/ e.schema = "bybit_sequence_gap" /\ ~ matching
        \/ e.schema \in CONNECTION_SCHEMAS /\ e.conn # c.states[e.venue].conn

\* Mutant: a failure does not end the verified time of its connection.
_failure_point_Unblocked(c, e) ==
    LET kind == IF e.schema \in Explained THEN "explained_failure" ELSE "unexplained_failure"
    IN  [c EXCEPT !.pending_gap = NoGap,
                  !.pairing = Pair(@, e.venue, e.ns, kind)]

_failure_point(c, e) ==
    LET kind == IF e.schema \in Explained THEN "explained_failure" ELSE "unexplained_failure"
    IN  [c EXCEPT !.states[e.venue].active = FALSE,
                  !.states[e.venue].blocked = TRUE,
                  !.pending_gap = NoGap,
                  !.pairing = Pair(@, e.venue, e.ns, kind)]

\* The venue is verified when it gets ready, and at every pong while it is.
Evidence(c, e) ==
    LET s == c.states[e.venue]
        barrier == IF Observes(e) THEN observe(c.barrier, e.topic, e.update) ELSE c.barrier
        ack == s.ack \/ (e.schema = "subscription_ack" /\ e.ready)
        pong == s.pong \/ e.schema = "pong"
        active == s.conn # NoConn /\ ack /\ pong /\ (e.venue = "bybit" => ready(barrier))
    IN  [c EXCEPT !.states[e.venue] = [s EXCEPT !.ack = ack, !.pong = pong, !.active = active],
                  !.barrier = barrier,
                  !.pending_gap = IF barrier.gap /\ ~ c.barrier.gap THEN <<e.ns, e.conn>> ELSE @,
                  !.pairing = IF active /\ (~ s.active \/ e.schema = "pong")
                              THEN Pair(@, e.venue, e.ns, "hard_verified") ELSE @]

_coverage_points(coverage, e) ==
    LET c == Started(coverage, e)
    IN  IF coverage.failed \/ Rejected(c, e) THEN [c EXCEPT !.failed = TRUE]
        ELSE IF e.schema \in Explained \cup {"raw_quarantine"} THEN _failure_point(c, e)
        ELSE IF c.states[e.venue].blocked THEN c
        ELSE Evidence(c, e)
=============================================================================
