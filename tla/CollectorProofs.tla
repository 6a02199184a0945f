-------------------------- MODULE CollectorProofs --------------------------
(***************************************************************************)
(* Proofs about Collector and the replay of its records, for any streams,  *)
(* books, window, number of reconnects and bounds: a venue that the sink   *)
(* counts as verified is current, and so is one that replay counts so;     *)
(* replay finds again what the sink counts as verified; and the time       *)
(* without a connection is in the gaps that replay pairs.                  *)
(***************************************************************************)
EXTENDS Collector, FiniteSetTheorems, WellFoundedInduction, TLAPS

Numbers == Connections \cup {NoConn}
LiveStates == [conn : Numbers, ready : BOOLEAN, pong : BOOLEAN, down : BOOLEAN, verified : BOOLEAN]
Barriers == [conn : Numbers, topics : SUBSET Books, gap : BOOLEAN]

\* The types of what the evidence is kept in.
EvidenceTypes ==
    /\ stop \in BOOLEAN
    /\ session \in [Venues -> {"connecting", "open", "backoff", "ended"}]
    /\ conn \in [Venues -> Connections]
    /\ pending \in [Venues -> SUBSET UNION {Streams[v] : v \in Venues}]
    /\ live \in [Venues -> LiveStates]
    /\ barrier \in Barriers
    /\ books \subseteq Books

\* The sink relies on the ACKs and the books of an open connection only, and a
\* session ends when it is stopped.
SinkInv(v) ==
    /\ live[v].verified => /\ session[v] \in {"open", "ended"}
                           /\ pending[v] = {}
                           /\ v = "bybit" => books = Books
    /\ live[v].ready => pending[v] = {}
    /\ session[v] = "ended" => stop

\* The barrier is of the open connection, and knows no more books than it has
\* shown; it is never of a connection that is about to start.
BarrierInv ==
    /\ session["bybit"] = "connecting" => barrier.conn # conn["bybit"]
    /\ session["bybit"] = "backoff" => barrier.conn > max_reconnects
    /\ session["bybit"] = "open" => /\ barrier.conn = conn["bybit"]
                                    /\ ~ barrier.gap => barrier.topics \subseteq books

\* The inductive invariant.
IInv == EvidenceTypes /\ (\A v \in Venues : SinkInv(v)) /\ BarrierInv

-----------------------------------------------------------------------------
\* The connections of a session: 1, and one more after each reconnect.
LEMMA ConstantTypes ==
    /\ max_reconnects \in Nat /\ Connections \subseteq Numbers /\ Numbers \subseteq Nat
    /\ NoConn \in Numbers /\ NoConn = 0 /\ NoConn \notin Connections /\ 1 \in Connections
    /\ \A n \in Connections : n \leq max_reconnects => n + 1 \in Connections
BY BoundAssumption DEF NoConn, Numbers, Connections

\* What the sink takes keeps its types.
LEMMA ObserveTypes ==
    ASSUME NEW b \in Barriers, NEW topic, NEW update
    PROVE  /\ observe(b, topic, update) \in Barriers
           /\ observe(b, topic, update).conn = b.conn
BY DEF observe, Barriers

\* The barrier takes the connection of the record and nothing but frames.
LEMMA UpdateTypes ==
    ASSUME NEW b \in Barriers, NEW e, e.conn \in Numbers
    PROVE  /\ _update_bybit(b, e) \in Barriers
           /\ _update_bybit(b, e).conn = e.conn
           /\ ~ Observes(e) /\ e.conn = b.conn => _update_bybit(b, e) = b
           /\ ~ Observes(e) /\ e.conn # b.conn => _update_bybit(b, e).topics = {}
           /\ Observes(e) /\ e.conn = b.conn =>
                  _update_bybit(b, e) = observe(b, e.topic, e.update)
<1> DEFINE started == IF e.conn = b.conn THEN b
                      ELSE [conn |-> e.conn, topics |-> {}, gap |-> FALSE]
<1>1. started \in Barriers /\ started.conn = e.conn
    BY DEF Barriers
<1>2. observe(started, e.topic, e.update) \in Barriers
      /\ observe(started, e.topic, e.update).conn = started.conn
    BY <1>1, ObserveTypes
<1>3. _update_bybit(b, e) = IF Observes(e) THEN observe(started, e.topic, e.update) ELSE started
    BY DEF _update_bybit
<1> QED BY <1>1, <1>2, <1>3

\* What the sink knows of a venue keeps its types.
LEMMA RecordTypes ==
    ASSUME NEW l \in LiveStates, NEW b \in Barriers, NEW e, e.conn \in Numbers, e.ready \in BOOLEAN
    PROVE  record(l, b, e) \in LiveStates
<1>1. Ready(l, e) \in BOOLEAN /\ Acked(e) \in BOOLEAN
    BY DEF Ready, Acked, LiveStates
<1>2. Pong(l, e) \in BOOLEAN
    BY DEF Pong, LiveStates
<1>3. Kept(l, b, e) \in BOOLEAN /\ Verifies(l, b, e) \in BOOLEAN
    BY DEF Kept, Verifies
<1> QED BY <1>1, <1>2, <1>3 DEF record, LiveStates

\* One record of v reaches the sink: its own venue and the barrier of Bybit change.
LEMMA EmitIs ==
    ASSUME NEW s, s.live \in [Venues -> LiveStates], s.barrier \in Barriers, s.stop \in BOOLEAN,
           NEW e, e.venue \in Venues, e.conn \in Numbers, e.ready \in BOOLEAN
    PROVE  /\ _emit(s, e).live \in [Venues -> LiveStates]
           /\ _emit(s, e).live[e.venue] = record(s.live[e.venue], s.barrier, e)
           /\ \A w \in Venues : w # e.venue => _emit(s, e).live[w] = s.live[w]
           /\ _emit(s, e).barrier = IF e.venue = "bybit" /\ e.schema # "venue_down"
                                    THEN _update_bybit(s.barrier, e) ELSE s.barrier
           /\ _emit(s, e).barrier \in Barriers
           /\ _emit(s, e).stop = (s.stop \/ Gapped(s.barrier, e))
           /\ _emit(s, e).stop \in BOOLEAN
<1>1. record(s.live[e.venue], s.barrier, e) \in LiveStates
    BY RecordTypes
<1>2. _emit(s, e).live = [s.live EXCEPT ![e.venue] = record(s.live[e.venue], s.barrier, e)]
    BY DEF _emit
<1>3. /\ _emit(s, e).live \in [Venues -> LiveStates]
      /\ _emit(s, e).live[e.venue] = record(s.live[e.venue], s.barrier, e)
      /\ \A w \in Venues : w # e.venue => _emit(s, e).live[w] = s.live[w]
    BY <1>1, <1>2
<1>4. _emit(s, e).barrier = IF e.venue = "bybit" /\ e.schema # "venue_down"
                            THEN _update_bybit(s.barrier, e) ELSE s.barrier
    BY DEF _emit
<1>5. _emit(s, e).barrier \in Barriers
    BY <1>4, UpdateTypes
<1>6. _emit(s, e).stop = (s.stop \/ Gapped(s.barrier, e)) /\ _emit(s, e).stop \in BOOLEAN
    BY DEF _emit
<1> QED BY <1>3, <1>4, <1>5, <1>6

\* The fields of the sink that the proofs speak of.
LEMMA SinkFields ==
    ASSUME EvidenceTypes
    PROVE  /\ Sink.live = live /\ Sink.barrier = barrier /\ Sink.stop = stop
           /\ Sink.live \in [Venues -> LiveStates]
           /\ Sink.barrier \in Barriers /\ Sink.stop \in BOOLEAN
BY DEF Sink, EvidenceTypes

\* A step that gives one record of v to the sink.
LEMMA EmitsIs ==
    ASSUME EvidenceTypes, NEW e, e.venue \in Venues, e.conn \in Numbers, e.ready \in BOOLEAN, Emits(e)
    PROVE  /\ live' \in [Venues -> LiveStates]
           /\ live'[e.venue] = record(live[e.venue], barrier, e)
           /\ \A w \in Venues : w # e.venue => live'[w] = live[w]
           /\ barrier' = IF e.venue = "bybit" /\ e.schema # "venue_down"
                         THEN _update_bybit(barrier, e) ELSE barrier
           /\ barrier' \in Barriers
           /\ stop' = (stop \/ Gapped(barrier, e))
           /\ stop' \in BOOLEAN
<1>1. live' = _emit(Sink, e).live /\ barrier' = _emit(Sink, e).barrier
      /\ stop' = _emit(Sink, e).stop
    BY DEF Emits, SinkIs
<1> QED BY <1>1, SinkFields, EmitIs

\* A step that gives two records of v to the sink, one after the other.
LEMMA EmitsBothIs ==
    ASSUME EvidenceTypes,
           NEW e, e.venue \in Venues, e.conn \in Numbers, e.ready \in BOOLEAN,
           NEW f, f.venue = e.venue, f.conn \in Numbers, f.ready \in BOOLEAN, EmitsBoth(e, f),
           NEW b, b = IF e.venue = "bybit" /\ e.schema # "venue_down"
                      THEN _update_bybit(barrier, e) ELSE barrier
    PROVE  /\ b \in Barriers
           /\ live' \in [Venues -> LiveStates]
           /\ live'[e.venue] = record(record(live[e.venue], barrier, e), b, f)
           /\ \A w \in Venues : w # e.venue => live'[w] = live[w]
           /\ barrier' = IF e.venue = "bybit" /\ f.schema # "venue_down"
                         THEN _update_bybit(b, f) ELSE b
           /\ barrier' \in Barriers
           /\ stop' = (stop \/ Gapped(barrier, e) \/ Gapped(b, f))
           /\ stop' \in BOOLEAN
<1> DEFINE s == _emit(Sink, e)
<1>1. live' = _emit(s, f).live /\ barrier' = _emit(s, f).barrier /\ stop' = _emit(s, f).stop
    BY DEF EmitsBoth, SinkIs
<1>2. /\ s.live \in [Venues -> LiveStates] /\ s.barrier \in Barriers /\ s.stop \in BOOLEAN
      /\ s.live[e.venue] = record(live[e.venue], barrier, e)
      /\ \A w \in Venues : w # e.venue => s.live[w] = live[w]
      /\ s.barrier = IF e.venue = "bybit" /\ e.schema # "venue_down"
                     THEN _update_bybit(barrier, e) ELSE barrier
      /\ s.stop = (stop \/ Gapped(barrier, e))
    BY SinkFields, EmitIs
<1> HIDE DEF s
<1>3. f.venue \in Venues
    OBVIOUS
<1>4. /\ _emit(s, f).live \in [Venues -> LiveStates]
      /\ _emit(s, f).live[f.venue] = record(s.live[f.venue], s.barrier, f)
      /\ \A w \in Venues : w # f.venue => _emit(s, f).live[w] = s.live[w]
      /\ _emit(s, f).barrier = IF f.venue = "bybit" /\ f.schema # "venue_down"
                               THEN _update_bybit(s.barrier, f) ELSE s.barrier
      /\ _emit(s, f).barrier \in Barriers
      /\ _emit(s, f).stop = (s.stop \/ Gapped(s.barrier, f))
      /\ _emit(s, f).stop \in BOOLEAN
    BY <1>2, <1>3, EmitIs
<1> QED BY <1>1, <1>2, <1>4
-----------------------------------------------------------------------------
\* What the sink makes of one record of a session.
LEMMA RecordIs ==
    ASSUME NEW l \in LiveStates, NEW b \in Barriers, NEW e, e.conn \in Numbers, e.ready \in BOOLEAN,
           e.schema # "venue_down"
    PROVE  /\ record(l, b, e).ready => Acked(e) \/ l.ready
           /\ record(l, b, e).ready => Acked(e) \/ e.schema # "subscription_send"
           /\ record(l, b, e).verified => l.verified \/ Verifies(l, b, e)
           /\ record(l, b, e).verified =>
                  \/ /\ e.schema \notin {"liveness_failure", "raw_quarantine"}
                     /\ ~ Gapped(b, e)
                  \/ Verifies(l, b, e)
<1>1. record(l, b, e).ready = Ready(l, e)
    BY DEF record
<1>2. record(l, b, e).verified = (Kept(l, b, e) \/ Verifies(l, b, e))
    BY DEF record
<1> QED BY <1>1, <1>2 DEF Ready, Kept

\* The records that verify nothing.
LEMMA VerifiesNot ==
    ASSUME NEW l, NEW b, NEW e,
           e.schema \in {"subscription_send", "ping_sent", "liveness_failure", "raw_quarantine",
                         "pre_ack_frame"}
    PROVE  ~ Verifies(l, b, e)
BY DEF Verifies, Acked

\* A step of v that leaves the other venue alone.
LEMMA VenueStep ==
    ASSUME IInv, EvidenceTypes', NEW v \in Venues,
           \A w \in Venues \ {v} : /\ session'[w] = session[w] /\ conn'[w] = conn[w]
                                   /\ pending'[w] = pending[w] /\ live'[w] = live[w],
           stop => stop',
           v # "bybit" => books' = books /\ barrier' = barrier,
           SinkInv(v)', v = "bybit" => BarrierInv'
    PROVE  IInv'
<1>1. ASSUME NEW w \in Venues \ {v}
      PROVE  SinkInv(w)'
    BY <1>1 DEF IInv, SinkInv, Venues
<1>2. \A w \in Venues : SinkInv(w)'
    BY <1>1
<1>3. BarrierInv'
    <2>1. CASE v = "bybit"
        BY <2>1
    <2>2. CASE v # "bybit"
        BY <2>2 DEF IInv, BarrierInv, Venues
    <2> QED BY <2>1, <2>2
<1> QED BY <1>2, <1>3 DEF IInv

-----------------------------------------------------------------------------
\* A record that reaches the sink keeps the types.
LEMMA EmitsTypes ==
    ASSUME EvidenceTypes, NEW e, e.venue \in Venues, e.conn \in Numbers, e.ready \in BOOLEAN,
           Emits(e)
    PROVE  live' \in [Venues -> LiveStates] /\ barrier' \in Barriers /\ stop' \in BOOLEAN
BY EmitsIs

\* Two records that reach the sink keep the types.
LEMMA EmitsBothTypes ==
    ASSUME EvidenceTypes,
           NEW e, e.venue \in Venues, e.conn \in Numbers, e.ready \in BOOLEAN,
           NEW f, f.venue = e.venue, f.conn \in Numbers, f.ready \in BOOLEAN, EmitsBoth(e, f)
    PROVE  live' \in [Venues -> LiveStates] /\ barrier' \in Barriers /\ stop' \in BOOLEAN
BY EmitsBothIs

\* The types are kept by every step.
LEMMA TypesStep ==
    ASSUME EvidenceTypes, [Next]_vars
    PROVE  EvidenceTypes'
<1> DEFINE SinkTypes == live' \in [Venues -> LiveStates] /\ barrier' \in Barriers /\ stop' \in BOOLEAN
<1>1. ASSUME NEW v \in Venues, NEW schema
      PROVE  /\ Rec(v, schema).venue = v /\ Rec(v, schema).conn = conn[v]
             /\ Rec(v, schema).conn \in Numbers /\ Rec(v, schema).ready \in BOOLEAN
    BY ConstantTypes DEF Rec, EvidenceTypes
<1>2. ASSUME NEW v \in Venues, Connect(v)
      PROVE  EvidenceTypes'
    <2>1. SinkTypes
        <3>1. CASE stop
            BY <1>1, <1>2, <3>1, EmitsTypes DEF Connect
        <3>2. CASE ~ stop
            BY <1>1, <1>2, <3>2, EmitsBothTypes DEF Connect
        <3> QED BY <3>1, <3>2
    <2>2. /\ session' = [session EXCEPT ![v] = IF stop' THEN "ended" ELSE "open"]
          /\ pending' = [pending EXCEPT ![v] = Streams[v]]
          /\ books' = IF v = "bybit" THEN {} ELSE books
          /\ conn' = conn
        BY <1>2 DEF Connect, Moves
    <2> QED BY <2>1, <2>2 DEF EvidenceTypes
<1>3. ASSUME NEW v \in Venues, Ping(v) \/ HandlePong(v) \/ Quarantine(v)
      PROVE  EvidenceTypes'
    <2>1. SinkTypes
        BY <1>1, <1>3, EmitsTypes DEF Ping, HandlePong, Quarantine
    <2>2. /\ session' \in [Venues -> {"connecting", "open", "backoff", "ended"}]
          /\ UNCHANGED <<conn, pending, books>>
        BY <1>3 DEF Ping, HandlePong, Quarantine, Moves, EvidenceTypes
    <2> QED BY <2>1, <2>2 DEF EvidenceTypes
<1>4. ASSUME NEW v \in Venues, NEW s \in Streams[v], Ack(v, s)
      PROVE  EvidenceTypes'
    <2> DEFINE e == [Rec(v, "subscription_ack") EXCEPT !.ready = pending[v] \subseteq {s}]
    <2>1. e.venue \in Venues /\ e.conn \in Numbers /\ e.ready \in BOOLEAN
        BY ConstantTypes DEF Rec, EvidenceTypes
    <2>2. Emits(e)
        BY <1>4 DEF Ack
    <2> HIDE DEF e
    <2>3. SinkTypes
        BY <2>1, <2>2, EmitsTypes
    <2>4. /\ session' = [session EXCEPT ![v] = IF stop' THEN "ended" ELSE "open"]
          /\ pending' = [pending EXCEPT ![v] = @ \ {s}]
          /\ UNCHANGED <<conn, books>>
        BY <1>4 DEF Ack, Moves
    <2> QED BY <2>3, <2>4 DEF EvidenceTypes
<1>5. ASSUME NEW v \in Venues, NEW s \in Streams[v], NEW update \in Updates(s),
             Frame(v, s, update)
      PROVE  EvidenceTypes'
    <2> DEFINE schema == IF pending[v] # {} THEN "pre_ack_frame" ELSE "raw_frame"
               e == [Rec(v, schema) EXCEPT !.topic = s, !.update = update]
    <2>1. e.venue \in Venues /\ e.conn \in Numbers /\ e.ready \in BOOLEAN
        BY ConstantTypes DEF Rec, EvidenceTypes
    <2>2. Emits(e)
        BY <1>5 DEF Frame
    <2> HIDE DEF e
    <2>3. SinkTypes
        BY <2>1, <2>2, EmitsTypes
    <2>4. s \in Books => update \in {"snapshot", "delta", "skip"}
        BY DEF Updates
    <2>5. books' \subseteq Books
        BY <1>5, <2>4 DEF Frame, EvidenceTypes
    <2>6. /\ session' = [session EXCEPT ![v] = IF stop' THEN "ended" ELSE "open"]
          /\ UNCHANGED <<conn, pending>>
        BY <1>5 DEF Frame, Moves
    <2> QED BY <2>3, <2>5, <2>6 DEF EvidenceTypes
<1>6. ASSUME NEW v \in Venues, Fail(v)
      PROVE  EvidenceTypes'
    <2> DEFINE again == stop \/ Reconnects(v)
               f == [Rec(v, "venue_down") EXCEPT !.conn = NoConn]
    <2>1. SinkTypes
        <3>1. CASE again
            BY <1>1, <1>6, <3>1, EmitsTypes DEF Fail
        <3>2. CASE ~ again
            <4>1. f.venue = v /\ f.conn \in Numbers /\ f.ready \in BOOLEAN
                BY ConstantTypes DEF Rec
            <4>2. EmitsBoth(Rec(v, "liveness_failure"), f)
                BY <1>6, <3>2 DEF Fail
            <4> HIDE DEF f
            <4> QED BY <1>1, <4>1, <4>2, EmitsBothTypes
        <3> QED BY <3>1, <3>2
    <2>2. /\ session' = [session EXCEPT ![v] = IF stop' THEN "ended"
                                               ELSE IF again THEN "connecting" ELSE "backoff"]
          /\ conn' = [conn EXCEPT ![v] = IF again /\ ~ stop THEN @ + 1 ELSE @]
          /\ pending' = [pending EXCEPT ![v] = {}]
          /\ books' = books
        BY <1>6 DEF Fail, Moves
    <2>3. conn' \in [Venues -> Connections]
        <3>1. conn[v] \in Connections
            BY DEF EvidenceTypes
        <3>2. again /\ ~ stop => conn[v] + 1 \in Connections
            BY <3>1, ConstantTypes DEF Reconnects
        <3> QED BY <2>2, <3>1, <3>2 DEF EvidenceTypes
    <2> QED BY <2>1, <2>2, <2>3 DEF EvidenceTypes
<1>7. ASSUME NEW v \in Venues, Restart(v) \/ Leave(v)
      PROVE  EvidenceTypes'
    BY <1>7, ConstantTypes DEF Restart, Leave, sink, EvidenceTypes
<1>8. CASE \/ \E v \in Venues : Cut(v)
           \/ Stop \/ Tick \/ UNCHANGED vars
    BY <1>8 DEF Cut, Stop, Tick, vars, link, sink, EvidenceTypes
<1> QED BY <1>2, <1>3, <1>4, <1>5, <1>6, <1>7, <1>8 DEF Next

-----------------------------------------------------------------------------
\* Initially nothing is connected, and the first connection has a number.
LEMMA InitStep == Init => IInv
<1> SUFFICES ASSUME Init
             PROVE  IInv
    OBVIOUS
<1>1. EvidenceTypes
    BY ConstantTypes DEF Init, EvidenceTypes, LiveStates, Barriers
<1>2. \A v \in Venues : SinkInv(v)
    BY DEF Init, SinkInv
<1>3. BarrierInv
    BY DEF Init, BarrierInv, Venues, NoConn
<1> QED BY <1>1, <1>2, <1>3 DEF IInv

\* A new connection starts without evidence and with an empty barrier.
LEMMA ConnectStep ==
    ASSUME IInv, EvidenceTypes', NEW v \in Venues, Connect(v)
    PROVE  IInv'
<1> DEFINE e == Rec(v, "subscription_send")
           f == Rec(v, "ping_sent")
           b == IF v = "bybit" THEN _update_bybit(barrier, e) ELSE barrier
           l == record(live[v], barrier, e)
<1>1. /\ EvidenceTypes /\ live[v] \in LiveStates /\ barrier \in Barriers
      /\ SinkInv(v) /\ BarrierInv
    BY DEF IInv, EvidenceTypes
<1>2. /\ e.venue = v /\ e.schema = "subscription_send" /\ e.conn = conn[v] /\ e.conn \in Numbers
      /\ e.ready = FALSE
    BY <1>1, ConstantTypes DEF Rec, EvidenceTypes
<1>3. /\ f.venue = v /\ f.schema = "ping_sent" /\ f.conn = conn[v] /\ f.conn \in Numbers
      /\ f.ready = FALSE
    BY <1>1, ConstantTypes DEF Rec, EvidenceTypes
<1>4. session[v] = "connecting" /\ ~ live[v].verified
    BY <1>1 DEF Connect, SinkInv
<1> HIDE DEF e, f
<1>5. /\ l \in LiveStates /\ l.verified = FALSE /\ l.ready = FALSE
    <2>1. l \in LiveStates
        BY <1>1, <1>2, RecordTypes
    <2>2. ~ Verifies(live[v], barrier, e)
        BY <1>2, VerifiesNot
    <2>3. ~ Acked(e)
        BY <1>2 DEF Acked
    <2>4. ~ l.ready
        BY <1>1, <1>2, <2>3, RecordIs
    <2>5. ~ l.verified
        BY <1>1, <1>2, <1>4, <2>2, RecordIs
    <2> QED BY <2>1, <2>4, <2>5 DEF LiveStates
<1>6. /\ b \in Barriers
      /\ v = "bybit" => b.conn = conn[v] /\ b.topics = {}
    BY <1>1, <1>2, <1>4, UpdateTypes DEF BarrierInv, Observes
<1>7. /\ live' \in [Venues -> LiveStates] /\ stop' \in BOOLEAN /\ (stop => stop')
      /\ \A w \in Venues : w # v => live'[w] = live[w]
      /\ ~ live'[v].verified /\ ~ live'[v].ready
      /\ barrier' = b
    <2>1. CASE stop
        <3>1. Emits(e)
            BY <2>1 DEF Connect, e
        <3> QED BY <1>1, <1>2, <1>5, <3>1, EmitsIs
    <2>2. CASE ~ stop
        <3>1. EmitsBoth(e, f)
            BY <2>2 DEF Connect, e, f
        <3>2. b = IF e.venue = "bybit" /\ e.schema # "venue_down"
                  THEN _update_bybit(barrier, e) ELSE barrier
            BY <1>2
        <3>3. /\ live' \in [Venues -> LiveStates] /\ stop' \in BOOLEAN
              /\ \A w \in Venues : w # v => live'[w] = live[w]
              /\ live'[v] = record(l, b, f)
              /\ barrier' = IF v = "bybit" THEN _update_bybit(b, f) ELSE b
            <4>1. /\ e.venue \in Venues /\ e.ready \in BOOLEAN
                  /\ f.venue = e.venue /\ f.ready \in BOOLEAN
                BY <1>2, <1>3
            <4> HIDE DEF b
            <4>2. /\ live' \in [Venues -> LiveStates] /\ stop' \in BOOLEAN
                  /\ \A w \in Venues : w # e.venue => live'[w] = live[w]
                  /\ live'[e.venue] = record(record(live[e.venue], barrier, e), b, f)
                  /\ barrier' = IF e.venue = "bybit" /\ f.schema # "venue_down"
                                THEN _update_bybit(b, f) ELSE b
                BY <1>1, <1>2, <1>3, <3>1, <3>2, <4>1, EmitsBothIs
            <4> QED BY <1>2, <1>3, <4>2
        <3>4. ~ Verifies(l, b, f) /\ ~ Acked(f) /\ ~ Observes(f)
            BY <1>3, VerifiesNot DEF Acked, Observes
        <3> HIDE DEF l, b
        <3>5. ~ live'[v].verified /\ ~ live'[v].ready
            <4>1. ~ record(l, b, f).verified
                BY <1>3, <1>5, <1>6, <3>4, RecordIs
            <4>2. ~ record(l, b, f).ready
                BY <1>3, <1>5, <1>6, <3>4, RecordIs
            <4> QED BY <4>1, <4>2, <3>3
        <3>6. barrier' = b
            BY <1>3, <1>6, <3>3, <3>4, UpdateTypes
        <3> QED BY <2>2, <3>3, <3>5, <3>6
    <2> QED BY <2>1, <2>2
<1>8. /\ session' = [session EXCEPT ![v] = IF stop' THEN "ended" ELSE "open"]
      /\ pending' = [pending EXCEPT ![v] = Streams[v]]
      /\ books' = IF v = "bybit" THEN {} ELSE books
      /\ conn' = conn
    BY DEF Connect, Moves
<1>10. SinkInv(v)'
    BY <1>1, <1>7, <1>8 DEF SinkInv, EvidenceTypes
<1>11. v = "bybit" => BarrierInv'
    BY <1>1, <1>6, <1>7, <1>8 DEF BarrierInv, EvidenceTypes
<1> QED BY <1>1, <1>7, <1>8, <1>10, <1>11, VenueStep DEF EvidenceTypes
\* A record of an open connection: the barrier follows what the connection shows,
\* and the venue stays or gets verified on its present evidence only.
LEMMA OpenStep ==
    ASSUME IInv, EvidenceTypes', NEW v \in Venues, session[v] = "open",
           NEW e, e.venue = v, e.conn = conn[v], e.ready \in BOOLEAN, e.schema # "venue_down",
           Emits(e), conn' = conn,
           session' = [session EXCEPT ![v] = IF stop' THEN "ended" ELSE "open"],
           \A w \in Venues \ {v} : pending'[w] = pending[w],
           pending'[v] \subseteq pending[v],
           Acked(e) => pending'[v] = {},
           ~ Observes(e) => books' = books,
           Observes(e) =>
               LET b == observe(barrier, e.topic, e.update)
               IN  /\ (~ barrier.gap => barrier.topics \subseteq books)
                          /\ ~ b.gap => b.topics \subseteq books'
                   /\ books = Books /\ ~ (e.topic \in Books /\ b.gap) => books' = Books
    PROVE  IInv'
<1>1. /\ EvidenceTypes /\ live[v] \in LiveStates /\ barrier \in Barriers
      /\ SinkInv(v) /\ BarrierInv /\ e.conn \in Numbers /\ e.venue \in Venues
    BY ConstantTypes DEF IInv, EvidenceTypes
<1>2. /\ live' \in [Venues -> LiveStates] /\ stop' \in BOOLEAN /\ (stop => stop')
      /\ \A w \in Venues : w # v => live'[w] = live[w]
      /\ live'[v] = record(live[v], barrier, e)
      /\ barrier' = IF v = "bybit" THEN _update_bybit(barrier, e) ELSE barrier
      /\ barrier' \in Barriers
    BY <1>1, EmitsIs
<1>3. v # "bybit" => ~ Observes(e)
    BY DEF Observes
<1>4. ASSUME v = "bybit"
      PROVE  /\ barrier.conn = conn[v]
             /\ ~ barrier.gap => barrier.topics \subseteq books
             /\ _update_bybit(barrier, e).conn = conn[v]
             /\ ~ Observes(e) => _update_bybit(barrier, e) = barrier
             /\ Observes(e) => _update_bybit(barrier, e) = observe(barrier, e.topic, e.update)
    BY <1>1, <1>4, UpdateTypes DEF BarrierInv
<1>5. v = "bybit" => /\ barrier'.conn = conn[v]
                     /\ ~ barrier'.gap => barrier'.topics \subseteq books'
    BY <1>2, <1>4
<1>6. v = "bybit" /\ books = Books /\ ~ Gapped(barrier, e) => books' = Books
    BY <1>4 DEF Gapped
<1>7. Ready(live[v], e) => pending'[v] = {}
    BY <1>1 DEF Ready, SinkInv
<1>8. Verifies(live[v], barrier, e) => /\ pending'[v] = {}
                                       /\ v = "bybit" => books' = Books
    <2>1. Verifies(live[v], barrier, e) => /\ Ready(live[v], e)
                                           /\ v = "bybit" => ready(_update_bybit(barrier, e))
        BY DEF Verifies
    <2>2. v = "bybit" /\ ready(barrier') => books' = Books
        BY <1>5 DEF ready, EvidenceTypes
    <2> QED BY <1>2, <1>7, <2>1, <2>2
<1>9. live'[v].verified => /\ pending'[v] = {}
                           /\ v = "bybit" => books' = Books
    <2>1. live'[v].verified => live[v].verified \/ Verifies(live[v], barrier, e)
        BY <1>1, <1>2, RecordIs
    <2>2. live'[v].verified => ~ Gapped(barrier, e) \/ Verifies(live[v], barrier, e)
        BY <1>1, <1>2, RecordIs
    <2>3. live[v].verified => pending[v] = {} /\ (v = "bybit" => books = Books)
        BY <1>1 DEF SinkInv
    <2> QED BY <1>6, <1>8, <2>1, <2>2, <2>3
<1>10. live'[v].ready => pending'[v] = {}
    <2>1. live'[v].ready => Acked(e) \/ live[v].ready
        BY <1>1, <1>2, RecordIs
    <2> QED BY <1>1, <2>1 DEF SinkInv
<1>11. session'[v] = IF stop' THEN "ended" ELSE "open"
    BY <1>1 DEF EvidenceTypes
<1>13. SinkInv(v)'
    BY <1>9, <1>10, <1>11 DEF SinkInv
<1>14. v = "bybit" => BarrierInv'
    BY <1>5, <1>11 DEF BarrierInv
<1> QED BY <1>1, <1>2, <1>3, <1>13, <1>14, VenueStep DEF EvidenceTypes

\* The records of an open connection.
LEMMA ListenStep ==
    ASSUME IInv, EvidenceTypes', NEW v \in Venues,
           \/ Ping(v) \/ HandlePong(v) \/ Quarantine(v) \/ \E s \in Streams[v] : Ack(v, s)
    PROVE  IInv'
<1>1. /\ EvidenceTypes /\ session \in [Venues -> {"connecting", "open", "backoff", "ended"}]
      /\ pending \in [Venues -> SUBSET UNION {Streams[w] : w \in Venues}]
      /\ books \subseteq Books
    BY DEF IInv, EvidenceTypes
<1>2. CASE Ping(v)
    <2> DEFINE e == Rec(v, "ping_sent")
    <2>1. e.venue = v /\ e.conn = conn[v] /\ e.schema = "ping_sent" /\ e.ready = FALSE
        BY <1>1 DEF Rec
    <2>2. /\ Emits(e) /\ conn' = conn /\ session[v] = "open" /\ ~ stop
          /\ session' = session /\ pending' = pending /\ books' = books
        BY <1>2 DEF Ping
    <2> HIDE DEF e
    <2>3. ~ Acked(e) /\ ~ Observes(e) /\ ~ Gapped(barrier, e)
        BY <2>1 DEF Acked, Observes, Gapped
    <2>4. stop' = stop
        <3>1. e.venue \in Venues /\ e.conn \in Numbers /\ e.ready \in BOOLEAN
            BY <1>1, <2>1, ConstantTypes DEF EvidenceTypes
        <3>2. stop' = (stop \/ Gapped(barrier, e)) /\ stop \in BOOLEAN
            BY <1>1, <2>2, <3>1, EmitsIs DEF EvidenceTypes
        <3> QED BY <2>3, <3>2
    <2>5. session' = [session EXCEPT ![v] = IF stop' THEN "ended" ELSE "open"]
        BY <1>1, <2>2, <2>4
    <2> QED BY <1>1, <2>1, <2>2, <2>3, <2>5, OpenStep
<1>3. CASE HandlePong(v)
    <2> DEFINE e == Rec(v, "pong")
    <2>1. e.venue = v /\ e.conn = conn[v] /\ e.schema = "pong" /\ e.ready = FALSE
        BY <1>1 DEF Rec
    <2>2. /\ Emits(e) /\ conn' = conn /\ session[v] = "open"
          /\ session' = [session EXCEPT ![v] = IF stop' THEN "ended" ELSE "open"]
          /\ pending' = pending /\ books' = books
        BY <1>3 DEF HandlePong, Listening, Moves
    <2> HIDE DEF e
    <2>3. ~ Acked(e) /\ ~ Observes(e)
        BY <2>1 DEF Acked, Observes
    <2> QED BY <1>1, <2>1, <2>2, <2>3, OpenStep
<1>4. CASE Quarantine(v)
    <2> DEFINE e == Rec(v, "raw_quarantine")
    <2>1. e.venue = v /\ e.conn = conn[v] /\ e.schema = "raw_quarantine" /\ e.ready = FALSE
        BY <1>1 DEF Rec
    <2>2. /\ Emits(e) /\ conn' = conn /\ session[v] = "open"
          /\ session' = [session EXCEPT ![v] = IF stop' THEN "ended" ELSE "open"]
          /\ pending' = pending /\ books' = books
        BY <1>4 DEF Quarantine, Listening, Moves
    <2> HIDE DEF e
    <2>3. ~ Acked(e) /\ ~ Observes(e)
        BY <2>1 DEF Acked, Observes
    <2> QED BY <1>1, <2>1, <2>2, <2>3, OpenStep
<1>5. ASSUME NEW s \in Streams[v], Ack(v, s)
      PROVE  IInv'
    <2> DEFINE e == [Rec(v, "subscription_ack") EXCEPT !.ready = pending[v] \subseteq {s}]
    <2>1. /\ e.venue = v /\ e.conn = conn[v] /\ e.schema = "subscription_ack"
          /\ e.ready = (pending[v] \subseteq {s}) /\ e.ready \in BOOLEAN
        BY DEF Rec
    <2>2. /\ Emits(e) /\ conn' = conn /\ session[v] = "open"
          /\ session' = [session EXCEPT ![v] = IF stop' THEN "ended" ELSE "open"]
          /\ pending' = [pending EXCEPT ![v] = @ \ {s}] /\ books' = books
        BY <1>5 DEF Ack, Listening, Moves
    <2> HIDE DEF e
    <2>3. /\ pending' \in [Venues -> SUBSET UNION {Streams[w] : w \in Venues}]
          /\ \A w \in Venues \ {v} : pending'[w] = pending[w]
          /\ pending'[v] = pending[v] \ {s}
        BY <1>1, <2>2
    <2>4. ~ Observes(e) /\ (Acked(e) => pending'[v] = {})
        BY <2>1, <2>3 DEF Acked, Observes
    <2> QED BY <1>1, <2>1, <2>2, <2>3, <2>4, OpenStep
<1> QED BY <1>2, <1>3, <1>4, <1>5

\* A barrier that knows no more books than were shown follows a frame.
LEMMA FrameShows ==
    ASSUME EvidenceTypes, NEW s \in Streams["bybit"], NEW update \in Updates(s),
           Frame("bybit", s, update),
           NEW c, c \in Barriers \/ c \in [topics : SUBSET Books, gap : BOOLEAN]
    PROVE  LET b == observe(c, s, update)
           IN  /\ (~ c.gap => c.topics \subseteq books) /\ ~ b.gap => b.topics \subseteq books'
               /\ books = Books /\ ~ (s \in Books /\ b.gap) => books' = Books
<1> DEFINE b == observe(c, s, update)
<1>1. books \subseteq Books
    BY DEF EvidenceTypes
<1>2. CASE s \notin Books
    BY <1>2 DEF observe, Frame
<1>3. CASE s \in Books
    <2>1. update \in {"snapshot", "delta", "skip"}
        BY <1>3 DEF Updates
    <2>2. books' = CASE update = "snapshot" -> books \cup {s}
                     [] update = "delta" -> books
                     [] update = "skip" -> books \ {s}
        BY <1>3 DEF Frame
    <2>3. CASE update = "snapshot"
        <3>1. books' = books \cup {s}
            BY <2>2, <2>3
        <3>2. b = IF c.gap THEN [c EXCEPT !.gap = TRUE] ELSE [c EXCEPT !.topics = @ \cup {s}]
            BY <1>3, <2>3 DEF observe, Barriers
        <3>3. ~ b.gap => ~ c.gap /\ b.topics = c.topics \cup {s}
            BY <3>2 DEF Barriers
        <3> QED BY <1>1, <1>3, <3>1, <3>3
    <2>4. CASE update = "delta"
        <3>1. books' = books
            BY <2>2, <2>4
        <3>2. ~ b.gap => ~ c.gap /\ b.topics = c.topics
            BY <1>3, <2>4 DEF observe, Barriers
        <3> QED BY <3>1, <3>2
    <2>5. CASE update = "skip"
        BY <1>3, <2>5 DEF observe, Barriers
    <2> QED BY <2>1, <2>3, <2>4, <2>5
<1> QED BY <1>2, <1>3

\* A frame changes the barrier as it changes what the connection has shown.
LEMMA FrameStep ==
    ASSUME IInv, EvidenceTypes', NEW v \in Venues, NEW s \in Streams[v], NEW update \in Updates(s),
           Frame(v, s, update)
    PROVE  IInv'
<1> DEFINE schema == IF pending[v] # {} THEN "pre_ack_frame" ELSE "raw_frame"
           e == [Rec(v, schema) EXCEPT !.topic = s, !.update = update]
           b == observe(barrier, s, update)
<1>1. /\ EvidenceTypes /\ barrier \in Barriers /\ books \subseteq Books
      /\ pending \in [Venues -> SUBSET UNION {Streams[w] : w \in Venues}]
    BY DEF IInv, EvidenceTypes
<1>2. /\ e.venue = v /\ e.conn = conn[v] /\ e.schema \in {"pre_ack_frame", "raw_frame"}
      /\ e.ready = FALSE /\ e.topic = s /\ e.update = update
    BY DEF Rec
<1>3. /\ Emits(e) /\ conn' = conn /\ session[v] = "open"
      /\ session' = [session EXCEPT ![v] = IF stop' THEN "ended" ELSE "open"]
      /\ pending' = pending
    BY DEF Frame, Listening, Moves
<1> HIDE DEF e
<1>4. ~ Acked(e) /\ (Observes(e) <=> v = "bybit")
    BY <1>2 DEF Acked, Observes
<1>5. v # "bybit" => books' = books
    BY DEF Frame
<1>6. v = "bybit" => /\ (~ barrier.gap => barrier.topics \subseteq books) /\ ~ b.gap
                             => b.topics \subseteq books'
                     /\ books = Books /\ ~ (s \in Books /\ b.gap) => books' = Books
    BY <1>1, FrameShows
<1> HIDE DEF b
<1>7. Observes(e) => b = observe(barrier, e.topic, e.update)
    BY <1>2 DEF b
<1> QED BY <1>1, <1>2, <1>3, <1>4, <1>5, <1>6, <1>7, OpenStep

\* A connection that failed leaves nothing verified.
LEMMA FailStep ==
    ASSUME IInv, EvidenceTypes', NEW v \in Venues, Fail(v)
    PROVE  IInv'
<1> DEFINE e == Rec(v, "liveness_failure")
           f == [Rec(v, "venue_down") EXCEPT !.conn = NoConn]
           b == IF v = "bybit" THEN _update_bybit(barrier, e) ELSE barrier
           l == record(live[v], barrier, e)
           again == stop \/ Reconnects(v)
<1>1. /\ EvidenceTypes /\ live[v] \in LiveStates /\ barrier \in Barriers /\ stop \in BOOLEAN
      /\ SinkInv(v) /\ BarrierInv
    BY DEF IInv, EvidenceTypes
<1>2. /\ e.venue = v /\ e.schema = "liveness_failure" /\ e.conn = conn[v] /\ e.conn \in Numbers
      /\ e.ready = FALSE /\ e.venue \in Venues
    BY <1>1, ConstantTypes DEF Rec, EvidenceTypes
<1>3. /\ f.venue = v /\ f.schema = "venue_down" /\ f.conn \in Numbers /\ f.ready = FALSE
    BY ConstantTypes DEF Rec
<1> HIDE DEF e, f
<1>4. ~ Verifies(live[v], barrier, e) /\ ~ Gapped(barrier, e) /\ ~ Gapped(b, f)
    BY <1>2, <1>3, VerifiesNot DEF Gapped, Observes
<1>5. l \in LiveStates /\ ~ l.verified
    <2>1. l \in LiveStates
        BY <1>1, <1>2, RecordTypes
    <2>2. ~ l.verified
        BY <1>1, <1>2, <1>4, RecordIs
    <2> QED BY <2>1, <2>2
<1>6. b \in Barriers /\ (v = "bybit" => b.conn = conn[v])
    BY <1>1, <1>2, UpdateTypes
<1>7. /\ live' \in [Venues -> LiveStates] /\ stop' = stop
      /\ \A w \in Venues : w # v => live'[w] = live[w]
      /\ ~ live'[v].verified
      /\ barrier' = b
    <2>1. CASE again
        <3>1. Emits(e)
            BY <2>1 DEF Fail, e
        <3>2. /\ live' \in [Venues -> LiveStates]
              /\ \A w \in Venues : w # v => live'[w] = live[w]
              /\ live'[v] = l
              /\ barrier' = b
              /\ stop' = (stop \/ Gapped(barrier, e))
            BY <1>1, <1>2, <3>1, EmitsIs
        <3> QED BY <1>1, <1>4, <1>5, <3>2
    <2>2. CASE ~ again
        <3>1. EmitsBoth(e, f)
            BY <2>2 DEF Fail, e, f
        <3>2. b = IF e.venue = "bybit" /\ e.schema # "venue_down"
                  THEN _update_bybit(barrier, e) ELSE barrier
            BY <1>2
        <3>3. e.ready \in BOOLEAN /\ f.ready \in BOOLEAN /\ f.venue = e.venue
            BY <1>2, <1>3
        <3>4. record(l, b, f).verified = FALSE
            BY <1>3, <1>5 DEF record, LiveStates
        <3> HIDE DEF b
        <3>5. /\ live' \in [Venues -> LiveStates]
              /\ \A w \in Venues : w # e.venue => live'[w] = live[w]
              /\ live'[e.venue] = record(record(live[e.venue], barrier, e), b, f)
              /\ barrier' = IF e.venue = "bybit" /\ f.schema # "venue_down"
                            THEN _update_bybit(b, f) ELSE b
              /\ stop' = (stop \/ Gapped(barrier, e) \/ Gapped(b, f))
            BY <1>1, <1>2, <1>3, <3>1, <3>2, <3>3, EmitsBothIs
        <3> QED BY <1>1, <1>2, <1>3, <1>4, <3>4, <3>5
    <2> QED BY <2>1, <2>2
<1>8. /\ session' = [session EXCEPT ![v] = IF stop' THEN "ended"
                                           ELSE IF again THEN "connecting" ELSE "backoff"]
      /\ conn' = [conn EXCEPT ![v] = IF again /\ ~ stop THEN @ + 1 ELSE @]
      /\ pending' = [pending EXCEPT ![v] = {}]
      /\ books' = books
    BY DEF Fail, Moves
<1>9. /\ session'[v] = IF stop' THEN "ended" ELSE IF again THEN "connecting" ELSE "backoff"
      /\ conn'[v] = IF again /\ ~ stop THEN conn[v] + 1 ELSE conn[v]
      /\ pending'[v] = {} /\ conn[v] \in Nat
    BY <1>1, <1>8, ConstantTypes DEF EvidenceTypes
<1> HIDE DEF b
<1>11. SinkInv(v)'
    BY <1>7, <1>9 DEF SinkInv
<1>12. v = "bybit" => BarrierInv'
    <2>1. ~ again => conn[v] > max_reconnects
        BY <1>9, BoundAssumption DEF Reconnects
    <2> QED BY <1>6, <1>7, <1>9, <2>1 DEF BarrierInv
<1>13. v # "bybit" => barrier' = barrier
    BY <1>7 DEF b
<1> QED BY <1>1, <1>7, <1>8, <1>11, <1>12, <1>13, VenueStep DEF EvidenceTypes

\* The connection after a restart has another number than the barrier.
LEMMA RestartStep ==
    ASSUME IInv, EvidenceTypes', max_reconnects > 0, NEW v \in Venues, Restart(v)
    PROVE  IInv'
<1>1. /\ EvidenceTypes /\ SinkInv(v) /\ BarrierInv /\ barrier.conn \in Nat /\ max_reconnects \in Nat
    BY ConstantTypes DEF IInv, EvidenceTypes, Barriers
<1>2. /\ session[v] = "backoff"
      /\ session' = [session EXCEPT ![v] = "connecting"]
      /\ conn' = [conn EXCEPT ![v] = 1]
      /\ UNCHANGED <<stop, pending, live, barrier, books>>
    BY DEF Restart, sink
<1>3. session'[v] = "connecting" /\ conn'[v] = 1
    BY <1>1, <1>2 DEF EvidenceTypes
<1>5. SinkInv(v)'
    BY <1>1, <1>2, <1>3 DEF SinkInv
<1>6. v = "bybit" => BarrierInv'
    BY <1>1, <1>2, <1>3 DEF BarrierInv
<1> QED BY <1>1, <1>2, <1>5, <1>6, VenueStep DEF EvidenceTypes

\* A session that leaves was told to stop.
LEMMA LeaveStep ==
    ASSUME IInv, EvidenceTypes', NEW v \in Venues, Leave(v)
    PROVE  IInv'
<1>1. EvidenceTypes /\ SinkInv(v) /\ BarrierInv
    BY DEF IInv
<1>2. /\ stop /\ session[v] \in {"open", "backoff"}
      /\ session' = [session EXCEPT ![v] = "ended"]
      /\ UNCHANGED <<stop, conn, pending, live, barrier, books>>
    BY DEF Leave, sink
<1>3. session'[v] = "ended"
    BY <1>1, <1>2 DEF EvidenceTypes
<1>5. SinkInv(v)'
    BY <1>1, <1>2, <1>3 DEF SinkInv
<1>6. v = "bybit" => BarrierInv'
    BY <1>3 DEF BarrierInv
<1> QED BY <1>1, <1>2, <1>5, <1>6, VenueStep DEF EvidenceTypes

\* The invariant is inductive where a session has a reconnect.
LEMMA NextStep ==
    ASSUME IInv, max_reconnects > 0, [Next]_vars
    PROVE  IInv'
<1> EvidenceTypes'
    BY TypesStep DEF IInv
<1>1. ASSUME NEW v \in Venues, Connect(v)
      PROVE  IInv'
    BY <1>1, ConnectStep
<1>2. ASSUME NEW v \in Venues,
             \/ Ping(v) \/ HandlePong(v) \/ Quarantine(v) \/ \E s \in Streams[v] : Ack(v, s)
      PROVE  IInv'
    BY <1>2, ListenStep
<1>3. ASSUME NEW v \in Venues, NEW s \in Streams[v], NEW update \in Updates(s),
             Frame(v, s, update)
      PROVE  IInv'
    BY <1>3, FrameStep
<1>4. ASSUME NEW v \in Venues, Fail(v)
      PROVE  IInv'
    BY <1>4, FailStep
<1>5. ASSUME NEW v \in Venues, Restart(v)
      PROVE  IInv'
    BY <1>5, RestartStep
<1>6. ASSUME NEW v \in Venues, Leave(v)
      PROVE  IInv'
    BY <1>6, LeaveStep
<1>7. CASE \/ \E v \in Venues : Cut(v)
           \/ Tick \/ UNCHANGED vars
    <2>1. UNCHANGED <<stop, session, conn, pending, live, barrier, books>>
        BY <1>7 DEF Cut, Tick, vars, link, sink
    <2> QED BY <2>1 DEF IInv, EvidenceTypes, SinkInv, BarrierInv
<1>8. CASE Stop
    <2>1. stop' = TRUE /\ UNCHANGED <<session, conn, pending, live, barrier, books>>
        BY <1>8 DEF Stop, link, sink
    <2> QED BY <2>1 DEF IInv, EvidenceTypes, SinkInv, BarrierInv
<1> QED BY <1>1, <1>2, <1>3, <1>4, <1>5, <1>6, <1>7, <1>8 DEF Next

\* The evidence of the present connection is what the invariant says it is.
LEMMA InvIsCurrent ==
    ASSUME IInv
    PROVE  \A v \in Venues : live[v].verified => Current(v)
BY DEF IInv, SinkInv, Current

\* The sessions and the sink keep their types (PublicSession.run, _Sink.record).
THEOREM EvidenceTypesHolds == Spec => []EvidenceTypes
<1>1. Init => EvidenceTypes
    BY InitStep DEF IInv
<1>2. EvidenceTypes /\ [Next]_vars => EvidenceTypes'
    BY TypesStep
<1> QED BY <1>1, <1>2, PTL DEF Spec

\* The sink's evidence has its invariant in every behaviour (_Sink.record).
THEOREM Invariant == max_reconnects > 0 => (Spec => []IInv)
<1> SUFFICES ASSUME max_reconnects > 0
             PROVE  Spec => []IInv
    OBVIOUS
<1>1. IInv /\ [Next]_vars => IInv'
    BY NextStep
<1> QED BY <1>1, InitStep, PTL DEF Spec

\* Whatever arrives in whatever order, before and after a reconnect, a venue counts
\* as verified only while its connection has all its ACKs and complete books
\* (_Sink.record, _update_bybit, _advance_network_clock).
THEOREM VerifiedIsCurrentHolds == Spec => []VerifiedIsCurrent
<1>1. CASE max_reconnects > 0
    <2>1. IInv => VerifiedIsCurrent
        BY InvIsCurrent DEF VerifiedIsCurrent
    <2>2. Spec => []IInv
        BY <1>1, Invariant
    <2> QED BY <2>1, <2>2, PTL
<1>2. CASE ~ (max_reconnects > 0)
    <2>1. TRUE => VerifiedIsCurrent
        BY <1>2 DEF VerifiedIsCurrent
    <2> QED BY <2>1, PTL
<1> QED BY <1>1, <1>2

-----------------------------------------------------------------------------
\* Replay: what it makes of the records of the Collector.

Instants == 0 .. MaxClock
ReplayStates ==
    [conn : Numbers, ack : BOOLEAN, pong : BOOLEAN, active : BOOLEAN, blocked : BOOLEAN]
ReplayBarriers == [topics : SUBSET Books, gap : BOOLEAN]
Pairings ==
    [last_verified : [Venues -> Instants], pending : [Venues -> SUBSET Instants],
     explained : SUBSET Times, unexplained : BOOLEAN]
Gaps == {NoGap} \cup (Times \X Numbers)
Coverages ==
    [states : [Venues -> ReplayStates], barrier : ReplayBarriers, pending_gap : Gaps,
     pairing : Pairings, failed : BOOLEAN]

\* Replay's state c of v rests on the ACKs that the connection with the streams
\* waiting has, and on the books shown; a blocked connection counts for nothing.
Sound(c, v, waiting, shown) ==
    ~ c.failed =>
        /\ c.states[v].active => /\ ~ c.states[v].blocked
                                 /\ waiting = {}
                                 /\ v = "bybit" => shown = Books
        /\ ~ c.states[v].blocked =>
              /\ c.states[v].ack => waiting = {}
              /\ v = "bybit" /\ ~ c.barrier.gap => c.barrier.topics \subseteq shown

\* Replay has the connection of an open session, and one that failed is blocked.
\* A session ends when it is stopped.
SessionInv(v) ==
    /\ session[v] = "ended" => stop
    /\ ~ coverage.failed =>
          /\ session[v] \in {"connecting", "backoff"} =>
                coverage.states[v].blocked \/ coverage.states[v].conn = NoConn
          /\ session[v] \in {"connecting", "backoff"} => ~ coverage.states[v].active
          /\ session[v] = "open" \/ coverage.states[v].active =>
                coverage.states[v].conn = conn[v]

\* The inductive invariant.
ReplayInv ==
    /\ EvidenceTypes /\ clock \in Times /\ coverage \in Coverages
    /\ \A v \in Venues : Sound(coverage, v, pending[v], books) /\ SessionInv(v)

\* What a record of the collector says of its venue, connection and time.
IsRecord(e) ==
    e.venue \in Venues /\ e.conn \in Numbers /\ e.ns \in Times /\ e.ready \in BOOLEAN

-----------------------------------------------------------------------------
\* The bounds and the window are numbers.
LEMMA ReplayConstants ==
    /\ max_reconnects \in Nat /\ MaxClock \in Nat /\ 1 \in Times /\ MaxFaults \in Nat
    /\ window_start_ns \in Nat /\ window_end_ns \in Nat
    /\ NoConn \in Numbers /\ NoConn \notin Connections /\ 0 \in Instants /\ NoTime = 0
    /\ Times \subseteq Instants /\ Instants \subseteq Nat
BY WindowAssumption, BoundAssumption
DEF NoConn, NoTime, Numbers, Connections, Instants, Times

\* The greater of two.
LEMMA MaxOfTwo ==
    ASSUME NEW a \in Nat, NEW b \in Nat
    PROVE  Max({a, b}) \in Nat /\ Max({a, b}) \geq a /\ Max({a, b}) \in {a, b}
<1>1. \E x \in {a, b} : \A y \in {a, b} : x \geq y
    <2>1. CASE a \geq b
        BY <2>1
    <2>2. CASE b \geq a
        BY <2>2
    <2> QED BY <2>1, <2>2
<1>2. Max({a, b}) \in {a, b} /\ \A y \in {a, b} : Max({a, b}) \geq y
    BY <1>1 DEF Max
<1> QED BY <1>2

\* A gap that was paired lies in the times there are.
LEMMA IntervalTypes ==
    ASSUME NEW start \in Instants \ {NoTime}, NEW ns \in Times
    PROVE  Interval(start, ns) \subseteq Times
<1>1. start \in Nat /\ start \geq 1 /\ ns \in Nat /\ ns \leq MaxClock
    BY ReplayConstants DEF Instants, Times
<1>2. Max({start, window_start_ns}) \in Nat /\ Max({start, window_start_ns}) \geq start
    BY <1>1, ReplayConstants, MaxOfTwo
<1> QED BY <1>1, <1>2, ReplayConstants DEF Interval, Times

Kinds == {"hard_verified", "explained_failure", "unexplained_failure"}

\* Pairing one point keeps its types.
LEMMA PairTypes ==
    ASSUME NEW p \in Pairings, NEW v \in Venues, NEW ns \in Times, NEW kind \in Kinds
    PROVE  Pair(p, v, ns, kind) \in Pairings
<1> DEFINE starts == IF ns > window_start_ns THEN p.pending[v] ELSE {}
           gaps == UNION {Interval(s, ns) : s \in starts \ {NoTime}}
<1>1. /\ p.last_verified \in [Venues -> Instants] /\ p.pending \in [Venues -> SUBSET Instants]
      /\ p.explained \in SUBSET Times /\ p.unexplained \in BOOLEAN
      /\ ns \in Instants
    BY ReplayConstants DEF Pairings
<1>2. gaps \subseteq Times
    <2>1. starts \subseteq Instants
        BY <1>1
    <2> HIDE DEF starts
    <2>2. \A s \in starts \ {NoTime} : Interval(s, ns) \subseteq Times
        BY <2>1, IntervalTypes
    <2> QED BY <2>2
<1>3. CASE ns \geq window_end_ns
    BY <1>3 DEF Pair
<1>4. CASE ~ (ns \geq window_end_ns) /\ kind = "hard_verified"
    <2> HIDE DEF gaps
    <2>1. Pair(p, v, ns, kind) = [p EXCEPT !.last_verified[v] = ns, !.pending[v] = {},
                                           !.explained = @ \cup gaps,
                                           !.unexplained = @ \/ NoTime \in starts]
        BY <1>4 DEF Pair, gaps
    <2>2. (p.unexplained \/ NoTime \in starts) \in BOOLEAN
        OBVIOUS
    <2> DEFINE last == [p.last_verified EXCEPT ![v] = ns]
               waits == [p.pending EXCEPT ![v] = {}]
               explained == p.explained \cup gaps
               unexplained == p.unexplained \/ NoTime \in starts
    <2>3. /\ last \in [Venues -> Instants] /\ waits \in [Venues -> SUBSET Instants]
          /\ explained \in SUBSET Times /\ unexplained \in BOOLEAN
        BY <1>1, <1>2
    <2>4. Pair(p, v, ns, kind) = [p EXCEPT !.last_verified = last, !.pending = waits,
                                           !.explained = explained,
                                           !.unexplained = unexplained]
        BY <2>1
    <2> HIDE DEF last, waits, explained, unexplained
    <2> QED BY <2>3, <2>4 DEF Pairings
<1>5. CASE ~ (ns \geq window_end_ns) /\ kind = "explained_failure"
    BY <1>1, <1>5 DEF Pair, Pairings
<1>6. CASE ~ (ns \geq window_end_ns) /\ kind = "unexplained_failure"
    <2>1. Pair(p, v, ns, kind) = [p EXCEPT !.unexplained = @ \/ ns \geq window_start_ns]
        BY <1>6 DEF Pair
    <2> QED BY <1>1, <2>1 DEF Pairings
<1> QED BY <1>3, <1>4, <1>5, <1>6 DEF Kinds

\* A frame keeps the types of the barrier of replay.
LEMMA ReplayObserveTypes ==
    ASSUME NEW b \in ReplayBarriers, NEW topic, NEW update
    PROVE  observe(b, topic, update) \in ReplayBarriers
BY DEF observe, ReplayBarriers

\* The first step of a record: the subscriptions of another connection.
LEMMA StartedIs ==
    ASSUME NEW c \in Coverages, NEW e, IsRecord(e)
    PROVE  /\ Started(c, e) \in Coverages
           /\ Started(c, e).failed = c.failed
           /\ \A w \in Venues \ {e.venue} : Started(c, e).states[w] = c.states[w]
           /\ e.venue # "bybit" => Started(c, e).barrier = c.barrier
           /\ ~ Starts(c, e) => Started(c, e) = c
           /\ Starts(c, e) => /\ Started(c, e).states[e.venue] = NewConnection(e.conn)
                              /\ e.venue = "bybit" => Started(c, e).barrier = NoBarrier
           /\ Started(c, e).pending_gap = c.pending_gap /\ Started(c, e).pairing = c.pairing
<1>1. CASE ~ Starts(c, e)
    BY <1>1 DEF Started
<1>2. CASE Starts(c, e)
    <2>1. NewConnection(e.conn) \in ReplayStates /\ NoBarrier \in ReplayBarriers
        BY DEF NewConnection, NoBarrier, ReplayStates, ReplayBarriers, IsRecord
    <2>2. Started(c, e) = [c EXCEPT !.states[e.venue] = NewConnection(e.conn),
                                    !.barrier = IF e.venue = "bybit" THEN NoBarrier ELSE @]
        BY <1>2 DEF Started
    <2> DEFINE states == [c.states EXCEPT ![e.venue] = NewConnection(e.conn)]
               b == IF e.venue = "bybit" THEN NoBarrier ELSE c.barrier
    <2>3. /\ states \in [Venues -> ReplayStates] /\ b \in ReplayBarriers
          /\ states[e.venue] = NewConnection(e.conn)
          /\ \A w \in Venues \ {e.venue} : states[w] = c.states[w]
        BY <2>1 DEF Coverages, IsRecord
    <2>4. Started(c, e) = [c EXCEPT !.states = states, !.barrier = b]
        BY <2>2
    <2> HIDE DEF states
    <2>5. /\ Started(c, e).states = states /\ Started(c, e).barrier = b
          /\ Started(c, e).failed = c.failed
          /\ Started(c, e).pending_gap = c.pending_gap /\ Started(c, e).pairing = c.pairing
        BY <2>4 DEF Coverages
    <2>6. Started(c, e) \in Coverages
        <3> HIDE DEF b
        <3> QED BY <2>3, <2>4 DEF Coverages
    <2> QED BY <1>2, <2>3, <2>5, <2>6
<1> QED BY <1>1, <1>2

\* A failure blocks its connection.
LEMMA FailureIs ==
    ASSUME NEW c \in Coverages, NEW e, IsRecord(e)
    PROVE  /\ _failure_point(c, e) \in Coverages
           /\ _failure_point(c, e).failed = c.failed
           /\ \A w \in Venues \ {e.venue} : _failure_point(c, e).states[w] = c.states[w]
           /\ _failure_point(c, e).barrier = c.barrier
           /\ _failure_point(c, e).states[e.venue].blocked
           /\ ~ _failure_point(c, e).states[e.venue].active
           /\ _failure_point(c, e).states[e.venue].conn = c.states[e.venue].conn
           /\ _failure_point(c, e).pending_gap = NoGap
           /\ _failure_point(c, e).pairing =
                  Pair(c.pairing, e.venue, e.ns,
                       IF e.schema \in Explained THEN "explained_failure" ELSE "unexplained_failure")
<1> DEFINE kind == IF e.schema \in Explained THEN "explained_failure" ELSE "unexplained_failure"
           paired == Pair(c.pairing, e.venue, e.ns, kind)
           st == [c.states[e.venue] EXCEPT !.active = FALSE, !.blocked = TRUE]
<1>1. paired \in Pairings
    BY PairTypes DEF Kinds, Coverages, IsRecord
<1>2. st \in ReplayStates /\ st.blocked = TRUE /\ st.active = FALSE
      /\ st.conn = c.states[e.venue].conn
    BY DEF ReplayStates, Coverages, IsRecord
<1> HIDE DEF paired, st
<1>3. _failure_point(c, e) = [c EXCEPT !.states[e.venue] = st, !.pending_gap = NoGap,
                                       !.pairing = paired]
    BY DEF _failure_point, paired, st, Coverages, IsRecord
<1>4. NoGap \in Gaps
    BY DEF Gaps
<1> DEFINE states == [c.states EXCEPT ![e.venue] = st]
<1>5. /\ states \in [Venues -> ReplayStates]
      /\ states[e.venue] = st
      /\ \A w \in Venues \ {e.venue} : states[w] = c.states[w]
    BY <1>2 DEF Coverages, IsRecord
<1>6. _failure_point(c, e) = [c EXCEPT !.states = states, !.pending_gap = NoGap,
                                       !.pairing = paired]
    BY <1>3
<1> HIDE DEF states
<1>7. /\ _failure_point(c, e).states = states
      /\ _failure_point(c, e).barrier = c.barrier
      /\ _failure_point(c, e).failed = c.failed
      /\ _failure_point(c, e).pending_gap = NoGap
      /\ _failure_point(c, e).pairing = paired
    BY <1>6 DEF Coverages
<1>8. _failure_point(c, e) \in Coverages
    BY <1>1, <1>4, <1>5, <1>6 DEF Coverages
<1> QED BY <1>2, <1>5, <1>7, <1>8 DEF paired

\* What replay makes of evidence e that is weighed, exactly.
Weighed(c, e, d) ==
    LET s == c.states[e.venue]
        t == d.states[e.venue]
    IN  /\ t.ack <=> s.ack \/ (e.schema = "subscription_ack" /\ e.ready)
        /\ t.pong <=> s.pong \/ e.schema = "pong"
        /\ t.active <=> s.conn # NoConn /\ t.ack /\ t.pong /\ (e.venue = "bybit" => ready(d.barrier))
        /\ d.pending_gap = IF d.barrier.gap /\ ~ c.barrier.gap THEN <<e.ns, e.conn>> ELSE c.pending_gap
        /\ d.pairing = IF t.active /\ (~ s.active \/ e.schema = "pong")
                       THEN Pair(c.pairing, e.venue, e.ns, "hard_verified") ELSE c.pairing

\* Evidence makes a venue active only if it is complete.
LEMMA EvidenceIs ==
    ASSUME NEW c \in Coverages, NEW e, IsRecord(e)
    PROVE  /\ Evidence(c, e) \in Coverages
           /\ Evidence(c, e).failed = c.failed
           /\ \A w \in Venues \ {e.venue} : Evidence(c, e).states[w] = c.states[w]
           /\ Evidence(c, e).barrier = IF Observes(e) THEN observe(c.barrier, e.topic, e.update)
                                       ELSE c.barrier
           /\ Evidence(c, e).states[e.venue].blocked = c.states[e.venue].blocked
           /\ Evidence(c, e).states[e.venue].conn = c.states[e.venue].conn
           /\ Evidence(c, e).states[e.venue].ack =>
                  c.states[e.venue].ack \/ (e.schema = "subscription_ack" /\ e.ready)
           /\ Evidence(c, e).states[e.venue].active =>
                  /\ Evidence(c, e).states[e.venue].ack
                  /\ e.venue = "bybit" => ready(Evidence(c, e).barrier)
           /\ Weighed(c, e, Evidence(c, e))
<1> DEFINE s == c.states[e.venue]
           b == IF Observes(e) THEN observe(c.barrier, e.topic, e.update) ELSE c.barrier
           ack == s.ack \/ (e.schema = "subscription_ack" /\ e.ready)
           pong == s.pong \/ e.schema = "pong"
           active == s.conn # NoConn /\ ack /\ pong /\ (e.venue = "bybit" => ready(b))
           st == [s EXCEPT !.ack = ack, !.pong = pong, !.active = active]
           gap == IF b.gap /\ ~ c.barrier.gap THEN <<e.ns, e.conn>> ELSE c.pending_gap
           paired == IF active /\ (~ s.active \/ e.schema = "pong")
                     THEN Pair(c.pairing, e.venue, e.ns, "hard_verified") ELSE c.pairing
<1>1. b \in ReplayBarriers
    BY ReplayObserveTypes DEF Coverages
<1>2. s \in ReplayStates
    BY DEF Coverages, IsRecord
<1> HIDE DEF s
<1>3. ack \in BOOLEAN /\ pong \in BOOLEAN /\ active \in BOOLEAN
    OBVIOUS
<1>4. active <=> s.conn # NoConn /\ ack /\ pong /\ (e.venue = "bybit" => ready(b))
    OBVIOUS
<1>5. paired \in Pairings
    BY PairTypes DEF Kinds, Coverages, IsRecord
<1>6. gap \in Gaps
    BY DEF Gaps, Coverages, IsRecord
<1>7. /\ ack <=> s.ack \/ (e.schema = "subscription_ack" /\ e.ready)
      /\ pong <=> s.pong \/ e.schema = "pong"
      /\ gap = IF b.gap /\ ~ c.barrier.gap THEN <<e.ns, e.conn>> ELSE c.pending_gap
      /\ paired = IF active /\ (~ s.active \/ e.schema = "pong")
                  THEN Pair(c.pairing, e.venue, e.ns, "hard_verified") ELSE c.pairing
    OBVIOUS
<1>8. Evidence(c, e) = [c EXCEPT !.states[e.venue] = st, !.barrier = b, !.pending_gap = gap,
                                 !.pairing = paired]
    BY DEF Evidence, s, Coverages
<1> HIDE DEF ack, pong, active, paired, gap
<1>9. /\ st \in ReplayStates /\ st.ack = ack /\ st.pong = pong /\ st.active = active
      /\ st.blocked = s.blocked /\ st.conn = s.conn
    BY <1>2, <1>3 DEF ReplayStates
<1> HIDE DEF st, b
<1>10. /\ Evidence(c, e) \in Coverages
       /\ Evidence(c, e).failed = c.failed
       /\ \A w \in Venues \ {e.venue} : Evidence(c, e).states[w] = c.states[w]
       /\ Evidence(c, e).barrier = b
       /\ Evidence(c, e).states[e.venue] = st
       /\ Evidence(c, e).pending_gap = gap /\ Evidence(c, e).pairing = paired
    <2> DEFINE states == [c.states EXCEPT ![e.venue] = st]
    <2>1. /\ states \in [Venues -> ReplayStates]
          /\ states[e.venue] = st
          /\ \A w \in Venues \ {e.venue} : states[w] = c.states[w]
        BY <1>9 DEF Coverages, IsRecord
    <2>2. Evidence(c, e) = [c EXCEPT !.states = states, !.barrier = b, !.pending_gap = gap,
                                     !.pairing = paired]
        BY <1>8
    <2> HIDE DEF states
    <2>3. /\ Evidence(c, e).states = states /\ Evidence(c, e).barrier = b
          /\ Evidence(c, e).failed = c.failed
          /\ Evidence(c, e).pending_gap = gap /\ Evidence(c, e).pairing = paired
        BY <2>2 DEF Coverages
    <2>4. Evidence(c, e) \in Coverages
        BY <1>1, <1>5, <1>6, <2>1, <2>2 DEF Coverages
    <2> QED BY <2>1, <2>3, <2>4
<1>11. Weighed(c, e, Evidence(c, e))
    BY <1>4, <1>7, <1>9, <1>10 DEF Weighed, s
<1> QED BY <1>4, <1>7, <1>9, <1>10, <1>11 DEF s, b

-----------------------------------------------------------------------------
Failing == Explained \cup {"raw_quarantine"}

\* One record of replay keeps the types, the other venue and a failure.
LEMMA PointTypes ==
    ASSUME NEW c \in Coverages, NEW e, IsRecord(e)
    PROVE  /\ _coverage_points(c, e) \in Coverages
           /\ \A w \in Venues \ {e.venue} : _coverage_points(c, e).states[w] = c.states[w]
           /\ e.venue # "bybit" => _coverage_points(c, e).barrier = c.barrier
           /\ c.failed => _coverage_points(c, e).failed
<1> DEFINE d == Started(c, e)
           r == _coverage_points(c, e)
<1>1. /\ d \in Coverages /\ d.failed = c.failed
      /\ \A w \in Venues \ {e.venue} : d.states[w] = c.states[w]
      /\ e.venue # "bybit" => d.barrier = c.barrier
    BY StartedIs
<1>2. r = IF c.failed \/ Rejected(d, e) THEN [d EXCEPT !.failed = TRUE]
          ELSE IF e.schema \in Failing THEN _failure_point(d, e)
          ELSE IF d.states[e.venue].blocked THEN d
          ELSE Evidence(d, e)
    BY DEF _coverage_points, Failing
<1> HIDE DEF d, r
<1>3. CASE c.failed \/ Rejected(d, e)
    <2>1. r = [d EXCEPT !.failed = TRUE]
        BY <1>2, <1>3
    <2>2. r \in Coverages /\ r.states = d.states /\ r.barrier = d.barrier /\ r.failed = TRUE
        BY <1>1, <2>1 DEF Coverages
    <2> QED BY <1>1, <2>2 DEF r
<1>4. CASE ~ (c.failed \/ Rejected(d, e)) /\ e.schema \in Failing
    BY <1>1, <1>2, <1>4, FailureIs DEF r
<1>5. CASE ~ (c.failed \/ Rejected(d, e)) /\ e.schema \notin Failing
    <2>1. CASE d.states[e.venue].blocked
        BY <1>1, <1>2, <1>5, <2>1 DEF r
    <2>2. CASE ~ d.states[e.venue].blocked
        <3>1. r = Evidence(d, e)
            BY <1>2, <1>5, <2>2
        <3>2. e.venue # "bybit" => ~ Observes(e)
            BY DEF Observes
        <3> QED BY <1>1, <1>5, <3>1, <3>2, EvidenceIs DEF r
    <2> QED BY <2>1, <2>2
<1> QED BY <1>3, <1>4, <1>5

\* What is waiting and shown after a record e: the last ACK leaves no stream waiting,
\* a barrier that knows no more than is shown will not either, and nothing but a
\* frame changes what is shown.
Follows(c, e, waiting, shown, waits, shows) ==
    /\ waits \subseteq waiting /\ shows \subseteq Books
    /\ e.schema = "subscription_ack" /\ e.ready => waits = {}
    /\ ~ Observes(e) => shows = shown
    /\ Observes(e) =>
          LET b == observe(c.barrier, e.topic, e.update)
          IN  (~ c.barrier.gap => c.barrier.topics \subseteq shown) /\ ~ b.gap
                  => b.topics \subseteq shows

\* A record that is no subscription: replay has the connection it had, a failure
\* blocks it, and what replay makes of sound evidence is sound.
LEMMA PointKeeps ==
    ASSUME NEW c \in Coverages, NEW e, IsRecord(e), e.schema # "subscription_send",
           NEW waiting, NEW shown, Sound(c, e.venue, waiting, shown),
           NEW waits, NEW shows, Follows(c, e, waiting, shown, waits, shows)
    PROVE  LET d == _coverage_points(c, e)
           IN  /\ Sound(d, e.venue, waits, shows)
               /\ ~ d.failed => /\ ~ c.failed
                                /\ d.states[e.venue].conn = c.states[e.venue].conn
                                /\ c.states[e.venue].blocked \/ e.schema \in Failing =>
                                       d.states[e.venue].blocked
<1> DEFINE r == _coverage_points(c, e)
           v == e.venue
<1>1. Started(c, e) = c
    BY StartedIs DEF Starts
<1>2. r = IF c.failed \/ Rejected(c, e) THEN [c EXCEPT !.failed = TRUE]
          ELSE IF e.schema \in Failing THEN _failure_point(c, e)
          ELSE IF c.states[v].blocked THEN c
          ELSE Evidence(c, e)
    BY <1>1 DEF _coverage_points, Failing
<1>3. v \in Venues /\ c.failed \in BOOLEAN /\ c.states[v] \in ReplayStates
    BY DEF IsRecord, Coverages
<1> HIDE DEF r
<1>4. CASE c.failed \/ Rejected(c, e)
    <2>1. r = [c EXCEPT !.failed = TRUE]
        BY <1>2, <1>4
    <2>2. r.failed = TRUE
        BY <2>1 DEF Coverages
    <2> QED BY <2>2 DEF Sound, r
<1>5. CASE ~ (c.failed \/ Rejected(c, e)) /\ e.schema \in Failing
    <2>1. r = _failure_point(c, e)
        BY <1>2, <1>5
    <2>2. /\ r.failed = c.failed /\ r.states[v].blocked /\ ~ r.states[v].active
          /\ r.states[v].conn = c.states[v].conn
        BY <2>1, FailureIs
    <2> QED BY <1>5, <2>2 DEF Sound, r
<1>6. CASE ~ (c.failed \/ Rejected(c, e)) /\ e.schema \notin Failing /\ c.states[v].blocked
    <2>1. r = c
        BY <1>2, <1>6
    <2> QED BY <1>6, <2>1 DEF Sound, r
<1>7. CASE ~ (c.failed \/ Rejected(c, e)) /\ e.schema \notin Failing /\ ~ c.states[v].blocked
    <2>1. r = Evidence(c, e)
        BY <1>2, <1>7
    <2>2. /\ r \in Coverages
          /\ r.failed = c.failed
          /\ r.barrier = IF Observes(e) THEN observe(c.barrier, e.topic, e.update) ELSE c.barrier
          /\ r.states[v].blocked = c.states[v].blocked
          /\ r.states[v].conn = c.states[v].conn
          /\ r.states[v].ack => c.states[v].ack \/ (e.schema = "subscription_ack" /\ e.ready)
          /\ r.states[v].active => r.states[v].ack /\ (v = "bybit" => ready(r.barrier))
        BY <2>1, EvidenceIs
    <2>3. /\ c.states[v].ack => waiting = {}
          /\ v = "bybit" /\ ~ c.barrier.gap => c.barrier.topics \subseteq shown
        BY <1>7 DEF Sound
    <2>4. r.states[v].ack => waits = {}
        BY <2>2, <2>3 DEF Follows
    <2>5. v = "bybit" /\ ~ r.barrier.gap => r.barrier.topics \subseteq shows
        BY <2>2, <2>3 DEF Follows
    <2>6. r.states[v].active /\ v = "bybit" => shows = Books
        BY <2>2, <2>5 DEF ready, Follows
    <2>7. Sound(r, v, waits, shows)
        BY <1>7, <2>2, <2>4, <2>5, <2>6 DEF Sound
    <2> QED BY <1>7, <2>2, <2>7 DEF r
<1> QED BY <1>4, <1>5, <1>6, <1>7

\* A connection that subscribes has no evidence yet: it starts anew, or what was
\* blocked before stays so.
LEMMA PointStarts ==
    ASSUME NEW c \in Coverages, NEW e, IsRecord(e), e.schema = "subscription_send",
           e.conn # NoConn,
           NEW waiting, NEW shown, Sound(c, e.venue, waiting, shown),
           ~ c.failed => c.states[e.venue].blocked \/ c.states[e.venue].conn = NoConn,
           NEW waits, NEW shows
    PROVE  LET d == _coverage_points(c, e)
           IN  /\ Sound(d, e.venue, waits, shows)
               /\ ~ d.failed => /\ d.states[e.venue].conn = e.conn
                                /\ ~ d.states[e.venue].active
<1> DEFINE r == _coverage_points(c, e)
           v == e.venue
           s == Started(c, e)
<1>1. /\ s \in Coverages /\ s.failed = c.failed
      /\ ~ Starts(c, e) => s = c
      /\ Starts(c, e) => /\ s.states[v] = NewConnection(e.conn)
                         /\ v = "bybit" => s.barrier = NoBarrier
    BY StartedIs
<1>2. r = IF c.failed \/ Rejected(s, e) THEN [s EXCEPT !.failed = TRUE]
          ELSE IF s.states[v].blocked THEN s
          ELSE Evidence(s, e)
    BY DEF _coverage_points, Explained
<1>3. Starts(c, e) <=> e.conn # c.states[v].conn
    BY DEF Starts
<1> HIDE DEF r, s
<1>4. CASE c.failed \/ Rejected(s, e)
    <2>1. r = [s EXCEPT !.failed = TRUE]
        BY <1>2, <1>4
    <2>2. r.failed = TRUE
        BY <1>1, <2>1 DEF Coverages
    <2> QED BY <2>2 DEF Sound, r
<1>5. CASE ~ (c.failed \/ Rejected(s, e)) /\ Starts(c, e)
    <2>1. /\ s.states[v].conn = e.conn /\ ~ s.states[v].ack /\ ~ s.states[v].blocked
          /\ v = "bybit" => s.barrier.topics = {}
        BY <1>1, <1>5 DEF NewConnection, NoBarrier
    <2>2. r = Evidence(s, e)
        BY <1>2, <1>5, <2>1
    <2>3. ~ Observes(e)
        BY DEF Observes
    <2>4. /\ r.failed = s.failed
          /\ r.barrier = s.barrier
          /\ r.states[v].blocked = s.states[v].blocked
          /\ r.states[v].conn = s.states[v].conn
          /\ ~ r.states[v].ack
          /\ ~ r.states[v].active
        BY <1>1, <2>1, <2>2, <2>3, EvidenceIs
    <2> QED BY <2>1, <2>4 DEF Sound, r
<1>6. CASE ~ (c.failed \/ Rejected(s, e)) /\ ~ Starts(c, e)
    <2>1. /\ s = c /\ c.states[v].conn = e.conn /\ c.states[v].blocked
        BY <1>1, <1>3, <1>6
    <2>2. r = c
        BY <1>2, <1>6, <2>1
    <2> QED BY <1>6, <2>1, <2>2 DEF Sound, r
<1> QED BY <1>4, <1>5, <1>6

-----------------------------------------------------------------------------
\* What the sink appends to a record that came: replay stays sound.
LEMMA AppendKeeps ==
    ASSUME NEW c \in Coverages, NEW e, IsRecord(e), e.schema # "subscription_send",
           NEW waiting, NEW shown, Sound(c, e.venue, waiting, shown),
           NEW waits, NEW shows, Follows(c, e, waiting, shown, waits, shows),
           NEW l, NEW b0
    PROVE  LET d == _append(c, l, b0, e)
           IN  /\ d \in Coverages
               /\ \A w \in Venues \ {e.venue} : d.states[w] = c.states[w]
               /\ e.venue # "bybit" => d.barrier = c.barrier
               /\ c.failed => d.failed
               /\ Sound(d, e.venue, waits, shows)
               /\ ~ d.failed => /\ d.states[e.venue].conn = c.states[e.venue].conn
                                /\ e.schema \in Failing => d.states[e.venue].blocked
<1> DEFINE next == _coverage_points(c, e)
           f == [e EXCEPT !.schema = "venue_recovered", !.conn = NoConn]
           g == [e EXCEPT !.schema = "bybit_sequence_gap"]
<1>1. /\ next \in Coverages
      /\ \A w \in Venues \ {e.venue} : next.states[w] = c.states[w]
      /\ e.venue # "bybit" => next.barrier = c.barrier
      /\ c.failed => next.failed
    BY PointTypes
<1>2. /\ Sound(next, e.venue, waits, shows)
      /\ ~ next.failed => /\ next.states[e.venue].conn = c.states[e.venue].conn
                          /\ e.schema \in Failing => next.states[e.venue].blocked
    BY PointKeeps
<1>3. ASSUME NEW h, IsRecord(h), h.venue = e.venue,
             h.schema \in {"venue_recovered", "bybit_sequence_gap"}
      PROVE  LET d == _coverage_points(next, h)
             IN  /\ d \in Coverages
                 /\ \A w \in Venues \ {e.venue} : d.states[w] = next.states[w]
                 /\ e.venue # "bybit" => d.barrier = next.barrier
                 /\ next.failed => d.failed
                 /\ Sound(d, e.venue, waits, shows)
                 /\ ~ d.failed => /\ ~ next.failed
                                  /\ d.states[e.venue].conn = next.states[e.venue].conn
                                  /\ next.states[e.venue].blocked => d.states[e.venue].blocked
    <2> HIDE DEF next
    <2>1. h.schema # "subscription_send" /\ Follows(next, h, waits, shows, waits, shows)
        BY <1>3 DEF Follows, Observes
    <2>2. /\ _coverage_points(next, h) \in Coverages
          /\ \A w \in Venues \ {h.venue} : _coverage_points(next, h).states[w] = next.states[w]
          /\ h.venue # "bybit" => _coverage_points(next, h).barrier = next.barrier
          /\ next.failed => _coverage_points(next, h).failed
        BY <1>1, <1>3, PointTypes
    <2>3. /\ Sound(_coverage_points(next, h), h.venue, waits, shows)
          /\ ~ _coverage_points(next, h).failed =>
                /\ ~ next.failed
                /\ _coverage_points(next, h).states[h.venue].conn = next.states[h.venue].conn
                /\ next.states[h.venue].blocked => _coverage_points(next, h).states[h.venue].blocked
        BY <1>1, <1>2, <1>3, <2>1, PointKeeps
    <2> QED BY <1>3, <2>2, <2>3
<1>4. CASE _append(c, l, b0, e) = next
    BY <1>1, <1>2, <1>4
<1>5. CASE Recovers(l, e) /\ _append(c, l, b0, e) = _coverage_points(next, f)
    <2>1. /\ f.venue = e.venue /\ f.schema = "venue_recovered" /\ f.conn = NoConn
          /\ f.ns = e.ns /\ f.ready = e.ready
        OBVIOUS
    <2>2. IsRecord(f)
        BY <2>1, ReplayConstants DEF IsRecord
    <2> HIDE DEF next, f
    <2> QED BY <1>1, <1>2, <1>3, <1>5, <2>1, <2>2
<1>6. CASE Gapped(b0, e) /\ _append(c, l, b0, e) = _coverage_points(next, g)
    <2>1. /\ IsRecord(g) /\ g.venue = e.venue /\ g.schema = "bybit_sequence_gap"
        BY <1>6, ReplayConstants DEF IsRecord, Gapped, Observes
    <2> HIDE DEF next, g
    <2> QED BY <1>1, <1>2, <1>3, <1>6, <2>1
<1> QED BY <1>4, <1>5, <1>6 DEF _append

\* Records that are neither an ACK nor a frame are appended alone.
LEMMA AppendIsPoint ==
    ASSUME NEW c, NEW l, NEW b, NEW e, ~ Acked(e), ~ Observes(e)
    PROVE  _append(c, l, b, e) = _coverage_points(c, e)
BY DEF _append, Recovers, Gapped

\* Replay reads what the sink appends, of one record.
LEMMA EmitsAppends ==
    ASSUME NEW e, Emits(e)
    PROVE  /\ coverage' = _append(coverage, live[e.venue], barrier, e)
           /\ stop => stop'
BY DEF Emits, SinkIs, _emit, Sink

\* The same of two records.
LEMMA EmitsBothAppends ==
    ASSUME NEW e, NEW f, ~ Acked(f), ~ Observes(f), EmitsBoth(e, f)
    PROVE  /\ coverage' = _coverage_points(_append(coverage, live[e.venue], barrier, e), f)
           /\ stop => stop'
<1>1. /\ coverage' = _emit(_emit(Sink, e), f).coverage
      /\ stop' = _emit(_emit(Sink, e), f).stop
    BY DEF EmitsBoth, SinkIs
<1>2. /\ _emit(Sink, e).coverage = _append(coverage, live[e.venue], barrier, e)
      /\ stop => _emit(Sink, e).stop
    BY DEF _emit, Sink
<1> DEFINE s == _emit(Sink, e)
<1> HIDE DEF s
<1>3. /\ _emit(s, f).coverage = _append(s.coverage, s.live[f.venue], s.barrier, f)
      /\ s.stop => _emit(s, f).stop
    BY DEF _emit
<1>4. _append(s.coverage, s.live[f.venue], s.barrier, f) = _coverage_points(s.coverage, f)
    BY AppendIsPoint
<1> QED BY <1>1, <1>2, <1>3, <1>4 DEF s

-----------------------------------------------------------------------------
\* A step of v that leaves the other venue alone.
LEMMA ReplayVenueStep ==
    ASSUME ReplayInv, EvidenceTypes', clock' = clock, coverage' \in Coverages,
           NEW v \in Venues,
           \A w \in Venues \ {v} : /\ session'[w] = session[w] /\ conn'[w] = conn[w]
                                   /\ pending'[w] = pending[w]
                                   /\ coverage'.states[w] = coverage.states[w],
           stop => stop', coverage.failed => coverage'.failed,
           v # "bybit" => books' = books /\ coverage'.barrier = coverage.barrier,
           Sound(coverage', v, pending'[v], books'), SessionInv(v)'
    PROVE  ReplayInv'
<1>1. ASSUME NEW w \in Venues \ {v}
      PROVE  Sound(coverage, w, pending[w], books)' /\ SessionInv(w)'
    <2>1. Sound(coverage, w, pending[w], books) /\ SessionInv(w)
        BY DEF ReplayInv
    <2>2. w = "bybit" => books' = books /\ coverage'.barrier = coverage.barrier
        BY DEF Venues
    <2>3. /\ session'[w] = session[w] /\ conn'[w] = conn[w]
          /\ pending'[w] = pending[w] /\ coverage'.states[w] = coverage.states[w]
        OBVIOUS
    <2>4. SessionInv(w)'
        BY <2>1, <2>3 DEF SessionInv
    <2>5. Sound(coverage', w, pending'[w], books')
        BY <2>1, <2>2, <2>3 DEF Sound
    <2> QED BY <2>4, <2>5
<1>2. \A w \in Venues : Sound(coverage, w, pending[w], books)' /\ SessionInv(w)'
    BY <1>1
<1>3. clock' \in Times
    BY DEF ReplayInv, Times
<1> QED BY <1>2, <1>3 DEF ReplayInv

\* Initially nothing was appended.
LEMMA ReplayInit == Init => ReplayInv
<1> SUFFICES ASSUME Init
             PROVE  ReplayInv
    OBVIOUS
<1>1. EvidenceTypes
    BY InitStep DEF IInv
<1>2. coverage \in Coverages
    BY ReplayConstants
    DEF Init, NoCoverage, Coverages, NewConnection, NoBarrier, NoPairing, ReplayStates,
        ReplayBarriers, Pairings, Gaps
<1>3. ASSUME NEW v \in Venues
      PROVE  Sound(coverage, v, pending[v], books) /\ SessionInv(v)
    <2>1. /\ coverage.states[v] = NewConnection(NoConn) /\ coverage.barrier = NoBarrier
          /\ session[v] = "connecting"
        BY DEF Init, NoCoverage
    <2>2. /\ ~ coverage.states[v].active /\ ~ coverage.states[v].ack
          /\ coverage.states[v].conn = NoConn /\ coverage.barrier.topics = {}
        BY <2>1 DEF NewConnection, NoBarrier
    <2> QED BY <2>1, <2>2 DEF Sound, SessionInv
<1> QED BY <1>1, <1>2, <1>3, ReplayConstants DEF ReplayInv, Init

\* A connection starts without evidence in the replay.
LEMMA ReplayConnect ==
    ASSUME ReplayInv, EvidenceTypes', NEW v \in Venues, Connect(v)
    PROVE  ReplayInv'
<1> DEFINE e == Rec(v, "subscription_send")
           f == Rec(v, "ping_sent")
           c == _coverage_points(coverage, e)
<1>1. /\ EvidenceTypes /\ clock \in Times /\ coverage \in Coverages
      /\ Sound(coverage, v, pending[v], books) /\ SessionInv(v)
      /\ conn[v] \in Connections
    BY DEF ReplayInv, EvidenceTypes
<1>2. /\ IsRecord(e) /\ e.venue = v /\ e.schema = "subscription_send" /\ e.conn = conn[v]
      /\ e.conn # NoConn
    BY <1>1, ReplayConstants DEF Rec, IsRecord, Numbers
<1>3. /\ IsRecord(f) /\ f.venue = v /\ f.schema = "ping_sent" /\ f.conn = conn[v]
    BY <1>1, ReplayConstants DEF Rec, IsRecord, Numbers
<1>4. /\ session[v] = "connecting"
      /\ session' = [session EXCEPT ![v] = IF stop' THEN "ended" ELSE "open"]
      /\ pending' = [pending EXCEPT ![v] = Streams[v]]
      /\ books' = IF v = "bybit" THEN {} ELSE books
      /\ conn' = conn /\ clock' = clock
    BY DEF Connect, Moves
<1>5. /\ session'[v] = IF stop' THEN "ended" ELSE "open"
      /\ \A w \in Venues \ {v} : session'[w] = session[w] /\ pending'[w] = pending[w]
    BY <1>1, <1>4 DEF EvidenceTypes
<1>6. ~ coverage.failed => /\ coverage.states[v].blocked \/ coverage.states[v].conn = NoConn
    BY <1>1, <1>4 DEF SessionInv
<1> DEFINE waits == pending'[v]
           shows == books'
<1> HIDE DEF e, f, waits, shows
<1>7. ~ Acked(e) /\ ~ Observes(e) /\ ~ Acked(f) /\ ~ Observes(f)
    BY <1>2, <1>3 DEF Acked, Observes
<1>8. /\ c \in Coverages
      /\ \A w \in Venues \ {v} : c.states[w] = coverage.states[w]
      /\ v # "bybit" => c.barrier = coverage.barrier
      /\ coverage.failed => c.failed
    BY <1>1, <1>2, PointTypes
<1>9. /\ Sound(c, v, waits, shows)
      /\ ~ c.failed => c.states[v].conn = conn[v] /\ ~ c.states[v].active
    BY <1>1, <1>2, <1>6, PointStarts
<1>10. /\ coverage' \in Coverages
       /\ \A w \in Venues \ {v} : coverage'.states[w] = coverage.states[w]
       /\ v # "bybit" => coverage'.barrier = coverage.barrier
       /\ coverage.failed => coverage'.failed
       /\ Sound(coverage', v, waits, shows)
       /\ ~ coverage'.failed => coverage'.states[v].conn = conn[v]
       /\ stop => stop'
    <2>1. CASE stop
        <3>1. Emits(e)
            BY <2>1 DEF Connect, e
        <3>2. coverage' = c /\ (stop => stop')
            BY <1>2, <1>7, <3>1, EmitsAppends, AppendIsPoint
        <3> HIDE DEF c
        <3> QED BY <1>8, <1>9, <3>2
    <2>2. CASE ~ stop
        <3>1. EmitsBoth(e, f)
            BY <2>2 DEF Connect, e, f
        <3>2. coverage' = _coverage_points(c, f)
            BY <1>2, <1>7, <3>1, EmitsBothAppends, AppendIsPoint
        <3> HIDE DEF c
        <3>3. Follows(c, f, waits, shows, waits, shows)
            BY <1>3, <1>7 DEF Follows, EvidenceTypes, shows
        <3>4. /\ _coverage_points(c, f) \in Coverages
              /\ \A w \in Venues \ {v} : _coverage_points(c, f).states[w] = c.states[w]
              /\ v # "bybit" => _coverage_points(c, f).barrier = c.barrier
              /\ c.failed => _coverage_points(c, f).failed
            BY <1>3, <1>8, PointTypes
        <3>5. /\ Sound(_coverage_points(c, f), v, waits, shows)
              /\ ~ _coverage_points(c, f).failed =>
                    /\ ~ c.failed
                    /\ _coverage_points(c, f).states[v].conn = c.states[v].conn
            BY <1>3, <1>8, <1>9, <3>3, PointKeeps
        <3> QED BY <1>8, <1>9, <2>2, <3>2, <3>4, <3>5
    <2> QED BY <2>1, <2>2
<1>11. SessionInv(v)'
    BY <1>4, <1>5, <1>10 DEF SessionInv
<1>12. Sound(coverage', v, pending'[v], books')
    BY <1>10 DEF waits, shows
<1>13. v # "bybit" => books' = books
    BY <1>4
<1> QED BY <1>4, <1>5, <1>10, <1>11, <1>12, <1>13, ReplayVenueStep

\* A record of an open connection keeps the replay sound.
LEMMA ReplayOpen ==
    ASSUME ReplayInv, EvidenceTypes', NEW v \in Venues, session[v] = "open",
           NEW e, e.venue = v, e.conn = conn[v], e.ns = clock, e.ready \in BOOLEAN,
           e.schema # "subscription_send",
           Emits(e), conn' = conn, clock' = clock,
           session' = [session EXCEPT ![v] = IF stop' THEN "ended" ELSE "open"],
           \A w \in Venues \ {v} : pending'[w] = pending[w],
           pending'[v] \subseteq pending[v],
           Acked(e) => pending'[v] = {},
           ~ Observes(e) => books' = books,
           Observes(e) =>
               LET b == observe(coverage.barrier, e.topic, e.update)
               IN  (~ coverage.barrier.gap => coverage.barrier.topics \subseteq books) /\ ~ b.gap
                       => b.topics \subseteq books'
    PROVE  ReplayInv'
<1> DEFINE waits == pending'[v]
           shows == books'
<1>1. /\ EvidenceTypes /\ clock \in Times /\ coverage \in Coverages
      /\ Sound(coverage, v, pending[v], books) /\ SessionInv(v)
    BY DEF ReplayInv
<1>2. IsRecord(e)
    BY <1>1 DEF IsRecord, EvidenceTypes, Numbers
<1>3. Follows(coverage, e, pending[v], books, waits, shows)
    BY DEF Follows, EvidenceTypes, Acked
<1>4. coverage' = _append(coverage, live[v], barrier, e) /\ (stop => stop')
    BY EmitsAppends
<1> HIDE DEF waits, shows
<1>9. /\ coverage' \in Coverages
      /\ \A w \in Venues \ {v} : coverage'.states[w] = coverage.states[w]
      /\ v # "bybit" => coverage'.barrier = coverage.barrier
      /\ coverage.failed => coverage'.failed
      /\ Sound(coverage', v, waits, shows)
      /\ ~ coverage'.failed => coverage'.states[v].conn = coverage.states[v].conn
    <2> DEFINE d == _append(coverage, live[v], barrier, e)
    <2>1. Sound(coverage, e.venue, pending[v], books)
        BY <1>1
    <2>2. /\ d \in Coverages
          /\ \A w \in Venues \ {e.venue} : d.states[w] = coverage.states[w]
          /\ e.venue # "bybit" => d.barrier = coverage.barrier
          /\ coverage.failed => d.failed
          /\ Sound(d, e.venue, waits, shows)
          /\ ~ d.failed => d.states[e.venue].conn = coverage.states[e.venue].conn
        BY <1>1, <1>2, <1>3, <2>1, AppendKeeps
    <2> HIDE DEF d
    <2> QED BY <1>4, <2>2 DEF d
<1>10. /\ session'[v] = IF stop' THEN "ended" ELSE "open"
       /\ \A w \in Venues \ {v} : session'[w] = session[w]
    BY <1>1 DEF EvidenceTypes
<1>11. ~ coverage'.failed => coverage'.states[v].conn = conn[v]
    BY <1>1, <1>9 DEF SessionInv
<1>12. SessionInv(v)'
    BY <1>10, <1>11 DEF SessionInv
<1>13. v # "bybit" => books' = books
    BY DEF Observes
<1> QED BY <1>4, <1>9, <1>10, <1>12, <1>13, ReplayVenueStep DEF waits, shows

\* Pings, pongs, ACKs and frames nobody can read.
LEMMA ReplayListen ==
    ASSUME ReplayInv, EvidenceTypes', NEW v \in Venues,
           \/ Ping(v) \/ HandlePong(v) \/ Quarantine(v) \/ \E s \in Streams[v] : Ack(v, s)
    PROVE  ReplayInv'
<1>1. /\ session \in [Venues -> {"connecting", "open", "backoff", "ended"}]
      /\ pending \in [Venues -> SUBSET UNION {Streams[w] : w \in Venues}]
      /\ stop \in BOOLEAN
    BY DEF ReplayInv, EvidenceTypes
<1>2. ASSUME NEW schema \in {"ping_sent", "pong", "raw_quarantine"}
      PROVE  /\ Rec(v, schema).venue = v /\ Rec(v, schema).conn = conn[v]
             /\ Rec(v, schema).ns = clock /\ Rec(v, schema).ready \in BOOLEAN
             /\ Rec(v, schema).schema # "subscription_send"
             /\ ~ Acked(Rec(v, schema)) /\ ~ Observes(Rec(v, schema))
    BY DEF Rec, Acked, Observes
<1>3. CASE Ping(v)
    <2> DEFINE e == Rec(v, "ping_sent")
    <2>1. /\ e.venue = v /\ e.conn = conn[v] /\ e.ns = clock /\ e.ready \in BOOLEAN
          /\ e.schema # "subscription_send" /\ ~ Acked(e) /\ ~ Observes(e)
        BY <1>2
    <2>2. /\ Emits(e) /\ conn' = conn /\ session[v] = "open" /\ ~ stop
          /\ clock' = clock /\ session' = session /\ pending' = pending /\ books' = books
        BY <1>3 DEF Ping
    <2> HIDE DEF e
    <2>3. stop' = (stop \/ Gapped(barrier, e))
        BY <2>2 DEF Emits, SinkIs, _emit, Sink
    <2>4. session' = [session EXCEPT ![v] = IF stop' THEN "ended" ELSE "open"]
        BY <1>1, <2>1, <2>2, <2>3 DEF Gapped
    <2> QED BY <2>1, <2>2, <2>4, ReplayOpen
<1>4. CASE HandlePong(v)
    <2> DEFINE e == Rec(v, "pong")
    <2>1. /\ e.venue = v /\ e.conn = conn[v] /\ e.ns = clock /\ e.ready \in BOOLEAN
          /\ e.schema # "subscription_send" /\ ~ Acked(e) /\ ~ Observes(e)
        BY <1>2
    <2>2. /\ Emits(e) /\ conn' = conn /\ session[v] = "open" /\ clock' = clock
          /\ session' = [session EXCEPT ![v] = IF stop' THEN "ended" ELSE "open"]
          /\ pending' = pending /\ books' = books
        BY <1>4 DEF HandlePong, Listening, Moves
    <2> HIDE DEF e
    <2> QED BY <2>1, <2>2, ReplayOpen
<1>5. CASE Quarantine(v)
    <2> DEFINE e == Rec(v, "raw_quarantine")
    <2>1. /\ e.venue = v /\ e.conn = conn[v] /\ e.ns = clock /\ e.ready \in BOOLEAN
          /\ e.schema # "subscription_send" /\ ~ Acked(e) /\ ~ Observes(e)
        BY <1>2
    <2>2. /\ Emits(e) /\ conn' = conn /\ session[v] = "open" /\ clock' = clock
          /\ session' = [session EXCEPT ![v] = IF stop' THEN "ended" ELSE "open"]
          /\ pending' = pending /\ books' = books
        BY <1>5 DEF Quarantine, Listening, Moves
    <2> HIDE DEF e
    <2> QED BY <2>1, <2>2, ReplayOpen
<1>6. ASSUME NEW s \in Streams[v], Ack(v, s)
      PROVE  ReplayInv'
    <2> DEFINE e == [Rec(v, "subscription_ack") EXCEPT !.ready = pending[v] \subseteq {s}]
    <2>1. /\ e.venue = v /\ e.conn = conn[v] /\ e.ns = clock /\ e.schema = "subscription_ack"
          /\ e.ready = (pending[v] \subseteq {s}) /\ e.ready \in BOOLEAN
        BY DEF Rec
    <2>2. /\ Emits(e) /\ conn' = conn /\ session[v] = "open" /\ clock' = clock
          /\ session' = [session EXCEPT ![v] = IF stop' THEN "ended" ELSE "open"]
          /\ pending' = [pending EXCEPT ![v] = @ \ {s}] /\ books' = books
        BY <1>6 DEF Ack, Listening, Moves
    <2> HIDE DEF e
    <2>3. /\ \A w \in Venues \ {v} : pending'[w] = pending[w]
          /\ pending'[v] = pending[v] \ {s}
        BY <1>1, <2>2
    <2>4. ~ Observes(e) /\ (Acked(e) => pending'[v] = {})
        BY <2>1, <2>3 DEF Acked, Observes
    <2> QED BY <2>1, <2>2, <2>3, <2>4, ReplayOpen
<1> QED BY <1>3, <1>4, <1>5, <1>6

\* Market data.
LEMMA ReplayFrame ==
    ASSUME ReplayInv, EvidenceTypes', NEW v \in Venues,
           NEW s \in Streams[v], NEW update \in Updates(s), Frame(v, s, update)
    PROVE  ReplayInv'
<1> DEFINE schema == IF pending[v] # {} THEN "pre_ack_frame" ELSE "raw_frame"
           e == [Rec(v, schema) EXCEPT !.topic = s, !.update = update]
<1>1. EvidenceTypes /\ coverage.barrier \in ReplayBarriers
    BY DEF ReplayInv, Coverages
<1>2. /\ e.venue = v /\ e.conn = conn[v] /\ e.schema \in {"pre_ack_frame", "raw_frame"}
      /\ e.ns = clock /\ e.ready = FALSE /\ e.topic = s /\ e.update = update
    BY DEF Rec
<1>3. /\ Emits(e) /\ conn' = conn /\ session[v] = "open" /\ clock' = clock
      /\ session' = [session EXCEPT ![v] = IF stop' THEN "ended" ELSE "open"]
      /\ pending' = pending
    BY DEF Frame, Listening, Moves
<1> HIDE DEF e
<1>4. ~ Acked(e) /\ (Observes(e) <=> v = "bybit")
    BY <1>2 DEF Acked, Observes
<1>5. v # "bybit" => books' = books
    BY DEF Frame
<1> DEFINE b == observe(coverage.barrier, s, update)
<1>6. v = "bybit" => ((~ coverage.barrier.gap => coverage.barrier.topics \subseteq books) /\ ~ b.gap
                         => b.topics \subseteq books')
    BY <1>1, FrameShows DEF ReplayBarriers
<1> QED BY <1>2, <1>3, <1>4, <1>5, <1>6, ReplayOpen

\* A failure blocks the connection, with the venue's failure after it or without.
LEMMA ReplayFail ==
    ASSUME ReplayInv, EvidenceTypes', NEW v \in Venues, Fail(v)
    PROVE  ReplayInv'
<1> DEFINE e == Rec(v, "liveness_failure")
           f == [Rec(v, "venue_down") EXCEPT !.conn = NoConn]
           c == _coverage_points(coverage, e)
           again == stop \/ Reconnects(v)
<1>1. /\ EvidenceTypes /\ clock \in Times /\ coverage \in Coverages
      /\ Sound(coverage, v, pending[v], books) /\ SessionInv(v)
      /\ conn[v] \in Connections /\ stop \in BOOLEAN /\ books \subseteq Books
    BY DEF ReplayInv, EvidenceTypes
<1>2. /\ IsRecord(e) /\ e.venue = v /\ e.schema = "liveness_failure"
    BY <1>1, ReplayConstants DEF Rec, IsRecord, Numbers
<1>3. /\ IsRecord(f) /\ f.venue = v /\ f.schema = "venue_down"
    BY <1>1, ReplayConstants DEF Rec, IsRecord
<1>4. /\ session' = [session EXCEPT ![v] = IF stop' THEN "ended"
                                           ELSE IF again THEN "connecting" ELSE "backoff"]
      /\ pending' = [pending EXCEPT ![v] = {}]
      /\ books' = books /\ clock' = clock
      /\ conn' = [conn EXCEPT ![v] = IF again /\ ~ stop THEN @ + 1 ELSE @]
    BY DEF Fail, Moves
<1>5. /\ session'[v] \in {"ended", "connecting", "backoff"}
      /\ session'[v] = "ended" => stop'
      /\ pending'[v] = {}
      /\ \A w \in Venues \ {v} : /\ session'[w] = session[w] /\ pending'[w] = pending[w]
                                 /\ conn'[w] = conn[w]
    BY <1>1, <1>4 DEF EvidenceTypes
<1> HIDE DEF e, f
<1>6. /\ ~ Acked(e) /\ ~ Observes(e) /\ ~ Acked(f) /\ ~ Observes(f)
      /\ e.schema \in Failing /\ f.schema \in Failing
      /\ e.schema # "subscription_send" /\ f.schema # "subscription_send"
    BY <1>2, <1>3 DEF Acked, Observes, Failing, Explained
<1>7. /\ Follows(coverage, e, pending[v], books, {}, books)
      /\ Follows(c, f, {}, books, {}, books)
    BY <1>1, <1>6 DEF Follows
<1>8. /\ c \in Coverages
      /\ \A w \in Venues \ {v} : c.states[w] = coverage.states[w]
      /\ v # "bybit" => c.barrier = coverage.barrier
      /\ coverage.failed => c.failed
    BY <1>1, <1>2, PointTypes
<1>9. /\ Sound(c, v, {}, books)
      /\ ~ c.failed => c.states[v].blocked
    BY <1>1, <1>2, <1>6, <1>7, PointKeeps
<1>10. /\ coverage' \in Coverages
       /\ \A w \in Venues \ {v} : coverage'.states[w] = coverage.states[w]
       /\ v # "bybit" => coverage'.barrier = coverage.barrier
       /\ coverage.failed => coverage'.failed
       /\ Sound(coverage', v, {}, books)
       /\ ~ coverage'.failed => coverage'.states[v].blocked
       /\ stop => stop'
    <2>1. CASE again
        <3>1. Emits(e)
            BY <2>1 DEF Fail, e
        <3>2. coverage' = c /\ (stop => stop')
            BY <1>2, <1>6, <3>1, EmitsAppends, AppendIsPoint
        <3> HIDE DEF c
        <3> QED BY <1>8, <1>9, <3>2
    <2>2. CASE ~ again
        <3>1. EmitsBoth(e, f)
            BY <2>2 DEF Fail, e, f
        <3>2. coverage' = _coverage_points(c, f) /\ (stop => stop')
            BY <1>2, <1>6, <3>1, EmitsBothAppends, AppendIsPoint
        <3> HIDE DEF c
        <3>3. /\ _coverage_points(c, f) \in Coverages
              /\ \A w \in Venues \ {v} : _coverage_points(c, f).states[w] = c.states[w]
              /\ v # "bybit" => _coverage_points(c, f).barrier = c.barrier
              /\ c.failed => _coverage_points(c, f).failed
            BY <1>3, <1>8, PointTypes
        <3>4. /\ Sound(_coverage_points(c, f), v, {}, books)
              /\ ~ _coverage_points(c, f).failed => _coverage_points(c, f).states[v].blocked
            BY <1>3, <1>6, <1>7, <1>8, <1>9, PointKeeps
        <3> QED BY <1>8, <3>2, <3>3, <3>4
    <2> QED BY <2>1, <2>2
<1>11. Sound(coverage', v, pending'[v], books')
    BY <1>4, <1>5, <1>10
<1>12. ~ coverage'.failed => ~ coverage'.states[v].active
    BY <1>10 DEF Sound
<1>13. SessionInv(v)'
    BY <1>5, <1>10, <1>12 DEF SessionInv
<1> QED BY <1>4, <1>5, <1>10, <1>11, <1>13, ReplayVenueStep

\* The invariant is inductive.
LEMMA ReplayNext ==
    ASSUME ReplayInv, [Next]_vars
    PROVE  ReplayInv'
<1> EvidenceTypes /\ EvidenceTypes'
    BY TypesStep DEF ReplayInv
<1>1. ASSUME NEW v \in Venues, Connect(v)
      PROVE  ReplayInv'
    BY <1>1, ReplayConnect
<1>2. ASSUME NEW v \in Venues,
             \/ Ping(v) \/ HandlePong(v) \/ Quarantine(v) \/ \E s \in Streams[v] : Ack(v, s)
      PROVE  ReplayInv'
    BY <1>2, ReplayListen
<1>3. ASSUME NEW v \in Venues, NEW s \in Streams[v], NEW update \in Updates(s),
             Frame(v, s, update)
      PROVE  ReplayInv'
    BY <1>3, ReplayFrame
<1>4. ASSUME NEW v \in Venues, Fail(v)
      PROVE  ReplayInv'
    BY <1>4, ReplayFail
<1>5. ASSUME NEW v \in Venues, Restart(v) \/ Leave(v)
      PROVE  ReplayInv'
    <2>1. UNCHANGED <<clock, stop, pending, books, coverage>>
        BY <1>5 DEF Restart, Leave
    <2>2. \A w \in Venues \ {v} : session'[w] = session[w] /\ conn'[w] = conn[w]
        BY <1>5 DEF Restart, Leave, EvidenceTypes
    <2>3. Sound(coverage, v, pending[v], books) /\ SessionInv(v) /\ coverage \in Coverages
        BY DEF ReplayInv
    <2>4. Sound(coverage', v, pending'[v], books')
        BY <2>1, <2>3
    <2>5. SessionInv(v)'
        <3>1. CASE Restart(v)
            <4>1. session[v] = "backoff" /\ session'[v] = "connecting"
                BY <3>1 DEF Restart, EvidenceTypes
            <4> QED BY <2>1, <2>3, <4>1 DEF SessionInv
        <3>2. CASE Leave(v)
            <4>1. /\ stop /\ session[v] \in {"open", "backoff"} /\ session'[v] = "ended"
                  /\ conn' = conn
                BY <3>2 DEF Leave, EvidenceTypes
            <4> QED BY <2>1, <2>3, <4>1 DEF SessionInv
        <3> QED BY <1>5, <3>1, <3>2
    <2> QED BY <2>1, <2>2, <2>3, <2>4, <2>5, ReplayVenueStep
<1>6. CASE (\E v \in Venues : Cut(v)) \/ Stop \/ UNCHANGED vars
    <2>1. /\ UNCHANGED <<clock, session, conn, pending, books, coverage>>
          /\ stop => stop'
        BY <1>6 DEF Cut, Stop, vars, link, sink
    <2> QED BY <2>1 DEF ReplayInv, Sound, SessionInv, Times
<1>7. CASE Tick
    <2>1. /\ UNCHANGED <<stop, session, conn, pending, books, coverage>>
          /\ clock' = clock + 1 /\ clock < MaxClock
        BY <1>7 DEF Tick, link, sink
    <2>2. clock' \in Times
        BY <2>1, BoundAssumption DEF ReplayInv, Times
    <2>3. \A v \in Venues : Sound(coverage, v, pending[v], books)' /\ SessionInv(v)'
        BY <2>1 DEF ReplayInv, Sound, SessionInv
    <2>4. coverage' \in Coverages
        BY <2>1 DEF ReplayInv, Coverages, Times, Instants, Gaps, Pairings, ReplayStates, Numbers
    <2> QED BY <2>2, <2>3, <2>4 DEF ReplayInv
<1> QED BY <1>1, <1>2, <1>3, <1>4, <1>5, <1>6, <1>7 DEF Next

-----------------------------------------------------------------------------
\* What replay has found so far has its invariant in every behaviour
\* (_coverage_points, pair_explained_intervals).
THEOREM ReplayInvariant == Spec => []ReplayInv
BY ReplayInit, ReplayNext, PTL DEF Spec

\* The time that replay counts as verified is time in which the venue's connection had
\* all its ACKs and complete books, for any number of reconnects (_coverage_points).
THEOREM ReplayedIsCurrentHolds == Spec => []ReplayedIsCurrent
<1>1. ReplayInv => ReplayedIsCurrent
    <2> SUFFICES ASSUME ReplayInv, NEW v \in Venues,
                        coverage.states[v].active, ~ coverage.failed
                 PROVE  Current(v) /\ coverage.states[v].conn = conn[v]
        BY DEF ReplayedIsCurrent
    <2>1. /\ Sound(coverage, v, pending[v], books) /\ SessionInv(v)
          /\ session[v] \in {"connecting", "open", "backoff", "ended"}
        BY DEF ReplayInv, EvidenceTypes
    <2> QED BY <2>1 DEF Sound, SessionInv, Current
<1> QED BY <1>1, ReplayInvariant, PTL

-----------------------------------------------------------------------------
\* The rest of the types.
LinkTypes ==
    /\ alive \in [Venues -> BOOLEAN] /\ pinged \in [Venues -> BOOLEAN]
    /\ \A v \in Venues : pending[v] \subseteq Streams[v]
    /\ failures \in 0 .. MaxFaults /\ quarantined \in 0 .. MaxFaults
    /\ stained \in [Venues -> BOOLEAN]
    /\ dark \in [Venues -> SUBSET Times]

\* Initially the sessions have their types.
LEMMA LinkInit == Init => LinkTypes
BY BoundAssumption DEF Init, LinkTypes

\* The sessions keep their types.
LEMMA LinkNext ==
    ASSUME ReplayInv, LinkTypes, [Next]_vars
    PROVE  LinkTypes'
<1>1. /\ pending \in [Venues -> SUBSET UNION {Streams[v] : v \in Venues}] /\ clock \in Times
      /\ MaxFaults \in Nat
    BY BoundAssumption DEF ReplayInv, EvidenceTypes
<1>2. ASSUME NEW v \in Venues, Connect(v)
      PROVE  LinkTypes'
    <2>1. /\ alive' = [alive EXCEPT ![v] = TRUE] /\ pinged' = [pinged EXCEPT ![v] = TRUE]
          /\ pending' = [pending EXCEPT ![v] = Streams[v]]
          /\ UNCHANGED <<failures, quarantined, dark>>
        BY <1>2 DEF Connect
    <2>2. stained' \in [Venues -> BOOLEAN]
        BY <1>2 DEF Connect, LinkTypes
    <2> QED BY <1>1, <2>1, <2>2 DEF LinkTypes
<1>3. ASSUME NEW v \in Venues, Ping(v) \/ HandlePong(v)
      PROVE  LinkTypes'
    BY <1>3 DEF Ping, HandlePong, LinkTypes
<1>4. ASSUME NEW v \in Venues, NEW s \in Streams[v], Ack(v, s)
      PROVE  LinkTypes'
    <2>1. /\ pending' = [pending EXCEPT ![v] = @ \ {s}]
          /\ UNCHANGED <<alive, pinged, failures, quarantined, stained, dark>>
        BY <1>4 DEF Ack
    <2> QED BY <1>1, <2>1 DEF LinkTypes
<1>5. ASSUME NEW v \in Venues, NEW s \in Streams[v], NEW update \in Updates(s),
             Frame(v, s, update)
      PROVE  LinkTypes'
    BY <1>5 DEF Frame, LinkTypes
<1>6. ASSUME NEW v \in Venues, Quarantine(v)
      PROVE  LinkTypes'
    BY <1>1, <1>6 DEF Quarantine, LinkTypes
<1>7. ASSUME NEW v \in Venues, Cut(v)
      PROVE  LinkTypes'
    BY <1>7 DEF Cut, LinkTypes
<1>8. ASSUME NEW v \in Venues, Fail(v)
      PROVE  LinkTypes'
    <2>1. /\ alive' = [alive EXCEPT ![v] = FALSE] /\ pinged' = [pinged EXCEPT ![v] = FALSE]
          /\ pending' = [pending EXCEPT ![v] = {}]
          /\ failures' = failures + 1 /\ failures + quarantined < MaxFaults
          /\ UNCHANGED <<quarantined, stained, dark>>
        BY <1>8 DEF Fail
    <2>2. failures' \in 0 .. MaxFaults
        BY <1>1, <2>1 DEF LinkTypes
    <2> QED BY <1>1, <2>1, <2>2 DEF LinkTypes
<1>9. ASSUME NEW v \in Venues, Restart(v) \/ Leave(v)
      PROVE  LinkTypes'
    BY <1>9 DEF Restart, Leave, LinkTypes
<1>10. CASE Stop \/ UNCHANGED vars
    BY <1>10 DEF Stop, vars, link, LinkTypes
<1>11. CASE Tick
    <2>1. UNCHANGED <<alive, pinged, pending, failures, quarantined, stained>>
        BY <1>11 DEF Tick, link
    <2>2. dark' \in [Venues -> SUBSET Times]
        BY <1>1, <1>11 DEF Tick, LinkTypes
    <2> QED BY <2>1, <2>2 DEF LinkTypes
<1> QED BY <1>2, <1>3, <1>4, <1>5, <1>6, <1>7, <1>8, <1>9, <1>10, <1>11 DEF Next

\* The sessions, the sink and the replay keep their types.
THEOREM TypeCorrect == Spec => []TypeOK
<1>1. ReplayInv /\ LinkTypes => TypeOK
    <2> SUFFICES ASSUME ReplayInv, LinkTypes
                 PROVE  TypeOK
        OBVIOUS
    <2>1. /\ clock \in Times /\ stop \in BOOLEAN
          /\ session \in [Venues -> {"connecting", "open", "backoff", "ended"}]
          /\ conn \in [Venues -> Connections]
          /\ books \subseteq Books
        BY DEF ReplayInv, EvidenceTypes
    <2>2. live \in [Venues -> LiveStates] /\ barrier \in Barriers
        BY DEF ReplayInv, EvidenceTypes
    <2>3. coverage.failed \in BOOLEAN /\ coverage.pairing.explained \subseteq Times
        BY DEF ReplayInv, Coverages, Pairings
    <2> QED BY <2>1, <2>2, <2>3 DEF TypeOK, LinkTypes, LiveStates, Barriers, Numbers
<1>2. Init => ReplayInv /\ LinkTypes
    BY ReplayInit, LinkInit
<1>3. ReplayInv /\ LinkTypes /\ [Next]_vars => (ReplayInv /\ LinkTypes)'
    BY ReplayNext, LinkNext
<1> QED BY <1>1, <1>2, <1>3, PTL DEF Spec

-----------------------------------------------------------------------------
\* What replay makes of a record that is no subscription.
LEMMA PointIs ==
    ASSUME NEW c \in Coverages, NEW e, IsRecord(e), e.schema # "subscription_send", ~ c.failed
    PROVE  LET d == _coverage_points(c, e)
           IN  /\ Rejected(c, e) => d.failed
               /\ ~ Rejected(c, e) =>
                     /\ ~ d.failed
                     /\ e.schema \in Failing => d = _failure_point(c, e)
                     /\ e.schema \notin Failing =>
                           d = IF c.states[e.venue].blocked THEN c ELSE Evidence(c, e)
<1> DEFINE r == _coverage_points(c, e)
<1>1. Started(c, e) = c
    BY StartedIs DEF Starts
<1>2. r = IF Rejected(c, e) THEN [c EXCEPT !.failed = TRUE]
          ELSE IF e.schema \in Failing THEN _failure_point(c, e)
          ELSE IF c.states[e.venue].blocked THEN c
          ELSE Evidence(c, e)
    BY <1>1 DEF _coverage_points, Failing
<1> HIDE DEF r
<1>3. CASE Rejected(c, e)
    <2>1. r = [c EXCEPT !.failed = TRUE]
        BY <1>2, <1>3
    <2>2. r.failed = TRUE
        BY <2>1 DEF Coverages
    <2> QED BY <1>3, <2>2 DEF r
<1>4. CASE ~ Rejected(c, e)
    <2>1. _failure_point(c, e).failed = c.failed
        BY FailureIs
    <2>2. Evidence(c, e).failed = c.failed
        BY EvidenceIs
    <2> QED BY <1>2, <1>4, <2>1, <2>2 DEF r
<1> QED BY <1>3, <1>4

\* What replay makes of a subscription.
LEMMA StartIs ==
    ASSUME NEW c \in Coverages, NEW e, IsRecord(e), e.schema = "subscription_send", ~ c.failed,
           c.pending_gap = NoGap
    PROVE  LET d == _coverage_points(c, e)
           IN  /\ e.conn = c.states[e.venue].conn =>
                     d = IF c.states[e.venue].blocked THEN c ELSE Evidence(c, e)
               /\ e.conn # c.states[e.venue].conn =>
                     /\ ~ d.failed /\ d.pending_gap = NoGap /\ d.pairing = c.pairing
                     /\ ~ d.states[e.venue].blocked /\ ~ d.states[e.venue].active
                     /\ ~ d.states[e.venue].ack /\ ~ d.states[e.venue].pong
                     /\ d.states[e.venue].conn = e.conn
                     /\ e.venue = "bybit" => d.barrier = NoBarrier
<1> DEFINE r == _coverage_points(c, e)
           s == Started(c, e)
           v == e.venue
<1>1. /\ s \in Coverages /\ s.failed = c.failed
      /\ ~ Starts(c, e) => s = c
      /\ Starts(c, e) => /\ s.states[v] = NewConnection(e.conn)
                         /\ v = "bybit" => s.barrier = NoBarrier
      /\ s.pending_gap = c.pending_gap /\ s.pairing = c.pairing
    BY StartedIs
<1>2. Starts(c, e) <=> e.conn # c.states[v].conn
    BY DEF Starts
<1>3. ~ Rejected(s, e) /\ e.schema \notin Failing /\ ~ Observes(e)
    BY <1>1 DEF Rejected, CONNECTION_SCHEMAS, Failing, Explained, Observes
<1>4. r = IF s.states[v].blocked THEN s ELSE Evidence(s, e)
    BY <1>1, <1>3 DEF _coverage_points, Failing
<1> HIDE DEF r, s
<1>5. CASE e.conn = c.states[v].conn
    BY <1>1, <1>2, <1>4, <1>5 DEF r
<1>6. CASE e.conn # c.states[v].conn
    <2>1. /\ s.states[v].conn = e.conn /\ ~ s.states[v].ack /\ ~ s.states[v].blocked
          /\ ~ s.states[v].pong /\ ~ s.states[v].active
          /\ v = "bybit" => s.barrier = NoBarrier
        BY <1>1, <1>2, <1>6 DEF NewConnection
    <2>2. r = Evidence(s, e)
        BY <1>4, <2>1
    <2>3. /\ r.failed = s.failed /\ r.barrier = s.barrier
          /\ r.states[v].blocked = s.states[v].blocked
          /\ r.states[v].conn = s.states[v].conn
          /\ Weighed(s, e, r)
        BY <1>1, <1>3, <2>2, EvidenceIs
    <2>4. /\ ~ r.states[v].ack /\ ~ r.states[v].pong /\ ~ r.states[v].active
          /\ r.pending_gap = s.pending_gap /\ r.pairing = s.pairing
        BY <2>1, <2>3 DEF Weighed
    <2> QED BY <1>1, <1>6, <2>1, <2>3, <2>4 DEF r
<1> QED BY <1>5, <1>6

-----------------------------------------------------------------------------
\* A connection that is not blocked is active exactly when its evidence is complete.
Complete(c, v) ==
    /\ c.states[v].conn # NoConn /\ c.states[v].ack /\ c.states[v].pong
    /\ v = "bybit" => ready(c.barrier)

Balanced(c) ==
    \A v \in Venues : ~ c.states[v].blocked => (c.states[v].active <=> Complete(c, v))

\* Replay keeps its judgement and its evidence together, record by record.
LEMMA PointBalances ==
    ASSUME NEW c \in Coverages, NEW e, IsRecord(e), ~ c.failed, Balanced(c),
           e.schema = "subscription_send" => c.pending_gap = NoGap,
           ~ _coverage_points(c, e).failed
    PROVE  Balanced(_coverage_points(c, e))
<1> DEFINE d == _coverage_points(c, e)
           v == e.venue
<1>1. /\ d \in Coverages
      /\ \A w \in Venues \ {v} : d.states[w] = c.states[w]
      /\ v # "bybit" => d.barrier = c.barrier
    BY PointTypes
<1>2. ASSUME ~ d.states[v].blocked
      PROVE  d.states[v].active <=> Complete(d, v)
    <2>1. CASE d = c
        BY <1>2, <2>1 DEF Balanced, IsRecord
    <2>2. CASE d = Evidence(c, e)
        <3>1. /\ d.states[v].conn = c.states[v].conn
              /\ Weighed(c, e, d)
            BY <2>2, EvidenceIs
        <3> HIDE DEF d
        <3> QED BY <3>1 DEF Weighed, Complete
    <2>3. CASE e.schema = "subscription_send" /\ e.conn # c.states[v].conn
        <3>1. ~ d.states[v].active /\ ~ d.states[v].ack
            BY <2>3, StartIs
        <3> HIDE DEF d
        <3> QED BY <3>1 DEF Complete
    <2>4. CASE d = _failure_point(c, e)
        <3>1. d.states[v].blocked
            BY <2>4, FailureIs
        <3> QED BY <1>2, <3>1
    <2>5. CASE e.schema # "subscription_send"
        BY <2>1, <2>2, <2>4, <2>5, PointIs
    <2>6. CASE e.schema = "subscription_send" /\ e.conn = c.states[v].conn
        BY <2>1, <2>2, <2>6, StartIs
    <2> QED BY <2>3, <2>5, <2>6
<1>3. ASSUME NEW w \in Venues \ {v}, ~ d.states[w].blocked
      PROVE  d.states[w].active <=> Complete(d, w)
    <2>1. d.states[w] = c.states[w] /\ (w = "bybit" => d.barrier = c.barrier)
        BY <1>1 DEF IsRecord, Venues
    <2> HIDE DEF d
    <2> QED BY <1>3, <2>1 DEF Balanced, Complete
<1> QED BY <1>2, <1>3 DEF Balanced

-----------------------------------------------------------------------------
\* At the time "now": the pairing of v looks back only.
Reached(p, v, now) == p.last_verified[v] \leq now /\ \A s \in p.pending[v] : s \leq now

\* Of the times given, those before the last verification of v are accounted for.
Accounted(p, v, times) ==
    \A t \in times : t < p.last_verified[v] => t \in p.explained \/ p.unexplained

\* The later ones will be at the next verification, if it still counts.
Awaited(p, v, times, now) ==
    now \geq window_end_ns
        \/ \A t \in times : t \geq p.last_verified[v] => \E s \in p.pending[v] : s \leq t

Settled(p, v, times, now) ==
    Reached(p, v, now) /\ Accounted(p, v, times) /\ Awaited(p, v, times, now)

\* From p to q nothing is taken from what accounts for v.
Grows(p, q, v) ==
    /\ q.last_verified[v] = p.last_verified[v] /\ q.pending[v] = p.pending[v]
    /\ p.explained \subseteq q.explained
    /\ p.unexplained => q.unexplained

\* What a failure that explains does.
LEMMA FailurePairs ==
    ASSUME NEW p \in Pairings, NEW v \in Venues, NEW ns \in Times, ns < window_end_ns
    PROVE  LET q == Pair(p, v, ns, "explained_failure")
           IN  /\ q.last_verified = p.last_verified /\ q.explained = p.explained
               /\ q.unexplained = p.unexplained
               /\ q.pending = [p.pending EXCEPT ![v] = @ \cup {p.last_verified[v]}]
<1>1. ~ (ns \geq window_end_ns)
    BY ReplayConstants DEF Times
<1>2. Pair(p, v, ns, "explained_failure") = [p EXCEPT !.pending[v] = @ \cup {p.last_verified[v]}]
    BY <1>1 DEF Pair
<1> QED BY <1>2 DEF Pairings

\* What a verification does.
LEMMA VerifiedPairs ==
    ASSUME NEW p \in Pairings, NEW v \in Venues, NEW ns \in Times, ns < window_end_ns
    PROVE  LET q == Pair(p, v, ns, "hard_verified")
               starts == IF ns > window_start_ns THEN p.pending[v] ELSE {}
           IN  /\ q.last_verified = [p.last_verified EXCEPT ![v] = ns]
               /\ q.pending = [p.pending EXCEPT ![v] = {}]
               /\ q.explained = p.explained \cup UNION {Interval(s, ns) : s \in starts \ {NoTime}}
               /\ q.unexplained = (p.unexplained \/ NoTime \in starts)
<1> DEFINE starts == IF ns > window_start_ns THEN p.pending[v] ELSE {}
           gaps == UNION {Interval(s, ns) : s \in starts \ {NoTime}}
<1>1. ~ (ns \geq window_end_ns)
    BY ReplayConstants DEF Times
<1>2. Pair(p, v, ns, "hard_verified") =
          [p EXCEPT !.last_verified[v] = ns, !.pending[v] = {},
                    !.explained = @ \cup gaps, !.unexplained = @ \/ NoTime \in starts]
    BY <1>1 DEF Pair
<1> HIDE DEF gaps, starts
<1>3. LET q == Pair(p, v, ns, "hard_verified")
      IN  /\ q.last_verified = [p.last_verified EXCEPT ![v] = ns]
          /\ q.pending = [p.pending EXCEPT ![v] = {}]
          /\ q.explained = p.explained \cup gaps
          /\ q.unexplained = (p.unexplained \/ NoTime \in starts)
    BY <1>2 DEF Pairings
<1> QED BY <1>3 DEF gaps, starts

\* Another failure only takes the window's word.
LEMMA UnexplainedPairs ==
    ASSUME NEW p \in Pairings, NEW v \in Venues, NEW ns \in Times, ns < window_end_ns
    PROVE  LET q == Pair(p, v, ns, "unexplained_failure")
           IN  /\ q.last_verified = p.last_verified /\ q.explained = p.explained
               /\ p.unexplained => q.unexplained
               /\ q.pending = p.pending
<1>1. ~ (ns \geq window_end_ns)
    BY ReplayConstants DEF Times
<1>2. Pair(p, v, ns, "unexplained_failure") = [p EXCEPT !.unexplained = @ \/ ns \geq window_start_ns]
    BY <1>1 DEF Pair
<1> QED BY <1>2 DEF Pairings

\* One point settles what it must and leaves the other venue settled.
LEMMA PairSettles ==
    ASSUME NEW p \in Pairings, NEW v \in Venues, NEW ns \in Times, NEW kind \in Kinds,
           NEW times, times \subseteq window_start_ns .. ns - 1,
           Reached(p, v, ns), Accounted(p, v, times)
    PROVE  LET q == Pair(p, v, ns, kind)
           IN  /\ Awaited(p, v, times, ns) => Settled(q, v, times, ns)
               /\ kind = "explained_failure" =>
                     Settled(q, v, times, ns) /\ (ns \geq window_end_ns \/ q.pending[v] # {})
               /\ \A w \in Venues \ {v} : Grows(p, q, w)
<1> DEFINE q == Pair(p, v, ns, kind)
<1>1. /\ p.last_verified \in [Venues -> Instants] /\ p.pending \in [Venues -> SUBSET Instants]
      /\ ns \in Nat /\ ns # 0 /\ Instants \subseteq Nat /\ window_end_ns \in Nat /\ window_start_ns \in Nat
      /\ 0 \in Instants /\ NoTime = 0
    BY ReplayConstants DEF Pairings, Times
<1>2. \A t \in times : t \in Nat /\ t < ns /\ t \geq window_start_ns
    BY <1>1
<1>3. p.last_verified[v] \in Nat /\ p.pending[v] \subseteq Instants
    BY <1>1
<1>4. CASE ns \geq window_end_ns
    <2>1. q = p
        BY <1>4 DEF Pair
    <2> HIDE DEF q
    <2> QED BY <1>4, <2>1 DEF Settled, Awaited, Grows, q
<1>5. CASE ns < window_end_ns /\ kind = "hard_verified"
    <2> DEFINE starts == IF ns > window_start_ns THEN p.pending[v] ELSE {}
               gaps == UNION {Interval(s, ns) : s \in starts \ {NoTime}}
    <2>1. /\ q.last_verified = [p.last_verified EXCEPT ![v] = ns]
          /\ q.pending = [p.pending EXCEPT ![v] = {}]
          /\ q.explained = p.explained \cup gaps
          /\ q.unexplained = (p.unexplained \/ NoTime \in starts)
        BY <1>5, VerifiedPairs
    <2> HIDE DEF q
    <2>2. /\ q.last_verified[v] = ns /\ q.pending[v] = {}
          /\ \A w \in Venues \ {v} : /\ q.last_verified[w] = p.last_verified[w]
                                     /\ q.pending[w] = p.pending[w]
        BY <1>1, <2>1
    <2>3. \A w \in Venues \ {v} : Grows(p, q, w)
        BY <2>1, <2>2 DEF Grows
    <2>4. Reached(q, v, ns)
        BY <1>1, <2>2 DEF Reached
    <2>5. Awaited(q, v, times, ns)
        <3>1. \A t \in times : ~ (t \geq ns)
            BY <1>1, <1>2
        <3> QED BY <2>2, <3>1 DEF Awaited
    <2>6. ASSUME Awaited(p, v, times, ns), NEW t \in times
          PROVE  t \in q.explained \/ q.unexplained
        <3>1. CASE t < p.last_verified[v]
            BY <2>1, <3>1 DEF Accounted
        <3>2. CASE t \geq p.last_verified[v]
            <4>1. PICK s \in p.pending[v] : s \leq t
                BY <1>1, <1>5, <2>6, <3>2 DEF Awaited
            <4>2. s \in starts
                BY <1>1, <1>2
            <4>3. CASE s = NoTime
                BY <2>1, <4>2, <4>3
            <4>4. CASE s # NoTime
                <5>1. Max({s, window_start_ns}) \in {s, window_start_ns}
                    BY <1>1, <1>3, MaxOfTwo
                <5>2. Max({s, window_start_ns}) \in Nat /\ Max({s, window_start_ns}) \leq t
                    BY <1>1, <1>2, <1>3, <4>1, <5>1
                <5>3. t \in Interval(s, ns)
                    BY <1>1, <1>2, <5>2 DEF Interval
                <5> QED BY <2>1, <4>2, <4>4, <5>3
            <4> QED BY <4>3, <4>4
        <3> QED BY <1>2, <1>3, <3>1, <3>2
    <2>7. Awaited(p, v, times, ns) => Accounted(q, v, times)
        BY <2>6 DEF Accounted
    <2> QED BY <1>5, <2>3, <2>4, <2>5, <2>7 DEF Settled, q
<1>6. CASE ns < window_end_ns /\ kind = "explained_failure"
    <2>1. /\ q.last_verified = p.last_verified /\ q.explained = p.explained
          /\ q.unexplained = p.unexplained
          /\ q.pending = [p.pending EXCEPT ![v] = @ \cup {p.last_verified[v]}]
        BY <1>6, FailurePairs
    <2> HIDE DEF q
    <2>2. /\ q.pending[v] = p.pending[v] \cup {p.last_verified[v]}
          /\ \A w \in Venues \ {v} : q.pending[w] = p.pending[w]
        BY <1>1, <2>1
    <2>3. \A w \in Venues \ {v} : Grows(p, q, w)
        BY <2>1, <2>2 DEF Grows
    <2>4. Reached(q, v, ns) /\ Accounted(q, v, times)
        BY <2>1, <2>2 DEF Reached, Accounted
    <2>5. Awaited(q, v, times, ns)
        BY <1>2, <1>3, <2>1, <2>2 DEF Awaited
    <2> QED BY <2>2, <2>3, <2>4, <2>5 DEF Settled, q
<1>7. CASE ns < window_end_ns /\ kind = "unexplained_failure"
    <2>1. /\ q.last_verified = p.last_verified /\ q.explained = p.explained
          /\ p.unexplained => q.unexplained
          /\ q.pending = p.pending
        BY <1>7, UnexplainedPairs
    <2> HIDE DEF q
    <2>2. \A w \in Venues : Grows(p, q, w)
        BY <2>1 DEF Grows
    <2>3. Reached(q, v, ns) /\ Accounted(q, v, times)
        BY <2>1 DEF Reached, Accounted
    <2>4. Awaited(p, v, times, ns) => Awaited(q, v, times, ns)
        BY <2>1 DEF Awaited
    <2> QED BY <1>7, <2>2, <2>3, <2>4 DEF Settled, q
<1>8. ns < window_end_ns \/ ns \geq window_end_ns
    BY <1>1
<1> QED BY <1>4, <1>5, <1>6, <1>7, <1>8 DEF Kinds

\* What a growing pairing has settled stays settled.
LEMMA GrowsSettles ==
    ASSUME NEW p, NEW q, NEW v, NEW times, NEW now, Grows(p, q, v)
    PROVE  /\ Reached(p, v, now) => Reached(q, v, now)
           /\ Accounted(p, v, times) => Accounted(q, v, times)
           /\ Awaited(p, v, times, now) => Awaited(q, v, times, now)
BY DEF Grows, Reached, Accounted, Awaited

\* What one record does to the pairing.
LEMMA PointPairs ==
    ASSUME NEW c \in Coverages, NEW e, IsRecord(e), ~ c.failed,
           e.schema = "subscription_send" => c.pending_gap = NoGap,
           ~ _coverage_points(c, e).failed
    PROVE  LET d == _coverage_points(c, e)
           IN  /\ \/ d.pairing = c.pairing
                  \/ \E kind \in Kinds : d.pairing = Pair(c.pairing, e.venue, e.ns, kind)
               /\ e.schema \in Explained =>
                     d.pairing = Pair(c.pairing, e.venue, e.ns, "explained_failure")
<1> DEFINE d == _coverage_points(c, e)
           one == \/ d.pairing = c.pairing
                  \/ \E kind \in Kinds : d.pairing = Pair(c.pairing, e.venue, e.ns, kind)
<1>1. d = c => one
    OBVIOUS
<1>2. d = _failure_point(c, e) =>
          /\ one
          /\ e.schema \in Explained =>
                d.pairing = Pair(c.pairing, e.venue, e.ns, "explained_failure")
    BY FailureIs DEF Kinds
<1>3. d = Evidence(c, e) => one
    <2> SUFFICES ASSUME d = Evidence(c, e)
                 PROVE  one
        OBVIOUS
    <2>1. Weighed(c, e, d)
        BY EvidenceIs
    <2> HIDE DEF d
    <2>2. d.pairing = c.pairing \/ d.pairing = Pair(c.pairing, e.venue, e.ns, "hard_verified")
        BY <2>1 DEF Weighed
    <2>3. "hard_verified" \in Kinds
        BY DEF Kinds
    <2> QED BY <2>2, <2>3
<1>4. CASE e.schema = "subscription_send"
    <2>1. one
        <3>1. CASE e.conn = c.states[e.venue].conn
            <4>1. d = c \/ d = Evidence(c, e)
                BY <1>4, <3>1, StartIs
            <4> HIDE DEF d, one
            <4> QED BY <1>1, <1>3, <4>1
        <3>2. CASE e.conn # c.states[e.venue].conn
            BY <1>4, <3>2, StartIs
        <3> QED BY <3>1, <3>2
    <2> QED BY <1>4, <2>1 DEF Explained
<1>5. CASE e.schema # "subscription_send"
    <2>1. /\ e.schema \in Failing => d = _failure_point(c, e)
          /\ e.schema \notin Failing => d = c \/ d = Evidence(c, e)
        BY <1>5, PointIs
    <2>2. e.schema \in Explained => e.schema \in Failing
        BY DEF Failing
    <2> HIDE DEF d, one
    <2>3. one
        BY <1>1, <1>2, <1>3, <2>1
    <2>4. e.schema \in Explained => d.pairing = Pair(c.pairing, e.venue, e.ns, "explained_failure")
        BY <1>2, <2>1, <2>2
    <2> QED BY <2>3, <2>4 DEF one, d
<1> QED BY <1>4, <1>5

-----------------------------------------------------------------------------
\* Coverages are the same if all their parts are.
LEMMA SameCoverage ==
    ASSUME NEW c \in Coverages, NEW d \in Coverages,
           d.failed = c.failed, d.pending_gap = c.pending_gap, d.pairing = c.pairing,
           d.barrier = c.barrier,
           \A v \in Venues : /\ d.states[v].conn = c.states[v].conn
                             /\ d.states[v].ack = c.states[v].ack
                             /\ d.states[v].pong = c.states[v].pong
                             /\ d.states[v].active = c.states[v].active
                             /\ d.states[v].blocked = c.states[v].blocked
    PROVE  d = c
<1>1. ASSUME NEW v \in Venues
      PROVE  d.states[v] = c.states[v]
    <2>1. d.states[v] \in ReplayStates /\ c.states[v] \in ReplayStates
        BY DEF Coverages
    <2> QED BY <2>1 DEF ReplayStates
<1>2. d.states = c.states
    <2>1. d.states \in [Venues -> ReplayStates] /\ c.states \in [Venues -> ReplayStates]
        BY DEF Coverages
    <2> QED BY <1>1, <2>1
<1> QED BY <1>2 DEF Coverages

\* A record that is no evidence leaves replay as it is.
LEMMA QuietPoint ==
    ASSUME NEW c \in Coverages, NEW e, IsRecord(e), ~ c.failed, c.pending_gap = NoGap, Balanced(c),
           \/ e.schema = "venue_recovered"
           \/ e.schema = "ping_sent" /\ e.conn = c.states[e.venue].conn
    PROVE  _coverage_points(c, e) = c
<1> DEFINE v == e.venue
           d == Evidence(c, e)
<1>1. /\ ~ Rejected(c, e) /\ e.schema \notin Failing /\ e.schema # "subscription_send"
      /\ ~ Observes(e) /\ v \in Venues
    BY DEF Rejected, CONNECTION_SCHEMAS, Failing, Explained, Observes, IsRecord
<1>2. _coverage_points(c, e) = IF c.states[v].blocked THEN c ELSE d
    BY <1>1, PointIs
<1>3. ASSUME ~ c.states[v].blocked
      PROVE  d = c
    <2>1. /\ d \in Coverages /\ d.failed = c.failed /\ d.barrier = c.barrier
          /\ \A w \in Venues \ {v} : d.states[w] = c.states[w]
          /\ d.states[v].blocked = c.states[v].blocked
          /\ d.states[v].conn = c.states[v].conn
          /\ Weighed(c, e, d)
        BY <1>1, EvidenceIs
    <2>2. c.states[v].active <=> Complete(c, v)
        BY <1>1, <1>3 DEF Balanced
    <2> HIDE DEF d
    <2>3. /\ d.states[v].ack <=> c.states[v].ack
          /\ d.states[v].pong <=> c.states[v].pong
          /\ d.states[v].active <=> c.states[v].active
          /\ d.pending_gap = c.pending_gap
        BY <2>1, <2>2 DEF Weighed, Complete
    <2>4. d.pairing = c.pairing
        BY <2>1, <2>3 DEF Weighed
    <2>5. /\ d.states[v].ack = c.states[v].ack /\ d.states[v].pong = c.states[v].pong
          /\ d.states[v].active = c.states[v].active
        <3>1. c.states[v] \in ReplayStates /\ d.states[v] \in ReplayStates
            BY <1>1, <2>1 DEF Coverages
        <3>2. /\ c.states[v].ack \in BOOLEAN /\ d.states[v].ack \in BOOLEAN
              /\ c.states[v].pong \in BOOLEAN /\ d.states[v].pong \in BOOLEAN
              /\ c.states[v].active \in BOOLEAN /\ d.states[v].active \in BOOLEAN
            BY <3>1 DEF ReplayStates
        <3> QED BY <2>3, <3>2
    <2>6. ASSUME NEW w \in Venues
          PROVE  /\ d.states[w].conn = c.states[w].conn
                 /\ d.states[w].ack = c.states[w].ack
                 /\ d.states[w].pong = c.states[w].pong
                 /\ d.states[w].active = c.states[w].active
                 /\ d.states[w].blocked = c.states[w].blocked
        <3>1. CASE w = v
            BY <2>1, <2>5, <3>1
        <3>2. CASE w # v
            BY <2>1, <3>2
        <3> QED BY <3>1, <3>2
    <2> QED BY <2>1, <2>3, <2>4, <2>6, SameCoverage
<1> QED BY <1>2, <1>3

-----------------------------------------------------------------------------
\* What a session that is open gives to the sink.
Listened == {"ping_sent", "pong", "raw_quarantine", "subscription_ack", "pre_ack_frame",
             "raw_frame"}

\* The barrier of replay is the one of the sink, without a gap.
Tracks(c, b, v, number) ==
    v = "bybit" => b.conn = number /\ ~ b.gap /\ c.barrier = [topics |-> b.topics, gap |-> FALSE]

\* Both barriers take a frame alike.
LEMMA ObserveTracks ==
    ASSUME NEW b \in Barriers, ~ b.gap, NEW r \in ReplayBarriers, ~ r.gap, r.topics = b.topics,
           NEW topic, NEW update
    PROVE  LET x == observe(b, topic, update)
               y == observe(r, topic, update)
           IN  /\ y.gap = x.gap /\ y.topics = x.topics
               /\ ~ x.gap => y = [topics |-> x.topics, gap |-> FALSE]
               /\ b.topics \subseteq x.topics
               /\ topic \notin Books => ~ x.gap
<1>1. /\ b.gap = FALSE /\ b.topics \subseteq Books /\ r.gap = FALSE
      /\ r = [topics |-> b.topics, gap |-> FALSE]
    BY DEF Barriers, ReplayBarriers
<1> DEFINE gap == (update = "delta" /\ topic \notin b.topics) \/ update = "skip"
<1>2. observe(b, topic, update) =
          IF topic \notin Books THEN b
          ELSE IF gap THEN [b EXCEPT !.gap = TRUE]
          ELSE [b EXCEPT !.topics = @ \cup {topic}]
    BY <1>1 DEF observe
<1>3. observe(r, topic, update) =
          IF topic \notin Books THEN r
          ELSE IF gap THEN [r EXCEPT !.gap = TRUE]
          ELSE [r EXCEPT !.topics = @ \cup {topic}]
    BY <1>1 DEF observe
<1> HIDE DEF gap
<1>4. CASE topic \notin Books
    <2>1. observe(b, topic, update) = b /\ observe(r, topic, update) = r
        BY <1>2, <1>3, <1>4
    <2> QED BY <1>1, <2>1
<1>5. CASE topic \in Books /\ gap
    BY <1>1, <1>2, <1>3, <1>5 DEF Barriers
<1>6. CASE topic \in Books /\ ~ gap
    <2>1. /\ observe(b, topic, update) = [b EXCEPT !.topics = b.topics \cup {topic}]
          /\ observe(r, topic, update) = [topics |-> b.topics \cup {topic}, gap |-> FALSE]
        BY <1>1, <1>2, <1>3, <1>6
    <2>2. /\ observe(b, topic, update).topics = b.topics \cup {topic}
          /\ ~ observe(b, topic, update).gap
        BY <1>1, <2>1 DEF Barriers
    <2>3. /\ observe(r, topic, update).topics = b.topics \cup {topic}
          /\ observe(r, topic, update).gap = FALSE
        BY <2>1
    <2>4. observe(b, topic, update).gap = FALSE
        BY <1>1, <2>1 DEF Barriers
    <2> HIDE DEF gap
    <2> QED BY <1>6, <2>1, <2>2, <2>3, <2>4
<1> QED BY <1>4, <1>5, <1>6

\* What the sink appends to a record of an open connection.
LEMMA ListenAppends ==
    ASSUME NEW c \in Coverages, NEW e, IsRecord(e), ~ c.failed, c.pending_gap = NoGap, Balanced(c),
           e.schema \in Listened, e.conn = c.states[e.venue].conn,
           NEW l, NEW b \in Barriers,
           ~ c.states[e.venue].blocked => Tracks(c, b, e.venue, e.conn)
    PROVE  LET d == _append(c, l, b, e)
               held == c.states[e.venue].blocked
               g == [e EXCEPT !.schema = "bybit_sequence_gap"]
           IN  /\ held /\ Gapped(b, e) => d.failed
               /\ e.schema = "raw_quarantine" => d = _failure_point(c, e)
               /\ e.schema # "raw_quarantine" /\ ~ Gapped(b, e) =>
                     /\ held => d = c
                     /\ ~ held => /\ d = Evidence(c, e) /\ d.pending_gap = NoGap
                                  /\ Tracks(d, _update_bybit(b, e), e.venue, e.conn)
               /\ ~ held /\ Gapped(b, e) => d = _failure_point(Evidence(c, e), g)
<1> DEFINE v == e.venue
           next == _coverage_points(c, e)
           f == [e EXCEPT !.schema = "venue_recovered", !.conn = NoConn]
           g == [e EXCEPT !.schema = "bybit_sequence_gap"]
           d == _append(c, l, b, e)
           held == c.states[v].blocked
<1>1. /\ ~ Rejected(c, e) /\ e.schema # "subscription_send"
      /\ e.schema \in Failing <=> e.schema = "raw_quarantine"
      /\ v \in Venues /\ e.conn \in Numbers /\ e.ns \in Times
    BY DEF Rejected, Failing, Explained, Listened, IsRecord
<1>2. /\ ~ next.failed
      /\ e.schema = "raw_quarantine" => next = _failure_point(c, e)
      /\ e.schema # "raw_quarantine" => next = IF held THEN c ELSE Evidence(c, e)
    BY <1>1, PointIs
<1>3. /\ f.venue = v /\ f.schema = "venue_recovered" /\ IsRecord(f)
      /\ g.venue = v /\ g.schema = "bybit_sequence_gap" /\ IsRecord(g)
      /\ g.ns = e.ns /\ g.conn = e.conn
    BY ReplayConstants DEF IsRecord
<1>4. /\ e.schema = "raw_quarantine" => ~ Gapped(b, e) /\ ~ Acked(e)
      /\ Gapped(b, e) => ~ Acked(e) /\ Observes(e) /\ v = "bybit" /\ e.topic \in Books
      /\ Acked(e) => ~ Observes(e)
    BY DEF Gapped, Observes, Acked
<1>5. /\ ~ Acked(e) /\ ~ Gapped(b, e) => d = next
      /\ Gapped(b, e) => d = _coverage_points(next, g)
      /\ Acked(e) => d = next \/ d = _coverage_points(next, f)
    BY <1>4 DEF _append, Recovers
<1>6. next \in Coverages /\ Balanced(next)
    BY <1>1, <1>2, PointTypes, PointBalances
<1> HIDE DEF d, f, g
<1>7. ASSUME ~ held, e.schema # "raw_quarantine"
      PROVE  /\ ~ Gapped(b, e) => next.pending_gap = NoGap /\ Tracks(next, _update_bybit(b, e), v, e.conn)
             /\ Gapped(b, e) => next.pending_gap = <<e.ns, e.conn>>
    <2>1. /\ next.barrier = IF Observes(e) THEN observe(c.barrier, e.topic, e.update) ELSE c.barrier
          /\ Weighed(c, e, next)
        BY <1>2, <1>7, EvidenceIs
    <2>2. next.pending_gap = IF next.barrier.gap /\ ~ c.barrier.gap THEN <<e.ns, e.conn>> ELSE NoGap
        BY <2>1 DEF Weighed
    <2> HIDE DEF next
    <2>3. CASE ~ Observes(e)
        <3>1. v = "bybit" => _update_bybit(b, e) = b
            BY <1>1, <1>7, <2>3, UpdateTypes DEF Tracks
        <3> QED BY <1>4, <1>7, <2>1, <2>2, <2>3, <3>1 DEF Tracks
    <2>4. CASE Observes(e)
        <3> DEFINE x == observe(b, e.topic, e.update)
                   y == observe(c.barrier, e.topic, e.update)
        <3>1. /\ v = "bybit" /\ b.conn = e.conn /\ ~ b.gap
              /\ c.barrier = [topics |-> b.topics, gap |-> FALSE]
            BY <1>7, <2>4 DEF Observes, Tracks
        <3>2. _update_bybit(b, e) = x /\ x.conn = e.conn
            BY <1>1, <2>4, <3>1, UpdateTypes
        <3>3. /\ y.gap = x.gap
              /\ ~ x.gap => y = [topics |-> x.topics, gap |-> FALSE]
              /\ e.topic \notin Books => ~ x.gap
            <4>1. c.barrier \in ReplayBarriers
                BY DEF Coverages
            <4>2. ~ c.barrier.gap /\ c.barrier.topics = b.topics /\ ~ b.gap
                BY <3>1
            <4> DEFINE r == c.barrier
                       topic == e.topic
                       update == e.update
            <4>0. r \in ReplayBarriers /\ ~ r.gap /\ r.topics = b.topics /\ ~ b.gap
                BY <4>1, <4>2
            <4> HIDE DEF r, topic, update
            <4>3. /\ observe(r, topic, update).gap = observe(b, topic, update).gap
                  /\ ~ observe(b, topic, update).gap =>
                       observe(r, topic, update) =
                           [topics |-> observe(b, topic, update).topics, gap |-> FALSE]
                  /\ topic \notin Books => ~ observe(b, topic, update).gap
                BY <4>0, ObserveTracks
            <4> USE DEF r, topic, update
            <4> QED BY <4>3 DEF r
        <3>4. next.barrier = y /\ ~ c.barrier.gap
            BY <2>1, <2>4, <3>1
        <3> HIDE DEF x, y
        <3>5. Gapped(b, e) <=> x.gap
            BY <2>4, <3>2, <3>3 DEF Gapped
        <3> QED BY <2>2, <3>1, <3>2, <3>3, <3>4, <3>5 DEF Tracks
    <2> QED BY <2>3, <2>4
<1>8. ASSUME held, Gapped(b, e)
      PROVE  d.failed
    <2>1. next = c /\ d = _coverage_points(next, g)
        BY <1>2, <1>4, <1>5, <1>8
    <2>2. NoGap # <<g.ns, g.conn>>
        BY DEF NoGap
    <2>3. Rejected(c, g)
        BY <1>3, <2>2 DEF Rejected
    <2> QED BY <1>3, <2>1, <2>3, PointIs
<1>9. ASSUME ~ held, Gapped(b, e)
      PROVE  d = _failure_point(Evidence(c, e), g)
    <2>1. next = Evidence(c, e) /\ d = _coverage_points(next, g) /\ next.pending_gap = <<g.ns, g.conn>>
        BY <1>2, <1>3, <1>4, <1>5, <1>7, <1>9
    <2> HIDE DEF next
    <2>2. ~ Rejected(next, g) /\ g.schema \in Failing /\ g.schema # "subscription_send"
        BY <1>3, <2>1 DEF Rejected, CONNECTION_SCHEMAS, Failing, Explained
    <2> QED BY <1>2, <1>3, <1>6, <2>1, <2>2, PointIs
<1>10. ASSUME e.schema # "raw_quarantine", ~ Gapped(b, e)
       PROVE  d = next
    <2>1. next.pending_gap = NoGap
        BY <1>2, <1>7, <1>10
    <2>2. _coverage_points(next, f) = next
        <3> HIDE DEF next
        <3> QED BY <1>2, <1>3, <1>6, <2>1, QuietPoint
    <2> QED BY <1>5, <1>10, <2>2
<1>11. e.schema = "raw_quarantine" => d = _failure_point(c, e)
    BY <1>2, <1>4, <1>5
<1>12. e.schema # "raw_quarantine" /\ ~ Gapped(b, e) =>
           /\ held => d = c
           /\ ~ held => /\ d = Evidence(c, e) /\ d.pending_gap = NoGap
                        /\ Tracks(d, _update_bybit(b, e), v, e.conn)
    BY <1>2, <1>7, <1>10
<1> HIDE DEF next
<1> QED BY <1>8, <1>9, <1>11, <1>12 DEF d, g

\* A failure keeps judgement and evidence together.
LEMMA FailureBalances ==
    ASSUME NEW c \in Coverages, NEW e, IsRecord(e), Balanced(c)
    PROVE  Balanced(_failure_point(c, e))
<1> DEFINE d == _failure_point(c, e)
<1>1. /\ \A w \in Venues \ {e.venue} : d.states[w] = c.states[w]
      /\ d.barrier = c.barrier /\ d.states[e.venue].blocked
    BY FailureIs
<1> HIDE DEF d
<1>2. ASSUME NEW w \in Venues, ~ d.states[w].blocked
      PROVE  d.states[w].active <=> Complete(d, w)
    <2>1. d.states[w] = c.states[w]
        BY <1>1, <1>2
    <2> QED BY <1>1, <1>2, <2>1 DEF Balanced, Complete
<1>3. Balanced(d)
    BY <1>2 DEF Balanced
<1> QED BY <1>3 DEF d

\* So does evidence that is weighed.
LEMMA EvidenceBalances ==
    ASSUME NEW c \in Coverages, NEW e, IsRecord(e), Balanced(c)
    PROVE  Balanced(Evidence(c, e))
<1> DEFINE d == Evidence(c, e)
<1>1. /\ \A w \in Venues \ {e.venue} : d.states[w] = c.states[w]
      /\ d.barrier = IF Observes(e) THEN observe(c.barrier, e.topic, e.update) ELSE c.barrier
      /\ d.states[e.venue].conn = c.states[e.venue].conn
      /\ Weighed(c, e, d)
    BY EvidenceIs
<1> HIDE DEF d
<1>2. ASSUME NEW w \in Venues, ~ d.states[w].blocked
      PROVE  d.states[w].active <=> Complete(d, w)
    <2>1. CASE w = e.venue
        BY <1>1, <2>1 DEF Weighed, Complete
    <2>2. CASE w # e.venue
        <3>1. d.states[w] = c.states[w] /\ (w = "bybit" => d.barrier = c.barrier)
            BY <1>1, <2>2 DEF Observes
        <3> QED BY <1>2, <3>1 DEF Balanced, Complete
    <2> QED BY <2>1, <2>2
<1>3. Balanced(d)
    BY <1>2 DEF Balanced
<1> QED BY <1>3 DEF d

\* What the sink appends concerns the venue of the record, and never undoes a failure.
LEMMA AppendTypes ==
    ASSUME NEW c \in Coverages, NEW e, IsRecord(e), NEW l, NEW b
    PROVE  LET d == _append(c, l, b, e)
           IN  /\ d \in Coverages
               /\ \A w \in Venues \ {e.venue} : d.states[w] = c.states[w]
               /\ e.venue # "bybit" => d.barrier = c.barrier
               /\ c.failed => d.failed
<1> DEFINE next == _coverage_points(c, e)
           f == [e EXCEPT !.schema = "venue_recovered", !.conn = NoConn]
           g == [e EXCEPT !.schema = "bybit_sequence_gap"]
<1>1. /\ next \in Coverages
      /\ \A w \in Venues \ {e.venue} : next.states[w] = c.states[w]
      /\ e.venue # "bybit" => next.barrier = c.barrier
      /\ c.failed => next.failed
    BY PointTypes
<1>2. ASSUME NEW h, IsRecord(h), h.venue = e.venue
      PROVE  LET d == _coverage_points(next, h)
             IN  /\ d \in Coverages
                 /\ \A w \in Venues \ {e.venue} : d.states[w] = c.states[w]
                 /\ e.venue # "bybit" => d.barrier = c.barrier
                 /\ c.failed => d.failed
    <2> HIDE DEF next
    <2>1. /\ _coverage_points(next, h) \in Coverages
          /\ \A w \in Venues \ {h.venue} : _coverage_points(next, h).states[w] = next.states[w]
          /\ h.venue # "bybit" => _coverage_points(next, h).barrier = next.barrier
          /\ next.failed => _coverage_points(next, h).failed
        BY <1>1, <1>2, PointTypes
    <2> QED BY <1>1, <1>2, <2>1
<1>3. /\ IsRecord(f) /\ f.venue = e.venue
    BY ReplayConstants DEF IsRecord
<1>4. Gapped(b, e) => IsRecord(g) /\ g.venue = e.venue
    BY DEF IsRecord, Gapped, Observes
<1>5. \/ _append(c, l, b, e) = next
      \/ _append(c, l, b, e) = _coverage_points(next, f)
      \/ Gapped(b, e) /\ _append(c, l, b, e) = _coverage_points(next, g)
    BY DEF _append
<1>6. CASE _append(c, l, b, e) = next
    BY <1>1, <1>6
<1>7. CASE _append(c, l, b, e) = _coverage_points(next, f)
    <2> HIDE DEF next, f
    <2> QED BY <1>2, <1>3, <1>7
<1>8. CASE Gapped(b, e) /\ _append(c, l, b, e) = _coverage_points(next, g)
    <2> HIDE DEF next, g
    <2> QED BY <1>2, <1>4, <1>8
<1> QED BY <1>5, <1>6, <1>7, <1>8

-----------------------------------------------------------------------------
\* Replay has at least the evidence that the sink has of v.
Matches(v) ==
    /\ ~ coverage.states[v].blocked
    /\ live[v].ready => coverage.states[v].ack
    /\ live[v].pong => coverage.states[v].pong
    /\ Tracks(coverage, barrier, v, conn[v])

\* A stained connection is blocked in the replay; on another the two match, and what
\* the sink counts as verified is active.
Linked(v) ==
    /\ live[v].verified => session[v] \in {"open", "ended"}
    /\ ~ coverage.failed =>
          /\ session[v] = "open" /\ stained[v] => coverage.states[v].blocked
          /\ session[v] = "open" /\ ~ stained[v] => Matches(v)
          /\ live[v].verified /\ ~ stained[v] => coverage.states[v].active

\* The barrier of the sink is of the connection that replay has, or empty.
BarrierLinked ==
    \/ barrier.conn = coverage.states["bybit"].conn
    \/ barrier.topics = {} /\ ~ barrier.gap

\* Replay fails on a gap of a stained Bybit connection only, and that ends the session.
Replays ==
    /\ ~ coverage.failed => /\ coverage.pending_gap = NoGap
                            /\ Balanced(coverage)
                            /\ BarrierLinked
    /\ coverage.failed => stop /\ session["bybit"] = "ended" /\ stained["bybit"]

\* The inductive invariant.
LinkInv == ReplayInv /\ LinkTypes /\ Replays /\ \A v \in Venues : Linked(v)

\* A step of v that leaves the other venue alone.
LEMMA LinkVenueStep ==
    ASSUME LinkInv, ReplayInv', LinkTypes', NEW v \in Venues,
           \A w \in Venues \ {v} : /\ session'[w] = session[w] /\ conn'[w] = conn[w]
                                   /\ live'[w] = live[w] /\ stained'[w] = stained[w]
                                   /\ coverage'.states[w] = coverage.states[w],
           v # "bybit" => barrier' = barrier /\ coverage'.barrier = coverage.barrier,
           stop => stop', coverage.failed => coverage'.failed /\ v # "bybit",
           coverage'.failed /\ ~ coverage.failed =>
               stop' /\ v = "bybit" /\ session'[v] = "ended" /\ stained'[v],
           ~ coverage'.failed => /\ coverage'.pending_gap = NoGap
                                 /\ Balanced(coverage')
                                 /\ v = "bybit" => BarrierLinked',
           Linked(v)'
    PROVE  LinkInv'
<1>1. ASSUME NEW w \in Venues \ {v}
      PROVE  Linked(w)'
    <2>1. Linked(w)
        BY DEF LinkInv
    <2>2. /\ session'[w] = session[w] /\ conn'[w] = conn[w]
          /\ live'[w] = live[w] /\ stained'[w] = stained[w]
          /\ coverage'.states[w] = coverage.states[w]
          /\ w = "bybit" => barrier' = barrier /\ coverage'.barrier = coverage.barrier
        BY DEF Venues
    <2>3. Tracks(coverage', barrier', w, conn'[w]) <=> Tracks(coverage, barrier, w, conn[w])
        BY <2>2 DEF Tracks
    <2>4. Matches(w)' <=> Matches(w)
        BY <2>2, <2>3 DEF Matches
    <2>5. ~ coverage'.failed => ~ coverage.failed
        OBVIOUS
    <2> QED BY <2>1, <2>2, <2>4, <2>5 DEF Linked
<1>2. Replays'
    <2>1. v # "bybit" => /\ session'["bybit"] = session["bybit"] /\ stained'["bybit"] = stained["bybit"]
                         /\ coverage'.states["bybit"] = coverage.states["bybit"]
        BY DEF Venues
    <2>2. ~ coverage'.failed => BarrierLinked'
        BY <2>1 DEF LinkInv, Replays, BarrierLinked
    <2>3. coverage'.failed => stop' /\ session'["bybit"] = "ended" /\ stained'["bybit"]
        BY <2>1 DEF LinkInv, Replays
    <2>4. Balanced(coverage)' = Balanced(coverage')
        BY DEF Balanced, Complete, ready
    <2> QED BY <2>2, <2>3, <2>4 DEF Replays
<1> QED BY <1>1, <1>2 DEF LinkInv

\* A record of an open connection: the sink and replay take it alike.
LEMMA LinkOpen ==
    ASSUME LinkInv, ReplayInv', LinkTypes', NEW v \in Venues, session[v] = "open",
           NEW e, e.venue = v, e.conn = conn[v], e.ns = clock, e.ready \in BOOLEAN,
           e.schema \in Listened, Emits(e), conn' = conn,
           session' = [session EXCEPT ![v] = IF stop' THEN "ended" ELSE "open"],
           stained' = IF e.schema = "raw_quarantine" THEN [stained EXCEPT ![v] = TRUE] ELSE stained
    PROVE  LinkInv'
<1> DEFINE c == coverage
           d == coverage'
<1>1. /\ EvidenceTypes /\ c \in Coverages /\ SessionInv(v) /\ Linked(v) /\ Replays
      /\ live[v] \in LiveStates /\ barrier \in Barriers /\ stop \in BOOLEAN
      /\ conn[v] \in Connections /\ stained \in [Venues -> BOOLEAN]
      /\ session \in [Venues -> {"connecting", "open", "backoff", "ended"}]
    BY DEF LinkInv, ReplayInv, EvidenceTypes, LinkTypes
<1>2. IsRecord(e) /\ e.conn \in Numbers
    BY <1>1 DEF IsRecord, Numbers, LinkInv, ReplayInv
<1>3. /\ live'[v] = record(live[v], barrier, e)
      /\ \A w \in Venues : w # v => live'[w] = live[w]
      /\ barrier' = IF v = "bybit" THEN _update_bybit(barrier, e) ELSE barrier
      /\ stop' = (stop \/ Gapped(barrier, e))
    BY <1>1, <1>2, EmitsIs DEF Listened
<1>4. d = _append(c, live[v], barrier, e)
    BY EmitsAppends
<1>5. /\ \A w \in Venues \ {v} : d.states[w] = c.states[w]
      /\ v # "bybit" => d.barrier = c.barrier
      /\ c.failed => d.failed
    BY <1>1, <1>2, <1>4, AppendTypes
<1>6. /\ session'[v] = IF stop' THEN "ended" ELSE "open"
      /\ \A w \in Venues \ {v} : session'[w] = session[w] /\ stained'[w] = stained[w]
      /\ stained'[v] = (stained[v] \/ e.schema = "raw_quarantine")
    BY <1>1
<1>7. /\ v = "bybit" => barrier'.conn = conn[v]
      /\ live'[v].ready = Ready(live[v], e) /\ live'[v].pong = Pong(live[v], e)
      /\ live'[v].verified = (Kept(live[v], barrier, e) \/ Verifies(live[v], barrier, e))
    <2>1. e.schema # "venue_down"
        BY DEF Listened
    <2>2. record(live[v], barrier, e) =
              [conn |-> e.conn, ready |-> Ready(live[v], e), pong |-> Pong(live[v], e),
               down |-> live[v].down /\ ~ Acked(e),
               verified |-> Kept(live[v], barrier, e) \/ Verifies(live[v], barrier, e)]
        BY <2>1 DEF record
    <2>3. v = "bybit" => barrier'.conn = conn[v]
        BY <1>1, <1>2, <1>3, UpdateTypes
    <2> QED BY <1>3, <2>2, <2>3
<1>8. session'[v] \in {"open", "ended"}
    BY <1>6
<1>9. c.failed => v # "bybit"
    BY <1>1 DEF Replays
<1>10. ASSUME ~ c.failed
       PROVE  /\ c.pending_gap = NoGap /\ Balanced(c) /\ e.conn = c.states[v].conn
              /\ c.states[v].blocked <=> stained[v]
              /\ ~ stained[v] => Matches(v) /\ Tracks(c, barrier, v, e.conn)
    BY <1>1, <1>10 DEF Replays, SessionInv, Linked, Matches
<1>11. ASSUME ~ c.failed
       PROVE  /\ stained[v] /\ Gapped(barrier, e) => d.failed
              /\ e.schema = "raw_quarantine" => d = _failure_point(c, e)
              /\ e.schema # "raw_quarantine" /\ ~ Gapped(barrier, e) =>
                    /\ stained[v] => d = c
                    /\ ~ stained[v] => /\ d = Evidence(c, e) /\ d.pending_gap = NoGap
                                       /\ Tracks(d, _update_bybit(barrier, e), v, e.conn)
              /\ ~ stained[v] /\ Gapped(barrier, e) =>
                    d = _failure_point(Evidence(c, e), [e EXCEPT !.schema = "bybit_sequence_gap"])
    BY <1>1, <1>2, <1>4, <1>10, <1>11, ListenAppends
<1> DEFINE Done == /\ d.failed /\ ~ c.failed =>
                          stop' /\ v = "bybit" /\ session'[v] = "ended" /\ stained'[v]
                   /\ ~ d.failed => /\ d.pending_gap = NoGap
                                    /\ Balanced(d)
                                    /\ v = "bybit" => BarrierLinked'
                   /\ Linked(v)'
<1>12. ASSUME c.failed
       PROVE  Done
    BY <1>5, <1>8, <1>12 DEF Linked
<1>13. ASSUME ~ c.failed, ~ Gapped(barrier, e), stained[v] \/ e.schema = "raw_quarantine"
       PROVE  Done
    <2>1. d = c \/ d = _failure_point(c, e)
        BY <1>11, <1>13
    <2>2. /\ d.failed = c.failed /\ d.pending_gap = NoGap
          /\ d.states[v].conn = c.states[v].conn
          /\ Balanced(d)
        BY <1>1, <1>2, <1>10, <1>13, <2>1, FailureIs, FailureBalances
    <2>3. d.states[v].blocked
        BY <1>1, <1>2, <1>10, <1>11, <1>13, <2>1, FailureIs
    <2>4. v = "bybit" => BarrierLinked'
        BY <1>7, <1>10, <1>13, <2>2 DEF BarrierLinked
    <2>5. stained'[v]
        BY <1>6, <1>13
    <2>6. Linked(v)'
        BY <1>8, <2>3, <2>5 DEF Linked
    <2> QED BY <1>13, <2>2, <2>4, <2>6
<1>14. ASSUME ~ c.failed, Gapped(barrier, e), stained[v]
       PROVE  Done
    <2>1. d.failed /\ stop' /\ v = "bybit" /\ stained'[v] /\ session'[v] = "ended"
        BY <1>3, <1>6, <1>11, <1>14 DEF Gapped, Observes
    <2> QED BY <1>8, <2>1 DEF Linked
<1>15. ASSUME ~ c.failed, Gapped(barrier, e), ~ stained[v]
       PROVE  Done
    <2> DEFINE g == [e EXCEPT !.schema = "bybit_sequence_gap"]
               next == Evidence(c, e)
    <2>1. IsRecord(g) /\ g.venue = v /\ v = "bybit"
        BY <1>2, <1>15 DEF IsRecord, Gapped, Observes
    <2>2. /\ next \in Coverages /\ next.failed = c.failed
          /\ next.states[v].conn = c.states[v].conn /\ Balanced(next)
        BY <1>1, <1>2, <1>10, <1>15, EvidenceIs, EvidenceBalances
    <2>3. d = _failure_point(next, g)
        BY <1>11, <1>15
    <2> HIDE DEF next, g
    <2>4. /\ d.failed = next.failed /\ d.pending_gap = NoGap
          /\ d.states[v].conn = next.states[v].conn /\ Balanced(d)
        BY <2>1, <2>2, <2>3, FailureIs, FailureBalances
    <2>5. BarrierLinked'
        BY <1>7, <1>10, <1>15, <2>1, <2>2, <2>4 DEF BarrierLinked
    <2>6. stop' /\ session'[v] = "ended"
        BY <1>3, <1>6, <1>15
    <2>7. ~ live'[v].verified
        <3>1. ~ Kept(live[v], barrier, e)
            BY <1>15 DEF Kept
        <3>2. ~ Verifies(live[v], barrier, e)
            BY <1>15, <2>1 DEF Gapped, Verifies, ready
        <3> QED BY <1>7, <3>1, <3>2
    <2>8. Linked(v)'
        BY <2>6, <2>7 DEF Linked
    <2> QED BY <1>15, <2>2, <2>4, <2>5, <2>8
<1>16. ASSUME ~ c.failed, ~ Gapped(barrier, e), ~ stained[v], e.schema # "raw_quarantine"
       PROVE  Done
    <2>1. /\ d = Evidence(c, e) /\ d.pending_gap = NoGap
          /\ Tracks(d, _update_bybit(barrier, e), v, e.conn)
        BY <1>11, <1>16
    <2>2. /\ d.failed = c.failed /\ Balanced(d)
          /\ d.barrier = IF Observes(e) THEN observe(c.barrier, e.topic, e.update) ELSE c.barrier
          /\ d.states[v].blocked = c.states[v].blocked
          /\ d.states[v].conn = c.states[v].conn
          /\ Weighed(c, e, d)
        BY <1>1, <1>2, <1>10, <1>16, <2>1, EvidenceIs, EvidenceBalances
    <2>3. v = "bybit" => BarrierLinked'
        BY <1>7, <1>10, <1>16, <2>2 DEF BarrierLinked
    <2>4. /\ ~ d.states[v].blocked /\ ~ stained'[v]
          /\ d.states[v].ack <=> c.states[v].ack \/ Acked(e)
          /\ d.states[v].pong <=> c.states[v].pong \/ e.schema = "pong"
        BY <1>6, <1>10, <1>16, <2>2 DEF Weighed, Acked
    <2>5. /\ live[v].ready => c.states[v].ack
          /\ live[v].pong => c.states[v].pong
          /\ live[v].verified => c.states[v].active
        BY <1>1, <1>10, <1>16 DEF Matches, Linked
    <2>6. /\ Ready(live[v], e) => d.states[v].ack
          /\ Pong(live[v], e) => d.states[v].pong
        BY <2>4, <2>5 DEF Ready, Pong
    <2>7. Matches(v)'
        <3>1. Tracks(coverage', barrier', v, conn'[v])
            BY <1>3, <2>1 DEF Tracks
        <3> QED BY <1>7, <2>4, <2>6, <3>1 DEF Matches
    <2>8. v = "bybit" /\ ready(c.barrier) => ready(d.barrier)
        <3>1. CASE ~ Observes(e)
            BY <2>2, <3>1
        <3>2. CASE Observes(e) /\ v = "bybit"
            <4>1. /\ barrier.topics = c.barrier.topics /\ ~ barrier.gap /\ barrier.conn = e.conn
                BY <1>10, <1>16, <3>2 DEF Tracks
            <4>2. _update_bybit(barrier, e) = observe(barrier, e.topic, e.update)
                BY <1>1, <1>2, <3>2, <4>1, UpdateTypes
            <4>3. d.barrier = [topics |-> observe(barrier, e.topic, e.update).topics, gap |-> FALSE]
                BY <2>1, <3>2, <4>2 DEF Tracks
            <4>4. ready(c.barrier) => barrier.topics = Books
                BY <4>1 DEF ready
            <4>5. barrier.topics = Books => observe(barrier, e.topic, e.update).topics = Books
                BY <1>1 DEF observe, Barriers
            <4> QED BY <4>3, <4>4, <4>5 DEF ready
        <3> QED BY <3>1, <3>2
    <2>9. live'[v].verified => d.states[v].active
        <3>1. c.states[v].active => Complete(c, v)
            BY <1>10, <1>16 DEF Balanced
        <3>2. c.states[v].active => Complete(d, v)
            BY <2>2, <2>4, <2>8, <3>1 DEF Complete
        <3>3. Verifies(live[v], barrier, e) => Complete(d, v)
            <4>1. c.states[v].conn # NoConn
                BY <1>1, <1>10, <1>16, ConstantTypes
            <4>2. v = "bybit" /\ ready(_update_bybit(barrier, e)) => ready(d.barrier)
                BY <2>1 DEF Tracks, ready
            <4> QED BY <2>2, <2>6, <4>1, <4>2 DEF Verifies, Complete
        <3>4. Complete(d, v) => d.states[v].active
            BY <2>2, <2>4 DEF Balanced
        <3> QED BY <1>7, <2>5, <3>2, <3>3, <3>4 DEF Kept
    <2>10. Linked(v)'
        BY <1>8, <2>4, <2>7, <2>9 DEF Linked
    <2> QED BY <1>16, <2>1, <2>2, <2>3, <2>10
<1>17. Done
    BY <1>12, <1>13, <1>14, <1>15, <1>16
<1> QED BY <1>3, <1>5, <1>6, <1>9, <1>17, LinkVenueStep

\* An open session gives one record to the sink.
Listens(v, e) ==
    /\ session[v] = "open" /\ (alive[v] \/ e.schema = "ping_sent")
    /\ e.venue = v /\ e.conn = conn[v] /\ e.ns = clock /\ e.ready \in BOOLEAN
    /\ e.schema \in Listened
    /\ Emits(e)
    /\ session' = [session EXCEPT ![v] = IF stop' THEN "ended" ELSE "open"]
    /\ stained' = IF e.schema = "raw_quarantine" THEN [stained EXCEPT ![v] = TRUE] ELSE stained
    /\ conn' = conn /\ clock' = clock /\ alive' = alive /\ dark' = dark

\* Pings, pongs, ACKs, market data and frames nobody can read.
LEMMA ListensIs ==
    ASSUME EvidenceTypes, NEW v \in Venues,
           \/ Ping(v) \/ HandlePong(v) \/ Quarantine(v)
           \/ \E s \in Streams[v] : Ack(v, s) \/ \E update \in Updates(s) : Frame(v, s, update)
    PROVE  \E e : Listens(v, e)
<1>1. /\ session \in [Venues -> {"connecting", "open", "backoff", "ended"}]
      /\ stop \in BOOLEAN
    BY DEF EvidenceTypes
<1>2. ASSUME NEW schema
      PROVE  /\ Rec(v, schema).venue = v /\ Rec(v, schema).conn = conn[v]
             /\ Rec(v, schema).ns = clock /\ Rec(v, schema).ready \in BOOLEAN
             /\ Rec(v, schema).schema = schema
    BY DEF Rec
<1>3. CASE Ping(v)
    <2> DEFINE e == Rec(v, "ping_sent")
    <2>1. /\ e.venue = v /\ e.conn = conn[v] /\ e.ns = clock /\ e.ready \in BOOLEAN
          /\ e.schema = "ping_sent" /\ e.schema \in Listened
        BY <1>2 DEF Listened
    <2>2. /\ Emits(e) /\ session[v] = "open" /\ ~ stop
          /\ UNCHANGED <<session, conn, clock, alive, dark, stained>>
        BY <1>3 DEF Ping
    <2> HIDE DEF e
    <2>3. stop' = (stop \/ Gapped(barrier, e))
        BY <2>2 DEF Emits, SinkIs, _emit, Sink
    <2>4. session' = [session EXCEPT ![v] = IF stop' THEN "ended" ELSE "open"]
        BY <1>1, <2>1, <2>2, <2>3 DEF Gapped, Observes
    <2> QED BY <2>1, <2>2, <2>4 DEF Listens
<1>4. CASE HandlePong(v)
    <2> DEFINE e == Rec(v, "pong")
    <2>1. /\ e.venue = v /\ e.conn = conn[v] /\ e.ns = clock /\ e.ready \in BOOLEAN
          /\ e.schema = "pong" /\ e.schema \in Listened
        BY <1>2 DEF Listened
    <2>2. /\ Emits(e) /\ session[v] = "open" /\ alive[v]
          /\ session' = [session EXCEPT ![v] = IF stop' THEN "ended" ELSE "open"]
          /\ UNCHANGED <<conn, clock, alive, dark, stained>>
        BY <1>4 DEF HandlePong, Listening, Moves
    <2> HIDE DEF e
    <2> QED BY <2>1, <2>2 DEF Listens
<1>5. CASE Quarantine(v)
    <2> DEFINE e == Rec(v, "raw_quarantine")
    <2>1. /\ e.venue = v /\ e.conn = conn[v] /\ e.ns = clock /\ e.ready \in BOOLEAN
          /\ e.schema = "raw_quarantine" /\ e.schema \in Listened
        BY <1>2 DEF Listened
    <2>2. /\ Emits(e) /\ session[v] = "open" /\ alive[v]
          /\ session' = [session EXCEPT ![v] = IF stop' THEN "ended" ELSE "open"]
          /\ stained' = [stained EXCEPT ![v] = TRUE]
          /\ UNCHANGED <<conn, clock, alive, dark>>
        BY <1>5 DEF Quarantine, Listening, Moves
    <2> HIDE DEF e
    <2> QED BY <2>1, <2>2 DEF Listens
<1>6. ASSUME NEW s \in Streams[v], Ack(v, s)
      PROVE  \E e : Listens(v, e)
    <2> DEFINE e == [Rec(v, "subscription_ack") EXCEPT !.ready = pending[v] \subseteq {s}]
    <2>1. /\ e.venue = v /\ e.conn = conn[v] /\ e.ns = clock /\ e.ready \in BOOLEAN
          /\ e.schema = "subscription_ack" /\ e.schema \in Listened
        BY DEF Rec, Listened
    <2>2. /\ Emits(e) /\ session[v] = "open" /\ alive[v]
          /\ session' = [session EXCEPT ![v] = IF stop' THEN "ended" ELSE "open"]
          /\ UNCHANGED <<conn, clock, alive, dark, stained>>
        BY <1>6 DEF Ack, Listening, Moves
    <2> HIDE DEF e
    <2> QED BY <2>1, <2>2 DEF Listens
<1>7. ASSUME NEW s \in Streams[v], NEW update \in Updates(s), Frame(v, s, update)
      PROVE  \E e : Listens(v, e)
    <2> DEFINE schema == IF pending[v] # {} THEN "pre_ack_frame" ELSE "raw_frame"
               e == [Rec(v, schema) EXCEPT !.topic = s, !.update = update]
    <2>1. /\ e.venue = v /\ e.conn = conn[v] /\ e.ns = clock /\ e.ready \in BOOLEAN
          /\ e.schema # "raw_quarantine" /\ e.schema \in Listened
        BY DEF Rec, Listened
    <2>2. /\ Emits(e) /\ session[v] = "open" /\ alive[v]
          /\ session' = [session EXCEPT ![v] = IF stop' THEN "ended" ELSE "open"]
          /\ UNCHANGED <<conn, clock, alive, dark, stained>>
        BY <1>7 DEF Frame, Listening, Moves
    <2> HIDE DEF e
    <2> QED BY <2>1, <2>2 DEF Listens
<1> QED BY <1>3, <1>4, <1>5, <1>6, <1>7

\* What the records of a connection that starts do to replay.
LEMMA ConnectAppends ==
    ASSUME ReplayInv, Replays, NEW v \in Venues, Connect(v), ~ coverage.failed
    PROVE  /\ ~ coverage'.failed /\ coverage'.pending_gap = NoGap
           /\ coverage'.pairing = coverage.pairing
           /\ Balanced(coverage') /\ coverage'.states[v].conn = conn[v]
           /\ coverage.states[v].conn = conn[v] => coverage'.states[v].blocked
           /\ coverage.states[v].conn # conn[v] =>
                 /\ ~ coverage'.states[v].blocked
                 /\ v = "bybit" => coverage'.barrier = NoBarrier
<1> DEFINE e == Rec(v, "subscription_send")
           f == Rec(v, "ping_sent")
           c == coverage
           d == _coverage_points(c, e)
<1>1. /\ c \in Coverages /\ SessionInv(v) /\ c.pending_gap = NoGap /\ Balanced(c)
      /\ conn[v] \in Connections /\ clock \in Times
    BY DEF ReplayInv, EvidenceTypes, Replays
<1>2. /\ IsRecord(e) /\ e.venue = v /\ e.schema = "subscription_send" /\ e.conn = conn[v]
      /\ IsRecord(f) /\ f.venue = v /\ f.schema = "ping_sent" /\ f.conn = conn[v]
      /\ conn[v] # NoConn
    BY <1>1, ReplayConstants DEF Rec, IsRecord, Numbers
<1>3. c.states[v].blocked \/ c.states[v].conn = NoConn
    BY <1>1 DEF SessionInv, Connect
<1> HIDE DEF e, f
<1>4. /\ ~ d.failed /\ d.pending_gap = NoGap /\ d.pairing = c.pairing
      /\ d.states[v].conn = conn[v]
      /\ c.states[v].conn = conn[v] => d.states[v].blocked
      /\ c.states[v].conn # conn[v] => /\ ~ d.states[v].blocked
                                       /\ v = "bybit" => d.barrier = NoBarrier
    <2>1. CASE c.states[v].conn = conn[v]
        <3>1. d = c
            BY <1>1, <1>2, <1>3, <2>1, StartIs
        <3> HIDE DEF d
        <3> QED BY <1>1, <1>2, <1>3, <2>1, <3>1
    <2>2. CASE c.states[v].conn # conn[v]
        BY <1>1, <1>2, <2>2, StartIs
    <2> QED BY <2>1, <2>2
<1>5. d \in Coverages /\ Balanced(d)
    BY <1>1, <1>2, <1>4, PointTypes, PointBalances
<1>6. _coverage_points(d, f) = d
    <2> HIDE DEF d
    <2> QED BY <1>2, <1>4, <1>5, QuietPoint
<1>7. coverage' = d
    <2>1. ~ Acked(e) /\ ~ Observes(e) /\ ~ Acked(f) /\ ~ Observes(f)
        BY <1>2 DEF Acked, Observes
    <2>2. CASE stop
        <3>1. Emits(e)
            BY <2>2 DEF Connect, e
        <3> QED BY <2>1, <3>1, EmitsAppends, AppendIsPoint
    <2>3. CASE ~ stop
        <3>1. EmitsBoth(e, f)
            BY <2>3 DEF Connect, e, f
        <3>2. coverage' = _coverage_points(d, f)
            BY <1>2, <2>1, <3>1, EmitsBothAppends, AppendIsPoint
        <3> QED BY <1>6, <3>2
    <2> QED BY <2>2, <2>3
<1> HIDE DEF d
<1> QED BY <1>4, <1>5, <1>7

\* What the records of a failure do to replay.
LEMMA FailAppends ==
    ASSUME ReplayInv, Replays, NEW v \in Venues, Fail(v), ~ coverage.failed
    PROVE  \E e, f :
              LET c == _failure_point(coverage, e)
              IN  /\ IsRecord(e) /\ e.venue = v /\ e.ns = clock /\ e.schema \in Explained
                  /\ IsRecord(f) /\ f.venue = v /\ f.ns = clock /\ f.schema \in Explained
                  /\ coverage' = c \/ coverage' = _failure_point(c, f)
<1> DEFINE e == Rec(v, "liveness_failure")
           f == [Rec(v, "venue_down") EXCEPT !.conn = NoConn]
           c == _failure_point(coverage, e)
<1>1. /\ coverage \in Coverages /\ coverage.pending_gap = NoGap
      /\ conn[v] \in Connections /\ clock \in Times
    BY DEF ReplayInv, EvidenceTypes, Replays
<1>2. /\ IsRecord(e) /\ e.venue = v /\ e.schema = "liveness_failure" /\ e.ns = clock
      /\ IsRecord(f) /\ f.venue = v /\ f.schema = "venue_down" /\ f.ns = clock
    BY <1>1, ReplayConstants DEF Rec, IsRecord, Numbers
<1> DEFINE again == stop \/ Reconnects(v)
<1>3. IF again THEN Emits(e) ELSE EmitsBoth(e, f)
    BY DEF Fail
<1> HIDE DEF e, f, again
<1>4. /\ ~ Acked(e) /\ ~ Observes(e) /\ ~ Acked(f) /\ ~ Observes(f)
      /\ e.schema \in Explained /\ f.schema \in Explained
      /\ e.schema \in Failing /\ f.schema \in Failing
      /\ e.schema # "subscription_send" /\ f.schema # "subscription_send"
    BY <1>2 DEF Acked, Observes, Failing, Explained
<1>5. _coverage_points(coverage, e) = c
    <2>1. ~ Rejected(coverage, e)
        BY <1>1, <1>2 DEF Rejected, CONNECTION_SCHEMAS
    <2> QED BY <1>1, <1>2, <1>4, <2>1, PointIs
<1>6. c \in Coverages /\ ~ c.failed /\ c.pending_gap = NoGap
    BY <1>1, <1>2, FailureIs
<1>7. _coverage_points(c, f) = _failure_point(c, f)
    <2> HIDE DEF c
    <2>1. ~ Rejected(c, f)
        BY <1>2, <1>6 DEF Rejected, CONNECTION_SCHEMAS
    <2> QED BY <1>2, <1>4, <1>6, <2>1, PointIs
<1>8. coverage' = c \/ coverage' = _failure_point(c, f)
    <2>1. CASE again
        <3>1. coverage' = _coverage_points(coverage, e)
            BY <1>2, <1>3, <1>4, <2>1, EmitsAppends, AppendIsPoint
        <3> QED BY <1>5, <3>1
    <2>2. CASE ~ again
        <3>1. coverage' = _coverage_points(_coverage_points(coverage, e), f)
            BY <1>2, <1>3, <1>4, <2>2, EmitsBothAppends, AppendIsPoint
        <3> QED BY <1>5, <1>7, <3>1
    <2> QED BY <2>1, <2>2
<1> HIDE DEF c
<1>9. /\ IsRecord(e) /\ e.venue = v /\ e.ns = clock /\ e.schema \in Explained
      /\ IsRecord(f) /\ f.venue = v /\ f.ns = clock /\ f.schema \in Explained
    BY <1>2, <1>4
<1> QED BY <1>8, <1>9 DEF c

\* What a record that is no frame leaves of the barrier.
LEMMA UpdateStarts ==
    ASSUME NEW b, NEW e, ~ Observes(e), e.conn # b.conn
    PROVE  _update_bybit(b, e) = [conn |-> e.conn, topics |-> {}, gap |-> FALSE]
BY DEF _update_bybit

\* A connection that starts has no evidence in the sink and in replay.
LEMMA LinkConnect ==
    ASSUME LinkInv, ReplayInv', LinkTypes', NEW v \in Venues, Connect(v)
    PROVE  LinkInv'
<1> DEFINE e == Rec(v, "subscription_send")
           f == Rec(v, "ping_sent")
           b == IF v = "bybit" THEN _update_bybit(barrier, e) ELSE barrier
           l == record(live[v], barrier, e)
           c == coverage
           d == coverage'
<1>1. /\ EvidenceTypes /\ c \in Coverages /\ SessionInv(v) /\ Linked(v) /\ Replays /\ ReplayInv
      /\ live[v] \in LiveStates /\ barrier \in Barriers /\ stop \in BOOLEAN
      /\ conn[v] \in Connections /\ stained \in [Venues -> BOOLEAN] /\ clock \in Times
      /\ session \in [Venues -> {"connecting", "open", "backoff", "ended"}]
    BY DEF LinkInv, ReplayInv, EvidenceTypes, LinkTypes
<1>2. /\ e.venue = v /\ e.schema = "subscription_send" /\ e.conn = conn[v] /\ e.ready = FALSE
      /\ f.venue = v /\ f.schema = "ping_sent" /\ f.conn = conn[v] /\ f.ready = FALSE
      /\ e.conn \in Numbers /\ f.conn \in Numbers /\ IsRecord(e) /\ IsRecord(f)
    BY <1>1, ReplayConstants DEF Rec, IsRecord, Numbers
<1>3. /\ session[v] = "connecting"
      /\ session' = [session EXCEPT ![v] = IF stop' THEN "ended" ELSE "open"]
      /\ stained' = [stained EXCEPT ![v] = coverage.states[v].conn = conn[v]]
      /\ conn' = conn
      /\ IF stop THEN Emits(e) ELSE EmitsBoth(e, f)
    BY DEF Connect, Moves
<1> HIDE DEF e, f
<1>4. ~ Acked(e) /\ ~ Observes(e) /\ ~ Acked(f) /\ ~ Observes(f)
    BY <1>2 DEF Acked, Observes
<1>5. /\ b \in Barriers
      /\ v = "bybit" => /\ b.conn = conn[v]
                        /\ barrier.conn # conn[v] => b.topics = {} /\ ~ b.gap
                        /\ barrier.conn = conn[v] => b = barrier
    BY <1>1, <1>2, <1>4, UpdateTypes, UpdateStarts
<1>6. l \in LiveStates /\ ~ l.ready /\ ~ l.verified
    <2>1. l = [conn |-> e.conn, ready |-> Ready(live[v], e), pong |-> Pong(live[v], e),
               down |-> live[v].down /\ ~ Acked(e),
               verified |-> Kept(live[v], barrier, e) \/ Verifies(live[v], barrier, e)]
        BY <1>2 DEF record
    <2>2. ~ Ready(live[v], e)
        BY <1>2, <1>4 DEF Ready
    <2>3. ~ live[v].verified
        BY <1>1, <1>3 DEF Linked
    <2>4. ~ Kept(live[v], barrier, e) /\ ~ Verifies(live[v], barrier, e)
        BY <1>2, <2>3, VerifiesNot DEF Kept
    <2>5. l \in LiveStates
        BY <1>1, <1>2, RecordTypes
    <2> HIDE DEF l
    <2> QED BY <2>1, <2>2, <2>4, <2>5
<1>7. /\ \A w \in Venues : w # v => live'[w] = live[w]
      /\ ~ live'[v].verified
      /\ ~ stop => ~ live'[v].ready /\ ~ live'[v].pong
      /\ barrier' = b /\ (stop => stop')
    <2>1. CASE stop
        <3>1. /\ live'[v] = l /\ barrier' = b /\ stop' = (stop \/ Gapped(barrier, e))
              /\ \A w \in Venues : w # v => live'[w] = live[w]
            BY <1>1, <1>2, <1>3, <2>1, EmitsIs
        <3> HIDE DEF l, b
        <3> QED BY <1>6, <2>1, <3>1
    <2>2. CASE ~ stop
        <3>1. EmitsBoth(e, f) /\ b = IF e.venue = "bybit" /\ e.schema # "venue_down"
                                     THEN _update_bybit(barrier, e) ELSE barrier
            BY <1>2, <1>3, <2>2
        <3>0. /\ e.venue \in Venues /\ e.ready \in BOOLEAN
              /\ f.venue = e.venue /\ f.ready \in BOOLEAN
            BY <1>2
        <3> HIDE DEF b
        <3>2. /\ \A w \in Venues : w # e.venue => live'[w] = live[w]
              /\ live'[e.venue] = record(record(live[e.venue], barrier, e), b, f)
              /\ barrier' = IF e.venue = "bybit" /\ f.schema # "venue_down"
                            THEN _update_bybit(b, f) ELSE b
            BY <1>1, <1>2, <3>0, <3>1, EmitsBothIs
        <3>3. live'[v] = record(l, b, f)
            BY <1>2, <3>2
        <3> HIDE DEF l
        <3>4. live'[v] = [conn |-> f.conn, ready |-> Ready(l, f), pong |-> Pong(l, f),
                          down |-> l.down /\ ~ Acked(f),
                          verified |-> Kept(l, b, f) \/ Verifies(l, b, f)]
            BY <1>2, <3>3 DEF record
        <3>5. ~ Ready(l, f) /\ ~ Pong(l, f) /\ ~ Kept(l, b, f) /\ ~ Verifies(l, b, f)
            BY <1>2, <1>4, <1>6, VerifiesNot DEF Ready, Pong, Kept
        <3>6. barrier' = b
            BY <1>2, <1>4, <1>5, <3>2, UpdateTypes
        <3>7. ~ live'[v].ready /\ ~ live'[v].pong /\ ~ live'[v].verified
            <4>1. /\ live'[v].ready = Ready(l, f) /\ live'[v].pong = Pong(l, f)
                  /\ live'[v].verified = (Kept(l, b, f) \/ Verifies(l, b, f))
                BY <3>4
            <4> QED BY <3>5, <4>1
        <3>8. \A w \in Venues : w # v => live'[w] = live[w]
            BY <1>2, <3>2
        <3> QED BY <2>2, <3>6, <3>7, <3>8
    <2> QED BY <2>1, <2>2
<1> HIDE DEF l, b
<1>8. /\ session'[v] = IF stop' THEN "ended" ELSE "open"
      /\ stained'[v] = (c.states[v].conn = conn[v])
      /\ \A w \in Venues \ {v} : session'[w] = session[w] /\ stained'[w] = stained[w]
    BY <1>1, <1>3
<1>9. /\ d \in Coverages
      /\ \A w \in Venues \ {v} : d.states[w] = c.states[w]
      /\ v # "bybit" => d.barrier = c.barrier
      /\ c.failed => d.failed
    <2>1. /\ _coverage_points(c, e) \in Coverages
          /\ \A w \in Venues \ {v} : _coverage_points(c, e).states[w] = c.states[w]
          /\ v # "bybit" => _coverage_points(c, e).barrier = c.barrier
          /\ c.failed => _coverage_points(c, e).failed
        BY <1>1, <1>2, PointTypes
    <2>2. CASE stop
        <3>1. d = _coverage_points(c, e)
            BY <1>2, <1>3, <1>4, <2>2, EmitsAppends, AppendIsPoint
        <3> QED BY <2>1, <3>1
    <2>3. CASE ~ stop
        <3> DEFINE n == _coverage_points(c, e)
        <3>1. d = _coverage_points(n, f)
            BY <1>2, <1>3, <1>4, <2>3, EmitsBothAppends, AppendIsPoint
        <3>2. /\ n \in Coverages
              /\ \A w \in Venues \ {v} : n.states[w] = c.states[w]
              /\ v # "bybit" => n.barrier = c.barrier
              /\ c.failed => n.failed
            BY <2>1
        <3> HIDE DEF n
        <3>3. /\ _coverage_points(n, f) \in Coverages
              /\ \A w \in Venues \ {v} : _coverage_points(n, f).states[w] = n.states[w]
              /\ v # "bybit" => _coverage_points(n, f).barrier = n.barrier
              /\ n.failed => _coverage_points(n, f).failed
            BY <1>2, <3>2, PointTypes
        <3> QED BY <3>1, <3>2, <3>3
    <2> QED BY <2>2, <2>3
<1>10. c.failed => v # "bybit"
    BY <1>1, <1>3 DEF Replays
<1>11. ASSUME ~ c.failed
       PROVE  /\ ~ d.failed /\ d.pending_gap = NoGap
              /\ Balanced(d) /\ d.states[v].conn = conn[v]
              /\ stained'[v] => d.states[v].blocked
              /\ ~ stained'[v] => /\ ~ d.states[v].blocked
                                  /\ v = "bybit" => d.barrier = NoBarrier
    BY <1>1, <1>8, <1>11, ConnectAppends
<1>12. Linked(v)'
    <2>1. ASSUME ~ d.failed, session'[v] = "open", ~ stained'[v]
          PROVE  Matches(v)'
        <3>1. ~ c.failed /\ ~ stop /\ c.states[v].conn # conn[v]
            BY <1>7, <1>8, <1>9, <2>1
        <3>2. ASSUME v = "bybit"
              PROVE  b.topics = {} /\ ~ b.gap
            <4>1. BarrierLinked /\ c.states["bybit"].conn # conn["bybit"]
                BY <1>1, <3>1, <3>2 DEF Replays
            <4>2. CASE barrier.conn = conn[v]
                <5>1. b = barrier
                    BY <1>5, <3>2, <4>2
                <5> QED BY <3>2, <4>1, <4>2, <5>1 DEF BarrierLinked
            <4>3. CASE barrier.conn # conn[v]
                BY <1>5, <3>2, <4>3
            <4> QED BY <4>2, <4>3
        <3>3. Tracks(d, barrier', v, conn[v])
            BY <1>5, <1>7, <1>11, <2>1, <3>1, <3>2 DEF Tracks, NoBarrier
        <3> QED BY <1>3, <1>7, <1>11, <2>1, <3>1, <3>3 DEF Matches
    <2>2. ~ d.failed /\ session'[v] = "open" /\ stained'[v] => d.states[v].blocked
        BY <1>9, <1>11
    <2> QED BY <1>7, <2>1, <2>2 DEF Linked
<1>13. ~ d.failed => /\ d.pending_gap = NoGap /\ Balanced(d)
                     /\ v = "bybit" => BarrierLinked'
    BY <1>5, <1>7, <1>9, <1>11 DEF BarrierLinked
<1>14. \A w \in Venues \ {v} : /\ session'[w] = session[w] /\ conn'[w] = conn[w]
                                /\ live'[w] = live[w] /\ stained'[w] = stained[w]
                                /\ coverage'.states[w] = coverage.states[w]
    BY <1>3, <1>7, <1>8, <1>9
<1>15. v # "bybit" => barrier' = barrier /\ coverage'.barrier = coverage.barrier
    BY <1>7, <1>9 DEF b
<1>16. coverage'.failed => coverage.failed
    BY <1>11
<1>17. coverage.failed => coverage'.failed /\ v # "bybit"
    BY <1>9, <1>10
<1> HIDE DEF c, d
<1> QED BY <1>7, <1>12, <1>13, <1>14, <1>15, <1>16, <1>17, LinkVenueStep DEF d

\* A connection that failed leaves nothing verified, and blocks.
LEMMA LinkFail ==
    ASSUME LinkInv, ReplayInv', LinkTypes', NEW v \in Venues, Fail(v)
    PROVE  LinkInv'
<1> DEFINE e == Rec(v, "liveness_failure")
           f == [Rec(v, "venue_down") EXCEPT !.conn = NoConn]
           b == IF v = "bybit" THEN _update_bybit(barrier, e) ELSE barrier
           l == record(live[v], barrier, e)
           c == coverage
           d == coverage'
           again == stop \/ Reconnects(v)
<1>1. /\ EvidenceTypes /\ c \in Coverages /\ SessionInv(v) /\ Linked(v) /\ Replays /\ ReplayInv
      /\ live[v] \in LiveStates /\ barrier \in Barriers /\ stop \in BOOLEAN
      /\ conn \in [Venues -> Connections] /\ stained \in [Venues -> BOOLEAN] /\ clock \in Times
      /\ session \in [Venues -> {"connecting", "open", "backoff", "ended"}]
    BY DEF LinkInv, ReplayInv, EvidenceTypes, LinkTypes
<1>2. /\ e.venue = v /\ e.schema = "liveness_failure" /\ e.conn = conn[v] /\ e.ready = FALSE
      /\ f.venue = v /\ f.schema = "venue_down" /\ f.ready = FALSE
      /\ e.conn \in Numbers /\ f.conn \in Numbers /\ IsRecord(e) /\ IsRecord(f)
    BY <1>1, ReplayConstants DEF Rec, IsRecord, Numbers
<1>3. /\ session[v] \in {"connecting", "open"}
      /\ session' = [session EXCEPT ![v] = IF stop' THEN "ended"
                                           ELSE IF again THEN "connecting" ELSE "backoff"]
      /\ stained' = stained
      /\ conn' = [conn EXCEPT ![v] = IF again /\ ~ stop THEN @ + 1 ELSE @]
      /\ IF again THEN Emits(e) ELSE EmitsBoth(e, f)
    BY DEF Fail, Moves
<1> HIDE DEF e, f, again
<1>4. ~ Acked(e) /\ ~ Observes(e) /\ ~ Acked(f) /\ ~ Observes(f)
    BY <1>2 DEF Acked, Observes
<1>5. /\ b \in Barriers
      /\ v = "bybit" /\ barrier.conn # conn[v] => b.topics = {} /\ ~ b.gap
      /\ v = "bybit" /\ barrier.conn = conn[v] => b = barrier
    BY <1>1, <1>2, <1>4, UpdateTypes, UpdateStarts
<1>6. ~ l.verified
    <2>1. ~ Kept(live[v], barrier, e) /\ ~ Verifies(live[v], barrier, e)
        BY <1>2, VerifiesNot DEF Kept
    <2> QED BY <1>2, <2>1 DEF record
<1>7. /\ \A w \in Venues : w # v => live'[w] = live[w]
      /\ ~ live'[v].verified
      /\ barrier' = b /\ (stop => stop')
    <2>1. CASE again
        <3>1. /\ live'[v] = l /\ barrier' = b /\ stop' = (stop \/ Gapped(barrier, e))
              /\ \A w \in Venues : w # v => live'[w] = live[w]
            BY <1>1, <1>2, <1>3, <2>1, EmitsIs
        <3> HIDE DEF l, b
        <3> QED BY <1>6, <2>1, <3>1
    <2>2. CASE ~ again
        <3>1. EmitsBoth(e, f) /\ b = IF e.venue = "bybit" /\ e.schema # "venue_down"
                                     THEN _update_bybit(barrier, e) ELSE barrier
            BY <1>2, <1>3, <2>2
        <3>0. /\ e.venue \in Venues /\ e.ready \in BOOLEAN
              /\ f.venue = e.venue /\ f.ready \in BOOLEAN
            BY <1>2
        <3> HIDE DEF b
        <3>2. /\ \A w \in Venues : w # e.venue => live'[w] = live[w]
              /\ live'[e.venue] = record(record(live[e.venue], barrier, e), b, f)
              /\ barrier' = IF e.venue = "bybit" /\ f.schema # "venue_down"
                            THEN _update_bybit(b, f) ELSE b
              /\ stop' = (stop \/ Gapped(barrier, e) \/ Gapped(b, f))
            BY <1>1, <1>2, <3>0, <3>1, EmitsBothIs
        <3>3. live'[v] = [l EXCEPT !.down = TRUE, !.verified = FALSE]
            BY <1>2, <3>2 DEF record
        <3>4. l \in LiveStates
            BY <1>1, <1>2, RecordTypes
        <3> HIDE DEF l
        <3>5. ~ live'[v].verified
            BY <3>3, <3>4 DEF LiveStates
        <3>6. \A w \in Venues : w # v => live'[w] = live[w]
            BY <1>2, <3>2
        <3>7. barrier' = b
            BY <1>2, <3>2
        <3> QED BY <3>2, <3>5, <3>6, <3>7
    <2> QED BY <2>1, <2>2
<1> HIDE DEF l, b
<1>8. /\ session'[v] \in {"ended", "connecting", "backoff"}
      /\ \A w \in Venues \ {v} : session'[w] = session[w] /\ stained'[w] = stained[w] /\ conn'[w] = conn[w]
    BY <1>1, <1>3
<1>9. c.failed => v # "bybit"
    BY <1>1, <1>3 DEF Replays
<1>10. /\ d \in Coverages
       /\ \A w \in Venues \ {v} : d.states[w] = c.states[w]
       /\ v # "bybit" => d.barrier = c.barrier
       /\ c.failed => d.failed
    <2> DEFINE n == _coverage_points(c, e)
    <2>1. /\ n \in Coverages
          /\ \A w \in Venues \ {v} : n.states[w] = c.states[w]
          /\ v # "bybit" => n.barrier = c.barrier
          /\ c.failed => n.failed
        BY <1>1, <1>2, PointTypes
    <2>2. CASE again
        <3>1. d = n
            BY <1>2, <1>3, <1>4, <2>2, EmitsAppends, AppendIsPoint
        <3> QED BY <2>1, <3>1
    <2>3. CASE ~ again
        <3>1. d = _coverage_points(n, f)
            BY <1>2, <1>3, <1>4, <2>3, EmitsBothAppends, AppendIsPoint
        <3> HIDE DEF n
        <3>3. /\ _coverage_points(n, f) \in Coverages
              /\ \A w \in Venues \ {v} : _coverage_points(n, f).states[w] = n.states[w]
              /\ v # "bybit" => _coverage_points(n, f).barrier = n.barrier
              /\ n.failed => _coverage_points(n, f).failed
            BY <1>2, <2>1, PointTypes
        <3> QED BY <2>1, <3>1, <3>3
    <2> QED BY <2>2, <2>3
<1>11. ASSUME ~ c.failed
       PROVE  /\ ~ d.failed /\ d.pending_gap = NoGap /\ Balanced(d)
              /\ d.states[v].conn = c.states[v].conn
    <2>1. PICK x, y : LET n == _failure_point(c, x)
                      IN  /\ IsRecord(x) /\ x.venue = v
                          /\ IsRecord(y) /\ y.venue = v
                          /\ d = n \/ d = _failure_point(n, y)
        BY <1>1, <1>11, FailAppends
    <2> DEFINE n == _failure_point(c, x)
    <2>2. Balanced(c)
        BY <1>1, <1>11 DEF Replays
    <2>3. /\ n \in Coverages /\ n.failed = c.failed /\ n.pending_gap = NoGap /\ Balanced(n)
          /\ n.states[v].conn = c.states[v].conn
        <3>1. IsRecord(x) /\ x.venue = v
            BY <2>1
        <3>2. Balanced(n)
            BY <1>1, <2>2, <3>1, FailureBalances
        <3>3. /\ n \in Coverages /\ n.failed = c.failed /\ n.pending_gap = NoGap
              /\ n.states[x.venue].conn = c.states[x.venue].conn
            BY <1>1, <3>1, FailureIs
        <3> QED BY <3>1, <3>2, <3>3
    <2>4. d = n \/ d = _failure_point(n, y)
        BY <2>1
    <2> HIDE DEF n
    <2>5. CASE d = n
        BY <1>11, <2>3, <2>5
    <2>6. CASE d = _failure_point(n, y)
        <3>1. IsRecord(y) /\ y.venue = v
            BY <2>1
        <3>2. Balanced(_failure_point(n, y))
            BY <2>3, <3>1, FailureBalances
        <3>3. /\ _failure_point(n, y).failed = n.failed
              /\ _failure_point(n, y).pending_gap = NoGap
              /\ _failure_point(n, y).states[y.venue].conn = n.states[y.venue].conn
            BY <2>3, <3>1, FailureIs
        <3> QED BY <1>11, <2>3, <2>6, <3>1, <3>2, <3>3
    <2> QED BY <2>4, <2>5, <2>6
<1>12. ~ d.failed /\ v = "bybit" => BarrierLinked'
    <2> SUFFICES ASSUME ~ d.failed, v = "bybit"
                 PROVE  BarrierLinked'
        OBVIOUS
    <2>1. BarrierLinked /\ d.states["bybit"].conn = c.states["bybit"].conn
        BY <1>1, <1>10, <1>11 DEF Replays
    <2> QED BY <1>5, <1>7, <2>1 DEF BarrierLinked
<1>13. Linked(v)'
    BY <1>7, <1>8 DEF Linked
<1>14. \A w \in Venues \ {v} : /\ session'[w] = session[w] /\ conn'[w] = conn[w]
                                /\ live'[w] = live[w] /\ stained'[w] = stained[w]
                                /\ coverage'.states[w] = coverage.states[w]
    BY <1>7, <1>8, <1>10
<1>15. v # "bybit" => barrier' = barrier /\ coverage'.barrier = coverage.barrier
    BY <1>7, <1>10 DEF b
<1>16. coverage'.failed => coverage.failed
    BY <1>11
<1>17. coverage.failed => coverage'.failed /\ v # "bybit"
    BY <1>9, <1>10
<1>18. ~ coverage'.failed => /\ coverage'.pending_gap = NoGap /\ Balanced(coverage')
                             /\ v = "bybit" => BarrierLinked'
    BY <1>10, <1>11, <1>12
<1> HIDE DEF c, d
<1> QED BY <1>7, <1>13, <1>14, <1>15, <1>16, <1>17, <1>18, LinkVenueStep

\* Nothing was recorded yet.
LEMMA LinkedInit == Init => LinkInv
<1> SUFFICES ASSUME Init
             PROVE  LinkInv
    OBVIOUS
<1>1. ReplayInv /\ LinkTypes
    BY ReplayInit, LinkInit
<1>2. /\ coverage = NoCoverage /\ barrier = [conn |-> NoConn, topics |-> {}, gap |-> FALSE]
      /\ \A v \in Venues : session[v] = "connecting" /\ ~ live[v].verified
    BY DEF Init
<1>3. /\ ~ coverage.failed /\ coverage.pending_gap = NoGap
      /\ \A v \in Venues : coverage.states[v] = NewConnection(NoConn)
    BY <1>2 DEF NoCoverage
<1>4. \A v \in Venues : ~ coverage.states[v].active /\ ~ coverage.states[v].ack
    BY <1>3 DEF NewConnection
<1>5. Balanced(coverage)
    BY <1>4 DEF Balanced, Complete
<1>6. BarrierLinked
    BY <1>2 DEF BarrierLinked
<1>7. \A v \in Venues : Linked(v)
    BY <1>2 DEF Linked
<1> QED BY <1>1, <1>3, <1>5, <1>6, <1>7 DEF LinkInv, Replays

\* A session that leaves or starts again has given nothing to the sink.
LEMMA LinkQuiet ==
    ASSUME LinkInv, ReplayInv', LinkTypes', NEW v \in Venues, Restart(v) \/ Leave(v)
    PROVE  LinkInv'
<1>1. /\ session \in [Venues -> {"connecting", "open", "backoff", "ended"}]
      /\ conn \in [Venues -> Connections] /\ Linked(v) /\ Replays
    BY DEF LinkInv, ReplayInv, EvidenceTypes
<1>2. /\ session[v] # "ended" /\ session'[v] \in {"connecting", "ended"}
      /\ session'[v] = "connecting" => session[v] = "backoff"
      /\ \A w \in Venues \ {v} : session'[w] = session[w] /\ conn'[w] = conn[w]
      /\ UNCHANGED <<stop, sink, coverage, stained>>
    BY <1>1 DEF Restart, Leave
<1>3. live' = live /\ barrier' = barrier
    BY <1>2 DEF sink
<1>4. Linked(v)'
    BY <1>1, <1>2, <1>3 DEF Linked
<1>5. coverage.failed => v # "bybit"
    BY <1>1, <1>2 DEF Replays
<1>6. ~ coverage'.failed => /\ coverage'.pending_gap = NoGap /\ Balanced(coverage')
                            /\ v = "bybit" => BarrierLinked'
    BY <1>1, <1>2, <1>3 DEF Replays, BarrierLinked
<1> QED BY <1>2, <1>3, <1>4, <1>5, <1>6, LinkVenueStep

\* Every step keeps the invariant.
LEMMA LinkedNext ==
    ASSUME LinkInv, [Next]_vars
    PROVE  LinkInv'
<1>1. ReplayInv' /\ LinkTypes'
    BY ReplayNext, LinkNext DEF LinkInv
<1>2. EvidenceTypes
    BY DEF LinkInv, ReplayInv
<1>3. ASSUME NEW v \in Venues, NEW e, Listens(v, e)
      PROVE  LinkInv'
    BY <1>1, <1>3, LinkOpen DEF Listens
<1>4. ASSUME NEW v \in Venues,
             \/ Ping(v) \/ HandlePong(v) \/ Quarantine(v)
             \/ \E s \in Streams[v] : Ack(v, s) \/ \E update \in Updates(s) : Frame(v, s, update)
      PROVE  LinkInv'
    BY <1>2, <1>3, <1>4, ListensIs
<1>5. ASSUME NEW v \in Venues, Connect(v)
      PROVE  LinkInv'
    BY <1>1, <1>5, LinkConnect
<1>6. ASSUME NEW v \in Venues, Fail(v)
      PROVE  LinkInv'
    BY <1>1, <1>6, LinkFail
<1>7. ASSUME NEW v \in Venues, Restart(v) \/ Leave(v)
      PROVE  LinkInv'
    BY <1>1, <1>7, LinkQuiet
<1>8. CASE \/ \E v \in Venues : Cut(v)
           \/ Tick \/ Stop \/ UNCHANGED vars
    <2>1. /\ stop => stop'
          /\ UNCHANGED <<session, conn, live, barrier, coverage, stained>>
        BY <1>8 DEF Cut, Tick, Stop, vars, link, sink
    <2>2. Replays'
        BY <2>1 DEF LinkInv, Replays, BarrierLinked, Balanced, Complete, ready
    <2>3. \A v \in Venues : Linked(v)'
        BY <2>1 DEF LinkInv, Linked, Matches, Tracks
    <2> QED BY <1>1, <2>2, <2>3 DEF LinkInv
<1> QED BY <1>4, <1>5, <1>6, <1>7, <1>8 DEF Next

\* The sink and replay agree in every behaviour (_Sink.record, _coverage_points).
THEOREM LinkInvariant == Spec => []LinkInv
BY LinkedInit, LinkedNext, PTL DEF Spec

\* Whatever arrives, after any number of reconnects and restarts: what the sink counts
\* as verified is found again by replay, which gets through the records, but on a
\* connection that had a frame quarantined or whose id was used before
\* (_Sink.record, _coverage_points).
THEOREM LiveIsReplayedHolds == Spec => []LiveIsReplayed
<1>1. LinkInv => LiveIsReplayed
    BY DEF LinkInv, Replays, Linked, LiveIsReplayed
<1> QED BY <1>1, LinkInvariant, PTL

-----------------------------------------------------------------------------
\* What is settled stays so when a failure is recorded; the failure that explains
\* settles whatever was left over.
LEMMA FailureSettles ==
    ASSUME NEW c \in Coverages, NEW e, IsRecord(e),
           NEW times, times \subseteq window_start_ns .. e.ns - 1,
           Reached(c.pairing, e.venue, e.ns), Accounted(c.pairing, e.venue, times)
    PROVE  LET q == _failure_point(c, e).pairing
           IN  /\ Awaited(c.pairing, e.venue, times, e.ns) => Settled(q, e.venue, times, e.ns)
               /\ e.schema \in Explained =>
                     /\ Settled(q, e.venue, times, e.ns)
                     /\ e.ns \geq window_end_ns \/ q.pending[e.venue] # {}
               /\ \A w \in Venues \ {e.venue} : Grows(c.pairing, q, w)
<1> DEFINE kind == IF e.schema \in Explained THEN "explained_failure" ELSE "unexplained_failure"
<1>1. _failure_point(c, e).pairing = Pair(c.pairing, e.venue, e.ns, kind)
    BY FailureIs
<1>2. /\ c.pairing \in Pairings /\ e.venue \in Venues /\ e.ns \in Times /\ kind \in Kinds
      /\ e.schema \in Explained => kind = "explained_failure"
    BY DEF Coverages, IsRecord, Kinds
<1> HIDE DEF kind
<1> QED BY <1>1, <1>2, PairSettles

\* What is settled stays so when evidence is weighed.
LEMMA EvidenceSettles ==
    ASSUME NEW c \in Coverages, NEW e, IsRecord(e),
           NEW times, times \subseteq window_start_ns .. e.ns - 1,
           Settled(c.pairing, e.venue, times, e.ns)
    PROVE  LET q == Evidence(c, e).pairing
           IN  /\ Settled(q, e.venue, times, e.ns)
               /\ \A w \in Venues \ {e.venue} : Grows(c.pairing, q, w)
<1>1. Weighed(c, e, Evidence(c, e))
    BY EvidenceIs
<1> DEFINE d == Evidence(c, e)
<1> HIDE DEF d
<1>2. d.pairing = c.pairing \/ d.pairing = Pair(c.pairing, e.venue, e.ns, "hard_verified")
    BY <1>1 DEF Weighed, d
<1>3. /\ c.pairing \in Pairings /\ e.venue \in Venues /\ e.ns \in Times
      /\ "hard_verified" \in Kinds
    BY DEF Coverages, IsRecord, Kinds
<1>4. CASE d.pairing = c.pairing
    BY <1>4 DEF Grows, d
<1>5. CASE d.pairing = Pair(c.pairing, e.venue, e.ns, "hard_verified")
    <2>1. LET q == Pair(c.pairing, e.venue, e.ns, "hard_verified")
          IN  /\ Settled(q, e.venue, times, e.ns)
              /\ \A w \in Venues \ {e.venue} : Grows(c.pairing, q, w)
        BY <1>3, PairSettles DEF Settled
    <2> QED BY <1>5, <2>1 DEF d
<1> QED BY <1>2, <1>4, <1>5

\* One point after the other.
LEMMA GrowsOn ==
    ASSUME NEW p, NEW q, NEW r, NEW v, Grows(p, q, v), Grows(q, r, v)
    PROVE  Grows(p, r, v)
BY DEF Grows

-----------------------------------------------------------------------------
\* The times without a connection are paired, or will be at the next verification:
\* a session that is about to connect has a failure that waits, and one whose
\* connection is dead will have one before it verifies anything.
Owed(v) ==
    /\ dark[v] \subseteq window_start_ns .. clock - 1
    /\ ~ coverage.failed =>
          /\ Reached(coverage.pairing, v, clock)
          /\ Accounted(coverage.pairing, v, dark[v])
          /\ \/ Awaited(coverage.pairing, v, dark[v], clock)
             \/ session[v] = "ended"
             \/ session[v] = "open" /\ ~ alive[v]
          /\ session[v] \in {"connecting", "backoff"} =>
                \/ coverage.pairing.last_verified[v] = NoTime
                \/ coverage.pairing.pending[v] # {}
                \/ clock \geq window_end_ns

\* The inductive invariant.
OutageInv == LinkInv /\ \A v \in Venues : Owed(v)

\* A step of v that leaves the other venue alone.
LEMMA OwedVenueStep ==
    ASSUME OutageInv, LinkInv', NEW v \in Venues, clock' = clock, dark' = dark,
           \A w \in Venues \ {v} : /\ session'[w] = session[w] /\ alive'[w] = alive[w]
                                   /\ ~ coverage'.failed => Grows(coverage.pairing, coverage'.pairing, w),
           coverage.failed => coverage'.failed,
           Owed(v)'
    PROVE  OutageInv'
<1>1. ASSUME NEW w \in Venues \ {v}
      PROVE  Owed(w)'
    <2>1. Owed(w)
        BY DEF OutageInv
    <2>2. CASE coverage'.failed
        BY <2>1, <2>2 DEF Owed
    <2>3. CASE ~ coverage'.failed
        <3> DEFINE p == coverage.pairing
                   q == coverage'.pairing
        <3>1. ~ coverage.failed /\ Grows(p, q, w)
            BY <2>3
        <3>2. /\ session'[w] = session[w] /\ alive'[w] = alive[w]
              /\ q.last_verified[w] = p.last_verified[w] /\ q.pending[w] = p.pending[w]
            BY <3>1 DEF Grows
        <3>3. /\ Reached(p, w, clock) => Reached(q, w, clock)
              /\ Accounted(p, w, dark[w]) => Accounted(q, w, dark[w])
              /\ Awaited(p, w, dark[w], clock) => Awaited(q, w, dark[w], clock)
            BY <3>1, GrowsSettles
        <3> QED BY <2>1, <3>1, <3>2, <3>3 DEF Owed
    <2> QED BY <2>2, <2>3
<1> QED BY <1>1 DEF OutageInv

\* A record of an open connection: before a dead one is found failed, nothing is
\* verified there.
LEMMA OwedOpen ==
    ASSUME OutageInv, LinkInv', NEW v \in Venues, NEW e, Listens(v, e)
    PROVE  OutageInv'
<1> DEFINE c == coverage
           d == coverage'
           times == dark[v]
           g == [e EXCEPT !.schema = "bybit_sequence_gap"]
<1>1. /\ ReplayInv /\ Replays /\ EvidenceTypes /\ c \in Coverages /\ SessionInv(v) /\ Linked(v)
      /\ Owed(v) /\ barrier \in Barriers /\ conn[v] \in Connections /\ clock \in Times
      /\ session \in [Venues -> {"connecting", "open", "backoff", "ended"}]
    BY DEF OutageInv, LinkInv, ReplayInv, EvidenceTypes
<1>2. /\ e.venue = v /\ e.ns = clock /\ e.conn = conn[v] /\ IsRecord(e)
      /\ session[v] = "open" /\ (alive[v] \/ e.schema = "ping_sent")
      /\ session' = [session EXCEPT ![v] = IF stop' THEN "ended" ELSE "open"]
      /\ clock' = clock /\ dark' = dark /\ alive' = alive
      /\ e.schema \in Listened
    BY <1>1 DEF Listens, IsRecord, Numbers
<1>3. /\ d = _append(c, live[v], barrier, e)
      /\ stop' = (stop \/ Gapped(barrier, e))
    BY <1>2, EmitsAppends DEF Listens, Emits, SinkIs, _emit, Sink
<1>4. c.failed => d.failed
    BY <1>1, <1>2, <1>3, AppendTypes
<1>5. /\ session'[v] \in {"open", "ended"}
      /\ \A w \in Venues \ {v} : session'[w] = session[w] /\ alive'[w] = alive[w]
    BY <1>1, <1>2
<1>6. times \subseteq window_start_ns .. e.ns - 1
    BY <1>1, <1>2 DEF Owed
<1>7. ASSUME ~ d.failed
      PROVE  /\ \A w \in Venues \ {v} : Grows(c.pairing, d.pairing, w)
             /\ Reached(d.pairing, v, clock) /\ Accounted(d.pairing, v, times)
             /\ alive[v] => Awaited(d.pairing, v, times, clock)
    <2>1. /\ ~ c.failed
          /\ Reached(c.pairing, v, clock) /\ Accounted(c.pairing, v, times)
          /\ alive[v] => Awaited(c.pairing, v, times, clock)
        BY <1>1, <1>2, <1>4, <1>7 DEF Owed
    <2>2. /\ c.pending_gap = NoGap /\ Balanced(c) /\ e.conn = c.states[v].conn
          /\ ~ c.states[v].blocked => Tracks(c, barrier, v, e.conn)
        BY <1>1, <1>2, <2>1 DEF Replays, SessionInv, Linked, Matches
    <2>3. CASE d = c
        <3>1. \A w \in Venues \ {v} : Grows(c.pairing, c.pairing, w)
            BY DEF Grows
        <3> HIDE DEF c, d, times
        <3> QED BY <2>1, <2>3, <3>1
    <2>4. CASE e.schema = "ping_sent"
        <3>1. ~ Acked(e) /\ ~ Observes(e)
            BY <2>4 DEF Acked, Observes
        <3>2. d = c
            BY <1>1, <1>2, <1>3, <2>1, <2>2, <2>4, <3>1, AppendIsPoint, QuietPoint
        <3> QED BY <2>3, <3>2
    <2>5. ASSUME alive[v]
          PROVE  /\ Settled(d.pairing, v, times, clock)
                 /\ \A w \in Venues \ {v} : Grows(c.pairing, d.pairing, w)
        <3>1. Settled(c.pairing, v, times, clock)
            BY <2>1, <2>5 DEF Settled
        <3>2. \/ d = c
              \/ d = _failure_point(c, e)
              \/ d = Evidence(c, e)
              \/ Gapped(barrier, e) /\ d = _failure_point(Evidence(c, e), g)
            BY <1>1, <1>2, <1>3, <1>7, <2>1, <2>2, ListenAppends
        <3>3. CASE d = c
            BY <3>1, <3>3 DEF Grows
        <3>4. CASE d = _failure_point(c, e)
            BY <1>1, <1>2, <1>6, <2>1, <2>5, <3>4, FailureSettles
        <3>5. /\ Settled(Evidence(c, e).pairing, v, times, clock)
              /\ \A w \in Venues \ {v} : Grows(c.pairing, Evidence(c, e).pairing, w)
              /\ Evidence(c, e) \in Coverages
            BY <1>1, <1>2, <1>6, <3>1, EvidenceSettles, EvidenceIs
        <3>6. CASE Gapped(barrier, e) /\ d = _failure_point(Evidence(c, e), g)
            <4> DEFINE n == Evidence(c, e)
            <4>1. IsRecord(g) /\ g.venue = v /\ g.ns = clock
                BY <1>2, <3>6 DEF IsRecord, Gapped, Observes
            <4>2. /\ n \in Coverages /\ Reached(n.pairing, v, clock)
                  /\ Accounted(n.pairing, v, times) /\ Awaited(n.pairing, v, times, clock)
                  /\ \A w \in Venues \ {v} : Grows(c.pairing, n.pairing, w)
                  /\ d = _failure_point(n, g)
                BY <3>5, <3>6 DEF Settled
            <4>3. times \subseteq window_start_ns .. g.ns - 1
                BY <1>2, <1>6, <4>1
            <4> HIDE DEF n, g, d, c, times
            <4>4. /\ Settled(d.pairing, v, times, clock)
                  /\ \A w \in Venues \ {v} : Grows(n.pairing, d.pairing, w)
                BY <4>1, <4>2, <4>3, FailureSettles
            <4>5. \A w \in Venues \ {v} : Grows(c.pairing, d.pairing, w)
                BY <4>2, <4>4, GrowsOn
            <4> QED BY <4>4, <4>5
        <3> HIDE DEF c, d, times
        <3> QED BY <3>2, <3>3, <3>4, <3>5, <3>6
    <2> HIDE DEF c, d, times
    <2> QED BY <1>2, <2>4, <2>5 DEF Settled
<1>8. Owed(v)'
    <2>1. CASE d.failed
        BY <1>1, <1>2, <2>1 DEF Owed
    <2>2. CASE ~ d.failed
        BY <1>1, <1>2, <1>5, <1>7, <2>2 DEF Owed
    <2> QED BY <2>1, <2>2
<1>9. /\ clock' = clock /\ dark' = dark
      /\ \A w \in Venues \ {v} : /\ session'[w] = session[w] /\ alive'[w] = alive[w]
                                 /\ ~ coverage'.failed => Grows(coverage.pairing, coverage'.pairing, w)
      /\ coverage.failed => coverage'.failed
    BY <1>2, <1>4, <1>5, <1>7
<1> HIDE DEF c, d, times, g
<1> QED BY <1>8, <1>9, OwedVenueStep

\* A connection starts with its outage in the pairing.
LEMMA OwedConnect ==
    ASSUME OutageInv, LinkInv', NEW v \in Venues, Connect(v)
    PROVE  OutageInv'
<1>1. /\ ReplayInv /\ Replays /\ Owed(v)
      /\ session \in [Venues -> {"connecting", "open", "backoff", "ended"}]
      /\ alive \in [Venues -> BOOLEAN]
    BY DEF OutageInv, LinkInv, ReplayInv, EvidenceTypes, LinkTypes
<1>2. /\ session[v] = "connecting" /\ clock' = clock /\ dark' = dark
      /\ session' = [session EXCEPT ![v] = IF stop' THEN "ended" ELSE "open"]
      /\ alive' = [alive EXCEPT ![v] = TRUE]
    BY DEF Connect, Moves
<1>3. /\ session'[v] \in {"open", "ended"}
      /\ \A w \in Venues \ {v} : session'[w] = session[w] /\ alive'[w] = alive[w]
    BY <1>1, <1>2
<1>4. ~ coverage.failed => coverage'.pairing = coverage.pairing
    BY <1>1, ConnectAppends
<1>5. coverage.failed => coverage'.failed
    <2> DEFINE e == Rec(v, "subscription_send")
               f == Rec(v, "ping_sent")
               n == _coverage_points(coverage, e)
    <2>1. /\ coverage \in Coverages /\ conn[v] \in Connections /\ clock \in Times
        BY <1>1 DEF ReplayInv, EvidenceTypes
    <2>2. /\ e.venue = v /\ e.schema = "subscription_send" /\ IsRecord(e)
          /\ f.venue = v /\ f.schema = "ping_sent" /\ IsRecord(f)
        BY <2>1, ReplayConstants DEF Rec, IsRecord, Numbers
    <2>3. IF stop THEN Emits(e) ELSE EmitsBoth(e, f)
        BY DEF Connect
    <2> HIDE DEF e, f
    <2>4. ~ Acked(e) /\ ~ Observes(e) /\ ~ Acked(f) /\ ~ Observes(f)
        BY <2>2 DEF Acked, Observes
    <2>5. n \in Coverages /\ (coverage.failed => n.failed)
        BY <2>1, <2>2, PointTypes
    <2>6. coverage' = n \/ coverage' = _coverage_points(n, f)
        BY <2>2, <2>3, <2>4, EmitsAppends, EmitsBothAppends, AppendIsPoint
    <2> HIDE DEF n
    <2> QED BY <2>2, <2>5, <2>6, PointTypes
<1>6. Owed(v)'
    BY <1>1, <1>2, <1>3, <1>4, <1>5 DEF Owed
<1>7. ~ coverage'.failed => \A w \in Venues \ {v} : Grows(coverage.pairing, coverage'.pairing, w)
    BY <1>4, <1>5 DEF Grows
<1> QED BY <1>2, <1>3, <1>5, <1>6, <1>7, OwedVenueStep

\* A failure puts the outage into the pairing, from the last verification on.
LEMMA OwedFail ==
    ASSUME OutageInv, LinkInv', NEW v \in Venues, Fail(v)
    PROVE  OutageInv'
<1> DEFINE c == coverage
           d == coverage'
           times == dark[v]
<1>1. /\ ReplayInv /\ Replays /\ Owed(v) /\ c \in Coverages /\ clock \in Times
      /\ session \in [Venues -> {"connecting", "open", "backoff", "ended"}]
      /\ alive \in [Venues -> BOOLEAN] /\ conn[v] \in Connections
    BY DEF OutageInv, LinkInv, ReplayInv, EvidenceTypes, LinkTypes
<1>2. /\ clock' = clock /\ dark' = dark
      /\ \A w \in Venues \ {v} : session'[w] = session[w] /\ alive'[w] = alive[w]
    BY <1>1 DEF Fail, Moves
<1>3. c.failed => d.failed
    <2> DEFINE e == Rec(v, "liveness_failure")
               f == [Rec(v, "venue_down") EXCEPT !.conn = NoConn]
               n == _coverage_points(c, e)
    <2>1. /\ e.venue = v /\ e.schema = "liveness_failure" /\ IsRecord(e)
          /\ f.venue = v /\ f.schema = "venue_down" /\ IsRecord(f)
        BY <1>1, ReplayConstants DEF Rec, IsRecord, Numbers
    <2>2. Emits(e) \/ EmitsBoth(e, f)
        BY DEF Fail
    <2> HIDE DEF e, f
    <2>3. ~ Acked(e) /\ ~ Observes(e) /\ ~ Acked(f) /\ ~ Observes(f)
        BY <2>1 DEF Acked, Observes
    <2>4. n \in Coverages /\ (c.failed => n.failed)
        BY <1>1, <2>1, PointTypes
    <2>5. d = n \/ d = _coverage_points(n, f)
        BY <2>1, <2>2, <2>3, EmitsAppends, EmitsBothAppends, AppendIsPoint
    <2> HIDE DEF n
    <2> QED BY <2>1, <2>4, <2>5, PointTypes
<1>4. ASSUME ~ d.failed
      PROVE  /\ Settled(d.pairing, v, times, clock)
             /\ clock \geq window_end_ns \/ d.pairing.pending[v] # {}
             /\ \A w \in Venues \ {v} : Grows(c.pairing, d.pairing, w)
    <2>1. ~ c.failed
        BY <1>3, <1>4
    <2>2. PICK e, f : LET n == _failure_point(c, e)
                      IN  /\ IsRecord(e) /\ e.venue = v /\ e.ns = clock /\ e.schema \in Explained
                          /\ IsRecord(f) /\ f.venue = v /\ f.ns = clock /\ f.schema \in Explained
                          /\ d = n \/ d = _failure_point(n, f)
        BY <1>1, <2>1, FailAppends
    <2> DEFINE n == _failure_point(c, e)
    <2>3. /\ Reached(c.pairing, v, clock) /\ Accounted(c.pairing, v, times)
          /\ times \subseteq window_start_ns .. clock - 1
        BY <1>1, <2>1 DEF Owed
    <2>4. /\ IsRecord(e) /\ e.venue = v /\ e.ns = clock /\ e.schema \in Explained
          /\ IsRecord(f) /\ f.venue = v /\ f.ns = clock /\ f.schema \in Explained
          /\ d = n \/ d = _failure_point(n, f)
        BY <2>2
    <2>5. n \in Coverages
        BY <1>1, <2>4, FailureIs
    <2> HIDE DEF c, d, times
    <2>6. /\ Settled(n.pairing, v, times, clock)
          /\ clock \geq window_end_ns \/ n.pairing.pending[v] # {}
          /\ \A w \in Venues \ {v} : Grows(c.pairing, n.pairing, w)
        BY <1>1, <2>3, <2>4, FailureSettles DEF c
    <2> HIDE DEF n
    <2>7. CASE d = n
        BY <2>6, <2>7
    <2>8. CASE d = _failure_point(n, f)
        <3>1. Reached(n.pairing, v, clock) /\ Accounted(n.pairing, v, times)
            BY <2>6 DEF Settled
        <3>2. /\ Settled(d.pairing, v, times, clock)
              /\ clock \geq window_end_ns \/ d.pairing.pending[v] # {}
              /\ \A w \in Venues \ {v} : Grows(n.pairing, d.pairing, w)
            BY <2>3, <2>4, <2>5, <2>8, <3>1, FailureSettles
        <3> QED BY <2>6, <3>2, GrowsOn
    <2> QED BY <2>4, <2>7, <2>8
<1>5. Owed(v)'
    <2>1. dark[v] \subseteq window_start_ns .. clock - 1
        BY <1>1 DEF Owed
    <2>2. ~ d.failed => /\ Reached(d.pairing, v, clock) /\ Accounted(d.pairing, v, times)
                        /\ Awaited(d.pairing, v, times, clock)
                        /\ clock \geq window_end_ns \/ d.pairing.pending[v] # {}
        BY <1>4 DEF Settled
    <2> QED BY <1>2, <2>1, <2>2 DEF Owed
<1> QED BY <1>2, <1>3, <1>4, <1>5, OwedVenueStep

\* A session that leaves, starts again or loses its connection.
LEMMA OwedQuiet ==
    ASSUME OutageInv, LinkInv', NEW v \in Venues, Restart(v) \/ Leave(v) \/ Cut(v)
    PROVE  OutageInv'
<1>1. /\ Owed(v) /\ session \in [Venues -> {"connecting", "open", "backoff", "ended"}]
      /\ alive \in [Venues -> BOOLEAN]
    BY DEF OutageInv, LinkInv, ReplayInv, EvidenceTypes, LinkTypes
<1>2. /\ \/ session[v] = "backoff" /\ session'[v] = "connecting"
         \/ session'[v] = "ended"
         \/ session[v] = "open" /\ session'[v] = "open" /\ ~ alive'[v]
      /\ \A w \in Venues \ {v} : session'[w] = session[w] /\ alive'[w] = alive[w]
      /\ clock' = clock /\ coverage' = coverage /\ dark' = dark
    BY <1>1 DEF Restart, Leave, Cut, Listening
<1>3. Owed(v)'
    BY <1>1, <1>2 DEF Owed
<1>4. \A w \in Venues \ {v} : Grows(coverage.pairing, coverage'.pairing, w)
    BY <1>2 DEF Grows
<1> QED BY <1>2, <1>3, <1>4, OwedVenueStep

\* Time passes without a connection: the failure that waits is earlier.
LEMMA OwedTick ==
    ASSUME OutageInv, LinkInv', Tick
    PROVE  OutageInv'
<1>1. /\ clock \in Nat /\ clock' = clock + 1
      /\ window_start_ns \in Nat /\ window_end_ns \in Nat
      /\ session' = session /\ alive' = alive /\ coverage' = coverage
    BY ReplayConstants DEF Tick, link, OutageInv, LinkInv, ReplayInv, Times
<1>2. ASSUME NEW v \in Venues
      PROVE  Owed(v)'
    <2> DEFINE p == coverage.pairing
    <2>1. /\ Owed(v)
          /\ session[v] \in {"connecting", "open", "backoff", "ended"}
          /\ coverage \in Coverages
        BY DEF OutageInv, LinkInv, ReplayInv, EvidenceTypes
    <2>2. /\ dark'[v] = dark[v] \/ dark'[v] = dark[v] \cup {clock}
          /\ Listening(v) \/ p.last_verified[v] = NoTime => dark'[v] = dark[v]
          /\ dark'[v] # dark[v] => clock \geq window_start_ns
        BY <1>1 DEF Tick
    <2>3. /\ p.last_verified[v] \in Nat /\ p.pending[v] \subseteq Nat
        BY <2>1, ReplayConstants DEF Coverages, Pairings
    <2>4. dark'[v] \subseteq window_start_ns .. clock' - 1
        <3>1. ASSUME NEW t \in dark'[v]
              PROVE  t \in window_start_ns .. clock
            <4>1. CASE t \in dark[v]
                BY <1>1, <2>1, <4>1 DEF Owed
            <4>2. CASE t \notin dark[v]
                BY <1>1, <2>2, <3>1, <4>2
            <4> QED BY <4>1, <4>2
        <3> QED BY <1>1, <3>1
    <2>5. ASSUME ~ coverage.failed
          PROVE  /\ Reached(p, v, clock') /\ Accounted(p, v, dark'[v])
                 /\ \/ Awaited(p, v, dark'[v], clock')
                    \/ session[v] = "ended"
                    \/ session[v] = "open" /\ ~ alive[v]
                 /\ session[v] \in {"connecting", "backoff"} =>
                       p.last_verified[v] = NoTime \/ p.pending[v] # {} \/ clock' \geq window_end_ns
        <3>1. Reached(p, v, clock) /\ Accounted(p, v, dark[v])
            BY <2>1, <2>5 DEF Owed
        <3>2. p.last_verified[v] \leq clock /\ \A s \in p.pending[v] : s \leq clock
            BY <3>1 DEF Reached
        <3>3. Reached(p, v, clock')
            <4>1. p.last_verified[v] \leq clock'
                BY <1>1, <2>3, <3>2
            <4>2. \A s \in p.pending[v] : s \leq clock'
                BY <1>1, <2>3, <3>2
            <4> QED BY <4>1, <4>2 DEF Reached
        <3>4. Accounted(p, v, dark'[v])
            <4>1. ~ (clock < p.last_verified[v])
                BY <1>1, <2>3, <3>2
            <4> QED BY <2>2, <3>1, <4>1 DEF Accounted
        <3>5. clock \geq window_end_ns => clock' \geq window_end_ns
            BY <1>1
        <3>6. Awaited(p, v, dark[v], clock) /\ dark'[v] = dark[v] => Awaited(p, v, dark'[v], clock')
            BY <3>5 DEF Awaited
        <3>7. ASSUME Awaited(p, v, dark[v], clock), p.pending[v] # {} \/ clock \geq window_end_ns
              PROVE  Awaited(p, v, dark'[v], clock')
            <4>1. CASE clock \geq window_end_ns
                BY <3>5, <4>1 DEF Awaited
            <4>2. CASE ~ (clock \geq window_end_ns)
                <5>1. \E s \in p.pending[v] : s \leq clock
                    BY <3>2, <3>7, <4>2
                <5>2. \A t \in dark[v] : t \geq p.last_verified[v] => \E s \in p.pending[v] : s \leq t
                    BY <3>7, <4>2 DEF Awaited
                <5> QED BY <2>2, <5>1, <5>2 DEF Awaited
            <4> QED BY <4>1, <4>2
        <3>8. \/ Awaited(p, v, dark'[v], clock')
              \/ session[v] = "ended"
              \/ session[v] = "open" /\ ~ alive[v]
            <4>1. CASE session[v] = "open" /\ alive[v]
                BY <2>1, <2>2, <2>5, <3>6, <4>1 DEF Owed, Listening
            <4>2. CASE session[v] \in {"connecting", "backoff"}
                <5>1. /\ Awaited(p, v, dark[v], clock)
                      /\ p.last_verified[v] = NoTime \/ p.pending[v] # {} \/ clock \geq window_end_ns
                    BY <2>1, <2>5, <4>2 DEF Owed
                <5>2. CASE dark'[v] = dark[v]
                    BY <3>6, <5>1, <5>2
                <5>3. CASE dark'[v] # dark[v]
                    <6>1. p.last_verified[v] # NoTime
                        BY <2>2, <5>3
                    <6> QED BY <3>7, <5>1, <6>1
                <5> QED BY <5>2, <5>3
            <4> QED BY <2>1, <4>1, <4>2
        <3>9. session[v] \in {"connecting", "backoff"} =>
                  p.last_verified[v] = NoTime \/ p.pending[v] # {} \/ clock' \geq window_end_ns
            BY <2>1, <2>5, <3>5 DEF Owed
        <3> QED BY <3>3, <3>4, <3>8, <3>9
    <2> QED BY <1>1, <2>4, <2>5 DEF Owed
<1> QED BY <1>2 DEF OutageInv

\* Every step keeps the invariant.
LEMMA OwedNext ==
    ASSUME OutageInv, [Next]_vars
    PROVE  OutageInv'
<1>1. LinkInv' /\ EvidenceTypes
    BY LinkedNext DEF OutageInv, LinkInv, ReplayInv
<1>2. ASSUME NEW v \in Venues,
             \/ Ping(v) \/ HandlePong(v) \/ Quarantine(v)
             \/ \E s \in Streams[v] : Ack(v, s) \/ \E update \in Updates(s) : Frame(v, s, update)
      PROVE  OutageInv'
    <2>1. PICK e : Listens(v, e)
        BY <1>1, <1>2, ListensIs
    <2> QED BY <1>1, <2>1, OwedOpen
<1>3. ASSUME NEW v \in Venues, Connect(v)
      PROVE  OutageInv'
    BY <1>1, <1>3, OwedConnect
<1>4. ASSUME NEW v \in Venues, Fail(v)
      PROVE  OutageInv'
    BY <1>1, <1>4, OwedFail
<1>5. ASSUME NEW v \in Venues, Restart(v) \/ Leave(v) \/ Cut(v)
      PROVE  OutageInv'
    BY <1>1, <1>5, OwedQuiet
<1>6. CASE Tick
    BY <1>1, <1>6, OwedTick
<1>7. CASE Stop \/ UNCHANGED vars
    <2>1. UNCHANGED <<session, alive, coverage, dark, clock>>
        BY <1>7 DEF Stop, vars, link
    <2>2. \A v \in Venues : Owed(v)'
        BY <2>1 DEF OutageInv, Owed, Reached, Accounted, Awaited
    <2> QED BY <1>1, <2>2 DEF OutageInv
<1> QED BY <1>2, <1>3, <1>4, <1>5, <1>6, <1>7 DEF Next

\* Nothing is dark yet.
LEMMA OwedInit == Init => OutageInv
<1> SUFFICES ASSUME Init
             PROVE  OutageInv
    OBVIOUS
<1>1. LinkInv
    BY LinkedInit
<1>2. ASSUME NEW v \in Venues
      PROVE  Owed(v)
    <2>1. /\ dark[v] = {} /\ clock = 1 /\ coverage.pairing = NoPairing
        BY DEF Init, NoCoverage
    <2>2. /\ coverage.pairing.last_verified[v] = NoTime /\ coverage.pairing.pending[v] = {}
        BY <2>1 DEF NoPairing
    <2>3. Reached(coverage.pairing, v, clock)
        BY <2>1, <2>2 DEF Reached, NoTime
    <2> QED BY <2>1, <2>2, <2>3 DEF Owed, Accounted, Awaited
<1> QED BY <1>1, <1>2 DEF OutageInv

-----------------------------------------------------------------------------
\* A set of numbers that has 0 and a bound has a greatest.
LEMMA GreatestNumber ==
    ASSUME NEW S, S \subseteq Int, 0 \in S, NEW n \in Nat, \A x \in S : x \leq n
    PROVE  Max(S) \in S /\ \A y \in S : Max(S) \geq y
<1> DEFINE bounds == {b \in Nat : \A x \in S : x \leq b}
<1>1. bounds \subseteq Nat /\ bounds # {}
    OBVIOUS
<1>2. \E b \in bounds : \A a \in bounds : ~ (a < b)
    <2>1. \E b \in bounds : \A a \in bounds : <<a, b>> \notin OpToRel(<, Nat)
        BY <1>1, NatLessThanWellFounded, WFMin
    <2>2. \A b, a \in Nat : a < b => <<a, b>> \in OpToRel(<, Nat)
        BY DEF OpToRel
    <2> QED BY <1>1, <2>1, <2>2
<1>3. PICK b \in bounds : \A a \in bounds : ~ (a < b)
    BY <1>2
<1>4. b \in Nat /\ \A x \in S : x \leq b
    BY <1>3
<1>5. b \in S
    <2>1. CASE b = 0
        BY <2>1
    <2>2. ASSUME b # 0, b \notin S
          PROVE  FALSE
        <3>1. b - 1 \in Nat /\ b - 1 < b
            BY <1>4, <2>2
        <3>2. \A x \in S : x \leq b - 1
            BY <1>4, <2>2
        <3>3. b - 1 \in bounds
            BY <3>1, <3>2
        <3> QED BY <1>3, <3>1, <3>3
    <2> QED BY <2>1, <2>2
<1>6. \E x \in S : \A y \in S : x \geq y
    BY <1>4, <1>5
<1> QED BY <1>6 DEF Max

\* More explained time has no shorter gaps.
LEMMA MergeGrows ==
    ASSUME NEW B, B \subseteq Times, NEW A, A \subseteq B
    PROVE  /\ _merge_intervals(A) \in Int /\ _merge_intervals(B) \in Int
           /\ _merge_intervals(A) \leq _merge_intervals(B)
<1> DEFINE Intervals(S) == {i \in S \X S : i[1] .. i[2] \subseteq S}
           Lengths(S) == {0} \cup {i[2] - i[1] + 1 : i \in Intervals(S)}
<1>1. Times \subseteq Nat /\ MaxClock \in Nat /\ \A t \in Times : t \leq MaxClock /\ t \geq 1
    BY ReplayConstants DEF Times
<1>2. ASSUME NEW S, S \subseteq Times
      PROVE  /\ Lengths(S) \subseteq Int /\ 0 \in Lengths(S)
             /\ \A x \in Lengths(S) : x \leq MaxClock
             /\ _merge_intervals(S) = Max(Lengths(S))
    <2>1. ASSUME NEW i \in Intervals(S)
          PROVE  /\ i[2] - i[1] + 1 \in Int /\ i[2] - i[1] + 1 \leq MaxClock
        <3>1. i[1] \in S /\ i[2] \in S
            OBVIOUS
        <3>2. /\ i[1] \in Nat /\ i[2] \in Nat /\ i[2] \leq MaxClock /\ i[1] \geq 1
            BY <1>1, <1>2, <3>1
        <3> QED BY <1>1, <3>2
    <2>2. _merge_intervals(S) = Max(Lengths(S))
        BY DEF _merge_intervals
    <2> HIDE DEF Intervals
    <2> QED BY <1>1, <2>1, <2>2
<1>3. Lengths(A) \subseteq Lengths(B)
    <2>1. Intervals(A) \subseteq Intervals(B)
        OBVIOUS
    <2> HIDE DEF Intervals
    <2> QED BY <2>1
<1> HIDE DEF Lengths
<1>4. /\ Max(Lengths(A)) \in Lengths(A)
      /\ Max(Lengths(B)) \in Lengths(B) /\ \A y \in Lengths(B) : Max(Lengths(B)) \geq y
    BY <1>1, <1>2, GreatestNumber
<1>5. /\ _merge_intervals(A) = Max(Lengths(A)) /\ _merge_intervals(B) = Max(Lengths(B))
      /\ Lengths(A) \subseteq Int /\ Lengths(B) \subseteq Int
    BY <1>2
<1> QED BY <1>3, <1>4, <1>5

\* The outages are in the pairing in every behaviour (pair_explained_intervals).
THEOREM OutageInvariant == Spec => []OutageInv
BY OwedInit, OwedNext, PTL DEF Spec

\* However late a session notices that its connection is dead, and whatever fails after
\* that: a time without a connection before the last verification is in an explained
\* gap or the window has an unexplained one, so a window that passes had no more of it
\* than the limits allow (pair_explained_intervals, window_coverage_ok).
THEOREM OutageIsAccountedHolds == Spec => []OutageIsAccounted
<1>1. OutageInv => OutageIsAccounted
    <2> DEFINE p == coverage.pairing
    <2> SUFFICES ASSUME OutageInv, ~ coverage.failed
                 PROVE  /\ Outage \subseteq p.explained \/ unexplained_gap_present(p)
                        /\ replay_window_coverage(p, TRUE) =>
                              /\ _merge_intervals(Outage) \leq MAX_EXPLAINED_GAP_NS
                              /\ Cardinality(Outage) * 100
                                    \leq (window_end_ns - window_start_ns) * MAX_EXPLAINED_GAP_PERCENT
        BY DEF OutageIsAccounted
    <2>1. \A v \in Venues : Accounted(p, v, dark[v])
        BY DEF OutageInv, Owed
    <2>2. ~ p.unexplained => Outage \subseteq p.explained
        BY <2>1 DEF Outage, Accounted
    <2>3. Outage \subseteq p.explained \/ unexplained_gap_present(p)
        BY <2>2 DEF unexplained_gap_present
    <2>4. ASSUME replay_window_coverage(p, TRUE)
          PROVE  /\ _merge_intervals(Outage) \leq MAX_EXPLAINED_GAP_NS
                 /\ Cardinality(Outage) * 100
                       \leq (window_end_ns - window_start_ns) * MAX_EXPLAINED_GAP_PERCENT
        <3> DEFINE limit == (window_end_ns - window_start_ns) * MAX_EXPLAINED_GAP_PERCENT
        <3>1. /\ ~ unexplained_gap_present(p)
              /\ _merge_intervals(p.explained) \leq MAX_EXPLAINED_GAP_NS
              /\ Cardinality(p.explained) * 100 \leq limit
            BY <2>4 DEF replay_window_coverage, window_coverage_ok
        <3>2. Outage \subseteq p.explained
            BY <2>3, <3>1
        <3>3. p.explained \subseteq Times
            BY DEF OutageInv, LinkInv, ReplayInv, Coverages, Pairings
        <3>4. /\ MAX_EXPLAINED_GAP_NS \in Int /\ MAX_EXPLAINED_GAP_PERCENT \in Int
              /\ window_end_ns - window_start_ns \in Int
            BY WindowAssumption
        <3>5. limit \in Int
            BY <3>4
        <3> HIDE DEF limit, p
        <3>6. _merge_intervals(Outage) \leq MAX_EXPLAINED_GAP_NS
            <4>1. /\ _merge_intervals(Outage) \in Int /\ _merge_intervals(p.explained) \in Int
                  /\ _merge_intervals(Outage) \leq _merge_intervals(p.explained)
                BY <3>2, <3>3, MergeGrows
            <4> QED BY <3>1, <3>4, <4>1
        <3>7. /\ Cardinality(Outage) \in Nat /\ Cardinality(p.explained) \in Nat
              /\ Cardinality(Outage) \leq Cardinality(p.explained)
            <4>1. IsFiniteSet(Times)
                BY ReplayConstants, FS_Interval DEF Times
            <4>2. IsFiniteSet(p.explained)
                BY <3>3, <4>1, FS_Subset
            <4>3. /\ IsFiniteSet(Outage)
                  /\ Cardinality(Outage) \leq Cardinality(p.explained)
                BY <3>2, <4>2, FS_Subset
            <4> QED BY <4>2, <4>3, FS_CardinalityType
        <3>8. Cardinality(Outage) * 100 \leq limit
            BY <3>1, <3>5, <3>7
        <3> QED BY <3>6, <3>8 DEF limit
    <2> QED BY <2>3, <2>4
<1> QED BY <1>1, OutageInvariant, PTL
=============================================================================
