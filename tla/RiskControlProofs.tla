------------------------- MODULE RiskControlProofs -------------------------
(***************************************************************************)
(* Proofs about RiskControl, for any limits and any length of time: the    *)
(* clocks are exact, and neither control lets a writer go on whose         *)
(* exposure, or pair, was open for too long; the streak counts exactly the *)
(* inconsistent reconciliations in a row.                                  *)
(***************************************************************************)
EXTENDS RiskControl, TLAPS

\* What relates a clock to the observations it was advanced by: it stands at the
\* last one, it is exact, and what it calls in time is not overdue.
ClockInv(c, observed, limit) ==
    /\ c \in Clocks /\ observed \in History(STATES)
    /\ \A t \in Times : observed[t] # "none" => t \leq c.observed_ns
    /\ c.observed_ns # None => observed[c.observed_ns] = c.state
    /\ c.observed_ns = None => c = NoClock
    /\ Exact(c, observed)
    /\ c.duration_exceeded = "no" => ~ Overdue(observed, c.observed_ns, limit)

\* No verdict is about an observation the clocks have not seen.
BoundInv ==
    /\ streak.count \leq streak.last_observed_ns
    /\ decision.observed_ns \leq exposure.observed_ns
    /\ admitted \leq exposure.observed_ns
    /\ admitted \leq obligation.observed_ns

\* The inconsistent reconciliations since the last consistent one.
Row(observed) == {t \in Times : observed[t] = "inconsistent"
                                 /\ \A u \in Times : u > t => observed[u] # "consistent"}

\* The row has n members.
Counts(row, n) == \E f \in [row -> 1 .. n] :
                      /\ \A s, t \in row : f[s] = f[t] => s = t
                      /\ \A m \in 1 .. n : \E t \in row : f[t] = m

\* What relates a streak to the verdicts it was advanced by: it stands at the last
\* one, it is zero if that was consistent, and it counts the row.
StreakInv(s, observed) ==
    /\ \A t \in Times : observed[t] # "none" => t \leq s.last_observed_ns
    /\ s.last_observed_ns # None =>
          observed[s.last_observed_ns] = IF s.count = 0 THEN "consistent" ELSE "inconsistent"
    /\ Counts(Row(observed), s.count)

\* A decision on the last verdict to go on knows that the streak is short.
ShortInv ==
    decision.action = "continue" /\ decision.observed_ns = streak.last_observed_ns
        => streak.count < streak_threshold

\* The inductive invariant.
IInv ==
    /\ TypeOK
    /\ ClockInv(exposure, exposures, max_naked_ns)
    /\ ClockInv(obligation, obligations, max_outstanding_ns)
    /\ BoundInv
    /\ StreakInv(streak, verdicts)
    /\ ShortInv
    /\ ContinueIsSafe
    /\ RiskIsAdmitted

-----------------------------------------------------------------------------
\* An accepted observation keeps a clock in step with its history: advancing it
\* (advance_state_clock) loses no time of an active interval and invents none.
LEMMA ClockStep ==
    ASSUME NEW c, NEW observed, NEW limit \in Nat, ClockInv(c, observed, limit),
           NEW state \in STATES, NEW t \in Times, Accepts(c, state, t)
    PROVE  ClockInv(advance_state_clock(c, state, t, limit),
                    [observed EXCEPT ![t] = state], limit)
<1> DEFINE since == ActiveSince(c, state, t)
           d == advance_state_clock(c, state, t, limit)
           later == [observed EXCEPT ![t] = state]
<1>1. /\ c \in Clocks /\ observed \in History(STATES)
      /\ c.observed_ns \in Nat /\ c.active_since_ns \in Times \cup {None}
      /\ Times \subseteq Nat \ {0} /\ MaxNow \in Nat
    BY BoundAssumption DEF ClockInv, Clocks, Times, None
<1>2. /\ since \in Times \cup {None}
      /\ Exceeded(since, state, t, limit) \in {"no", "yes", "unknown"}
    BY <1>1 DEF ActiveSince, Exceeded, STATES
<1>3. /\ d \in Clocks
      /\ d.state = state /\ d.observed_ns = t /\ d.active_since_ns = since
      /\ d.duration_exceeded = Exceeded(since, state, t, limit)
    BY <1>2 DEF advance_state_clock, Clocks
<1>4. /\ later \in History(STATES) /\ later[t] = state
      /\ \A u \in Times : u # t => later[u] = observed[u]
    BY <1>1 DEF History
<1> HIDE DEF d, later
<1>5. \A u \in Times : later[u] # "none" => u \leq t
    BY <1>1, <1>4 DEF ClockInv, Accepts
<1>6. Exact(d, later)
    <2>1. \A u \in Times : u > t => later[u] = "none"
        BY <1>1, <1>5
    <2>2. CASE state = "inactive"
        <3>1. since = None
            BY <2>2 DEF ActiveSince
        <3>2. Interval(later) = {}
            <4>1. ASSUME NEW u \in Times, later[u] = "active" PROVE u < t
                BY <1>1, <1>4, <1>5, <2>2, <4>1
            <4> QED
                BY <1>4, <2>2, <4>1 DEF Interval
        <3> QED
            BY <1>3, <3>1, <3>2 DEF Exact
    <2>3. CASE state # "inactive"
        <3>1. Interval(later) = IF state = "active" THEN Interval(observed) \cup {t}
                                                    ELSE Interval(observed)
            <4>1. \A u \in Times : later[u] # "inactive" => observed[u] # "inactive" \/ u = t
                BY <1>4
            <4>2. \A u \in Times : u = t /\ c.observed_ns = t => observed[u] = state
                BY <1>1 DEF ClockInv, Accepts, None
            <4>3. observed[t] # "inactive"
                BY <1>1, <4>2, <2>3 DEF ClockInv, Accepts, History
            <4>4. \A u \in Times : later[u] = "inactive" <=> observed[u] = "inactive"
                BY <1>4, <4>3, <2>3
            <4>5. observed[t] \in {"none", state}
                BY <1>1, <4>2 DEF ClockInv, Accepts, History
            <4>6. t \in Interval(later) <=> state = "active"
                BY <1>1, <1>4, <2>1 DEF Interval
            <4>7. \A u \in Times : u # t => (u \in Interval(later) <=> u \in Interval(observed))
                BY <1>4, <4>4 DEF Interval
            <4>8. t \in Interval(observed) => state = "active"
                BY <4>5 DEF Interval
            <4>9. Interval(later) \subseteq Times /\ Interval(observed) \subseteq Times
                BY DEF Interval
            <4> QED
                BY <4>6, <4>7, <4>8, <4>9
        <3>2. \A u \in Interval(observed) : u \in Times /\ u \leq t
            BY <1>1 DEF Interval, ClockInv, Accepts
        <3>3. Exact(c, observed)
            BY DEF ClockInv
        <3>4. CASE state = "active" /\ c.active_since_ns = None
            BY <1>1, <1>3, <3>1, <3>3, <3>4 DEF Exact, ActiveSince, None
        <3>5. CASE ~ (state = "active" /\ c.active_since_ns = None)
            <4>1. since = c.active_since_ns
                BY <2>3, <3>5 DEF ActiveSince
            <4> QED
                BY <1>1, <1>3, <3>1, <3>2, <3>3, <3>5, <4>1 DEF Exact
        <3> QED
            BY <3>4, <3>5
    <2> QED
        BY <2>2, <2>3
<1>7. ASSUME d.duration_exceeded = "no" PROVE ~ Overdue(later, t, limit)
    <2>1. SUFFICES ASSUME NEW s \in Times, s \leq t, t - s > limit, later[s] = "active",
                          \A u \in Times : s < u /\ u \leq t => later[u] # "inactive"
                   PROVE  FALSE
        BY DEF Overdue
    <2>2. s \in Interval(later)
        BY <2>1, <1>1, <1>5 DEF Interval
    <2>3. state # "inactive"
        BY <2>1, <1>1, <1>4
    <2>4. since \in Times /\ since \leq s
        BY <1>3, <1>6, <2>2, <1>2 DEF Exact
    <2>5. t - since \leq limit
        BY <1>1, <1>3, <1>7, <2>3, <2>4 DEF Exceeded, None
    <2>6. since \in Nat /\ s \in Nat /\ t \in Nat
        BY <1>1, <2>4
    <2> HIDE DEF since
    <2> QED
        BY <2>1, <2>4, <2>5, <2>6
<1> QED
    BY <1>1, <1>3, <1>4, <1>5, <1>6, <1>7 DEF ClockInv, None, d, later

\* What was observed up to the clock's time stays as it was: an observation that
\* the clock accepts is a later one or the same again.
LEMMA OverdueStable ==
    ASSUME NEW c, NEW observed, NEW limit \in Nat, NEW other \in Nat,
           ClockInv(c, observed, limit),
           NEW state \in STATES, NEW t \in Times, Accepts(c, state, t),
           NEW before \in Times \cup {None}, before \leq c.observed_ns
    PROVE  Overdue([observed EXCEPT ![t] = state], before, other)
              <=> Overdue(observed, before, other)
<1>1. /\ observed \in History(STATES) /\ Times \subseteq Nat \ {0}
      /\ c.observed_ns \in Nat /\ before \in Nat
    BY BoundAssumption DEF ClockInv, Clocks, Times, None
<1>2. \A u \in Times : u \leq before => [observed EXCEPT ![t] = state][u] = observed[u]
    BY <1>1 DEF ClockInv, Accepts, None, History
<1> QED
    BY <1>1, <1>2 DEF Overdue

\* The empty row has no member.
LEMMA EmptyCounts == Counts({}, 0)
<1>1. PICK f : f = [u \in {} |-> 0]
    OBVIOUS
<1>2. f \in [{} -> 1 .. 0]
    BY <1>1
<1>3. \A m \in 1 .. 0 : FALSE
    OBVIOUS
<1> QED BY <1>2, <1>3 DEF Counts

\* One more verdict: it counts if it is inconsistent, and once only.
LEMMA StreakStep ==
    ASSUME TypeOK, StreakInv(streak, verdicts), NEW t \in Times,
           NEW consistency \in {"consistent", "inconsistent"},
           advance_reconciliation_streak(consistency = "consistent", t),
           verdicts' = [verdicts EXCEPT ![t] = consistency]
    PROVE  StreakInv(streak', verdicts')
<1>1. /\ Times \subseteq Nat \ {0} /\ t \in Nat
      /\ streak.last_observed_ns \in Nat /\ streak.count \in Nat
      /\ verdicts \in History({"consistent", "inconsistent"})
      /\ streak.last_observed_ns \leq t
    BY BoundAssumption DEF TypeOK, Times, None, advance_reconciliation_streak
<1>2. /\ verdicts'[t] = consistency
      /\ \A u \in Times : u # t => verdicts'[u] = verdicts[u]
    BY <1>1 DEF History
<1>3. CASE streak.last_observed_ns = t
    <2>1. streak' = streak /\ (consistency = "consistent" <=> streak.count = 0)
        BY <1>3 DEF advance_reconciliation_streak
    <2>2. verdicts[t] = consistency
        BY <1>1, <1>3, <2>1 DEF StreakInv, None
    <2>3. verdicts' = verdicts
        BY <1>1, <2>2 DEF History
    <2> QED BY <2>1, <2>3
<1>4. CASE streak.last_observed_ns # t
    <2>1. streak' = [count |-> IF consistency = "consistent" THEN 0 ELSE streak.count + 1,
                     last_observed_ns |-> t]
        BY <1>4 DEF advance_reconciliation_streak
    <2>2. \A u \in Times : verdicts[u] # "none" => u < t
        BY <1>1, <1>4 DEF StreakInv
    <2>3. \A u \in Times : verdicts'[u] # "none" => u \leq t
        BY <1>1, <1>2, <2>2
    <2>4. verdicts'[t] = IF streak'.count = 0 THEN "consistent" ELSE "inconsistent"
        BY <1>1, <1>2, <2>1
    <2>5. CASE consistency = "consistent"
        <3>1. Row(verdicts') = {}
            <4>1. ASSUME NEW u \in Row(verdicts') PROVE FALSE
                <5>1. u \in Times /\ verdicts'[u] = "inconsistent"
                    BY <4>1 DEF Row
                <5>2. u < t
                    BY <1>1, <1>2, <2>3, <2>5, <5>1
                <5> QED BY <1>2, <2>5, <4>1, <5>1, <5>2 DEF Row
            <4> QED BY <4>1
        <3>2. streak'.count = 0
            BY <2>1, <2>5
        <3> QED BY <2>1, <2>3, <2>4, <3>1, <3>2, EmptyCounts DEF StreakInv
    <2>6. CASE consistency = "inconsistent"
        <3> DEFINE n == streak.count
                   row == Row(verdicts)
        <3>1. t \notin row /\ row \subseteq Times
            BY <1>1, <2>2 DEF Row
        <3>2. Row(verdicts') = row \cup {t}
            <4>1. t \in Row(verdicts')
                BY <1>1, <1>2, <2>3, <2>6 DEF Row
            <4>2. ASSUME NEW u \in Times, u # t
                  PROVE  u \in Row(verdicts') <=> u \in row
                <5>1. verdicts'[u] = verdicts[u]
                    BY <1>2, <4>2
                <5>2. \A w \in Times : verdicts'[w] = "consistent" <=> verdicts[w] = "consistent"
                    BY <1>1, <1>2, <2>2, <2>6
                <5> QED BY <5>1, <5>2 DEF Row
            <4> QED BY <4>1, <4>2, <3>1 DEF Row
        <3>3. PICK f \in [row -> 1 .. n] :
                  /\ \A u, w \in row : f[u] = f[w] => u = w
                  /\ \A m \in 1 .. n : \E u \in row : f[u] = m
            BY DEF StreakInv, Counts
        <3> DEFINE g == [u \in row \cup {t} |-> IF u = t THEN n + 1 ELSE f[u]]
        <3>4. n \in Nat
            BY <1>1
        <3> HIDE DEF n, row
        <3>5. g \in [row \cup {t} -> 1 .. n + 1]
            BY <3>3, <3>4
        <3>6. g[t] = n + 1 /\ \A u \in row : g[u] = f[u] /\ f[u] \in 1 .. n
            BY <3>1, <3>3
        <3> HIDE DEF g
        <3>7. \A u, w \in row \cup {t} : g[u] = g[w] => u = w
            BY <3>3, <3>4, <3>6
        <3>8. \A m \in 1 .. n + 1 : \E u \in row \cup {t} : g[u] = m
            <4> TAKE m \in 1 .. n + 1
            <4>1. CASE m = n + 1
                BY <3>6, <4>1
            <4>2. CASE m \in 1 .. n
                BY <3>3, <3>6, <4>2
            <4> QED BY <3>4, <4>1, <4>2
        <3>9. Counts(row \cup {t}, n + 1)
            BY <3>5, <3>7, <3>8 DEF Counts
        <3>10. streak'.count = n + 1
            BY <2>1, <2>6 DEF n
        <3> QED BY <2>1, <2>3, <2>4, <3>2, <3>9, <3>10 DEF StreakInv
    <2> QED BY <2>5, <2>6
<1> QED BY <1>3, <1>4

-----------------------------------------------------------------------------
\* The initial state.
LEMMA InitInv == Init => IInv
<1> SUFFICES ASSUME Init PROVE IInv
    OBVIOUS
<1>1. Interval([t \in Times |-> "none"]) = {}
    BY DEF Interval
<1>2. NoClock \in Clocks
    BY DEF NoClock, Clocks, None
<1>3. ASSUME NEW limit \in Nat PROVE ClockInv(NoClock, [t \in Times |-> "none"], limit)
    BY <1>1, <1>2 DEF ClockInv, Exact, NoClock, History, None
<1>4. StreakInv(streak, verdicts)
    <2>1. Row(verdicts) = {} /\ \A t \in Times : verdicts[t] = "none"
        BY DEF Init, Row
    <2> QED BY <2>1, EmptyCounts DEF Init, StreakInv, NoStreak, None
<1> QED
    BY <1>1, <1>2, <1>3, <1>4, LimitAssumption, BoundAssumption, SMTT(20)
       DEF Init, IInv, TypeOK, BoundInv, ShortInv, ContinueIsSafe, RiskIsAdmitted, NoStreak, NoClock,
           Times, Modes, Actions, History, None

\* A control that takes the next exposure observation keeps the exposure clock
\* exact (advance_exposure_clock), and what was in time before still is.
LEMMA ExposureStep ==
    ASSUME IInv, NEW state \in STATES, NEW t \in Times,
           advance_exposure_clock(state, t)
    PROVE  /\ ClockInv(exposure, exposures, max_naked_ns)'
           /\ exposure' \in Clocks /\ exposures' \in History(STATES)
           /\ exposure'.observed_ns = t /\ exposure.observed_ns \leq t
           /\ \A before \in Times \cup {None} : before \leq exposure.observed_ns =>
                 (Overdue(exposures', before, max_naked_ns)
                     <=> Overdue(exposures, before, max_naked_ns))
<1>1. /\ Accepts(exposure, state, t)
      /\ exposure' = advance_state_clock(exposure, state, t, max_naked_ns)
      /\ exposures' = [exposures EXCEPT ![t] = state]
      /\ ClockInv(exposure, exposures, max_naked_ns) /\ max_naked_ns \in Nat
    BY LimitAssumption DEF advance_exposure_clock, IInv
<1>2. ClockInv(exposure', exposures', max_naked_ns)
    BY <1>1, ClockStep
<1>3. exposure'.observed_ns = t /\ exposure.observed_ns \leq t
    BY <1>1 DEF advance_state_clock, Accepts
<1> QED
    BY <1>1, <1>2, <1>3, OverdueStable DEF ClockInv

\* The same for the obligation clock of a pair (advance_obligation_clock).
LEMMA ObligationStep ==
    ASSUME IInv, NEW pair, NEW t \in Times,
           advance_obligation_clock(pair, t)
    PROVE  /\ ClockInv(obligation, obligations, max_outstanding_ns)'
           /\ obligation' \in Clocks /\ obligations' \in History(STATES)
           /\ obligation'.observed_ns = t /\ obligation.observed_ns \leq t
           /\ \A before \in Times \cup {None} : before \leq obligation.observed_ns =>
                 (Overdue(obligations', before, max_outstanding_ns)
                     <=> Overdue(obligations, before, max_outstanding_ns))
<1> DEFINE state == obligation_state(pair)
<1>1. /\ Accepts(obligation, state, t)
      /\ obligation' = advance_state_clock(obligation, state, t, max_outstanding_ns)
      /\ obligations' = [obligations EXCEPT ![t] = state]
      /\ ClockInv(obligation, obligations, max_outstanding_ns)
      /\ max_outstanding_ns \in Nat
    BY LimitAssumption DEF advance_obligation_clock, IInv
<1>2. state \in STATES
    BY DEF obligation_state, STATES
<1> HIDE DEF state
<1>3. ClockInv(obligation', obligations', max_outstanding_ns)
    BY <1>1, <1>2, ClockStep
<1>4. obligation'.observed_ns = t /\ obligation.observed_ns \leq t
    BY <1>1 DEF advance_state_clock, Accepts
<1> QED
    BY <1>1, <1>2, <1>3, <1>4, OverdueStable DEF ClockInv

\* run_admission_cycle preserves the invariant: it leaves a writer
\* risk-increasing only when both clocks, as just advanced, are in time.
LEMMA AdmissionStep ==
    ASSUME IInv, NEW t \in Times, t \leq now_ns, run_admission_cycle(t)
    PROVE  IInv'
<1>1. PICK state \in STATES, pair \in PAIR_STATES, notional \in Notionals, fit \in BOOLEAN :
        /\ advance_exposure_clock(state, t)
        /\ advance_obligation_clock(pair, t)
        /\ IF decide_continuous_admission(exposure', obligation', pair, notional, fit)
           THEN /\ UNCHANGED mode
                /\ admitted' = IF mode = "risk_increasing" THEN t ELSE None
           ELSE /\ mode' = Demoted
                /\ admitted' = None
        /\ UNCHANGED <<now_ns, streak, decision, verdicts>>
    BY DEF run_admission_cycle, build_continuous_admission_inputs
<1>2. /\ ClockInv(exposure, exposures, max_naked_ns)'
      /\ exposure' \in Clocks /\ exposures' \in History(STATES)
      /\ exposure'.observed_ns = t /\ exposure.observed_ns \leq t
      /\ \A before \in Times \cup {None} : before \leq exposure.observed_ns =>
            (Overdue(exposures', before, max_naked_ns)
                <=> Overdue(exposures, before, max_naked_ns))
    BY <1>1, ExposureStep
<1>3. /\ ClockInv(obligation, obligations, max_outstanding_ns)'
      /\ obligation' \in Clocks /\ obligations' \in History(STATES)
      /\ obligation'.observed_ns = t
    BY <1>1, ObligationStep
<1>4. /\ TypeOK /\ BoundInv /\ ContinueIsSafe /\ ShortInv /\ StreakInv(streak, verdicts)
      /\ Times \subseteq Nat /\ exposure.observed_ns \in Nat
    BY BoundAssumption DEF IInv, TypeOK, Times, Clocks, None
<1>5. TypeOK'
    BY <1>1, <1>2, <1>3, <1>4 DEF TypeOK, Demoted, Modes
<1>6. BoundInv'
    <2>1. decision' = decision /\ streak' = streak
        BY <1>1
    <2>2. admitted' \in {t, 0}
        BY <1>1 DEF None
    <2>3. decision.observed_ns \in Nat /\ t \in Nat
        BY <1>4, BoundAssumption DEF TypeOK, Times, None
    <2>4. decision.observed_ns \leq t /\ admitted' \leq t
        BY <1>2, <1>4, <2>2, <2>3 DEF BoundInv
    <2> QED
        BY <1>2, <1>3, <1>4, <2>1, <2>4 DEF BoundInv
<1>7. ContinueIsSafe'
    BY <1>1, <1>2, <1>4 DEF ContinueIsSafe, BoundInv, TypeOK
<1>8. RiskIsAdmitted'
    <2>1. CASE admitted' = None
        BY <2>1 DEF RiskIsAdmitted
    <2>2. CASE admitted' # None
        <3>1. /\ decide_continuous_admission(exposure', obligation', pair, notional, fit)
              /\ mode' = "risk_increasing" /\ admitted' = t
            BY <1>1, <2>2
        <3>2. exposure'.duration_exceeded = "no" /\ obligation'.duration_exceeded = "no"
            BY <3>1 DEF decide_continuous_admission
        <3> QED
            BY <1>2, <1>3, <3>1, <3>2 DEF ClockInv, RiskIsAdmitted
    <2> QED
        BY <2>1, <2>2
<1>9. StreakInv(streak, verdicts)' /\ ShortInv'
    BY <1>1, <1>4 DEF ShortInv
<1> QED
    BY <1>2, <1>3, <1>5, <1>6, <1>7, <1>8, <1>9 DEF IInv

\* build_kill_switch_snapshot preserves the invariant: it only goes on when the
\* exposure clock, as just advanced, is in time.
LEMMA SnapshotStep ==
    ASSUME IInv, NEW t \in Times, t \leq now_ns, build_kill_switch_snapshot(t)
    PROVE  IInv'
<1>1. PICK state \in STATES, notional \in Notionals, evidence \in Evidence,
           consistency \in {"consistent", "inconsistent", "unknown"} :
        /\ advance_exposure_clock(state, t)
        /\ streak.last_observed_ns \leq t
        /\ IF consistency = "unknown"
           THEN UNCHANGED <<streak, verdicts>>
           ELSE /\ advance_reconciliation_streak(consistency = "consistent", t)
                /\ verdicts' = [verdicts EXCEPT ![t] = consistency]
        /\ decision' = [action |-> decide_kill_switch(
                            evidence # "quiet" \/ exposure_kill_trigger(exposure', notional),
                            "unknown" \notin {state, notional, evidence},
                            consistency, streak'.count \geq streak_threshold),
                        observed_ns |-> t]
        /\ UNCHANGED <<now_ns, mode, obligation, obligations, admitted>>
    BY DEF build_kill_switch_snapshot
<1>2. /\ ClockInv(exposure, exposures, max_naked_ns)'
      /\ exposure' \in Clocks /\ exposures' \in History(STATES)
      /\ exposure'.observed_ns = t /\ exposure.observed_ns \leq t
      /\ \A before \in Times \cup {None} : before \leq exposure.observed_ns =>
            (Overdue(exposures', before, max_naked_ns)
                <=> Overdue(exposures, before, max_naked_ns))
    BY <1>1, ExposureStep
<1>3. /\ TypeOK /\ BoundInv /\ RiskIsAdmitted /\ StreakInv(streak, verdicts)
      /\ ClockInv(obligation, obligations, max_outstanding_ns)
      /\ Times \subseteq Nat \ {0} /\ exposure.observed_ns \in Nat /\ MaxNow \in Nat
    BY BoundAssumption DEF IInv, TypeOK, Times, Clocks, None
<1>4. exposure'.state = state
    BY <1>1 DEF advance_exposure_clock, advance_state_clock
<1>5. /\ streak' \in [count : 0 .. MaxNow, last_observed_ns : Times \cup {None}]
      /\ streak'.count \leq streak'.last_observed_ns
      /\ verdicts' \in History({"consistent", "inconsistent"})
    <2>1. CASE consistency = "unknown"
        BY <1>1, <1>3, <2>1 DEF TypeOK, BoundInv
    <2>2. CASE consistency # "unknown" /\ streak.last_observed_ns = t
        BY <1>1, <1>3, <2>2 DEF TypeOK, BoundInv, History, advance_reconciliation_streak
    <2>3. CASE consistency # "unknown" /\ streak.last_observed_ns # t
        <3>1. streak' = [count |-> IF consistency = "consistent" THEN 0 ELSE streak.count + 1,
                         last_observed_ns |-> t]
            BY <1>1, <2>3 DEF advance_reconciliation_streak
        <3>2. /\ streak.count \in Nat /\ streak.last_observed_ns \in Nat
              /\ streak.count < t /\ t \in Nat /\ t \leq MaxNow
            BY <1>1, <1>3, <2>3 DEF TypeOK, BoundInv, Times, None
        <3>3. verdicts' \in History({"consistent", "inconsistent"})
            BY <1>1, <1>3, <2>3 DEF TypeOK, History
        <3>4. streak'.count \in 0 .. MaxNow /\ streak'.count \leq t
            BY <1>3, <3>1, <3>2
        <3> QED
            BY <3>1, <3>3, <3>4
    <2> QED
        BY <2>1, <2>2, <2>3
<1>6. /\ decision'.observed_ns = t /\ decision'.action \in Actions
      /\ decision' \in [action : Actions \cup {"none"}, observed_ns : Times \cup {None}]
    BY <1>1 DEF decide_kill_switch, Actions
<1>7. TypeOK'
    BY <1>1, <1>2, <1>3, <1>5, <1>6 DEF TypeOK
<1>8. BoundInv'
    BY <1>1, <1>2, <1>3, <1>5, <1>6 DEF BoundInv, TypeOK, None
<1>9. ContinueIsSafe'
    <2> SUFFICES ASSUME decision'.action = "continue"
                 PROVE  ~ Overdue(exposures', t, max_naked_ns)
        BY <1>6 DEF ContinueIsSafe
    <2>1. /\ "unknown" \notin {state, notional, evidence}
          /\ ~ exposure_kill_trigger(exposure', notional)
        BY <1>1 DEF decide_kill_switch
    <2>2. exposure'.state # "unknown" /\ exposure'.duration_exceeded # "yes"
        BY <2>1 DEF exposure_kill_trigger
    <2>3. exposure'.duration_exceeded = "no"
        BY <1>1, <1>4, <2>2
           DEF advance_exposure_clock, advance_state_clock, Exceeded, ActiveSince, STATES, None,
               Times
    <2> QED
        BY <1>2, <2>3 DEF ClockInv
<1>10. RiskIsAdmitted'
    BY <1>1, <1>2, <1>3 DEF RiskIsAdmitted, BoundInv, TypeOK
<1>11. StreakInv(streak', verdicts')
    <2>1. CASE consistency = "unknown"
        BY <1>1, <1>3, <2>1
    <2>2. CASE consistency # "unknown"
        BY <1>1, <1>3, <2>2, StreakStep
    <2> QED BY <2>1, <2>2
<1>12. ShortInv'
    <2> SUFFICES ASSUME decision'.action = "continue"
                 PROVE  streak'.count < streak_threshold
        BY DEF ShortInv
    <2>1. ~ (streak'.count \geq streak_threshold)
        BY <1>1 DEF decide_kill_switch
    <2>2. streak'.count \in Nat /\ streak_threshold \in Nat
        BY <1>5, LimitAssumption
    <2> QED BY <2>1, <2>2
<1> QED
    BY <1>1, <1>2, <1>3, <1>7, <1>8, <1>9, <1>10, <1>11, <1>12 DEF IInv

-----------------------------------------------------------------------------
\* The strengthening that the theorems below are read off from.
THEOREM Invariant == Spec => []IInv
<1>1. ASSUME IInv, [Next]_vars PROVE IInv'
    <2> USE <1>1
    <2>1. CASE \E t \in Times : t \leq now_ns /\ run_admission_cycle(t)
        BY <2>1, AdmissionStep
    <2>2. CASE \E t \in Times : t \leq now_ns /\ build_kill_switch_snapshot(t)
        BY <2>2, SnapshotStep
    <2>3. CASE demote_kill_switch_freeze \/ demote_kill_switch_flatten
        BY <2>3, BoundAssumption
           DEF demote_kill_switch_freeze, demote_kill_switch_flatten, clocks, Demoted, IInv,
               TypeOK, Modes, BoundInv, ShortInv, ContinueIsSafe, RiskIsAdmitted, Clocks, Times,
               None
    <2>4. CASE promote_writer
        BY <2>4 DEF promote_writer, clocks, IInv, TypeOK, Modes, BoundInv, ShortInv,
                    ContinueIsSafe, RiskIsAdmitted
    <2>5. CASE Tick
        BY <2>5, BoundAssumption
           DEF Tick, clocks, IInv, TypeOK, Times, BoundInv, ShortInv, ContinueIsSafe, RiskIsAdmitted
    <2>6. CASE UNCHANGED vars
        BY <2>6 DEF vars, IInv, TypeOK, BoundInv, ShortInv, ContinueIsSafe, RiskIsAdmitted
    <2> QED
        BY <2>1, <2>2, <2>3, <2>4, <2>5, <2>6 DEF Next
<1> QED
    BY InitInv, <1>1, PTL DEF Spec

\* Every variable keeps its type, for any limits and any length of time.
THEOREM TypeCorrect == Spec => []TypeOK
<1>1. IInv => TypeOK
    BY DEF IInv
<1> QED
    BY <1>1, Invariant, PTL

\* The clocks of clock.py show the first observation of the running interval:
\* unknown observations in it neither lose time nor invent any.
THEOREM ClocksAreExactHolds == Spec => []ClocksAreExact
<1>1. IInv => ClocksAreExact
    BY DEF IInv, ClockInv, ClocksAreExact
<1> QED
    BY <1>1, Invariant, PTL

\* The streak (advance_reconciliation_streak) is the number of inconsistent
\* reconciliations since the last consistent one, however often each is seen, and a
\* decision on as many as the threshold never goes on.
THEOREM StreakIsExactHolds == Spec => []StreakIsExact
<1>1. IInv => StreakIsExact
    BY DEF IInv, StreakInv, ShortInv, Counts, Row, StreakIsExact
<1> QED
    BY <1>1, Invariant, PTL

\* A kill switch decision (decide_kill_switch) to go on is never about an
\* exposure that was naked for too long.
THEOREM ContinueIsSafeHolds == Spec => []ContinueIsSafe
<1>1. IInv => ContinueIsSafe
    BY DEF IInv
<1> QED
    BY <1>1, Invariant, PTL

\* A writer that run_admission_cycle leaves risk-increasing was neither naked
\* nor unresolved for too long.
THEOREM RiskIsAdmittedHolds == Spec => []RiskIsAdmitted
<1>1. IInv => RiskIsAdmitted
    BY DEF IInv
<1> QED
    BY <1>1, Invariant, PTL
=============================================================================
