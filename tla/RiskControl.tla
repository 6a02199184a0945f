---------------------------- MODULE RiskControl ----------------------------
(***************************************************************************)
(* The two controls that watch a writer while it trades: continuous        *)
(* admission (reconciliation/admission.py, promotion.py), which asks after *)
(* every observation whether new risk may be opened, and the detectors of  *)
(* the kill switch (kill_switch.py, kill_switch_composition.py), which ask *)
(* whether the whole system must stop.  Both carry clocks from observation *)
(* to observation (clock.py) through observations that show nothing.       *)
(*                                                                         *)
(* The functions are pure; who calls them is not in the repository.  The   *)
(* model takes from the caller that it passes each result on as the        *)
(* previous value of the next call, and that it does not observe the       *)
(* future.  What it observes is arbitrary.                                 *)
(***************************************************************************)
EXTENDS Naturals

CONSTANTS max_naked_ns,        \* how long an exposure may be naked
          max_outstanding_ns,  \* how long a pair may be unresolved
          streak_threshold,    \* inconsistent reconciliations in a row
          MaxNow               \* bound: the clock

ASSUME LimitAssumption ==
    {max_naked_ns, max_outstanding_ns} \subseteq Nat /\ streak_threshold \in Nat \ {0}
ASSUME BoundAssumption == MaxNow \in Nat \ {0}

VARIABLES
    now_ns,
    mode,         \* the writer's authority mode
    exposure,     \* ExposureClock of the last observation
    obligation,   \* StateClock of the last pair observation
    streak,       \* ReconciliationStreak
    decision,     \* action of the last KillSwitchDecision, and its time
    admitted,     \* history: the admission cycle that let this writer go on, or 0
    exposures,    \* history: the exposure states observed, by time
    obligations,  \* history: the obligation states observed, by time
    verdicts      \* history: the consistency of the reconciliations, by time

clocks == <<exposure, obligation, exposures, obligations>>
vars == <<now_ns, mode, exposure, obligation, streak, decision, admitted, exposures,
          obligations, verdicts>>

Times == 1 .. MaxNow
None == 0  \* no time

STATES == {"inactive", "active", "unknown"}
Modes == {"pending_reconciliation", "risk_increasing", "flatten_only", "cancel_only"}
Notionals == {"unknown", "within", "exceeded"}
Actions == {"continue", "flatten_and_stop", "cancel_only_freeze"}

\* "none" in a history: nothing was observed at that time.
History(values) == [Times -> values \cup {"none"}]

Clocks == [state : STATES \cup {"none"}, observed_ns : Times \cup {None},
           active_since_ns : Times \cup {None}, duration_exceeded : {"no", "yes", "unknown"}]
NoClock == [state |-> "none", observed_ns |-> None, active_since_ns |-> None,
            duration_exceeded |-> "unknown"]
NoStreak == [count |-> 0, last_observed_ns |-> None]

\* The types of the variables.
TypeOK ==
    /\ now_ns \in Times
    /\ mode \in Modes
    /\ exposure \in Clocks /\ obligation \in Clocks
    /\ streak \in [count : 0 .. MaxNow, last_observed_ns : Times \cup {None}]
    /\ decision \in [action : Actions \cup {"none"}, observed_ns : Times \cup {None}]
    /\ admitted \in Times \cup {None}
    /\ exposures \in History(STATES) /\ obligations \in History(STATES)
    /\ verdicts \in History({"consistent", "inconsistent"})

Init ==
    /\ now_ns = 1
    /\ mode = "pending_reconciliation"
    /\ exposure = NoClock /\ obligation = NoClock
    /\ streak = NoStreak
    /\ decision = [action |-> "none", observed_ns |-> None]
    /\ admitted = None
    /\ exposures = [t \in Times |-> "none"]
    /\ obligations = [t \in Times |-> "none"]
    /\ verdicts = [t \in Times |-> "none"]

-----------------------------------------------------------------------------
\* A clock takes no observation older than its last, nor a second opinion.
Accepts(previous, state, observed_ns) ==
    /\ previous.observed_ns \leq observed_ns
    /\ previous.observed_ns = observed_ns => previous.state = state

\* Mutant: an unknown state ends the active interval.
ActiveSince_Forgetful(previous, state, observed_ns) ==
    IF state # "active" THEN None
    ELSE IF previous.active_since_ns = None THEN observed_ns ELSE previous.active_since_ns

\* An active interval lasts through unknown states, and only starts when seen.
ActiveSince(previous, state, observed_ns) ==
    CASE state = "inactive" -> None
      [] state = "active" /\ previous.active_since_ns = None -> observed_ns
      [] OTHER -> previous.active_since_ns

Exceeded(since, state, observed_ns, max_active_ns) ==
    CASE state = "inactive" -> "no"
      [] state # "inactive" /\ since = None -> "unknown"
      [] OTHER -> IF observed_ns - since > max_active_ns THEN "yes" ELSE "no"

advance_state_clock(previous, state, observed_ns, max_active_ns) ==
    LET since == ActiveSince(previous, state, observed_ns)
    IN  [state |-> state, observed_ns |-> observed_ns, active_since_ns |-> since,
         duration_exceeded |-> Exceeded(since, state, observed_ns, max_active_ns)]

\* delta_state: flat, naked, or no delta because a venue is not known.
advance_exposure_clock(state, observed_ns) ==
    /\ Accepts(exposure, state, observed_ns)
    /\ exposure' = advance_state_clock(exposure, state, observed_ns, max_naked_ns)
    /\ exposures' = [exposures EXCEPT ![observed_ns] = state]

\* pair_state: both legs complete, one not, or the fills of one not known.
PAIR_STATES == {"balanced", "unbalanced", "unknown"}

\* A leg whose fills are not known is owed like one that is not complete.
obligation_state(pair) == IF pair = "balanced" THEN "inactive" ELSE "active"

advance_obligation_clock(pair, observed_ns) ==
    LET state == obligation_state(pair)
    IN  /\ Accepts(obligation, state, observed_ns)
        /\ obligation' = advance_state_clock(obligation, state, observed_ns, max_outstanding_ns)
        /\ obligations' = [obligations EXCEPT ![observed_ns] = state]

build_continuous_admission_inputs(state, pair, observed_ns) ==
    /\ advance_exposure_clock(state, observed_ns)
    /\ advance_obligation_clock(pair, observed_ns)

\* Mutant: a pair that is outstanding too long is no reason by itself.
decide_continuous_admission_Naked(watched, owed, pair, notional, fit) ==
    /\ watched.state # "unknown" /\ watched.duration_exceeded = "no"
    /\ notional = "within"
    /\ pair # "unknown"
    /\ fit

\* No reason to freeze: the clocks in time, the rest known and within limits.
\* "fit" stands for a wallet that has not expired and a signer not frozen.
decide_continuous_admission(watched, owed, pair, notional, fit) ==
    /\ watched.state # "unknown" /\ watched.duration_exceeded = "no"
    /\ owed.duration_exceeded = "no"
    /\ notional = "within"
    /\ pair # "unknown"
    /\ fit

\* WriterLease.demote_to_cancel_only: nothing happens to other modes.
Demoted == IF mode \in {"risk_increasing", "flatten_only"} THEN "cancel_only" ELSE mode

\* run_admission_cycle, over an observation that is not older than the last.
run_admission_cycle(observed_ns) ==
    \E state \in STATES, pair \in PAIR_STATES, notional \in Notionals, fit \in BOOLEAN :
        /\ build_continuous_admission_inputs(state, pair, observed_ns)
        /\ IF decide_continuous_admission(exposure', obligation', pair, notional, fit)
           THEN /\ UNCHANGED mode
                /\ admitted' = IF mode = "risk_increasing" THEN observed_ns ELSE None
           ELSE /\ mode' = Demoted
                /\ admitted' = None
        /\ UNCHANGED <<now_ns, streak, decision, verdicts>>

-----------------------------------------------------------------------------
\* Mutant: an observation that is seen twice counts twice.
advance_reconciliation_streak_Repeated(consistent, observed_ns) ==
    /\ streak.last_observed_ns \leq observed_ns
    /\ streak' = [count |-> IF consistent THEN 0 ELSE streak.count + 1,
                  last_observed_ns |-> observed_ns]

\* Distinct inconsistent reconciliations in a row; an observation seen twice
\* must say the same, and counts once.
advance_reconciliation_streak(consistent, observed_ns) ==
    /\ streak.last_observed_ns \leq observed_ns
    /\ IF streak.last_observed_ns = observed_ns
       THEN /\ consistent = (streak.count = 0)
            /\ UNCHANGED streak
       ELSE streak' = [count |-> IF consistent THEN 0 ELSE streak.count + 1,
                       last_observed_ns |-> observed_ns]

\* An unknown naked notional triggers too, an over-limit one of course.
exposure_kill_trigger(watched, notional) ==
    \/ watched.state = "unknown"
    \/ notional \in {"unknown", "exceeded"}
    \/ watched.duration_exceeded = "yes"

\* Mutant: a streak only counts when something else is wrong.
decide_kill_switch_Lenient(triggered, known, consistency, reached) ==
    CASE ~ known \/ consistency = "unknown" -> "cancel_only_freeze"
      [] triggered /\ (reached \/ consistency = "inconsistent") -> "cancel_only_freeze"
      [] triggered /\ ~ reached /\ consistency = "consistent" -> "flatten_and_stop"
      [] OTHER -> "continue"

\* Flatten only what is known and agrees with the books.
decide_kill_switch(triggered, known, consistency, reached) ==
    CASE ~ known \/ consistency = "unknown" \/ reached -> "cancel_only_freeze"
      [] triggered /\ consistency = "inconsistent" -> "cancel_only_freeze"
      [] triggered /\ known /\ ~ reached /\ consistency = "consistent" -> "flatten_and_stop"
      [] OTHER -> "continue"

\* The stablecoin rate, the data's liveness, the key, the nonces and the orders:
\* one is unknown, all are known and quiet, or one is a trigger.
Evidence == {"unknown", "quiet", "trigger"}

build_kill_switch_snapshot(observed_ns) ==
    \E state \in STATES, notional \in Notionals, evidence \in Evidence,
       consistency \in {"consistent", "inconsistent", "unknown"} :
        LET known == "unknown" \notin {state, notional, evidence}
        IN  /\ advance_exposure_clock(state, observed_ns)
            /\ streak.last_observed_ns \leq observed_ns
            /\ IF consistency = "unknown"
               THEN UNCHANGED <<streak, verdicts>>
               ELSE /\ advance_reconciliation_streak(consistency = "consistent", observed_ns)
                    /\ verdicts' = [verdicts EXCEPT ![observed_ns] = consistency]
            /\ decision' = [action |-> decide_kill_switch(
                                evidence # "quiet" \/ exposure_kill_trigger(exposure', notional),
                                known, consistency, streak'.count \geq streak_threshold),
                            observed_ns |-> observed_ns]
            /\ UNCHANGED <<now_ns, mode, obligation, obligations, admitted>>

demote_kill_switch_freeze ==
    /\ decision.action = "cancel_only_freeze"
    /\ mode' = Demoted
    /\ admitted' = None
    /\ UNCHANGED <<now_ns, clocks, streak, decision, verdicts>>

demote_kill_switch_flatten ==
    /\ decision.action = "flatten_and_stop"
    /\ mode = "risk_increasing"
    /\ mode' = "flatten_only"
    /\ admitted' = None
    /\ UNCHANGED <<now_ns, clocks, streak, decision, verdicts>>

\* promote_writer, with a ready startup admission.
promote_writer ==
    /\ mode = "pending_reconciliation"
    /\ mode' = "risk_increasing"
    /\ UNCHANGED <<now_ns, clocks, streak, decision, admitted, verdicts>>

Tick ==
    /\ now_ns < MaxNow
    /\ now_ns' = now_ns + 1
    /\ UNCHANGED <<mode, clocks, streak, decision, admitted, verdicts>>

Next ==
    \/ \E t \in Times : t \leq now_ns /\ (run_admission_cycle(t) \/ build_kill_switch_snapshot(t))
    \/ demote_kill_switch_freeze \/ demote_kill_switch_flatten
    \/ promote_writer
    \/ Tick

Spec == Init /\ [][Next]_vars

-----------------------------------------------------------------------------
\* The observations of the running active interval: nothing inactive follows.
Interval(observed) ==
    {t \in Times : observed[t] = "active" /\ \A u \in Times : u > t => observed[u] # "inactive"}

\* An active interval that was first seen too long before t.
Overdue(observed, t, limit) ==
    \E s \in Times : /\ s \leq t /\ t - s > limit
                     /\ observed[s] = "active"
                     /\ \A u \in Times : s < u /\ u \leq t => observed[u] # "inactive"

Exact(state_clock, observed) ==
    IF state_clock.active_since_ns = None
    THEN Interval(observed) = {}
    ELSE /\ state_clock.active_since_ns \in Interval(observed)
         /\ \A t \in Interval(observed) : state_clock.active_since_ns \leq t

\* A clock shows the first observation of the running interval, however many
\* unknown observations lie in it: it neither loses time nor invents any.
ClocksAreExact == Exact(exposure, exposures) /\ Exact(obligation, obligations)

\* The streak is the number of inconsistent reconciliations since the last
\* consistent one, each counted once; K of them never go on.
StreakIsExact ==
    LET row == {t \in Times : verdicts[t] = "inconsistent"
                              /\ \A u \in Times : u > t => verdicts[u] # "consistent"}
    IN  /\ \E f \in [row -> 1 .. streak.count] :
              /\ \A s, t \in row : f[s] = f[t] => s = t
              /\ \A n \in 1 .. streak.count : \E t \in row : f[t] = n
        /\ decision.action = "continue" /\ decision.observed_ns = streak.last_observed_ns
              => streak.count < streak_threshold

\* The kill switch lets nothing go on that was naked for too long.
ContinueIsSafe ==
    decision.action = "continue" => ~ Overdue(exposures, decision.observed_ns, max_naked_ns)

\* A writer that an admission cycle left risk-increasing was neither naked nor
\* unresolved for too long at that time.
RiskIsAdmitted ==
    admitted # None =>
        /\ mode = "risk_increasing"
        /\ ~ Overdue(exposures, admitted, max_naked_ns)
        /\ ~ Overdue(obligations, admitted, max_outstanding_ns)
=============================================================================
