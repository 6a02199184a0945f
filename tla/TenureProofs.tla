---------------------------- MODULE TenureProofs ----------------------------
(***************************************************************************)
(* Proofs about Tenure, for orders of any size, any limits of time, and    *)
(* any number of submissions: an admission was decided on what the venues  *)
(* had at the startup or later, a flatten finished on sound evidence       *)
(* leaves nothing, and an abandoned Hyperliquid order is cancelled.        *)
(***************************************************************************)
EXTENDS Tenure, TLAPS

\* Without a scheduled cancel Hyperliquid has an order only if it got live so.
LiveInv == late \/ armed \/ (opening["hyperliquid"] = 0 /\ reducing["hyperliquid"] = 0)

\* What was read since the startup_started_ns is what the venues had then or later.
SeenInv == \A s \in Surfaces : evidence[s].since => s \in shown

\* A stopped owner keeps a lease that may cancel only, and a rotation has none.
StopInv ==
    /\ stopped => mode = "cancel_only" /\ holder = "owner"
    /\ rotating => mode = "none"

NoOrders == opening = Zero /\ reducing = Zero /\ flight = Zero

\* Orders that were found empty while flattening stay so, and positions read after
\* that stay what they are, up to the end of the process.
SoundInv ==
    /\ sound # "none" => mode = "flatten_only" /\ flight = Zero
    /\ sound # "none" /\ evidence["orders"].value = Zero => NoOrders
    /\ sound = "positions" /\ evidence["orders"].value = Zero =>
           evidence["positions"].value = position
    /\ stopped /\ flat => NoOrders /\ position = Zero

\* The inductive invariant.
IInv == TypeOK /\ LiveInv /\ SeenInv /\ StopInv /\ SoundInv /\ AdmittedOnLaterState

-----------------------------------------------------------------------------
\* What the constants and the initial evidence are.
LEMMA ConstantTypes ==
    /\ Silent \in Nat /\ MaxSends \in Nat
    /\ horizon_ms \in Nat /\ horizon_ms < Silent /\ 0 < horizon_ms
    /\ Zero \in Quantities /\ NoSurface.value = Zero
    /\ NoEvidence \in [Surfaces -> [fresh : BOOLEAN, since : BOOLEAN, value : Quantities]]
BY SizeAssumption, TimeAssumption
DEF Silent, Zero, Quantities, NoSurface, NoEvidence

\* Two quantities without a sum are nothing, venue by venue.
LEMMA ActualOrders ==
    ASSUME TypeOK
    PROVE  /\ Actual \in [Surfaces -> Quantities]
           /\ Actual["positions"] = position
           /\ Actual["orders"] = Zero <=> opening = Zero /\ reducing = Zero
           /\ \A v \in Venues : Actual["orders"][v] = opening[v] + reducing[v]
<1>1. opening \in Quantities /\ reducing \in Quantities /\ position \in Quantities
    BY DEF TypeOK
<1>2. Actual["orders"] = [v \in Venues |-> opening[v] + reducing[v]]
    BY DEF Actual, Surfaces
<1>3. Actual["positions"] = [v \in Venues |-> position[v]]
    BY DEF Actual, Surfaces
<1>4. Actual["positions"] = position
    BY <1>1, <1>3 DEF Quantities
<1>5. \A v \in Venues : opening[v] + reducing[v] = 0 <=> opening[v] = 0 /\ reducing[v] = 0
    BY <1>1 DEF Quantities
<1>6. Actual["orders"] = Zero <=> opening = Zero /\ reducing = Zero
    BY <1>1, <1>2, <1>5 DEF Zero, Quantities
<1>7. Actual \in [Surfaces -> Quantities]
    <2>1. Actual["orders"] \in Quantities
        BY <1>1, <1>2 DEF Quantities
    <2> QED
        BY <1>1, <1>4, <2>1 DEF Actual, Surfaces
<1> QED
    BY <1>2, <1>4, <1>6, <1>7

\* Changing a quantity at one venue leaves quantities.
LEMMA Update ==
    ASSUME NEW f \in Quantities, NEW v \in Venues, NEW n \in Nat
    PROVE  [f EXCEPT ![v] = n] \in Quantities
BY DEF Quantities

\* A change at the venues hides no surface that was shown.
LEMMA ChangedTypes ==
    ASSUME TypeOK, NEW lives, Changed(lives)
    PROVE  /\ shown \subseteq shown' /\ shown' \subseteq Surfaces
           /\ late' \in BOOLEAN
BY DEF Changed, TypeOK

\* An order that is live after a change is late, unless a cancel was scheduled or it
\* was live before.
LEMMA NotLate ==
    ASSUME TypeOK', NEW lives, Changed(lives), ~ late'
    PROVE  \/ opening'["hyperliquid"] = 0 /\ reducing'["hyperliquid"] = 0
           \/ ~ late /\ ("hyperliquid" \notin lives \/ armed)
<1>1. Actual'["orders"]["hyperliquid"] = opening'["hyperliquid"] + reducing'["hyperliquid"]
    BY DEF Actual, Surfaces, Venues
<1>2. opening'["hyperliquid"] \in Nat /\ reducing'["hyperliquid"] \in Nat
    BY DEF TypeOK, Quantities, Venues
<1> QED
    BY <1>1, <1>2 DEF Changed

\* Cancelling at some venues leaves quantities.
LEMMA Cancelled ==
    ASSUME NEW f \in Quantities, NEW S
    PROVE  [v \in Venues |-> IF v \in S THEN 0 ELSE f[v]] \in Quantities
BY DEF Quantities

-----------------------------------------------------------------------------
\* Every action keeps the types.
LEMMA TypeStep ==
    ASSUME TypeOK, [Next]_vars
    PROVE  TypeOK'
<1> USE DEF TypeOK, owner, memory, dead_man, venue, ghosts
<1>1. CASE Acquire
    BY <1>1 DEF Acquire, Quantities
<1>2. CASE promote_writer
    BY <1>2 DEF promote_writer
<1>3. ASSUME NEW expected \in Expectations,
             KillSwitch(expected)
      PROVE  TypeOK'
    BY <1>3 DEF KillSwitch
<1>4. ASSUME NEW s \in Surfaces, NEW complete \in Completeness(s),
             Read(s, complete)
      PROVE  TypeOK'
    BY <1>4, ActualOrders, ConstantTypes DEF Read, NoSurface, Answers
<1>5. ASSUME NEW expected \in Expectations,
             decide_startup_admission(expected)
      PROVE  TypeOK'
    BY <1>5 DEF decide_startup_admission
<1>6. ASSUME NEW lives \in SUBSET Venues, NEW delayed \in SUBSET Venues,
             submit_t0a_pair(lives, delayed)
      PROVE  TypeOK'
    <2>1. Size \in Quantities
        BY SizeAssumption DEF Quantities
    <2>2. opening' =
            [w \in Venues |-> IF w \in lives THEN opening[w] + Size[w] ELSE opening[w]]
        BY <1>6 DEF submit_t0a_pair
    <2>3. flight' =
            [w \in Venues |-> IF w \in delayed THEN flight[w] + Size[w] ELSE flight[w]]
        BY <1>6 DEF submit_t0a_pair
    <2>4. opening' \in Quantities
        BY <2>1, <2>2 DEF Quantities
    <2>5. flight' \in Quantities
        BY <2>1, <2>3 DEF Quantities
    <2>6. sends' \in 0 .. MaxSends
        BY <1>6, ConstantTypes DEF submit_t0a_pair
    <2> QED
        BY <1>6, <2>1, <2>2, <2>3, <2>4, <2>5, <2>6, ChangedTypes DEF submit_t0a_pair
<1>7. ASSUME NEW done \in SUBSET Venues,
             cancel_pair_orders(done)
      PROVE  TypeOK'
    <2>1. opening' \in Quantities /\ reducing' \in Quantities
        BY <1>7, Cancelled DEF cancel_pair_orders
    <2> QED
        BY <1>7, <2>1, ChangedTypes DEF cancel_pair_orders
<1>8. CASE build_kill_switch_flatten_plan
    BY <1>8 DEF build_kill_switch_flatten_plan, Surfaces
<1>9. CASE submit_flatten_step
    <2>1. next_flatten_intent \in Venues
        BY DEF next_flatten_intent, Venues
    <2>2. plan[next_flatten_intent] \in Nat
        BY <2>1 DEF Quantities
    <2>3. reducing' \in Quantities /\ plan' \in Quantities
        BY <1>9, <2>1, <2>2, Update DEF submit_flatten_step
    <2> QED
        BY <1>9, <2>1, <2>2, <2>3, ChangedTypes DEF submit_flatten_step
<1>10. CASE finalize_kill_switch_flatten
    BY <1>10, ConstantTypes DEF finalize_kill_switch_flatten
<1>11. CASE rotate_agent_wallet
    BY <1>11, ConstantTypes DEF rotate_agent_wallet
<1>12. CASE Reacquire
    BY <1>12 DEF Reacquire, Quantities
<1>13. CASE Abort
    BY <1>13 DEF Abort
<1>14. CASE renew_hl_dead_man
    <2>1. silence' \in 0 .. Silent /\ silence' < Silent
        BY <1>14, ConstantTypes DEF renew_hl_dead_man
    <2> QED
        BY <1>14, <2>1 DEF renew_hl_dead_man
<1>15. CASE run_hl_dead_man_loop_Ends
    BY <1>15 DEF run_hl_dead_man_loop_Ends, Ended
<1>16. CASE ScheduledCancel
    <2>1. opening' \in Quantities /\ reducing' \in Quantities
        BY <1>16, Update DEF ScheduledCancel, Venues
    <2> QED
        BY <1>16, <2>1, ChangedTypes DEF ScheduledCancel
<1>17. ASSUME NEW v \in Venues,
              Fill(v)
       PROVE  TypeOK'
    <2>1. opening[v] \in Nat /\ reducing[v] \in Nat /\ position[v] \in Nat
        BY DEF Quantities
    <2>2. opening' \in Quantities /\ reducing' \in Quantities /\ position' \in Quantities
        BY <1>17, <2>1, Update DEF Fill
    <2> QED
        BY <1>17, <2>1, <2>2, ChangedTypes DEF Fill
<1>18. ASSUME NEW v \in Venues,
              Land(v)
       PROVE  TypeOK'
    <2>1. opening[v] + flight[v] \in Nat
        BY DEF Quantities
    <2>2. opening' = [opening EXCEPT ![v] = opening[v] + flight[v]]
        BY <1>18 DEF Land
    <2>3. opening' \in Quantities
        BY <2>1, <2>2, Update
    <2>4. flight' \in Quantities
        BY <1>18, Update DEF Land
    <2> QED
        BY <1>18, <2>1, <2>2, <2>3, <2>4, ChangedTypes DEF Land
<1>19. ASSUME NEW v \in Venues,
              OtherSubmits(v)
       PROVE  TypeOK'
    <2>1. opening[v] + 1 \in Nat
        BY DEF Quantities
    <2>2. opening' = [opening EXCEPT ![v] = opening[v] + 1]
        BY <1>19 DEF OtherSubmits
    <2>3. opening' \in Quantities
        BY <2>1, <2>2, Update
    <2>4. sends' \in 0 .. MaxSends
        BY <1>19, ConstantTypes DEF OtherSubmits
    <2> QED
        BY <1>19, <2>1, <2>2, <2>3, <2>4, ChangedTypes DEF OtherSubmits
<1>20. CASE OtherAcquires
    BY <1>20 DEF OtherAcquires
<1>21. CASE OtherReleases
    BY <1>21 DEF OtherReleases
<1>22. CASE Crash
    BY <1>22, ConstantTypes DEF Crash
<1>23. CASE Tick
    BY <1>23, ConstantTypes DEF Tick
<1>24. CASE Startup
    <2>1. evidence' \in [Surfaces -> [fresh : BOOLEAN, since : BOOLEAN, value : Quantities]]
        BY <1>24 DEF Startup
    <2>2. shown' \subseteq Surfaces
        BY <1>24 DEF Startup
    <2> QED
        BY <1>24, <2>1, <2>2 DEF Startup
<1>25. ASSUME NEW s \in Surfaces,
              GetsOld(s)
       PROVE  TypeOK'
    BY <1>25 DEF GetsOld
<1>26. CASE UNCHANGED vars
    BY <1>26 DEF vars
<1> QED
    BY <1>1, <1>2, <1>3, <1>4, <1>5, <1>6, <1>7, <1>8, <1>9, <1>10, <1>11,
       <1>12, <1>13, <1>14, <1>15, <1>16, <1>17, <1>18, <1>19, <1>20, <1>21,
       <1>22, <1>23, <1>24, <1>25, <1>26 DEF Next

-----------------------------------------------------------------------------
\* No action leaves an unscheduled order that was not live so from the start.
LEMMA LiveStep ==
    ASSUME TypeOK, TypeOK', LiveInv, [Next]_vars
    PROVE  LiveInv'
<1> USE DEF LiveInv, owner, memory, dead_man, venue, ghosts
<1>1. CASE Acquire
    BY <1>1 DEF Acquire
<1>2. CASE promote_writer
    BY <1>2 DEF promote_writer
<1>3. ASSUME NEW expected \in Expectations,
             KillSwitch(expected)
      PROVE  LiveInv'
    BY <1>3 DEF KillSwitch
<1>4. ASSUME NEW s \in Surfaces, NEW complete \in Completeness(s),
             Read(s, complete)
      PROVE  LiveInv'
    BY <1>4 DEF Read
<1>5. ASSUME NEW expected \in Expectations,
             decide_startup_admission(expected)
      PROVE  LiveInv'
    BY <1>5 DEF decide_startup_admission
<1>6. ASSUME NEW lives \in SUBSET Venues, NEW delayed \in SUBSET Venues,
             submit_t0a_pair(lives, delayed)
      PROVE  LiveInv'
    BY <1>6, NotLate DEF submit_t0a_pair, Venues
<1>7. ASSUME NEW done \in SUBSET Venues,
             cancel_pair_orders(done)
      PROVE  LiveInv'
    BY <1>7, NotLate DEF cancel_pair_orders, Venues, TypeOK, Quantities
<1>8. CASE build_kill_switch_flatten_plan
    BY <1>8 DEF build_kill_switch_flatten_plan
<1>9. CASE submit_flatten_step
    <2>1. reducing \in [Venues -> Nat]
        BY DEF TypeOK, Quantities
    <2>2. "hyperliquid" \in Venues
        BY DEF Venues
    <2> QED
        BY <1>9, <2>1, <2>2, NotLate DEF submit_flatten_step
<1>10. CASE finalize_kill_switch_flatten
    BY <1>10 DEF finalize_kill_switch_flatten
<1>11. CASE rotate_agent_wallet
    BY <1>11 DEF rotate_agent_wallet
<1>12. CASE Reacquire
    BY <1>12 DEF Reacquire
<1>13. CASE Abort
    BY <1>13 DEF Abort
<1>14. CASE renew_hl_dead_man
    BY <1>14 DEF renew_hl_dead_man
<1>15. CASE run_hl_dead_man_loop_Ends
    BY <1>15 DEF run_hl_dead_man_loop_Ends, Ended
<1>16. CASE ScheduledCancel
    BY <1>16, NotLate DEF ScheduledCancel, Venues, TypeOK, Quantities
<1>17. ASSUME NEW v \in Venues,
              Fill(v)
       PROVE  LiveInv'
    BY <1>17, NotLate DEF Fill, TypeOK, Quantities, Venues
<1>18. ASSUME NEW v \in Venues,
              Land(v)
       PROVE  LiveInv'
    <2>1. opening \in [Venues -> Nat]
        BY DEF TypeOK, Quantities
    <2>2. "hyperliquid" \in Venues
        BY DEF Venues
    <2> QED
        BY <1>18, <2>1, <2>2, NotLate DEF Land
<1>19. ASSUME NEW v \in Venues,
              OtherSubmits(v)
       PROVE  LiveInv'
    <2>1. opening \in [Venues -> Nat]
        BY DEF TypeOK, Quantities
    <2>2. "hyperliquid" \in Venues
        BY DEF Venues
    <2> QED
        BY <1>19, <2>1, <2>2, NotLate DEF OtherSubmits
<1>20. CASE OtherAcquires
    BY <1>20 DEF OtherAcquires
<1>21. CASE OtherReleases
    BY <1>21 DEF OtherReleases
<1>22. CASE Crash
    BY <1>22 DEF Crash
<1>23. CASE Tick
    BY <1>23 DEF Tick
<1>24. CASE Startup
    BY <1>24 DEF Startup
<1>25. ASSUME NEW s \in Surfaces,
              GetsOld(s)
       PROVE  LiveInv'
    BY <1>25 DEF GetsOld
<1>26. CASE UNCHANGED vars
    BY <1>26 DEF vars
<1> QED
    BY <1>1, <1>2, <1>3, <1>4, <1>5, <1>6, <1>7, <1>8, <1>9, <1>10, <1>11,
       <1>12, <1>13, <1>14, <1>15, <1>16, <1>17, <1>18, <1>19, <1>20, <1>21,
       <1>22, <1>23, <1>24, <1>25, <1>26 DEF Next

\* What the venues have at the startup or later stays shown.
LEMMA SeenStep ==
    ASSUME TypeOK, SeenInv, [Next]_vars
    PROVE  SeenInv'
<1> USE DEF SeenInv, owner, memory, dead_man, venue, ghosts
<1>1. CASE Acquire
    BY <1>1 DEF Acquire
<1>2. CASE promote_writer
    BY <1>2 DEF promote_writer
<1>3. ASSUME NEW expected \in Expectations,
             KillSwitch(expected)
      PROVE  SeenInv'
    BY <1>3 DEF KillSwitch
<1>4. ASSUME NEW s \in Surfaces, NEW complete \in Completeness(s),
             Read(s, complete)
      PROVE  SeenInv'
    BY <1>4 DEF Read, NoSurface, TypeOK
<1>5. ASSUME NEW expected \in Expectations,
             decide_startup_admission(expected)
      PROVE  SeenInv'
    BY <1>5 DEF decide_startup_admission, _surface_reasons
<1>6. ASSUME NEW lives \in SUBSET Venues, NEW delayed \in SUBSET Venues,
             submit_t0a_pair(lives, delayed)
      PROVE  SeenInv'
    BY <1>6, ChangedTypes DEF submit_t0a_pair
<1>7. ASSUME NEW done \in SUBSET Venues,
             cancel_pair_orders(done)
      PROVE  SeenInv'
    BY <1>7, ChangedTypes DEF cancel_pair_orders
<1>8. CASE build_kill_switch_flatten_plan
    BY <1>8 DEF build_kill_switch_flatten_plan
<1>9. CASE submit_flatten_step
    BY <1>9, ChangedTypes DEF submit_flatten_step
<1>10. CASE finalize_kill_switch_flatten
    BY <1>10 DEF finalize_kill_switch_flatten, NoEvidence, NoSurface
<1>11. CASE rotate_agent_wallet
    BY <1>11 DEF rotate_agent_wallet
<1>12. CASE Reacquire
    BY <1>12 DEF Reacquire
<1>13. CASE Abort
    BY <1>13 DEF Abort
<1>14. CASE renew_hl_dead_man
    BY <1>14 DEF renew_hl_dead_man
<1>15. CASE run_hl_dead_man_loop_Ends
    BY <1>15 DEF run_hl_dead_man_loop_Ends
<1>16. CASE ScheduledCancel
    BY <1>16, ChangedTypes DEF ScheduledCancel
<1>17. ASSUME NEW v \in Venues,
              Fill(v)
       PROVE  SeenInv'
    BY <1>17, ChangedTypes DEF Fill
<1>18. ASSUME NEW v \in Venues,
              Land(v)
       PROVE  SeenInv'
    BY <1>18, ChangedTypes DEF Land
<1>19. ASSUME NEW v \in Venues,
              OtherSubmits(v)
       PROVE  SeenInv'
    BY <1>19, ChangedTypes DEF OtherSubmits
<1>20. CASE OtherAcquires
    BY <1>20 DEF OtherAcquires
<1>21. CASE OtherReleases
    BY <1>21 DEF OtherReleases
<1>22. CASE Crash
    BY <1>22 DEF Crash, NoEvidence, NoSurface
<1>23. CASE Tick
    BY <1>23 DEF Tick, TypeOK
<1>24. CASE Startup
    BY <1>24 DEF Startup
<1>25. ASSUME NEW s \in Surfaces,
              GetsOld(s)
       PROVE  SeenInv'
    BY <1>25 DEF GetsOld
<1>26. CASE UNCHANGED vars
    BY <1>26 DEF vars
<1> QED
    BY <1>1, <1>2, <1>3, <1>4, <1>5, <1>6, <1>7, <1>8, <1>9, <1>10, <1>11,
       <1>12, <1>13, <1>14, <1>15, <1>16, <1>17, <1>18, <1>19, <1>20, <1>21,
       <1>22, <1>23, <1>24, <1>25, <1>26 DEF Next

\* A stop is final as long as the process lives.
LEMMA StopStep ==
    ASSUME TypeOK, StopInv, [Next]_vars
    PROVE  StopInv'
<1> USE DEF StopInv, TypeOK, owner, memory, dead_man, venue, ghosts
<1>1. CASE Acquire
    BY <1>1 DEF Acquire
<1>2. CASE promote_writer
    BY <1>2 DEF promote_writer
<1>3. ASSUME NEW expected \in Expectations,
             KillSwitch(expected)
      PROVE  StopInv'
    BY <1>3 DEF KillSwitch
<1>4. ASSUME NEW s \in Surfaces, NEW complete \in Completeness(s),
             Read(s, complete)
      PROVE  StopInv'
    BY <1>4 DEF Read
<1>5. ASSUME NEW expected \in Expectations,
             decide_startup_admission(expected)
      PROVE  StopInv'
    BY <1>5 DEF decide_startup_admission
<1>6. ASSUME NEW lives \in SUBSET Venues, NEW delayed \in SUBSET Venues,
             submit_t0a_pair(lives, delayed)
      PROVE  StopInv'
    BY <1>6 DEF submit_t0a_pair
<1>7. ASSUME NEW done \in SUBSET Venues,
             cancel_pair_orders(done)
      PROVE  StopInv'
    BY <1>7 DEF cancel_pair_orders
<1>8. CASE build_kill_switch_flatten_plan
    BY <1>8 DEF build_kill_switch_flatten_plan
<1>9. CASE submit_flatten_step
    BY <1>9 DEF submit_flatten_step
<1>10. CASE finalize_kill_switch_flatten
    BY <1>10 DEF finalize_kill_switch_flatten
<1>11. CASE rotate_agent_wallet
    BY <1>11 DEF rotate_agent_wallet
<1>12. CASE Reacquire
    BY <1>12 DEF Reacquire
<1>13. CASE Abort
    BY <1>13 DEF Abort
<1>14. CASE renew_hl_dead_man
    BY <1>14 DEF renew_hl_dead_man
<1>15. CASE run_hl_dead_man_loop_Ends
    BY <1>15 DEF run_hl_dead_man_loop_Ends
<1>16. CASE ScheduledCancel
    BY <1>16 DEF ScheduledCancel
<1>17. ASSUME NEW v \in Venues,
              Fill(v)
       PROVE  StopInv'
    BY <1>17 DEF Fill
<1>18. ASSUME NEW v \in Venues,
              Land(v)
       PROVE  StopInv'
    BY <1>18 DEF Land
<1>19. ASSUME NEW v \in Venues,
              OtherSubmits(v)
       PROVE  StopInv'
    BY <1>19 DEF OtherSubmits
<1>20. CASE OtherAcquires
    BY <1>20 DEF OtherAcquires
<1>21. CASE OtherReleases
    BY <1>21 DEF OtherReleases
<1>22. CASE Crash
    BY <1>22 DEF Crash
<1>23. CASE Tick
    BY <1>23 DEF Tick
<1>24. CASE Startup
    BY <1>24 DEF Startup
<1>25. ASSUME NEW s \in Surfaces,
              GetsOld(s)
       PROVE  StopInv'
    BY <1>25 DEF GetsOld
<1>26. CASE UNCHANGED vars
    BY <1>26 DEF vars
<1> QED
    BY <1>1, <1>2, <1>3, <1>4, <1>5, <1>6, <1>7, <1>8, <1>9, <1>10, <1>11,
       <1>12, <1>13, <1>14, <1>15, <1>16, <1>17, <1>18, <1>19, <1>20, <1>21,
       <1>22, <1>23, <1>24, <1>25, <1>26 DEF Next

\* An admission needs both surfaces from the startup or later.
LEMMA RiskStep ==
    ASSUME TypeOK, SeenInv, AdmittedOnLaterState, [Next]_vars
    PROVE  AdmittedOnLaterState'
<1> USE DEF SeenInv, AdmittedOnLaterState, owner, memory, dead_man, venue, ghosts
<1>1. CASE Acquire
    BY <1>1 DEF Acquire
<1>2. CASE promote_writer
    BY <1>2 DEF promote_writer
<1>3. ASSUME NEW expected \in Expectations,
             KillSwitch(expected)
      PROVE  AdmittedOnLaterState'
    BY <1>3 DEF KillSwitch, classify_reconciliation_consistency
<1>4. ASSUME NEW s \in Surfaces, NEW complete \in Completeness(s),
             Read(s, complete)
      PROVE  AdmittedOnLaterState'
    BY <1>4 DEF Read
<1>5. ASSUME NEW expected \in Expectations,
             decide_startup_admission(expected)
      PROVE  AdmittedOnLaterState'
    BY <1>5 DEF decide_startup_admission, _surface_reasons, TypeOK
<1>6. ASSUME NEW lives \in SUBSET Venues, NEW delayed \in SUBSET Venues,
             submit_t0a_pair(lives, delayed)
      PROVE  AdmittedOnLaterState'
    BY <1>6 DEF submit_t0a_pair
<1>7. ASSUME NEW done \in SUBSET Venues,
             cancel_pair_orders(done)
      PROVE  AdmittedOnLaterState'
    BY <1>7 DEF cancel_pair_orders
<1>8. CASE build_kill_switch_flatten_plan
    BY <1>8 DEF build_kill_switch_flatten_plan
<1>9. CASE submit_flatten_step
    BY <1>9 DEF submit_flatten_step
<1>10. CASE finalize_kill_switch_flatten
    BY <1>10 DEF finalize_kill_switch_flatten
<1>11. CASE rotate_agent_wallet
    BY <1>11 DEF rotate_agent_wallet
<1>12. CASE Reacquire
    BY <1>12 DEF Reacquire
<1>13. CASE Abort
    BY <1>13 DEF Abort
<1>14. CASE renew_hl_dead_man
    BY <1>14 DEF renew_hl_dead_man
<1>15. CASE run_hl_dead_man_loop_Ends
    BY <1>15 DEF run_hl_dead_man_loop_Ends
<1>16. CASE ScheduledCancel
    BY <1>16 DEF ScheduledCancel
<1>17. ASSUME NEW v \in Venues,
              Fill(v)
       PROVE  AdmittedOnLaterState'
    BY <1>17 DEF Fill
<1>18. ASSUME NEW v \in Venues,
              Land(v)
       PROVE  AdmittedOnLaterState'
    BY <1>18 DEF Land
<1>19. ASSUME NEW v \in Venues,
              OtherSubmits(v)
       PROVE  AdmittedOnLaterState'
    BY <1>19 DEF OtherSubmits
<1>20. CASE OtherAcquires
    BY <1>20 DEF OtherAcquires
<1>21. CASE OtherReleases
    BY <1>21 DEF OtherReleases
<1>22. CASE Crash
    BY <1>22 DEF Crash
<1>23. CASE Tick
    BY <1>23 DEF Tick
<1>24. CASE Startup
    BY <1>24 DEF Startup
<1>25. ASSUME NEW s \in Surfaces,
              GetsOld(s)
       PROVE  AdmittedOnLaterState'
    BY <1>25 DEF GetsOld
<1>26. CASE UNCHANGED vars
    BY <1>26 DEF vars
<1> QED
    BY <1>1, <1>2, <1>3, <1>4, <1>5, <1>6, <1>7, <1>8, <1>9, <1>10, <1>11,
       <1>12, <1>13, <1>14, <1>15, <1>16, <1>17, <1>18, <1>19, <1>20, <1>21,
       <1>22, <1>23, <1>24, <1>25, <1>26 DEF Next

\* Orders that were found empty while flattening come back by no action.
LEMMA SoundStep ==
    ASSUME TypeOK, StopInv, SoundInv, [Next]_vars
    PROVE  SoundInv'
<1> USE DEF TypeOK, StopInv, SoundInv, NoOrders, owner, memory, dead_man, venue, ghosts
<1>1. CASE Acquire
    BY <1>1 DEF Acquire
<1>2. CASE promote_writer
    BY <1>2 DEF promote_writer
<1>3. ASSUME NEW expected \in Expectations,
             KillSwitch(expected)
      PROVE  SoundInv'
    BY <1>3 DEF KillSwitch
<1>4. ASSUME NEW s \in Surfaces, NEW complete \in Completeness(s),
             Read(s, complete)
      PROVE  SoundInv'
    <2>1. ~ stopped' /\ <<mode, flight, opening, reducing, position>>' =
                        <<mode, flight, opening, reducing, position>>
        BY <1>4 DEF Read
    <2>2. CASE sound' = "none"
        BY <2>1, <2>2
    <2>3. CASE sound' # "none" /\ s = "orders"
        BY <1>4, <2>1, <2>3, ActualOrders DEF Read, Surfaces
    <2>4. CASE sound' # "none" /\ s = "positions"
        BY <1>4, <2>1, <2>4, ActualOrders DEF Read, Surfaces
    <2> QED
        BY <1>4, <2>1, <2>2, <2>3, <2>4 DEF Read, Surfaces
<1>5. ASSUME NEW expected \in Expectations,
             decide_startup_admission(expected)
      PROVE  SoundInv'
    BY <1>5 DEF decide_startup_admission
<1>6. ASSUME NEW lives \in SUBSET Venues, NEW delayed \in SUBSET Venues,
             submit_t0a_pair(lives, delayed)
      PROVE  SoundInv'
    BY <1>6 DEF submit_t0a_pair
<1>7. ASSUME NEW done \in SUBSET Venues,
             cancel_pair_orders(done)
      PROVE  SoundInv'
    BY <1>7 DEF cancel_pair_orders, Zero
<1>8. CASE build_kill_switch_flatten_plan
    BY <1>8 DEF build_kill_switch_flatten_plan
<1>9. CASE submit_flatten_step
    BY <1>9 DEF submit_flatten_step
<1>10. CASE finalize_kill_switch_flatten
    BY <1>10, ActualOrders
    DEF finalize_kill_switch_flatten, Flattened, orders_surface_confirmed_empty
<1>11. CASE rotate_agent_wallet
    BY <1>11 DEF rotate_agent_wallet
<1>12. CASE Reacquire
    BY <1>12 DEF Reacquire
<1>13. CASE Abort
    BY <1>13 DEF Abort
<1>14. CASE renew_hl_dead_man
    BY <1>14 DEF renew_hl_dead_man
<1>15. CASE run_hl_dead_man_loop_Ends
    BY <1>15 DEF run_hl_dead_man_loop_Ends, Ended
<1>16. CASE ScheduledCancel
    BY <1>16 DEF ScheduledCancel, Zero
<1>17. ASSUME NEW v \in Venues,
              Fill(v)
       PROVE  SoundInv'
    BY <1>17 DEF Fill, Zero
<1>18. ASSUME NEW v \in Venues,
              Land(v)
       PROVE  SoundInv'
    BY <1>18 DEF Land, Zero
<1>19. ASSUME NEW v \in Venues,
              OtherSubmits(v)
       PROVE  SoundInv'
    BY <1>19 DEF OtherSubmits
<1>20. CASE OtherAcquires
    BY <1>20 DEF OtherAcquires
<1>21. CASE OtherReleases
    BY <1>21 DEF OtherReleases
<1>22. CASE Crash
    BY <1>22 DEF Crash
<1>23. CASE Tick
    BY <1>23 DEF Tick, Surfaces
<1>24. CASE Startup
    BY <1>24 DEF Startup, Surfaces
<1>25. ASSUME NEW s \in Surfaces,
              GetsOld(s)
       PROVE  SoundInv'
    BY <1>25 DEF GetsOld
<1>26. CASE UNCHANGED vars
    BY <1>26 DEF vars
<1> QED
    BY <1>1, <1>2, <1>3, <1>4, <1>5, <1>6, <1>7, <1>8, <1>9, <1>10, <1>11,
       <1>12, <1>13, <1>14, <1>15, <1>16, <1>17, <1>18, <1>19, <1>20, <1>21,
       <1>22, <1>23, <1>24, <1>25, <1>26 DEF Next

-----------------------------------------------------------------------------
\* Nothing is known, nothing is live and nobody has the account.
LEMMA InitInv == Init => IInv
<1> SUFFICES ASSUME Init PROVE IInv
    OBVIOUS
<1> USE DEF Init
<1>1. TypeOK
    <2>1. evidence \in [Surfaces -> [fresh : BOOLEAN, since : BOOLEAN, value : Quantities]]
        BY ConstantTypes
    <2>2. {plan, opening, reducing, flight, position} \subseteq Quantities
        BY ConstantTypes
    <2>3. sends \in 0 .. MaxSends /\ silence \in 0 .. Silent /\ ~ armed
        BY ConstantTypes
    <2> QED
        BY <2>1, <2>2, <2>3 DEF TypeOK
<1>2. LiveInv /\ SeenInv /\ StopInv
    BY DEF LiveInv, SeenInv, StopInv, Zero, Venues, NoEvidence, NoSurface
<1>3. SoundInv /\ AdmittedOnLaterState
    BY DEF SoundInv, AdmittedOnLaterState
<1> QED
    BY <1>1, <1>2, <1>3 DEF IInv

\* The inductive invariant holds, for any constants that satisfy the assumptions.
THEOREM Invariant == Spec => []IInv
<1>1. IInv /\ [Next]_vars => IInv'
    BY TypeStep, LiveStep, SeenStep, StopStep, SoundStep, RiskStep DEF IInv
<1> QED
    BY InitInv, <1>1, PTL DEF Spec

\* Every variable keeps its type: the owner has authority only with the lease,
\* and a scheduled cancel is never overdue.
THEOREM TypeCorrect == Spec => []TypeOK
<1>1. IInv => TypeOK
    BY DEF IInv
<1> QED
    BY <1>1, Invariant, PTL

\* Every admission that may promote a writer (promote_writer) was decided on what the
\* venues had at the startup_started_ns or later (_surface_reasons), for any number of
\* orders, instances and tenures.
THEOREM AdmittedOnLaterStateHolds == Spec => []AdmittedOnLaterState
<1>1. IInv => AdmittedOnLaterState
    BY DEF IInv
<1> QED
    BY <1>1, Invariant, PTL

\* A flatten finished (finalize_kill_switch_flatten) on orders and positions that
\* were read in order leaves neither, whatever size the orders had.
THEOREM StoppedIsFlatHolds == Spec => []StoppedIsFlat
<1>1. ASSUME IInv
      PROVE  StoppedIsFlat
    BY <1>1, ActualOrders
    DEF IInv, StoppedIsFlat, SoundInv, NoOrders, Actual, Zero, Surfaces
<1> QED
    BY <1>1, Invariant, PTL

\* Once a horizon has passed since the last renewal (run_hl_dead_man_loop), however
\* the loop ended, Hyperliquid has no order, unless one got live with no cancel
\* scheduled and none was scheduled since.
THEOREM AbandonedIsCancelledHolds == Spec => []AbandonedIsCancelled
<1>1. ASSUME IInv
      PROVE  AbandonedIsCancelled
    <2>1. Actual["orders"]["hyperliquid"] = opening["hyperliquid"] + reducing["hyperliquid"]
        BY <1>1, ActualOrders DEF IInv, Venues
    <2> QED
        BY <1>1, <2>1, ConstantTypes
        DEF IInv, TypeOK, LiveInv, AbandonedIsCancelled, Silent
<1> QED
    BY <1>1, Invariant, PTL
=============================================================================
