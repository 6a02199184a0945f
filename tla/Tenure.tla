------------------------------- MODULE Tenure -------------------------------
(***************************************************************************)
(* What the owner of an account does with it, from the reconciliation at   *)
(* the start to the flattening at the end (reconciliation/state.py,        *)
(* promotion.py, kill_switch_composition.py, legs.py), while it may rotate *)
(* its wallet (execution/wallet.py) and renews the scheduled cancel of     *)
(* Hyperliquid (ops/watchdog.py), and while the venues fill its orders,    *)
(* deliver requests late, and another instance may hold the account when   *)
(* the owner does not.                                                     *)
(*                                                                         *)
(* The repository has these operations and not the process that calls      *)
(* them.  Here it may call any of them at any time until it has called     *)
(* stop(), with the latest evidence, admission and startup_started_ns it   *)
(* has, old or new: nothing binds these to a lease.  Both venues are read  *)
(* at once.  The gates of an admission that look at neither orders nor     *)
(* positions may refuse it and are left out.  Time has no beginning: the   *)
(* model keeps how long ago the last renewal was, and whether evidence is  *)
(* still fresh.                                                            *)
(***************************************************************************)
EXTENDS Integers

CONSTANTS Size,          \* [Venues -> quantity of an order of the pair]
          interval_ms, horizon_ms, HL_SCHEDULE_MIN_LEAD_MS,
          MaxSends       \* bound: pairs of the owner and orders of another instance

Venues == {"hyperliquid", "bybit"}
Surfaces == {"orders", "positions"}

ASSUME SizeAssumption == Size \in [Venues -> Nat \ {0}]
ASSUME TimeAssumption ==
    /\ MaxSends \in Nat
    /\ {interval_ms, horizon_ms, HL_SCHEDULE_MIN_LEAD_MS} \subseteq Nat \ {0}

\* run_hl_dead_man_loop raises for other parameters.
ASSUME HorizonAssumption == horizon_ms \geq interval_ms + HL_SCHEDULE_MIN_LEAD_MS

VARIABLES
    holder,      \* who has the account's lock
    mode,        \* of the owner's lease, "none" without one
    rotating,    \* rotate_agent_wallet has released the old lease
    evidence,    \* the SurfaceEvidence read last: not older than max_age_ns, and
                 \* "since" the startup_started_ns or not
    ready,       \* the process has an AdmissionDecision that is ready
    plan,        \* FlattenIntentPlan: quantities still to submit
    stopped,     \* stop() was called
    loop,        \* run_hl_dead_man_loop; "orphaned": its lease was released
    silence,     \* how long ago the last renewal was
    opening,     \* venue: quantity of live orders that open a position
    reducing,    \* venue: quantity of live reduce-only orders
    flight,      \* venue: quantity of requests that are still under way
    position,    \* venue: size of the position; the legs have opposite signs
    armed,       \* Hyperliquid has a cancel scheduled, a horizon after the renewal
    sends,
    shown,       \* history: surfaces that the venues had, at the startup_started_ns
                 \* or since, as they were read last
    misled,      \* history: an admission was ready on another surface
    sound,       \* history: surfaces read in order while flattening, see Read
    flat,        \* history: the flatten was finished on sound evidence
    late         \* history: a Hyperliquid order got live with no cancel scheduled, and
                 \* none was scheduled since

owner == <<holder, mode, rotating>>
memory == <<evidence, ready, plan, stopped>>
dead_man == <<loop, silence>>
venue == <<opening, reducing, flight, position, armed>>
ghosts == <<shown, misled, sound, flat, late>>
vars == <<owner, memory, dead_man, venue, sends, ghosts>>

Zero == [v \in Venues |-> 0]
Silent == horizon_ms + 1

NoSurface == [fresh |-> FALSE, since |-> FALSE, value |-> Zero]
NoEvidence == [s \in Surfaces |-> NoSurface]
Quantities == [Venues -> Nat]

\* The types; without a lease or with an additional instance's the owner has no
\* authority to open.
TypeOK ==
    /\ holder \in {"nobody", "owner", "other"}
    /\ mode \in {"none", "pending_reconciliation", "risk_increasing", "flatten_only", "cancel_only"}
    /\ mode \in {"none", "cancel_only"} \/ holder = "owner"
    /\ evidence \in [Surfaces -> [fresh : BOOLEAN, since : BOOLEAN, value : Quantities]]
    /\ loop \in {"idle", "running", "orphaned"}
    /\ {plan, opening, reducing, flight, position} \subseteq Quantities
    /\ silence \in 0 .. Silent /\ (armed => silence < Silent)
    /\ sends \in 0 .. MaxSends
    /\ sound \in {"none", "orders", "positions"} /\ shown \subseteq Surfaces
    /\ {rotating, ready, stopped, armed, misled, flat, late} \subseteq BOOLEAN

Init ==
    /\ holder = "nobody" /\ mode = "none" /\ rotating = FALSE
    /\ evidence = NoEvidence
    /\ ready = FALSE /\ plan = Zero /\ stopped = FALSE
    /\ loop = "idle" /\ silence = Silent
    /\ opening = Zero /\ reducing = Zero /\ flight = Zero /\ position = Zero
    /\ armed = FALSE
    /\ sends = 0
    /\ shown = {} /\ misled = FALSE
    /\ sound = "none" /\ flat = FALSE /\ late = FALSE

-----------------------------------------------------------------------------
Actual == [s \in Surfaces |->
              [v \in Venues |-> IF s = "orders" THEN opening[v] + reducing[v] ELSE position[v]]]

\* What was read last is what the venues have.
Truthful(s, actual) == evidence[s] # NoSurface /\ evidence[s].value = actual[s]

\* Something changed at the venues, perhaps to what was read before; new orders got
\* live at some of them.
Changed(lives) ==
    /\ shown' = shown \cup {s \in Surfaces : Truthful(s, Actual')}
    /\ late' = (/\ late \/ ("hyperliquid" \in lives /\ ~ armed)
                /\ Actual'["orders"]["hyperliquid"] > 0)

\* NoSurface stands for what is not complete.
surface_is_authoritative(s) ==
    evidence[s].fresh

orders_surface_confirmed_empty ==
    surface_is_authoritative("orders") /\ evidence["orders"].value = Zero

\* _state_reasons: the venues do not show what the log has the owner expect.
_state_reasons(expected) == \E s \in Surfaces : evidence[s].value # expected[s]

classify_reconciliation_consistency(expected) ==
    IF \E s \in Surfaces : ~ surface_is_authoritative(s) THEN "unknown"
    ELSE IF _state_reasons(expected) THEN "inconsistent" ELSE "consistent"

\* The log: empty, or it tells what is there.
Expectations == {[s \in Surfaces |-> Zero], Actual}

\* Mutant: evidence from before the startup is as good.
_surface_reasons_Any == \E s \in Surfaces : evidence[s] = NoSurface

\* _surface_reasons: the surface was read before the startup, or not at all.
_surface_reasons == \E s \in Surfaces : ~ evidence[s].since

-----------------------------------------------------------------------------
\* WriterLease.acquire: an additional instance may cancel only.
Acquire ==
    /\ mode = "none" /\ ~ rotating /\ ~ stopped
    /\ mode' = IF holder = "nobody" THEN "pending_reconciliation" ELSE "cancel_only"
    /\ holder' = IF holder = "nobody" THEN "owner" ELSE holder
    /\ UNCHANGED <<rotating, memory, dead_man, venue, sends, ghosts>>

\* The caller takes the time for its startup_started_ns, with a lease or without: what
\* was read up to then was not observed since.
Startup ==
    /\ ~ stopped
    /\ evidence' = [s \in Surfaces |->
                       [fresh |-> evidence[s].fresh, since |-> FALSE,
                        value |-> evidence[s].value]]
    /\ shown' = {s \in Surfaces : Truthful(s, Actual)}
    /\ UNCHANGED <<owner, ready, plan, stopped, dead_man, venue, sends, misled, sound,
                   flat, late>>

\* An answer shows all rows or the first of them; an odd one is not known, or
\* comes twice.
Answers == {[whole |-> TRUE, odd |-> FALSE], [whole |-> FALSE, odd |-> FALSE],
            [whole |-> TRUE, odd |-> TRUE]}

_canonical_rows(answer) == ~ answer.odd

\* A thousand orders may be the first of more.
parse_orders_surface(answer) == answer.whole /\ _canonical_rows(answer)

\* Positions of Hyperliquid have no pages.
parse_positions_surface(answer) == _canonical_rows(answer)

\* The last page has no cursor.
parse_bybit_orders_surface(answer) == answer.whole /\ ~ answer.odd

parse_bybit_positions_surface(answer) == answer.whole /\ ~ answer.odd

Complete(s, hyperliquid, bybit) ==
    \/ /\ s = "orders"
       /\ parse_orders_surface(hyperliquid) /\ parse_bybit_orders_surface(bybit)
    \/ /\ s = "positions"
       /\ parse_positions_surface(hyperliquid) /\ parse_bybit_positions_surface(bybit)

Completeness(s) == {Complete(s, hyperliquid, bybit) : hyperliquid, bybit \in Answers}

\* A surface of both venues is read; one that is not complete proves nothing.  "sound":
\* first the orders, with no request under way, then the positions, both while
\* flattening and since the last order.
Read(s, complete) ==
    /\ ~ stopped
    /\ evidence' = [evidence EXCEPT ![s] =
                       IF complete
                       THEN [fresh |-> TRUE, since |-> TRUE, value |-> Actual[s]]
                       ELSE NoSurface]
    /\ shown' = IF complete THEN shown \cup {s} ELSE shown \ {s}
    /\ sound' = IF mode # "flatten_only" \/ ~ complete THEN "none"
                ELSE IF s = "orders" THEN IF flight = Zero THEN "orders" ELSE "none"
                ELSE IF sound = "none" THEN "none" ELSE "positions"
    /\ UNCHANGED <<owner, ready, plan, stopped, dead_man, venue, sends, misled, flat, late>>

\* It asks for no lease, and an earlier decision that was ready is not withdrawn by
\* one that is not.
decide_startup_admission(expected) ==
    /\ ~ stopped
    /\ ~ _surface_reasons /\ ~ _state_reasons(expected)
    /\ ready' = TRUE
    /\ misled' = (misled \/ shown # Surfaces)
    /\ UNCHANGED <<owner, evidence, plan, stopped, dead_man, venue, sends, shown, sound,
                   flat, late>>

\* promote_writer, when its record succeeds: on any admission that is ready,
\* whenever and for whichever tenure it was decided.
promote_writer ==
    /\ mode = "pending_reconciliation" /\ ready
    /\ mode' = "risk_increasing"
    /\ UNCHANGED <<holder, rotating, memory, dead_man, venue, sends, ghosts>>

-----------------------------------------------------------------------------
\* submit_t0a_pair: both legs are tried; each gets live, is still under way when
\* the call ends, or fails.
submit_t0a_pair(lives, delayed) ==
    /\ mode = "risk_increasing" /\ sends < MaxSends /\ lives \cap delayed = {}
    /\ opening' = [v \in Venues |-> IF v \in lives THEN opening[v] + Size[v] ELSE opening[v]]
    /\ flight' = [v \in Venues |-> IF v \in delayed THEN flight[v] + Size[v] ELSE flight[v]]
    /\ sends' = sends + 1
    /\ UNCHANGED <<owner, memory, dead_man, reducing, position, armed, misled, sound, flat>>
    /\ Changed(lives)

\* cancel_pair_orders: each of the two transports may fail.
cancel_pair_orders(done) ==
    /\ mode # "none" /\ ~ stopped /\ done # {}
    /\ opening' = [v \in Venues |-> IF v \in done THEN 0 ELSE opening[v]]
    /\ reducing' = [v \in Venues |-> IF v \in done THEN 0 ELSE reducing[v]]
    /\ <<opening, reducing>>' # <<opening, reducing>>
    /\ UNCHANGED <<owner, memory, dead_man, flight, position, armed, sends, misled,
                   sound, flat>>
    /\ Changed({})

\* build_kill_switch_snapshot, once a detector has triggered, and the demotion by
\* demote_kill_switch_flatten or demote_kill_switch_freeze.
KillSwitch(expected) ==
    /\ mode = "risk_increasing"
    /\ mode' = IF classify_reconciliation_consistency(expected) = "consistent"
               THEN "flatten_only" ELSE "cancel_only"
    /\ UNCHANGED <<holder, rotating, memory, dead_man, venue, sends, ghosts>>

\* build_kill_switch_flatten_plan: an intent for each position that is not zero.
build_kill_switch_flatten_plan ==
    /\ mode = "flatten_only" /\ plan = Zero
    /\ orders_surface_confirmed_empty /\ surface_is_authoritative("positions")
    /\ evidence["positions"].value # Zero
    /\ plan' = evidence["positions"].value
    /\ UNCHANGED <<owner, evidence, ready, stopped, dead_man, venue, sends, ghosts>>

\* The leg that leaves the least exposure when it alone fills.
next_flatten_intent ==
    IF plan["hyperliquid"] \geq plan["bybit"] THEN "hyperliquid" ELSE "bybit"

\* submit_flatten_step; a reduce-only order that is delayed is one submitted later.
submit_flatten_step ==
    LET v == next_flatten_intent
    IN  /\ mode = "flatten_only" /\ plan # Zero
        /\ reducing' = [reducing EXCEPT ![v] = plan[v]]
        /\ plan' = [plan EXCEPT ![v] = 0]
        /\ sound' = "none"
        /\ UNCHANGED <<owner, evidence, ready, stopped, dead_man, opening,
                       flight, position, armed, sends, misled, flat>>
        /\ Changed({v})

\* Mutant: positions alone decide.
Flattened_Positions ==
    surface_is_authoritative("positions") /\ evidence["positions"].value = Zero

\* No orders, and a plan without an intent.
Flattened ==
    /\ orders_surface_confirmed_empty
    /\ surface_is_authoritative("positions") /\ evidence["positions"].value = Zero

\* finalize_kill_switch_flatten; stop is called even when the demotion's record
\* fails, for the demotion has its effect before.
finalize_kill_switch_flatten ==
    /\ mode = "flatten_only" /\ Flattened
    /\ mode' = "cancel_only"
    /\ stopped' = TRUE
    /\ plan' = Zero /\ evidence' = NoEvidence /\ shown' = {} /\ ready' = FALSE
    /\ flat' = (sound = "positions") /\ sound' = "none"
    /\ UNCHANGED <<holder, rotating, dead_man, venue, sends, misled, late>>

-----------------------------------------------------------------------------
\* Mutant: the authority outlives the lease.
rotate_agent_wallet_Authorized ==
    /\ holder = "owner" /\ ~ stopped
    /\ holder' = "nobody" /\ rotating' = TRUE
    /\ loop' = IF loop = "running" THEN "orphaned" ELSE loop
    /\ sound' = "none"
    /\ UNCHANGED <<mode, memory, silence, venue, sends, shown, misled, flat, late>>

\* rotate_agent_wallet, up to the release of the old lease.
rotate_agent_wallet ==
    /\ holder = "owner" /\ ~ stopped
    /\ holder' = "nobody" /\ mode' = "none" /\ rotating' = TRUE
    /\ loop' = IF loop = "running" THEN "orphaned" ELSE loop
    /\ sound' = "none"
    /\ UNCHANGED <<memory, silence, venue, sends, shown, misled, flat, late>>

\* The rest of it gets a lease of the new wallet; when the record fails the exception
\* has the lease.  The caller keeps what it had.
Reacquire ==
    /\ rotating /\ holder = "nobody"
    /\ rotating' = FALSE
    /\ holder' = "owner" /\ mode' = "pending_reconciliation"
    /\ UNCHANGED <<memory, dead_man, venue, sends, ghosts>>

\* "acquire_failed", contended or not, or "identity_changed": the rotation is
\* aborted, and a lease it got is released.
Abort ==
    /\ rotating
    /\ rotating' = FALSE
    /\ UNCHANGED <<holder, mode, memory, dead_man, venue, sends, ghosts>>

-----------------------------------------------------------------------------
\* Mutant: the loop disarms when it ends.
Ended_Disarmed == loop' = "idle" /\ armed' = FALSE

Ended == loop' = "idle" /\ UNCHANGED armed

\* A loop that slept for the interval, or a new one once the last has ended.
Wakes == loop = "idle" \/ silence \geq interval_ms

\* renew_hl_dead_man, by a loop that has the lease; the transport may raise
\* after the request took effect.
renew_hl_dead_man ==
    /\ Wakes /\ loop # "orphaned" /\ mode # "none" /\ ~ stopped
    /\ loop' \in {"running", "idle"}
    /\ silence' = 0 /\ armed' = TRUE /\ late' = FALSE
    /\ UNCHANGED <<owner, memory, opening, reducing, flight, position, sends, shown, misled,
                   sound, flat>>

\* The lease is gone, the transport raises, or the loop is asked to stop.
run_hl_dead_man_loop_Ends ==
    /\ Wakes /\ loop \in {"running", "orphaned"}
    /\ Ended
    /\ UNCHANGED <<owner, memory, silence, opening, reducing, flight, position,
                   sends, ghosts>>

\* The venue cancels at the armed, once.
ScheduledCancel ==
    /\ armed /\ silence \geq horizon_ms
    /\ opening' = [opening EXCEPT !["hyperliquid"] = 0]
    /\ reducing' = [reducing EXCEPT !["hyperliquid"] = 0]
    /\ armed' = FALSE
    /\ UNCHANGED <<owner, memory, dead_man, flight, position, sends, misled, sound,
                   flat>>
    /\ Changed({})

-----------------------------------------------------------------------------
\* An order fills by one; a reduce-only order reduces.
Fill(v) ==
    /\ \/ /\ opening[v] > 0
          /\ opening' = [opening EXCEPT ![v] = @ - 1]
          /\ position' = [position EXCEPT ![v] = @ + 1]
          /\ UNCHANGED reducing
       \/ /\ reducing[v] > 0 /\ position[v] > 0
          /\ reducing' = [reducing EXCEPT ![v] = @ - 1]
          /\ position' = [position EXCEPT ![v] = @ - 1]
          /\ UNCHANGED opening
    /\ UNCHANGED <<owner, memory, dead_man, flight, armed, sends, misled, sound,
                   flat>>
    /\ Changed({})

\* A delayed request arrives.
Land(v) ==
    /\ flight[v] > 0
    /\ opening' = [opening EXCEPT ![v] = @ + flight[v]]
    /\ flight' = [flight EXCEPT ![v] = 0]
    /\ UNCHANGED <<owner, memory, dead_man, reducing, position, armed, sends,
                   misled, sound, flat>>
    /\ Changed({v})

\* Another instance takes the account, sends an order, and ends.
OtherAcquires ==
    /\ holder = "nobody"
    /\ holder' = "other"
    /\ UNCHANGED <<mode, rotating, memory, dead_man, venue, sends, ghosts>>

OtherSubmits(v) ==
    /\ holder = "other" /\ sends < MaxSends
    /\ opening' = [opening EXCEPT ![v] = @ + 1]
    /\ sends' = sends + 1
    /\ UNCHANGED <<owner, memory, dead_man, reducing, flight, position, armed, misled,
                   sound, flat>>
    /\ Changed({v})

OtherReleases ==
    /\ holder = "other"
    /\ holder' = "nobody"
    /\ UNCHANGED <<mode, rotating, memory, dead_man, venue, sends, ghosts>>

\* The owner's process dies; the next one has its log, and reads anew.
Crash ==
    /\ holder' = IF holder = "owner" THEN "nobody" ELSE holder
    /\ mode' = "none" /\ rotating' = FALSE
    /\ evidence' = NoEvidence /\ shown' = {} /\ ready' = FALSE /\ plan' = Zero /\ stopped' = FALSE
    /\ sound' = "none" /\ flat' = FALSE
    /\ loop' = "idle"
    /\ UNCHANGED <<silence, venue, sends, misled, late>>

\* A reading gets older than max_age_ns.
GetsOld(s) ==
    /\ evidence[s].fresh
    /\ evidence' = [evidence EXCEPT ![s] = [@ EXCEPT !.fresh = FALSE]]
    /\ UNCHANGED <<owner, ready, plan, stopped, dead_man, venue, sends, ghosts>>

\* The venue's deadline does not wait.
Tick ==
    /\ silence < Silent /\ (armed => silence < horizon_ms)
    /\ silence' = silence + 1
    /\ UNCHANGED <<owner, memory, loop, venue, sends, ghosts>>

Next ==
    \/ Acquire \/ Startup \/ promote_writer
    \/ \E expected \in Expectations : KillSwitch(expected)
    \/ \E s \in Surfaces : \E complete \in Completeness(s) : Read(s, complete)
    \/ \E expected \in Expectations : decide_startup_admission(expected)
    \/ \E lives, delayed \in SUBSET Venues : submit_t0a_pair(lives, delayed)
    \/ \E done \in SUBSET Venues : cancel_pair_orders(done)
    \/ build_kill_switch_flatten_plan \/ submit_flatten_step \/ finalize_kill_switch_flatten
    \/ rotate_agent_wallet \/ Reacquire \/ Abort
    \/ renew_hl_dead_man \/ run_hl_dead_man_loop_Ends \/ ScheduledCancel
    \/ \E v \in Venues : Fill(v) \/ Land(v) \/ OtherSubmits(v)
    \/ OtherAcquires \/ OtherReleases \/ Crash \/ Tick
    \/ \E s \in Surfaces : GetsOld(s)

Spec == Init /\ [][Next]_vars

-----------------------------------------------------------------------------
\* An admission that is ready was decided, for each surface, on what the venues had at
\* the startup_started_ns or later, so that it missed nothing that anybody had left
\* there before; it may be of an earlier lease (_surface_reasons, promote_writer).
AdmittedOnLaterState ==
    ~ misled

\* A flatten that was finished on orders read while flattening, and positions
\* read after them, leaves neither an order nor a position, ever
\* (finalize_kill_switch_flatten).
StoppedIsFlat ==
    stopped /\ flat /\ holder = "owner" => Actual = [s \in Surfaces |-> Zero]

\* A horizon after the last renewal - the loop ended, the owner crashed, or lost
\* its lease to a rotation - Hyperliquid has no order, unless one got live with no
\* cancel scheduled and none was scheduled since (run_hl_dead_man_loop).
AbandonedIsCancelled ==
    ~ late /\ silence > horizon_ms => Actual["orders"]["hyperliquid"] = 0
=============================================================================
