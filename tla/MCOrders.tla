------------------------------- MODULE MCOrders -------------------------------
(***************************************************************************)
(* OrderSubmission for TLC: behaviours with a pair of one order on each    *)
(* venue, and behaviours with a Hyperliquid order and its replacement,     *)
(* from three processes of which two share a wallet.                       *)
(***************************************************************************)
EXTENDS OrderSubmission, TLC

CONSTANTS a, b, c,              \* the processes
          shared, own,          \* the wallet of a and b, and that of c
          first, second, third, \* the orders
          MaxClockOfPair        \* bound: the clock when the plan is the pair

MCWallets == [i \in Instances |-> IF i = c THEN own ELSE shared]
MCLegs == [o \in Orders |-> IF o = third THEN "bybit" ELSE "hyperliquid"]
MCThirdReduces == [o \in Orders |-> o = third]
MCSecondReplaces == [o \in Orders |-> IF o = second THEN first ELSE NoOrder]

VARIABLE plan  \* the orders of the behaviour

PlanInit == Init /\ plan \in {{first, second}, {first, third}}

\* A replacement is between the processes that share a wallet; a pair is begun
\* by the one that has its own, and finished by another.  Both tenures
\* of a pair have epoch 1, those of a replacement 1 and 2.
PlanNext ==
    /\ Next
    /\ UNCHANGED plan
    /\ second \in intended' => second \in plan
    /\ evidence'.order \in plan \cup {NoOrder}
    /\ epoch' \in {0, IF third \in plan THEN 1 ELSE granted'}
    /\ holder' = c => third \in plan /\ granted' = 1
    /\ third \in plan => clock' \leq MaxClockOfPair /\ (granted' = 1 => holder' \in {c, NoOne})

PlanSpec == PlanInit /\ [][PlanNext]_<<plan, vars>>

Symmetry == Permutations({a, b})
===============================================================================
