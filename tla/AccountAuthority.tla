-------------------------- MODULE AccountAuthority --------------------------
(***************************************************************************)
(* What execution/writer.py promises of one exchange account, without lock *)
(* files, epochs or evidence: the account has at most one primary writer,  *)
(* and the authority of one tenure only ever goes                          *)
(*                                                                         *)
(*   pending_reconciliation -> risk_increasing -> flatten_only -> (ended)  *)
(*                                                                         *)
(* where any of the three may end at any time (release, crash, a demotion  *)
(* to cancel_only, loss of the lock file).                                 *)
(***************************************************************************)
CONSTANTS Instances, NoOne

VARIABLES holder,    \* the primary writer of the account, or NoOne
          authority  \* the mode of its tenure, "none" without a writer

vars == <<holder, authority>>

Init == holder = NoOne /\ authority = "none"

Grant(i) ==
    /\ holder = NoOne
    /\ holder' = i
    /\ authority' = "pending_reconciliation"

Promote ==
    /\ authority = "pending_reconciliation"
    /\ authority' = "risk_increasing"
    /\ UNCHANGED holder

Restrict ==
    /\ authority = "risk_increasing"
    /\ authority' = "flatten_only"
    /\ UNCHANGED holder

End ==
    /\ holder # NoOne
    /\ holder' = NoOne
    /\ authority' = "none"

Next == (\E i \in Instances : Grant(i)) \/ Promote \/ Restrict \/ End

Spec == Init /\ [][Next]_vars
=============================================================================
