--------------------------- MODULE MCWriterLease ---------------------------
(***************************************************************************)
(* WriterLease for TLC: two interchangeable processes.                     *)
(***************************************************************************)
EXTENDS WriterLease, TLC

CONSTANTS a, b, shared

\* Each process has a wallet of its own, or both share one.
MCOwnWallets == [i \in Instances |-> i]
MCSharedWallet == [i \in Instances |-> shared]

\* One action every mode with flatten authority allows, one that only
\* risk_increasing allows, one that is always denied.
MCActions == {"reduce_only", "submit", "modify"}

Symmetry == Permutations({a, b})
=============================================================================
