------------------------------ MODULE MCTenure ------------------------------
(***************************************************************************)
(* Tenure for TLC: both legs of the pair are of size one.                  *)
(***************************************************************************)
EXTENDS Tenure

MCSize == [v \in Venues |-> 1]
=============================================================================
