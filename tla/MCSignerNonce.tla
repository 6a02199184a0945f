--------------------------- MODULE MCSignerNonce ---------------------------
(***************************************************************************)
(* SignerNonce for TLC: two interchangeable processes.                     *)
(***************************************************************************)
EXTENDS SignerNonce, TLC

CONSTANTS a, b

Symmetry == Permutations({a, b})
=============================================================================
