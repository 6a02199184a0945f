--------------------------- MODULE MCRiskControl ---------------------------
(***************************************************************************)
(* RiskControl for TLC.                                                    *)
(***************************************************************************)
EXTENDS RiskControl
=============================================================================
