----------------------------- MODULE MCWatchdog -----------------------------
(***************************************************************************)
(* Watchdog for TLC.                                                       *)
(***************************************************************************)
EXTENDS Watchdog

CONSTANTS a, b
=============================================================================
