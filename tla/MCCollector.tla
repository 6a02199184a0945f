---------------------------- MODULE MCCollector ----------------------------
(***************************************************************************)
(* Collector for TLC: one stream of Hyperliquid, a book and the trades of  *)
(* Bybit.                                                                  *)
(***************************************************************************)
EXTENDS Collector

CONSTANTS bbo, book, trades

MCStreams == [v \in Venues |-> IF v = "bybit" THEN {book, trades} ELSE {bbo}]
=============================================================================
