---------------------------- MODULE MCShardWriter ----------------------------
(***************************************************************************)
(* ShardWriter for TLC: two writers, which may have the same boot id, over *)
(* three hours.                                                            *)
(***************************************************************************)
EXTENDS ShardWriter

MCBootIds == {1, 2}
MCSequences == {0, 1}
=============================================================================
