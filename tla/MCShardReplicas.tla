-------------------------- MODULE MCShardReplicas --------------------------
(***************************************************************************)
(* Two replicas of one shard; buys of one unit, sells of two units.        *)
(***************************************************************************)
EXTENDS ShardReplicas

CONSTANTS r1, r2
=============================================================================
