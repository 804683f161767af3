----------------------------- MODULE MCCluster -----------------------------
(***************************************************************************)
(* Two gateways, one or two shards, the two symbols of the docs' example,  *)
(* buys of one unit and sells of two.                                      *)
(***************************************************************************)
EXTENDS Cluster, Sharding

CONSTANTS g1, g2, s1

MCSymbols == {XYZ, ABC}

Table == [sym \in MCSymbols |-> [n \in ShardCounts |-> shard_for_symbol(sym, n)]]
MCShardOf(sym, n) == Table[sym][n]
=============================================================================
