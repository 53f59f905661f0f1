---------------------------- MODULE MCCrossShard ----------------------------
(***************************************************************************)
(* Shards for CrossShard: n1 serves the sender's shard, n2 the             *)
(* receiver's, n3 serves both, as every node does without sharding.        *)
(***************************************************************************)
EXTENDS CrossShard

CONSTANTS n1, n2, n3, lock

MCHome == [l \in Lock |-> {n1, n3}]
MCAway == [l \in Lock |-> {n2, n3}]

=============================================================================
