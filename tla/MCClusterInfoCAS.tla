------------------------- MODULE MCClusterInfoCAS -------------------------
(* Instantiation of ClusterInfoCAS for TLC: server n1 started with 3      *)
(* shards and n2 with 1, so that a join of n2 in INIT changes num_shards  *)
(* from 3 to 4 and Migrate moves one shard of n1 to n2. Key k1 hashes to  *)
(* 4: shard 0 of 4 shards, but shard 1 of 3; k2 hashes to 3: shard 3 of  *)
(* 4, shard 0 of 3.                                                       *)
EXTENDS ClusterInfoCAS, TLC

CONSTANTS n1, n2, k1, k2

MCHash == [k \in Key |-> IF k = k1 THEN 4 ELSE 3]
MCDeclared == (n1 :> 3) @@ (n2 :> 1)
=============================================================================
