------------------------- MODULE MCCrocksMigration -------------------------
(* Instantiation of CrocksMigration for TLC: two nodes n1 and n2, keys 1   *)
(* and 2 both in shard s1, n1 the initial master. With two shards, s2 has  *)
(* no keys and keeps n1 in the cluster after it gives s1 away; with one    *)
(* shard (MCOneShard) n1 is left empty, removes itself and shuts down.     *)
EXTENDS CrocksMigration, TLC

CONSTANTS n1, n2, s1, s2

MCKeyShard == [k \in 1..NumKeys |-> s1]
MCInitMaster == (s1 :> n1) @@ (s2 :> n1)
MCOneShard == (s1 :> n1)

\* Clients are interchangeable: each runs the same Operation loop.
ClientSymmetry == Permutations(Client)
=============================================================================
