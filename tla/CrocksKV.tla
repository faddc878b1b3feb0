------------------------------ MODULE CrocksKV ------------------------------
(***************************************************************************)
(* What the cluster promises its writers (spec 1 and 8.3): one map from    *)
(* keys to values. A Put or Delete takes effect in one step, at the moment *)
(* it is acknowledged, and nothing else ever changes the map: no shard     *)
(* handoff, SST ingest or shard removal is visible in it.                  *)
(***************************************************************************)
CONSTANTS
    Key,        \* the keys
    OpId,       \* identities of the write operations
    NotFound    \* the value of a key that has none

VARIABLES
    kv,         \* kv[k]: what a Get of k must return
    acked       \* the write operations acknowledged so far

Init == kv = [k \in Key |-> NotFound] /\ acked = {}

\* Write w of key k is acknowledged with v the key's new value: the id of
\* a Put, or NotFound for a Delete.
Write(k, w, v) ==
    /\ w \notin acked
    /\ kv' = [kv EXCEPT ![k] = v]
    /\ acked' = acked \cup {w}

Next == \E k \in Key, w \in OpId : \E v \in {w, NotFound} : Write(k, w, v)

Spec == Init /\ [][Next]_<<kv, acked>>
=============================================================================
