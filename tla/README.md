# TLA+ models of crocks

crocks is a sharded key-value store built on RocksDB. Every shard has one
master node. Cluster state lives in one protobuf blob, `ClusterInfo`, under the
etcd key `info`. That blob changes only by compare-and-swap
(`TxnPutIfValueEquals`). Shards move between nodes by the migration protocol.
Clients route each operation by their own cached copy of the blob.

This directory holds the TLA+ modules that model that protocol, the request
handlers, crashes and restarts, and the client's failover loop. It also holds
the TLC configurations that check them, and `PROJECT.json`. That file lists
the components, the runs, the mutants, the source lines each definition
models, the findings and the hazards.

## 1. Inventory of the system

| Part | Source | State | Operations that change state |
|---|---|---|---|
| Info (etcd access) | `src/src/client/cluster_impl.h` 58-333 (the body of `info.cc`) | `info_` (the node's parsed copy), `map_`, the etcd key | `Add`, `Remove`, `Run`, `Migrate`, `GiveShard`, `MigrationOver`, `SetAvailable`, `Watch`/`WatchNext`, `Get`, `WaitUntilHealthy` |
| ClusterInfo mutators | not under `src/` (spec 4.1) | the blob: state, nodes (address, available), shards (master, migrating, from, to) | `RedistributeShards`, `SetMigrating`, `GiveShard`, `MigrationOver`, `SetAvailable`, `RemoveNode`, `Tasks`, `IsHealthy` |
| Shard registry | not under `src/` (spec 4.2) | per node: shard id -> Shard (ref count, draining, importing, old address, largest_key) | `Add`, `Remove`, `Ref`, `Unref(terminal)`, `WaitRefs`, `Ingest`, `Get` (with `ask`) |
| ShardImporter / ShardMigrator | not under `src/` (spec 4.5) | per shard: SSTs ingested (`num`) and `largest_key`, both persisted; the SSTs of a dump | `WriteChunk`, `Finish`, `ClearState`, `DumpShard(start_from)` |
| Request handlers | `src/unnamed/part_003` (`async_server.cc`) 69-592 | per-call state machines | `GetCall` (with forwarding), `PutCall`, `DeleteCall`, `BatchCall`, `IteratorCall`, `PingCall` |
| Migration engine | `part_003` 594-726 (donor `MigrateCall`), 895-1027 (recipient `WatchThread`, `MigrationOver`, `HandleError`) | per-stream state | see below |
| Server start and recovery | `part_003` 768-882 | completion queues, watch, recovered shards | `Init`, `Run` |
| Client routing | `src/src/client/cluster_impl.cc` | the client's `Info` copy, connections | constructor, `Operation` retry loop, `Update` |
| crocksctl | `src/src/crocksctl/crocksctl.cc` | none | `get`, `put`, `del` (one `Cluster`, one call), `list`, `info` |
| util.cc | `src/unnamed/part_001` | none | batch and iterator helpers; `DefaultRocksdbOptions` sets `allow_ingest_behind` |
| main, protos | `part_002`, `src/src/proto` | none | plumbing |

Nothing under `src/` calls `Info::Migrate`, and crocksctl has no migrate or
health command: a migration is started by a program that links the library.

How the parts interact during a migration:

1. `Info::Migrate` sets `migrating`, `from`, `to` and the state MIGRATING.
2. The recipient's `WatchThread` gets the new revision and runs `Tasks`.
   It skips a task whose donor is marked unavailable. Otherwise it creates an
   importing shard that remembers the donor's address, opens a `Migrate`
   stream and writes `{shard, start_from}`, where `start_from` is the
   importer's persisted SST count.
3. The donor's `MigrateCall`:
   - answers INVALID_ARGUMENT if it has no such shard;
   - calls `Unref(true)` (draining), `GiveShard` (`master := to`) and writes
     an empty acknowledgement;
   - waits in `WaitRefs` (on a first request only), dumps the shard and
     streams the SSTs from `start_from` on, then `finished`;
   - waits for the confirmation and calls `Finish`;
   - in `OnDone`: if the call was cancelled, marks the recipient
     unavailable and keeps the shard; otherwise removes the shard, and a node
     left with no shards calls `Info::Remove` and shuts down.
4. The recipient reads the acknowledgement and waits until its watched copy
   names it master. It ingests every SST *behind* its own writes, confirms,
   calls `Finish` and `MigrationOver` (CAS, then `importer.ClearState`). It
   waits until the watch shows the shard no longer migrating and clears
   `importing`. A failed read leads to `HandleError`: a second failed read
   means the donor crashed, which is marked unavailable. An INVALID_ARGUMENT
   first read means the donor gave the shard away before a recipient crash:
   `MigrationOver` is called and the task ends.
5. While the shard is importing, `GetCall` forwards a Get whose key is beyond
   `largest_key` or not local, to the donor, with `force`.
6. A restarted node (`Init` with its column families) reopens every shard.
   It marks the shards of its tasks importing with the persisted
   `largest_key`. It `Add`s itself, which is refused while the blob says it
   is available, and sets itself available.
7. Clients send each operation to the master named by their cached copy.
   - INVALID_ARGUMENT: sleep, `Update`, retry.
   - UNAVAILABLE: unless the message is "The former master has crashed",
     reconnect and `Update`. A new master means a retry. Otherwise ping.
     While the cluster is healthy and the ping fails: `Update`, ping again
     and, with `inform_on_unavailable`, mark the node unavailable.
   - Unhealthy cluster: return the error or, with `wait_on_unhealthy`, wait
     until it is healthy.

The properties that make it correct:

- The cluster implements one key-value map. Every acknowledged write takes
  effect at its acknowledgement, and no handoff, ingest or removal changes
  the map (spec 1, 8.3, 8.4).
- Reads are linearizable, including forwarded ones (spec 5).
- GetCall's assertion holds.
- A shard stops importing exactly when its migration is over.
- A node is marked unavailable only while it is down.
- Every migration ends, even when a node crashes. Every client operation
  returns.

## 2. Modules

- `CrocksKV.tla` is the abstract specification: what the cluster promises
  its writers. It is one map from keys to values, and a Put or Delete
  changes it in one step, at its acknowledgement.
- `CrocksMigration.tla` is the composed model of one cluster: the blob,
  every node's server (registry, store, importer state, watch thread,
  migrate stream), crashes and restarts, and the clients. It is one module
  because the handlers, the migration engine and the client loop share the
  registry, the store and the blob in nearly every step. The ClusterInfo,
  Shard and importer operations that are not under `src/` are operators in
  its first sections, marked `spec:`. It instantiates `CrocksKV` with a
  refinement mapping: `kv` is the value `Durable` gives each key (the
  master's entry, or the donor's while the master is importing and lacks
  it), and `acked` is the set of acknowledged writes.
- `ListToString.tla` is Info's `ListToString` (cluster_impl.h:85-120), the
  range formatting of `crocksctl info`, on its own. Its `for` loop is a
  state machine (`Step` per iteration, `Finish` after it) whose stream is a
  sequence of characters; `stream << n` is `Decimal`, the digits of n. It is
  checked against `Reference`, a recursive definition of the contract in the
  function's comment: maximal runs, each "from-to", joined by ",".
- `ClusterInfoCAS.tla` is the ClusterInfo blob from an empty etcd to a
  running cluster and through one migration, with every `Info` CAS loop
  split into its read and its transaction: servers' `Add` (`AddRead`,
  `AddCommit`) and the rest of `AsyncServer::Init` (`NodeInit`), a
  client's constructor and `Run` (`Connect`, `RunRead`, `RunCommit`), the
  operator's `Migrate` (`MigrateRead`, `MigrateCommit`), the donor's
  `GiveShard` (`GiveRead`, `GiveCommit`, `DonorDone`) and the recipient's
  watch thread and `MigrationOver` (`WatchNext`, `RequestShard`, `RecvAck`,
  `RecvAll`, `OverRead`, `OverCommit`). `hist` holds every revision and
  each server's `view` advances through it one `WatchNext` at a time; its
  own `GiveShard` and `MigrationOver` `Get` overwrite `view`, as they
  overwrite `info_`. `ClientPut` and `ServePut` are a client's `Put` and
  `PutCall`, which routes with the server's `view`. `old`, `cold` and
  `oold` are the `old_info` of each loop. Shard contents are reduced to
  `stored[n][k]`, the column family that holds key k. The SST stream is one
  step (`RecvAll`) and nothing crashes: `CrocksMigration` models both.
- `MCCrocksMigration.tla` gives the model values, the initial assignment of
  shards and keys, and the client symmetry. `MCClusterInfoCAS.tla` gives
  the key hashes and the `num_shards` each server starts with.

State and code correspondence:

| Variable | Code |
|---|---|
| `info`, `hist` | the etcd key and its revisions; `rev == Len(hist)` |
| `view[n]`, `seen[n]` | `Info::info_` of node n and the last revision its watch delivered |
| `up[n]` | the server process runs: false after a crash or the `shutdown` in `OnDone` |
| `shards[n][s]` | `Shards::at(s)`: `NoShard` or a record with `draining`, `importing`, `old`, `largest` |
| `store[n][k]` | the entry of key k in n's column families (`Absent` or a write id); it survives a crash |
| `imp[n][s]` | `ShardImporter` state in the DB: SSTs ingested and `largest_key`; it survives a crash |
| `wt[n]` | where n's `WatchThread` is: `idle` (its task loop), `await_ack`, `await_master`, `streaming`, `finishing`, `await_over`; `clear` is false after the INVALID_ARGUMENT path |
| `stream[r]` | the Migrate stream opened by recipient r: the donor's `MigrateCall` state (`dpc`), the messages in flight, the SSTs, `start_from`, whether to `WaitRefs` |
| `crashes` | crashes so far, bounded by `MaxCrashes` |
| `cv[c]`, `cl[c]` | client c's cached masters and availability, and its current operation: `retry` is where it is in the `Operation` loop, `hops` the chain of GetCalls |
| `commits`, `lastRead`, `deletes`, `nextId` | history used by the properties |
| `askFailed` | `assert(!ask)` at part_003:209 failed |

Each action is one handler step or one step of a thread, with every call it
makes:

- `Migrate`: `Info::Migrate`.
- `WatchNext`: `Info::WatchNext` in each place the watch thread blocks,
  with `set_importing(false)` after `MigrationOver`.
- `RequestShard`: one task of the loop, up to the first `Write`, or the
  skip of an unavailable donor.
- `ReadAck`: the first `Read` and the check before the wait loop.
- `ReceiveChunk`: a `Read` of an SST, written and ingested; or `finished`
  followed by the confirmation `Write`.
- `FinishStream`: `Finish` and `MigrationOver`. `AlreadyGiven`: the
  INVALID_ARGUMENT path. `RecipientError`: `HandleError`.
- `MigrateRead`: READ. `DumpShard`: `WaitRefs` and `DumpShard`.
  `SendChunk`: WRITE. `DonorFinish`: DONE. `DonorOnDone` and
  `DonorCancelled`: `OnDone`.
- `Crash`: the process dies; open streams are cancelled (on the donor's
  side) or broken (on the recipient's). `Restart`: `Init` and `Run`.
- `Connect`: the `ClusterImpl` constructor. `StartOp`: crocksctl `get`,
  `put`, `del`, or a library call. `ClientWrite`, `ClientGet`,
  `GetRequest`, `GetForwarded`, `GetReturn`, `BatchOpen`, `BatchCommit`:
  the calls and the GetCall, PutCall, DeleteCall and BatchCall handlers.
- `ClientUpdate`, `ClientUnavailable`, `ClientProbe`, `ClientWaitHealthy`:
  the branches of the `Operation` loop.

In `CrocksMigration` each CAS loop is one atomic step (`ClusterInfoCAS`
checks the loops themselves). A CAS loop retries until its CAS succeeds
on the current blob, so its effect is that of one atomic read-modify-write.

## 3. Runs

All runs but `list_to_string`, `cluster_info_cas` and `stale_shard_count`
use `MCCrocksMigration`. Common bounds:

- two nodes; keys 1 and 2 in shard s1; shard s2, when present, has no keys
  and stays on n1 (so n1 does not shut down);
- at most 2 writes in total, one migration;
- one crash at most, of the nodes in `CrashNodes`;
- two clients with one operation each (symmetric), or one client with two
  operations in the crash and liveness runs, where that keeps TLC under
  five minutes.

Every step of the protocol runs once per migration, and a client operation
can fall into any window between them, so one migration covers every order
of a write, a read and a crash against the handoff. Two writes make "a later
write hidden by an earlier one" possible. Two operations of one client let a
client meet a crash with one operation and retry with the next against the
restarted node. `list_to_string` takes every list of up to four distinct ids
below 12: runs at the start, middle and end, gaps, ranges of two, and ids of
two digits (9, 10, 11), in any order.

| Run | cfg | Expect | Checks |
|---|---|---|---|
| `refinement` | `Refinement.cfg` | pass (215k states) | `TypeOK`; `KVRefinement`: the cluster implements `CrocksKV` (Put, Delete, Get from two clients, no crash) |
| `recipient_crash` | `RecipientCrash.cfg` | pass (303k states) | `KVRefinement` with the recipient n2 crashing anywhere (so the donor also sees its stream cancelled), clients informing etcd |
| `donor_crash_liveness` | `DonorCrashLiveness.cfg` | pass (350k states) | `MigrationCompletes`, `ClientOpsComplete` under `FairSpec`: one shard, so the donor empties, removes itself and shuts down; it may crash anywhere and the client (Put, Get or Batch) informs etcd |
| `cluster_info_cas` | `ClusterInfoCAS.cfg` | pass (24k states) | `TypeOK`, `NoLostJoin`, `ShardHasHome`, `MigratingIffFlag`, `InfoCallsReturn`, `MigrationEnds` under `FairSpec` |
| `list_to_string` | `ListToString.cfg` | pass (78k states) | `ListToStringCorrect`: the loop returns `Reference(list)` |
| `reads_stale` | `ReadsStale.cfg` | violation | `ReadsLinearizable` |
| `get_assert` | `GetAssert.cfg` | violation | `GetAssertHolds` |
| `batch_after_give` | `BatchAfterGive.cfg` | violation | `NoLostWrite` with batches |
| `donor_crash` | `DonorCrash.cfg` | violation | `NoLostWrite` with a donor crash |
| `import_ends` | `ImportEnds.cfg` | violation | `ImportEnds` with a recipient crash |
| `stale_unavailable` | `StaleUnavailable.cfg` | violation | `UnavailableOnlyIfDown` |
| `stale_shard_count` | `StaleShardCount.cfg` | violation | `KeyInItsShard` |

`cluster_info_cas` and `stale_shard_count` start from an empty etcd with
servers n1 (started with 3 shards) and n2 (1 shard), one client with one
Put, keys k1 (hash 4) and k2 (hash 3), and one `Migrate`. Either server may
join first, the client may connect before, between or after the joins, and
the operator's `Migrate` may run in INIT, so both `Add` branches that write
(INIT and RUNNING), the MIGRATING exit, `Run`'s early returns and every CAS
failure are reached. 3 + 1 shards make `Migrate` move exactly one shard,
and the hashes make k1's shard differ between 3 and 4 shards. A second
`Migrate`, or a second client, takes the pass run past five minutes.

### Fairness

Weakly fair: every server action of every node (the completion-queue
threads, the migrate thread and the watch thread loop while the process
runs), `Restart` (an operator restarts a crashed node, which `Add` allows
once the node is marked unavailable), and every step of a client's
`Operation` loop (it keeps retrying after a 1 s sleep). `ClientWaitHealthy`
is strongly fair: `WaitUntilHealthy` blocks on the watch and wakes at every
revision, and the cluster can become unhealthy again in between. Not fair:
`Migrate` (an operator's choice), `StartOp` and `Connect` (a client's), and
`Crash`. `BatchCommit` being weakly fair means a client closes its batch
stream. A client that keeps a batch open holds its reference, so the donor's
`WaitRefs` (part_003:656) blocks the node's only migrate thread and every
migration from that node stalls. The liveness runs assume this does not
happen and cannot show it. In `ClusterInfoCAS` every step that continues a call already under
way is weakly fair: a CAS loop's retry and transaction, `NodeInit`, the
watch thread, both ends of the migration and a Put's retries. Starting a
server, a client, a Put or a `Migrate` is not.

### What the runs show

- **`reads_stale` (spec gap).** After `GiveShard` a client Puts key 1 to the
  recipient. A Get of key 1 there is beyond `largest_key` (0 before any SST),
  so `Shard::Get` asks the donor, which answers with the value from before
  the handoff. The rule is spec 4.3's.
- **`get_assert` (code bug).** The donor's `OnDone` removes the shard while
  the recipient still waits for its `MigrationOver` to come back through the
  watch. A Get of an absent key asks the donor, gets INVALID_ARGUMENT, asks
  again in the re-read, and `assert(!ask)` (part_003:209) fails.
- **`batch_after_give` (divergence from spec 4.2, part_003:646).** A batch
  takes its `Ref` on its first buffer, before `Unref(true)`, and commits
  after `GiveShard` while the recipient already takes direct Puts of the
  key. The recipient ingests the batch's value behind its own write, so the
  batch, acknowledged last, is never visible. The comment at 651-656 names
  this case.
- **`donor_crash` (code bug, part_003:807).** The donor crashes after
  streaming the dump. A restart reopens the shard without `draining`, so a
  client whose view still names n1 writes there and is acknowledged, while
  n2 is master: `PutCall` has no master check (part_003:284).
- **`import_ends` (code bug, part_003:961).** The recipient crashes after
  the donor's `OnDone`. On restart it re-requests the shard, gets
  INVALID_ARGUMENT and ends the task without `set_importing(false)`: the
  shard imports forever and forwards absent-key Gets to no one.
- **`stale_unavailable` (code bug, cluster_impl.cc:204).** A client in the
  probe loop marks a node unavailable after a ping that succeeded, because
  the node restarted in between. A running node stays marked unavailable;
  only its own restart would clear that.
- **`stale_shard_count` (code bug, part_003:282).** n1 joins in INIT with
  3 shards, starts and watches. n2 joins with 1 shard, the client connects
  and its `Run` starts the 4-shard cluster. The client sends k1 (hash 4,
  shard 0) to n1. n1's watch has not delivered n2's join yet, so `PutCall`
  computes 4 mod 3 = 1; n1 has shard 1 and `Ref()` succeeds, and k1 is
  stored where no later Get looks. `GetCall`, `DeleteCall` and `BatchCall`
  route the same way.
- **Passing runs.** Without crashes, `Ref`/`draining` and ingest-behind make
  the cluster implement the key-value map. A recipient crash anywhere is
  survived: resumption from the persisted SST count ingests exactly the SSTs
  not yet ingested. A donor crash does not stop the migration, and client
  operations still return: a Get answered "The former master has crashed"
  is retried without `Update` until the recipient finishes or the donor is
  back. `ListToString` is right for every list of distinct ids. The Info CAS
  loops lose no join, and the cluster is MIGRATING exactly while a shard
  is migrating, even with `Run` racing a `Migrate` of an INIT cluster; each
  loop returns, and the migration ends. A master that serves always has the
  shard's column family.

Mutants (`PROJECT.json`) show each passing property catches a plausible bug:
an importer that reports `largest_key` one past the end; an ingest that
overwrites instead of going behind; tasks keyed by the donor; a retry that
skips `Update`; a resume that skips one SST; a lost `SetAvailable`; a
range that a gap closes without "-last"; new shards that name the wrong
slot; a transaction that does not compare; a recipient that creates the
column family only when already master; `Run` without its `NoMigrations`
check; an `Add` that retries with its first `old_info`.

## 4. Modelling choices and what is left out

- **Data.** Values are write ids; a Delete writes a tombstone id. An SST
  holds one key. The key order is that of the integers.
- **CAS loops** (`Add`, `Migrate`, `GiveShard`, `MigrationOver`, `Remove`,
  `SetAvailable`) are atomic steps. After `GiveShard`, `MigrationOver` and
  `Remove` the caller's copy is the blob it wrote, because they `Get()`
  first. The FIXME at part_003:1009 (`ClearState` after the CAS) is folded
  into the same step: a crash in between matters only when the same node
  imports the same shard a second time, which needs three migrations.
- **Atomic steps.** `WriteChunk` and the ingest are one step: a crash in
  between re-ingests the same SST on restart (part_003:920-924). `OnDone`
  is one step. Put and Delete take and drop their reference in one step.
- **Crashes.** A crash loses the registry flags, the streams and the watch
  thread; the column families and the importer state survive. A restarted
  node's shards have no former-master address. A restart waits until the
  donor has seen its cancelled stream, as the donor's completion queue
  reports the cancellation before a new connection is accepted. A batch cut
  by a crash commits nothing: the crash breaks the client's stream, and a
  restarted process never saw the call.
- **Cluster start.** In `CrocksMigration` every node has joined and the
  cluster runs; `ClusterInfoCAS` models the start. There a node is added
  available, so `AsyncServer::Run`'s `SetAvailable(id, true)` returns
  after its `Get` (spec 4.1 does not say how a slot starts).
- **`Migrate`** moves one shard to another live node: spec 4.1 does not fix
  which shards `RedistributeShards` picks. It is taken only while RUNNING;
  in `ClusterInfoCAS` also in INIT, which `Info::Migrate` allows. While
  MIGRATING no node joins (`Add` exits) or is marked removed (`Remove(id)`
  asserts RUNNING), so with two nodes a second redistribution sees the same
  masters and nodes. Whether it then sets the same targets depends on
  `RedistributeShards`, which is not under `src/`; no run takes a second
  `Migrate`.
- **The Migrate stream** is FIFO and loses nothing while both ends run.
- **Not modelled:** `IteratorCall` and crocksctl `list` (a scan across
  shards); `PingCall` beyond its result; `SingleDelete` and `Merge` (same
  shape as Delete and Put); batches over several buffers or shards;
  `Info::Remove(id)` by an operator (called nowhere under `src/`), and so a
  shard moving back to its former master; crocksctl `list`, `dump` and `clear`, which use the client
  Iterator and WriteBatch whose code is not under `src/`; the rest of
  `Info::Print` (output); main, protos.
- **A crash nobody observes.** Only a peer with an open Migrate stream, or
  a client with `inform_on_unavailable`, marks a crashed node unavailable,
  and `Info::Add` (cluster_impl.h:138) refuses the restart of a node the
  blob still marks available, advising `crocksctl health`, a command
  crocksctl does not have. A node that crashes while idle can then never
  rejoin, and a migration to it never ends, although spec 121 and 213
  describe recovery as automatic. The crash runs let a client inform etcd.
