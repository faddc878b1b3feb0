--------------------------- MODULE ClusterInfoCAS ---------------------------
(***************************************************************************)
(* The ClusterInfo blob under the etcd key "info" and the compare-and-swap *)
(* loops of the Info class (src/src/client/cluster_impl.h) that change it, *)
(* from an empty etcd to a running cluster and through one migration:      *)
(* Info::Add by starting servers (AsyncServer::Init, part_003:768-851),    *)
(* Info::Run by a client's constructor (cluster_impl.cc:73-83),            *)
(* Info::Migrate by the operator, Info::GiveShard by the donor's           *)
(* MigrateCall and Info::MigrationOver by the recipient's WatchThread.     *)
(* Every loop reads the key, changes its parsed copy and writes it back    *)
(* only if the key still holds what it read (TxnPutIfValueEquals), else    *)
(* it starts over; the read and the write are separate steps here.         *)
(*                                                                         *)
(* Servers route a key to a shard with their own parsed copy, which the    *)
(* watch brings up to date one revision at a time. The SST streaming of a *)
(* migration is one step (CrocksMigration models it); crashes are not      *)
(* modelled here. The ClusterInfo mutators are not under src/ and follow   *)
(* spec 4.1 ("spec" in their comments).                                    *)
(***************************************************************************)
EXTENDS Integers, Sequences, FiniteSets

CONSTANTS
    Node,         \* server addresses (model values)
    Client,       \* client processes (model values)
    Key,          \* keys (model values)
    Hash,         \* Hash[k]: the CRC32 of key k, a natural
    Declared,     \* Declared[n]: the num_shards server n is started with
    MaxPuts,      \* bound on the Puts of one client
    MaxMigrations,\* bound on the operator's Info::Migrate calls
    NoBlob        \* etcd has no "info" key

ASSUME Hash \in [Key -> Nat] /\ Declared \in [Node -> Nat]

VARIABLES
    etcd,     \* the blob under the key "info", or NoBlob
    hist,     \* hist[i]: the blob of revision i (every successful write)
    np,       \* np[n]: the server process of n "off", "add", "add_cas", "init", "serving", "exited"
    nid,      \* nid[n]: Info::id_, the slot Add gave n (0: none yet)
    old,      \* old[n]: old_info, the blob n's current CAS loop read
    view,     \* view[n]: Info::info_ of server n
    seen,     \* seen[n]: last revision n's watch has delivered
    cfs,      \* cfs[n]: shard ids n has a column family for
    drained,  \* drained[n]: shard ids n's MigrateCall has Unref(true)ed
    stored,   \* stored[n][k]: shard id of the column family holding k, or -1
    wt,       \* wt[n]: the recipient side of n's WatchThread
    dt,       \* dt[n]: the donor side (n's MigrateCall)
    cp,       \* cp[c]: client c's step
    cv,       \* cv[c]: client c's Info::info_
    cold,     \* cold[c]: old_info of client c's Info::Run loop
    ckey,     \* ckey[c]: the key of c's pending Put
    puts,     \* puts[c]: Puts client c has made
    opc,      \* the operator's step in Info::Migrate
    oold,     \* old_info of the operator's loop
    onew,     \* the blob the operator's loop will write
    migrations \* Info::Migrate calls so far

nodeVars == <<np, nid, old, view, seen, cfs, drained, stored, wt, dt>>
clientVars == <<cp, cv, cold, ckey, puts>>
opVars == <<opc, oold, onew, migrations>>
vars == <<etcd, hist, nodeVars, clientVars, opVars>>

None == 0        \* no node id in a ShardInfo field
NoKey == -1      \* stored[n][k]: no entry

-----------------------------------------------------------------------------
(* The ClusterInfo blob (src/src/proto/info.proto). addr[i] is the address *)
(* of node id i (ids are 1-based here); shards[j] is ShardInfo of shard    *)
(* id j - 1.                                                               *)

EmptyInfo == [state |-> "INIT", addr |-> <<>>, shards |-> <<>>]

NumShards(b) == Len(b.shards)
ShardIds(b) == 0..(NumShards(b) - 1)
Sh(b, s) == b.shards[s + 1]

\* Info::Parse of what etcd_.Get returned: an absent key parses as empty.
Parsed(e) == IF e = NoBlob THEN EmptyInfo ELSE e

\* spec: ShardForKey(k) = hash(k) mod num_shards.
ShardForKey(b, k) == Hash[k] % NumShards(b)

\* spec: the master of a shard, and the shards of node id i.
IndexForShard(b, s) == Sh(b, s).master
ShardsOf(b, i) == {s \in ShardIds(b) : Sh(b, s).master = i}

NoMigrations(b) == \A s \in ShardIds(b) : ~Sh(b, s).migrating

\* Mutant: the new shards name the slot before the new one as master.
AddNodeWithNewShards_offByOne(b, n) ==
    [b EXCEPT !.addr = Append(@, n),
              !.shards = @ \o [j \in 1..Declared[n] |->
                  [master |-> Len(b.addr), migrating |-> FALSE,
                   from |-> None, to |-> None]]]

\* spec: AddNodeWithNewShards: a new slot and num_shards new shard ids, all
\* of them mastered by the new node.
AddNodeWithNewShards(b, n) ==
    [b EXCEPT !.addr = Append(@, n),
              !.shards = @ \o [j \in 1..Declared[n] |->
                  [master |-> Len(b.addr) + 1, migrating |-> FALSE,
                   from |-> None, to |-> None]]]

\* spec: AddNode: a new slot without shards.
AddNode(b, n) == [b EXCEPT !.addr = Append(@, n)]

\* Mutant: a server joining a running cluster also brings new shards.
Joined_noRunning(b, n) ==
    IF b.state = "MIGRATING" THEN b ELSE AddNodeWithNewShards(b, n)

\* Info::Add, the branch on the state of the blob read (h:146-153): what
\* the loop will try to write. MIGRATING makes the server exit.
Joined(b, n) ==
    CASE b.state = "INIT" -> AddNodeWithNewShards(b, n)
      [] b.state = "RUNNING" -> AddNode(b, n)
      [] b.state = "MIGRATING" -> b

\* spec: RedistributeShards over the nodes as evenly as possible. It does
\* not fix which shards move; here: any balanced assignment that moves the
\* fewest shards.
Count(p, i) == Cardinality({j \in DOMAIN p : p[j] = i})
Moves(b, p) == Cardinality({j \in DOMAIN p : p[j] # b.shards[j].master})
Balanced(b) ==
    {p \in [1..NumShards(b) -> 1..Len(b.addr)] :
        \A i, i2 \in 1..Len(b.addr) : Count(p, i) <= Count(p, i2) + 1}
Plans(b) == {p \in Balanced(b) : \A q \in Balanced(b) : Moves(b, p) <= Moves(b, q)}

\* spec: every shard whose new master differs is set migrating from its
\* master to the new one.
Redistribute(b, p) ==
    [b EXCEPT !.shards = [j \in DOMAIN b.shards |->
        IF p[j] # b.shards[j].master
        THEN [b.shards[j] EXCEPT !.migrating = TRUE,
                                 !.from = b.shards[j].master, !.to = p[j]]
        ELSE b.shards[j]]]

SetMigrating(b) == [b EXCEPT !.state = "MIGRATING"]
SetRunning(b) == [b EXCEPT !.state = "RUNNING"]

\* spec: GiveShard sets master := to.
GiveShardInfo(b, s) == [b EXCEPT !.shards[s + 1].master = Sh(b, s).to]

\* spec: MigrationOver clears the shard's migration fields; the cluster is
\* RUNNING again when no shard is migrating.
MigrationOverInfo(b, s) ==
    LET c == [b EXCEPT !.shards[s + 1] = [@ EXCEPT !.migrating = FALSE,
                                                   !.from = None, !.to = None]]
    IN  IF NoMigrations(c) THEN SetRunning(c) ELSE c

\* Mutant: the tasks keyed by the donor instead of the recipient.
Tasks_byDonor(b, i) == {s \in ShardIds(b) : Sh(b, s).migrating /\ Sh(b, s).from = i}

\* spec: Tasks(id): shard ids migrating to node id i.
Tasks(b, i) == {s \in ShardIds(b) : Sh(b, s).migrating /\ Sh(b, s).to = i}

-----------------------------------------------------------------------------
(* etcd.                                                                   *)

\* A successful transaction: the blob becomes the next revision.
Write(b) == etcd' = b /\ hist' = Append(hist, b)

\* Mutant: the transaction does not compare.
Unchanged_blind(o) == TRUE

\* TxnPutIfValueEquals(kInfoKey, new, old_info) succeeds iff the key still
\* holds old_info; TxnPutIfKeyMissing (Add's first server, h:156-158) iff
\* the key is still absent.
Unchanged(o) == etcd = o

-----------------------------------------------------------------------------
(* Servers: AsyncServer::Init (part_003:768-851) and Info::Add (h:130-163). *)
(* Restarts, and Add's branches for an address already in the blob, are   *)
(* CrocksMigration's Restart.                                              *)

Init ==
    /\ etcd = NoBlob
    /\ hist = <<>>
    /\ np = [n \in Node |-> "off"]
    /\ nid = [n \in Node |-> 0]
    /\ old = [n \in Node |-> NoBlob]
    /\ view = [n \in Node |-> EmptyInfo]
    /\ seen = [n \in Node |-> 0]
    /\ cfs = [n \in Node |-> {}]
    /\ drained = [n \in Node |-> {}]
    /\ stored = [n \in Node |-> [k \in Key |-> NoKey]]
    /\ wt = [n \in Node |-> [pc |-> "idle", pending |-> {}, shard |-> 0, donor |-> n]]
    /\ dt = [n \in Node |-> [pc |-> "idle", shard |-> 0]]
    /\ cp = [c \in Client |-> "new"]
    /\ cv = [c \in Client |-> EmptyInfo]
    /\ cold = [c \in Client |-> NoBlob]
    /\ ckey = [c \in Client |-> CHOOSE k \in Key : TRUE]
    /\ puts = [c \in Client |-> 0]
    /\ opc = "idle"
    /\ oold = NoBlob
    /\ onew = EmptyInfo
    /\ migrations = 0

\* The top of Add's loop (server start, or a retry): Get and Parse the key,
\* take the branch of its state, keep old_info. id_ is the slot the new
\* node gets. A MIGRATING cluster makes the server exit.
AddRead(n) ==
    LET b == Parsed(etcd) IN
    /\ np[n] \in {"off", "add"}
    /\ IF b.state = "MIGRATING"
       THEN np' = [np EXCEPT ![n] = "exited"] /\ UNCHANGED <<nid, old, view>>
       ELSE /\ old' = [old EXCEPT ![n] = etcd]
            /\ view' = [view EXCEPT ![n] = Joined(b, n)]
            /\ nid' = [nid EXCEPT ![n] = Len(b.addr) + 1]
            /\ np' = [np EXCEPT ![n] = "add_cas"]
    /\ UNCHANGED <<etcd, hist, seen, cfs, drained, stored, wt, dt, clientVars, opVars>>

\* Mutant: old_info taken once, outside the loop: a failed transaction is
\* retried with the same stale expectation.
AddCommit_noReread(n) ==
    /\ np[n] = "add_cas"
    /\ IF Unchanged(old[n])
       THEN Write(view[n]) /\ np' = [np EXCEPT ![n] = "init"]
       ELSE UNCHANGED <<np, etcd, hist>>
    /\ UNCHANGED <<nid, old, view, seen, cfs, drained, stored, wt, dt, clientVars, opVars>>

\* The transaction of Add's loop; on failure the loop starts over.
AddCommit(n) ==
    /\ np[n] = "add_cas"
    /\ IF Unchanged(old[n])
       THEN Write(view[n]) /\ np' = [np EXCEPT ![n] = "init"]
       ELSE np' = [np EXCEPT ![n] = "add"] /\ UNCHANGED <<etcd, hist>>
    /\ UNCHANGED <<nid, old, view, seen, cfs, drained, stored, wt, dt, clientVars, opVars>>

\* The rest of AsyncServer::Init: a column family for every shard of
\* info_.shards() (the blob Add wrote), info_.Watch() (the current value,
\* and the revisions after it), and the watch thread starts on the tasks of
\* that copy. Then AsyncServer::Run serves requests.
NodeInit(n) ==
    /\ np[n] = "init"
    /\ cfs' = [cfs EXCEPT ![n] = ShardsOf(view[n], nid[n])]
    /\ view' = [view EXCEPT ![n] = etcd]
    /\ seen' = [seen EXCEPT ![n] = Len(hist)]
    /\ wt' = [wt EXCEPT ![n].pending = Tasks(etcd, nid[n])]
    /\ np' = [np EXCEPT ![n] = "serving"]
    /\ UNCHANGED <<etcd, hist, nid, old, drained, stored, dt, clientVars, opVars>>

\* Info::WatchNext: the next revision replaces n's copy. The watch thread
\* calls it after its task loop (pending empty), while it waits to become
\* master (part_003:967-970) and after MigrationOver (part_003:1012-1015);
\* then it runs its task loop on the tasks of the new copy.
WatchNext(n) ==
    LET b == hist[seen[n] + 1]
        s == wt[n].shard
    IN
    /\ np[n] = "serving" /\ seen[n] < Len(hist)
    /\ \/ wt[n].pc = "idle" /\ wt[n].pending = {}
       \/ wt[n].pc \in {"await_master", "await_over"}
    /\ view' = [view EXCEPT ![n] = b]
    /\ seen' = [seen EXCEPT ![n] = @ + 1]
    /\ wt' = [wt EXCEPT ![n] =
                CASE wt[n].pc = "idle" -> [@ EXCEPT !.pending = Tasks(b, nid[n])]
                  [] wt[n].pc = "await_master" ->
                        [@ EXCEPT !.pc = IF IndexForShard(b, s) = nid[n]
                                         THEN "streaming" ELSE "await_master"]
                  [] wt[n].pc = "await_over" ->
                        [@ EXCEPT !.pc = IF Sh(b, s).migrating
                                         THEN "await_over" ELSE "idle"]]
    /\ UNCHANGED <<etcd, hist, np, nid, old, cfs, drained, stored, dt, clientVars, opVars>>

-----------------------------------------------------------------------------
(* A migration. Recipient: WatchThread (part_003:895-1005) and             *)
(* AsyncServer::MigrationOver (1007-1016). Donor: MigrateCall READ         *)
(* (605-645) and OnDone (684-709).                                         *)

\* Mutant: the column family is created only when the copy already names
\* n master (the two branches of part_003:912-922 swapped).
RequestShard_noCreate(r) ==
    /\ np[r] = "serving" /\ wt[r].pc = "idle"
    /\ \E s \in wt[r].pending :
        LET d == view[r].addr[Sh(view[r], s).from] IN
        /\ cfs' = [cfs EXCEPT ![r] = IF IndexForShard(view[r], s) = nid[r] THEN @ \cup {s} ELSE @]
        /\ wt' = [wt EXCEPT ![r] = [pc |-> "await_ack", pending |-> @.pending \ {s},
                                    shard |-> s, donor |-> d]]
        /\ dt' = [dt EXCEPT ![d] = [pc |-> "requested", shard |-> s]]
    /\ UNCHANGED <<etcd, hist, np, nid, old, view, seen, drained, stored, clientVars, opVars>>

\* A task of the loop: create the shard's column family unless it is there
\* and open the Migrate stream to the donor (the node id "from"); the
\* first Read blocks until the donor has given the shard.
RequestShard(r) ==
    /\ np[r] = "serving" /\ wt[r].pc = "idle"
    /\ \E s \in wt[r].pending :
        LET d == view[r].addr[Sh(view[r], s).from] IN
        /\ cfs' = [cfs EXCEPT ![r] = @ \cup {s}]
        /\ wt' = [wt EXCEPT ![r] = [pc |-> "await_ack", pending |-> @.pending \ {s},
                                    shard |-> s, donor |-> d]]
        /\ dt' = [dt EXCEPT ![d] = [pc |-> "requested", shard |-> s]]
    /\ UNCHANGED <<etcd, hist, np, nid, old, view, seen, drained, stored, clientVars, opVars>>

\* The donor reads the request when it serves: Unref(true) drains the shard,
\* then the top of Info::GiveShard's loop: Get (h:254).
GiveRead(d) ==
    /\ np[d] = "serving" /\ dt[d].pc \in {"requested", "give_read"}
    /\ drained' = [drained EXCEPT ![d] = @ \cup {dt[d].shard}]
    /\ old' = [old EXCEPT ![d] = etcd]
    /\ view' = [view EXCEPT ![d] = etcd]
    /\ dt' = [dt EXCEPT ![d].pc = "give_cas"]
    /\ UNCHANGED <<etcd, hist, np, nid, seen, cfs, stored, wt, clientVars, opVars>>

\* Info::GiveShard's transaction (master := to); map_ is the blob written.
\* Then the donor writes the ack, and dumps and sends the shard.
GiveCommit(d) ==
    LET b == GiveShardInfo(old[d], dt[d].shard) IN
    /\ dt[d].pc = "give_cas"
    /\ IF Unchanged(old[d])
       THEN /\ Write(b)
            /\ view' = [view EXCEPT ![d] = b]
            /\ dt' = [dt EXCEPT ![d].pc = "sending"]
       ELSE /\ dt' = [dt EXCEPT ![d].pc = "give_read"]
            /\ UNCHANGED <<etcd, hist, view>>
    /\ UNCHANGED <<np, nid, old, seen, cfs, drained, stored, wt, clientVars, opVars>>

\* The recipient's first Read returns the ack; it waits on the watch until
\* its copy names it master.
RecvAck(r) ==
    /\ wt[r].pc = "await_ack" /\ dt[wt[r].donor].pc = "sending"
    /\ wt' = [wt EXCEPT ![r].pc = IF IndexForShard(view[r], wt[r].shard) = nid[r]
                                  THEN "streaming" ELSE "await_master"]
    /\ UNCHANGED <<etcd, hist, np, nid, old, view, seen, cfs, drained, stored, dt,
                   clientVars, opVars>>

\* The recipient reads and ingests the whole shard, writes its request
\* again and finishes the call; the donor's OnDone removes the shard.
RecvAll(r) ==
    LET d == wt[r].donor
        s == wt[r].shard
    IN
    /\ wt[r].pc = "streaming"
    /\ stored' = [stored EXCEPT ![r] = [k \in Key |-> IF stored[d][k] = s THEN s ELSE @[k]]]
    /\ wt' = [wt EXCEPT ![r].pc = "over_read"]
    /\ dt' = [dt EXCEPT ![d].pc = "finished"]
    /\ UNCHANGED <<etcd, hist, np, nid, old, view, seen, cfs, drained, clientVars, opVars>>

\* MigrateCall::OnDone: shards->Remove(shard) drops the column family. The
\* donor keeps other shards here, so it does not remove itself.
DonorDone(d) ==
    /\ dt[d].pc = "finished"
    /\ cfs' = [cfs EXCEPT ![d] = @ \ {dt[d].shard}]
    /\ drained' = [drained EXCEPT ![d] = @ \ {dt[d].shard}]
    /\ stored' = [stored EXCEPT ![d] = [k \in Key |-> IF @[k] = dt[d].shard THEN NoKey ELSE @[k]]]
    /\ dt' = [dt EXCEPT ![d] = [pc |-> "idle", shard |-> 0]]
    /\ UNCHANGED <<etcd, hist, np, nid, old, view, seen, wt, clientVars, opVars>>

\* The top of Info::MigrationOver's loop: Get (h:269).
OverRead(r) ==
    /\ wt[r].pc = "over_read"
    /\ old' = [old EXCEPT ![r] = etcd]
    /\ view' = [view EXCEPT ![r] = etcd]
    /\ wt' = [wt EXCEPT ![r].pc = "over_cas"]
    /\ UNCHANGED <<etcd, hist, np, nid, seen, cfs, drained, stored, dt, clientVars, opVars>>

\* Its transaction; then importer.ClearState() and the wait on the watch.
OverCommit(r) ==
    LET b == MigrationOverInfo(old[r], wt[r].shard) IN
    /\ wt[r].pc = "over_cas"
    /\ IF Unchanged(old[r])
       THEN Write(b) /\ view' = [view EXCEPT ![r] = b]
            /\ wt' = [wt EXCEPT ![r].pc = "await_over"]
       ELSE wt' = [wt EXCEPT ![r].pc = "over_read"] /\ UNCHANGED <<etcd, hist, view>>
    /\ UNCHANGED <<np, nid, old, seen, cfs, drained, stored, dt, clientVars, opVars>>

-----------------------------------------------------------------------------
(* A client: ClusterImpl's constructor (cluster_impl.cc:73-83) with        *)
(* Info::Run (h:189-204), and Put through Operation (cc:142-158) against   *)
(* PutCall (part_003:276-300).                                             *)

\* Mutant: Run's checks without "|| !NoMigrations()".
RunDone_noMigrations(b) == b.state = "RUNNING"

\* Info::Run returns without writing: the cluster runs already, or a
\* migration is pending (h:190, 198).
RunDone(b) == b.state = "RUNNING" \/ ~NoMigrations(b)

\* The constructor: info_.Get() and the check at the top of Info::Run.
Connect(c) ==
    /\ cp[c] = "new"
    /\ cv' = [cv EXCEPT ![c] = Parsed(etcd)]
    /\ cp' = [cp EXCEPT ![c] = IF RunDone(Parsed(etcd)) THEN "ready" ELSE "run_read"]
    /\ UNCHANGED <<etcd, hist, nodeVars, cold, ckey, puts, opVars>>

\* The top of Run's loop: Get (an absent key returns), Parse, check again.
RunRead(c) ==
    /\ cp[c] = "run_read"
    /\ IF etcd = NoBlob
       THEN cp' = [cp EXCEPT ![c] = "ready"] /\ UNCHANGED <<cv, cold>>
       ELSE /\ cv' = [cv EXCEPT ![c] = etcd]
            /\ cold' = [cold EXCEPT ![c] = etcd]
            /\ cp' = [cp EXCEPT ![c] = IF RunDone(etcd) THEN "ready" ELSE "run_cas"]
    /\ UNCHANGED <<etcd, hist, nodeVars, ckey, puts, opVars>>

\* SetRunning and the transaction; info_ keeps the blob written.
RunCommit(c) ==
    /\ cp[c] = "run_cas"
    /\ IF Unchanged(cold[c])
       THEN /\ Write(SetRunning(cold[c]))
            /\ cv' = [cv EXCEPT ![c] = SetRunning(cold[c])]
            /\ cp' = [cp EXCEPT ![c] = "ready"]
       ELSE cp' = [cp EXCEPT ![c] = "run_read"] /\ UNCHANGED <<etcd, hist, cv>>
    /\ UNCHANGED <<nodeVars, cold, ckey, puts, opVars>>

\* Put(key): NodeForKey computes ShardForKey with the client's copy; with
\* no shard at all that is hash % 0, which kills the process (SIGFPE).
ClientPut(c) ==
    /\ cp[c] = "ready" /\ puts[c] < MaxPuts
    /\ puts' = [puts EXCEPT ![c] = @ + 1]
    /\ IF NumShards(cv[c]) = 0
       THEN cp' = [cp EXCEPT ![c] = "aborted"] /\ UNCHANGED ckey
       ELSE \E k \in Key : ckey' = [ckey EXCEPT ![c] = k] /\ cp' = [cp EXCEPT ![c] = "put"]
    /\ UNCHANGED <<etcd, hist, nodeVars, cv, cold, opVars>>

\* PutCall REQUEST on the node the client's copy names master: the server
\* computes ShardForKey with its own copy; shards->at and Ref() either
\* succeed and the key is written to that column family, or the call ends
\* INVALID_ARGUMENT and Operation retries after Update() (info_.Get()).
ServePut(c) ==
    LET k == ckey[c]
        n == cv[c].addr[IndexForShard(cv[c], ShardForKey(cv[c], k))]
        s == ShardForKey(view[n], k)
    IN
    /\ cp[c] = "put" /\ np[n] = "serving"
    /\ IF s \in cfs[n] \ drained[n]
       THEN /\ stored' = [stored EXCEPT ![n][k] = s]
            /\ cp' = [cp EXCEPT ![c] = "ready"]
            /\ UNCHANGED cv
       ELSE cv' = [cv EXCEPT ![c] = Parsed(etcd)] /\ UNCHANGED <<stored, cp>>
    /\ UNCHANGED <<etcd, hist, np, nid, old, view, seen, cfs, drained, wt, dt, cold, ckey,
                   puts, opVars>>

-----------------------------------------------------------------------------
(* The operator: Info::Migrate (h:206-222), from crocksctl migrate.        *)

\* The top of Migrate's loop (a new call, or a retry): Get, Parse,
\* RedistributeShards; nothing to move, or no key, returns.
MigrateRead ==
    /\ \/ opc = "idle" /\ migrations < MaxMigrations /\ migrations' = migrations + 1
       \/ opc = "read" /\ UNCHANGED migrations
    /\ IF etcd = NoBlob
       THEN opc' = "idle" /\ UNCHANGED <<oold, onew>>
       ELSE \E p \in Plans(etcd) :
              LET b == Redistribute(etcd, p) IN
              IF NoMigrations(b)
              THEN opc' = "idle" /\ UNCHANGED <<oold, onew>>
              ELSE opc' = "cas" /\ oold' = etcd /\ onew' = SetMigrating(b)
    /\ UNCHANGED <<etcd, hist, nodeVars, clientVars>>

\* SetMigrating and the transaction.
MigrateCommit ==
    /\ opc = "cas"
    /\ IF Unchanged(oold)
       THEN Write(onew) /\ opc' = "idle"
       ELSE opc' = "read" /\ UNCHANGED <<etcd, hist>>
    /\ UNCHANGED <<oold, onew, migrations, nodeVars, clientVars>>

-----------------------------------------------------------------------------

Next ==
    \/ \E n \in Node :
        \/ AddRead(n) \/ AddCommit(n) \/ NodeInit(n) \/ WatchNext(n)
        \/ RequestShard(n) \/ GiveRead(n) \/ GiveCommit(n) \/ RecvAck(n)
        \/ RecvAll(n) \/ DonorDone(n) \/ OverRead(n) \/ OverCommit(n)
    \/ \E c \in Client :
        \/ Connect(c) \/ RunRead(c) \/ RunCommit(c) \/ ClientPut(c) \/ ServePut(c)
    \/ MigrateRead \/ MigrateCommit

Spec == Init /\ [][Next]_vars

\* Fairness: every step that continues a call already under way (a CAS
\* loop's retry or transaction, the watch thread, the migration streams, a
\* Put's retries) is taken; starting a server, a client, a Put or a
\* Migrate is not.
FairSpec ==
    /\ Spec
    /\ \A n \in Node :
        /\ WF_vars(np[n] = "add" /\ AddRead(n)) /\ WF_vars(AddCommit(n))
        /\ WF_vars(NodeInit(n)) /\ WF_vars(WatchNext(n)) /\ WF_vars(RequestShard(n))
        /\ WF_vars(GiveRead(n)) /\ WF_vars(GiveCommit(n)) /\ WF_vars(RecvAck(n))
        /\ WF_vars(RecvAll(n)) /\ WF_vars(DonorDone(n))
        /\ WF_vars(OverRead(n)) /\ WF_vars(OverCommit(n))
    /\ \A c \in Client :
        WF_vars(RunRead(c)) /\ WF_vars(RunCommit(c)) /\ WF_vars(ServePut(c))
    /\ WF_vars(opc = "read" /\ MigrateRead) /\ WF_vars(MigrateCommit)

-----------------------------------------------------------------------------
(* Properties.                                                             *)

MaxNodes == Cardinality(Node)
ShardRec == [master : 1..MaxNodes, migrating : BOOLEAN, from : 0..MaxNodes, to : 0..MaxNodes]
Blob == {b \in [state : {"INIT", "RUNNING", "MIGRATING"}, addr : Seq(Node),
                shards : Seq(ShardRec)] : Len(b.addr) <= MaxNodes}

\* Every blob written to etcd is a ClusterInfo whose masters are node ids
\* of its slots (AddNodeWithNewShards numbers the new slot), and every
\* process is at one of the steps of its code.
TypeOK ==
    /\ etcd \in Blob \cup {NoBlob}
    /\ \A b \in {etcd} \ {NoBlob} : \A s \in ShardIds(b) : IndexForShard(b, s) <= Len(b.addr)
    /\ np \in [Node -> {"off", "add", "add_cas", "init", "serving", "exited"}]
    /\ nid \in [Node -> 0..MaxNodes]
    /\ \A n \in Node : cfs[n] \cup drained[n] \subseteq Nat
    /\ wt \in [Node -> [pc : {"idle", "await_ack", "await_master", "streaming",
                              "over_read", "over_cas", "await_over"},
                        pending : SUBSET Nat, shard : Nat, donor : Node]]
    /\ dt \in [Node -> [pc : {"idle", "requested", "give_read", "give_cas", "sending",
                              "finished"}, shard : Nat]]
    /\ cp \in [Client -> {"new", "run_read", "run_cas", "ready", "put", "aborted"}]
    /\ opc \in {"idle", "read", "cas"}

\* Info::Add's compare-and-swap: once Add has returned to a server, the
\* blob in etcd lists the server at the slot id_ it was given, whatever
\* other Adds, Runs, Migrates and GiveShards ran at the same time.
NoLostJoin ==
    \A n \in Node : np[n] \in {"init", "serving"} =>
        /\ etcd # NoBlob
        /\ nid[n] \in DOMAIN etcd.addr
        /\ etcd.addr[nid[n]] = n

\* A serving node that etcd names master of a shard has a column family
\* for it: AsyncServer::Init creates the shards of its slot, the watch
\* thread creates a shard it requests before the donor's GiveShard names it
\* master, and the donor drops its copy only after that (OnDone).
ShardHasHome ==
    etcd # NoBlob =>
        \A s \in ShardIds(etcd) :
            LET m == etcd.addr[IndexForShard(etcd, s)] IN
            np[m] = "serving" => s \in cfs[m]

\* Spec invariant 2 of what Run, Migrate and MigrationOver write: the
\* cluster is MIGRATING exactly when some shard is migrating. Info::Run
\* may be called while a Migrate of an INIT cluster is pending.
MigratingIffFlag ==
    etcd # NoBlob => (etcd.state = "MIGRATING" <=> ~NoMigrations(etcd))

\* Every CAS loop a process has entered returns: Add ends in Init or in
\* exit, a client's Run returns, the operator's Migrate returns.
InfoCallsReturn ==
    /\ \A n \in Node : np[n] \in {"add", "add_cas"} ~> np[n] \in {"init", "exited"}
    /\ \A c \in Client : cp[c] \in {"run_read", "run_cas"} ~> cp[c] = "ready"
    /\ opc \in {"read", "cas"} ~> opc = "idle"

State == IF etcd = NoBlob THEN "NONE" ELSE etcd.state

\* A migration the operator started ends: the recipient's watch thread
\* finds its task, the donor gives the shard, the recipient's
\* MigrationOver clears it, and the cluster is RUNNING again.
MigrationEnds == State = "MIGRATING" ~> State = "RUNNING"

\* Spec "Routing function": a key is stored in the column family of
\* shard_for_key(k) = hash(k) mod num_shards, for the num_shards of the
\* cluster. PutCall computes it with the server's watched copy.
KeyInItsShard ==
    \A n \in Node, k \in Key :
        stored[n][k] # NoKey => stored[n][k] = ShardForKey(etcd, k)

=============================================================================
