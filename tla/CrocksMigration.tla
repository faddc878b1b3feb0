--------------------------- MODULE CrocksMigration ---------------------------
(***************************************************************************)
(* Shard migration in crocks: the ClusterInfo blob kept in etcd and changed *)
(* by compare-and-swap (src/client/cluster_impl.h, the Info methods), the   *)
(* server's request handlers and its migration protocol (src/unnamed/       *)
(* part_003, the async server: GetCall, PutCall, DeleteCall, MigrateCall,   *)
(* WatchThread, MigrationOver) and the client's routing and retry loop      *)
(* (src/client/cluster_impl.cc, ClusterImpl::Operation and Update).         *)
(*                                                                         *)
(* The Shard class, ShardMigrator, ShardImporter and the ClusterInfo        *)
(* mutators are not under src/: the operators modelling them follow the     *)
(* spec (sections 4.1, 4.2, 4.4) and are marked "spec" in their comments.   *)
(***************************************************************************)
EXTENDS Naturals, Sequences, FiniteSets, SequencesExt

CONSTANTS
    Node,           \* the storage nodes (model values)
    Shard,          \* the shards (model values)
    Client,         \* the client processes (model values)
    NumKeys,        \* keys are 1..NumKeys, ordered as RocksDB orders them
    KeyShard,       \* ShardForKey: [1..NumKeys -> Shard]
    InitMaster,     \* the master of every shard when the cluster runs
    MaxWrites,      \* bound on the Put and Delete calls of all clients
    MaxOps,         \* bound on the operations of one client
    MaxMigrations,  \* bound on the Info::Migrate calls of the operator
    ClientOps,      \* the calls clients make: "put", "del", "get", "batch"
    CrashNodes,     \* the nodes whose server process may crash
    MaxCrashes,     \* bound on the crashes of all server processes
    InformOnUnavailable, \* client option inform_on_unavailable
    WaitOnUnhealthy,     \* client option wait_on_unhealthy
    NoShard,        \* Shards::at() returned an empty shared_ptr
    None            \* an empty field

Key == 1..NumKeys
Absent == 0                      \* no entry for the key in the column family
WriteId == 1..MaxWrites          \* every Put or Delete has a distinct id
KeysOf(s) == {k \in Key : KeyShard[k] = s}

ASSUME KeyShard \in [Key -> Shard] /\ InitMaster \in [Shard -> Node]

VARIABLES
    info,       \* the ClusterInfo blob under the etcd key "info"
    hist,       \* hist[i]: the blob written by the i-th successful CAS (revision i)
    view,       \* view[n]: node n's parsed copy of the blob (Info::info_)
    seen,       \* seen[n]: last revision delivered by n's etcd watch, in order
    up,         \* up[n]: the server process of n is running
    shards,     \* shards[n][s]: the Shard handle in n's registry, or NoShard
    store,      \* store[n][k]: RocksDB entry of key k on n: Absent or a write id
    wt,         \* wt[n]: the WatchThread of n (recipient side of migrations)
    stream,     \* stream[r]: the Migrate stream opened by recipient r
    cv,         \* cv[c]: client c's shard -> master map (its Info copy)
    cl,         \* cl[c]: the operation client c is performing
    lastRead,   \* lastRead[c]: result of c's last completed Get
    commits,    \* commits[k]: ids of the writes of k in the order they committed
    nextId,     \* next write id
    deletes,    \* ids of the writes that are Deletes
    migrations, \* Info::Migrate calls so far
    askFailed,  \* the assert(!ask) of GetCall (part_003:209) failed
    imp,        \* imp[n][s]: ShardImporter state persisted in n's default CF
    crashes     \* crashes of server processes so far

serverVars == <<view, seen, up, shards, store, wt, stream, imp, crashes>>
clientVars == <<cv, cl, lastRead, commits, nextId, deletes>>
vars == <<info, hist, migrations, askFailed, serverVars, clientVars>>

-----------------------------------------------------------------------------
(* Helpers for stored values.                                              *)

\* Get finds the key: an entry that is not a deletion tombstone.
Live(v) == v # Absent /\ v \notin deletes

\* What a Get of an entry returns: the write id, or NotFound (Absent).
Visible(v) == IF Live(v) THEN v ELSE Absent

\* Value of key k after its i-th committed write (0: never written).
ValueAt(k, i) == IF i = 0 THEN Absent ELSE Visible(commits[k][i])

-----------------------------------------------------------------------------
(* The ClusterInfo blob and its mutators (spec 4.1; the ClusterInfo class  *)
(* is not under src/). from/to are None when the shard is not migrating.   *)

InfoType == [state : {"RUNNING", "MIGRATING"},
             master : [Shard -> Node],
             migrating : [Shard -> BOOLEAN],
             from : [Shard -> Node \cup {None}],
             to : [Shard -> Node \cup {None}],
             live : [Node -> BOOLEAN],      \* address not empty
             avail : [Node -> BOOLEAN]]     \* NodeInfo.available

\* spec: RedistributeShards moving shard s to node n, then SetMigrating.
Redistribute(i, s, n) ==
    [i EXCEPT !.state = "MIGRATING", !.migrating[s] = TRUE,
              !.from[s] = i.master[s], !.to[s] = n]

\* spec: ClusterInfo::GiveShard publishes master := to.
GiveShardInfo(i, s) == [i EXCEPT !.master[s] = i.to[s]]

\* spec: ClusterInfo::MigrationOver clears the shard's migration fields and
\* returns the cluster to RUNNING when no shard is migrating any more.
MigrationOverInfo(i, s) ==
    LET j == [i EXCEPT !.migrating[s] = FALSE, !.from[s] = None, !.to[s] = None]
    IN  [j EXCEPT !.state = IF \E t \in Shard : j.migrating[t]
                            THEN "MIGRATING" ELSE "RUNNING"]

\* spec: ClusterInfo::RemoveNode clears the node's address.
RemoveNodeInfo(i, n) == [i EXCEPT !.live[n] = FALSE]

\* spec: ClusterInfo::SetAvailable.
SetAvailableInfo(i, n, b) == [i EXCEPT !.avail[n] = b]

\* spec: ClusterInfo::IsHealthy: no shard is owned by an unavailable node.
IsHealthy(i) == \A s \in Shard : i.avail[i.master[s]]

\* spec: Tasks(id): the shards node r must request, i.e. migrating to r.
Tasks(i, r) == {s \in Shard : i.migrating[s] /\ i.to[s] = r}

\* The current etcd revision of the key.
rev == Len(hist)

\* A successful TxnPutIfValueEquals: the new blob becomes a revision.
Publish(i) == info' = i /\ hist' = Append(hist, i)

\* Mutant: SetAvailable returns without writing the flag.
SetAvailable_lost(id, b) == UNCHANGED <<info, hist>>

\* Info::SetAvailable: re-read the blob, return if the flag already has the
\* value, else CAS it. The caller's copy becomes info'.
SetAvailable(id, b) ==
    IF info.avail[id] = b THEN UNCHANGED <<info, hist>>
    ELSE Publish(SetAvailableInfo(info, id, b))

\* Info::GiveShard on donor d: CAS master := to, then the donor's copy
\* (and its map_) is the blob it wrote.
GiveShard(d, s) ==
    /\ Publish(GiveShardInfo(info, s))
    /\ view' = [view EXCEPT ![d] = info']

\* Info::Remove() on node d: CAS the node's address away; the copy is the
\* blob written.
RemoveSelf(d) ==
    /\ Publish(RemoveNodeInfo(info, d))
    /\ view' = [view EXCEPT ![d] = info']

\* Info::WrongShard: by n's copy of the blob, n is not the shard's master.
WrongShard(n, s) == view[n].master[s] # n

-----------------------------------------------------------------------------
(* The Shard handle (spec 4.2 and 4.3; src/server/shards.cc is not under   *)
(* src/).                                                                  *)

ShardType == [draining : BOOLEAN, importing : BOOLEAN,
              old : Node \cup {None}, largest : 0..NumKeys,
              refs : 0..Cardinality(Client)]

\* spec: Shards::Add(shard_id, address) for a shard to be imported.
ImportingShard(d) ==
    [draining |-> FALSE, importing |-> TRUE, old |-> d, largest |-> 0, refs |-> 0]

OwnedShard ==
    [draining |-> FALSE, importing |-> FALSE, old |-> None, largest |-> 0, refs |-> 0]

\* spec: Ref() fails once the shard is draining.
Ref(sh) == ~sh.draining

\* spec: Shard::Get sets ask when the shard is importing and either the key
\* exceeds largest_key or the column family does not contain it.
Ask(n, k) ==
    LET sh == shards[n][KeyShard[k]]
    IN  sh.importing /\ (k > sh.largest \/ ~Live(store[n][k]))

\* Mutant: the ingested entry replaces the recipient's own entry.
IngestBehind_overwrite(cur, v) == v

\* spec: Shard::Ingest of one SST with ingest_behind (DefaultRocksdbOptions
\* sets allow_ingest_behind, part_001:141): the ingested entry goes below
\* every entry the column family already has.
IngestBehind(cur, v) == IF cur = Absent THEN v ELSE cur

\* Mutant: the resumed dump skips one SST more than the recipient has.
ResumeFrom_skipOne(ssts, n) == SubSeq(ssts, n + 2, Len(ssts))

\* spec: a dump resumed with start_from = n skips the first n SSTs.
ResumeFrom(ssts, n) == SubSeq(ssts, n + 1, Len(ssts))

\* spec: ShardImporter state: SSTs ingested (num) and largest_key.
ImportType == [num : 0..NumKeys, largest : 0..NumKeys]
NoImport == [num |-> 0, largest |-> 0]

\* spec: ShardMigrator::DumpShard iterates a snapshot of the column family;
\* the iterator skips deleted keys, and each live key is one SST here.
SstKeys(snap) == SetToSortSeq({k \in DOMAIN snap : Live(snap[k])}, <)

\* Mutant: the importer reports the bound one past the last key written.
LargestKey_pastEnd(m) == m.key + 1

\* spec: ShardImporter::largest_key() of the SST a chunk completed: its
\* last (largest) key; Shard::Ingest records it as largest_key.
LargestKey(m) == m.key

Msg(kind, k, v) == [kind |-> kind, key |-> k, val |-> v]

NoStream == [dpc |-> "none", donor |-> None, shard |-> None, msgs |-> <<>>,
             snap |-> [k \in {} |-> Absent], ssts |-> <<>>, next |-> 0,
             confirm |-> FALSE, start |-> 0, wait |-> TRUE]

\* The MigrateCall states in which the stream is open on both ends.
OpenStream == {"requested", "dumping", "sending", "await_confirm"}

-----------------------------------------------------------------------------
(* Initial state: every node has joined, the first client has called      *)
(* Info::Run, every server has called SetAvailable(id, true) and watches   *)
(* the blob, every client has read it in its constructor.                  *)

Info0 == [state |-> "RUNNING", master |-> InitMaster,
          migrating |-> [s \in Shard |-> FALSE],
          from |-> [s \in Shard |-> None], to |-> [s \in Shard |-> None],
          live |-> [n \in Node |-> TRUE], avail |-> [n \in Node |-> TRUE]]

\* What a client's Info copy is used for: routing and IsHealthy.
ClientView(i) == [master |-> i.master, avail |-> i.avail]

Init ==
    /\ info = Info0
    /\ hist = <<>>
    /\ view = [n \in Node |-> Info0]
    /\ seen = [n \in Node |-> 0]
    /\ up = [n \in Node |-> TRUE]
    /\ shards = [n \in Node |-> [s \in Shard |->
                    IF InitMaster[s] = n THEN OwnedShard ELSE NoShard]]
    /\ store = [n \in Node |-> [k \in Key |-> Absent]]
    /\ wt = [n \in Node |-> [pc |-> "idle", pending |-> {}, shard |-> None,
                             clear |-> TRUE]]
    /\ stream = [n \in Node |-> NoStream]
    /\ imp = [n \in Node |-> [s \in Shard |-> NoImport]]
    /\ crashes = 0
    /\ cv = [c \in Client |-> ClientView(Info0)]
    /\ cl = [c \in Client |-> [op |-> "none", key |-> 1, id |-> 0, retry |-> "no",
                               hops |-> <<>>, from |-> 0, ops |-> 0, bnode |-> None,
                               broken |-> FALSE]]
    /\ lastRead = [c \in Client |-> None]
    /\ commits = [k \in Key |-> <<>>]
    /\ nextId = 1
    /\ deletes = {}
    /\ migrations = 0
    /\ askFailed = FALSE

-----------------------------------------------------------------------------
(* The operator: Info::Migrate (cluster_impl.h:206-222). The redistribution *)
(* moves shard s to node n; which shards RedistributeShards picks is not   *)
(* fixed by spec 4.1, so any one move is allowed (a move back, as in a     *)
(* second migration, needs an operator's Info::Remove(id) first). Migrate  *)
(* has no state check, but while MIGRATING no node joins (Add exits at    *)
(* cluster_impl.h:150-152) or is marked removed (Remove(id) asserts RUNNING *)
(* at 169), and with two nodes a donor's self-removal leaves one node: a   *)
(* second redistribution recomputes the same targets and changes nothing. *)
(* So Migrate is taken only while RUNNING.                                 *)

Migrate(s, n) ==
    /\ migrations < MaxMigrations
    /\ info.state = "RUNNING"
    /\ n # info.master[s] /\ info.live[n]
    /\ Publish(Redistribute(info, s, n))
    /\ migrations' = migrations + 1
    /\ UNCHANGED <<askFailed, serverVars, clientVars>>

-----------------------------------------------------------------------------
(* Recipient side: AsyncServer::WatchThread (part_003:895-1005) and        *)
(* AsyncServer::MigrationOver (part_003:1007-1016).                        *)

\* Info::WatchNext: the watch delivers the next revision of the blob, in
\* revision order, and Parse replaces n's copy with it (even when a CAS of
\* n's own, which re-read the key, had already shown n a later one). The
\* watch thread blocks in it after its task loop, while waiting to become
\* master (part_003:967-970) and after MigrationOver (part_003:1012-1015).
WatchNext(n) ==
    LET s == wt[n].shard
        pc == wt[n].pc
        b == hist[seen[n] + 1]
    IN
    /\ up[n] /\ seen[n] < rev
    /\ \/ pc = "idle" /\ wt[n].pending = {}
       \/ pc \in {"await_master", "await_over"}
    /\ view' = [view EXCEPT ![n] = b]
    /\ seen' = [seen EXCEPT ![n] = @ + 1]
    /\ wt' = [wt EXCEPT ![n] =
                CASE pc = "idle" -> [@ EXCEPT !.pending = Tasks(b, n)]
                  [] pc = "await_master" ->
                        [@ EXCEPT !.pc = IF b.master[s] = n
                                         THEN "streaming" ELSE "await_master"]
                  [] pc = "await_over" ->
                        [@ EXCEPT !.pc = IF b.migrating[s]
                                         THEN "await_over" ELSE "idle"]]
    \* shard->set_importing(false) once the watch confirms MigrationOver,
    \* on the path that reached the end of the stream
    /\ shards' = IF pc = "await_over" /\ ~b.migrating[s] /\ wt[n].clear
                    /\ shards[n][s] # NoShard
                 THEN [shards EXCEPT ![n][s].importing = FALSE]
                 ELSE shards
    /\ UNCHANGED <<info, hist, migrations, askFailed, up, store, stream, imp, crashes,
                   clientVars>>

\* One task of the loop. A donor the blob marks unavailable is skipped.
\* Otherwise: create the shard unless it is there, open the Migrate stream
\* and send {shard, start_from: importer.num()}. A stream to a server that
\* is not running fails (the first Write or Read returns false).
RequestShard(r) ==
    /\ up[r] /\ wt[r].pc = "idle"
    /\ \E s \in wt[r].pending :
        LET d == view[r].from[s] IN
        IF ~view[r].avail[d]
        THEN /\ wt' = [wt EXCEPT ![r].pending = @ \ {s}]
             /\ UNCHANGED <<shards, stream>>
        ELSE
        /\ wt' = [wt EXCEPT ![r] = [pc |-> "await_ack", pending |-> @.pending \ {s},
                                    shard |-> s, clear |-> TRUE]]
        /\ shards' = IF view[r].master[s] # r /\ shards[r][s] = NoShard
                     THEN [shards EXCEPT ![r][s] = ImportingShard(d)]
                     ELSE shards
        /\ stream' = [stream EXCEPT ![r] =
                        [NoStream EXCEPT !.dpc = IF up[d] THEN "requested" ELSE "broken",
                                         !.donor = d, !.shard = s,
                                         !.start = imp[r][s].num]]
    /\ UNCHANGED <<info, hist, migrations, askFailed, view, seen, up, store, imp, crashes,
                   clientVars>>

\* The first Read: the donor's empty acknowledgement. Then wait until the
\* watched blob names r the master.
ReadAck(r) ==
    LET s == wt[r].shard IN
    /\ up[r] /\ wt[r].pc = "await_ack"
    /\ stream[r].msgs # <<>> /\ Head(stream[r].msgs).kind = "ack"
    /\ stream' = [stream EXCEPT ![r].msgs = Tail(@)]
    /\ wt' = [wt EXCEPT ![r].pc = IF view[r].master[s] = r
                                  THEN "streaming" ELSE "await_master"]
    /\ UNCHANGED <<info, hist, migrations, askFailed, view, seen, up, shards, store, imp,
                   crashes, clientVars>>

\* The read loop: an SST is complete (importer.WriteChunk returned true,
\* which persists num and largest_key) and is ingested. A crash between
\* the two is undone by the ingest at the next request (part_003:920-924),
\* so both are one step. On "finished" the recipient confirms.
ReceiveChunk(r) ==
    LET s == wt[r].shard
        m == Head(stream[r].msgs)
    IN
    /\ up[r] /\ wt[r].pc = "streaming" /\ stream[r].msgs # <<>>
    /\ stream' = [stream EXCEPT ![r].msgs = Tail(@),
                                ![r].confirm = (m.kind = "finished")]
    /\ IF m.kind = "sst"
       THEN /\ imp' = [imp EXCEPT ![r][s] = [num |-> @.num + 1, largest |-> m.key]]
            /\ IF shards[r][s] # NoShard
               THEN /\ store' = [store EXCEPT ![r][m.key] = IngestBehind(@, m.val)]
                    /\ shards' = [shards EXCEPT ![r][s].largest = LargestKey(m)]
               ELSE UNCHANGED <<store, shards>>  \* the registry dropped the shard
            /\ UNCHANGED wt
       ELSE /\ wt' = [wt EXCEPT ![r].pc = "finishing"]
            /\ UNCHANGED <<store, shards, imp>>
    /\ UNCHANGED <<info, hist, migrations, askFailed, view, seen, up, crashes, clientVars>>

\* AsyncServer::MigrationOver: the CAS of Info::MigrationOver, then
\* importer.ClearState(), then the wait on the watch. clearImporting: the
\* caller goes on to set_importing(false).
MigrationOver(r, s, clearImporting) ==
    /\ Publish(MigrationOverInfo(info, s))
    /\ view' = [view EXCEPT ![r] = info']
    /\ imp' = [imp EXCEPT ![r][s] = NoImport]
    /\ wt' = [wt EXCEPT ![r].pc = "await_over", ![r].clear = clearImporting]

\* stream->Finish() returns OK once the donor finished the call; then
\* MigrationOver and set_importing(false).
FinishStream(r) ==
    /\ up[r] /\ wt[r].pc = "finishing"
    /\ stream[r].dpc \in {"closed", "done"}
    /\ MigrationOver(r, wt[r].shard, TRUE)
    /\ UNCHANGED <<migrations, askFailed, seen, up, shards, store, stream, crashes,
                   clientVars>>

\* The first Read failed and Finish() returned INVALID_ARGUMENT (the donor
\* no longer has the shard): MigrationOver, and on to the next task
\* without set_importing(false) (part_003:955-965).
AlreadyGiven(r) ==
    /\ up[r] /\ wt[r].pc = "await_ack"
    /\ stream[r].dpc = "invalid" /\ stream[r].msgs = <<>>
    /\ MigrationOver(r, wt[r].shard, FALSE)
    /\ UNCHANGED <<migrations, askFailed, seen, up, shards, store, stream, crashes,
                   clientVars>>

\* A Read failed because the donor's process is gone and Finish() returned
\* UNAVAILABLE: HandleError marks the donor unavailable (SetAvailable) and
\* the loop goes on to the next task.
RecipientError(r) ==
    /\ up[r] /\ wt[r].pc \in {"await_ack", "streaming", "finishing"}
    /\ stream[r].dpc = "broken" /\ stream[r].msgs = <<>>
    /\ SetAvailable(stream[r].donor, FALSE)
    /\ view' = [view EXCEPT ![r] = info']
    /\ wt' = [wt EXCEPT ![r].pc = "idle"]
    /\ stream' = [stream EXCEPT ![r] = NoStream]
    /\ UNCHANGED <<migrations, askFailed, seen, up, shards, store, imp, crashes, clientVars>>
-----------------------------------------------------------------------------
(* Donor side: MigrateCall (part_003:594-726) on the migrate completion    *)
(* queue, for the stream opened by recipient r.                            *)

\* READ. A shard the registry no longer has is "Already given and deleted":
\* Finish(INVALID_ARGUMENT). Otherwise Unref(true) sets draining (and
\* returns false when it was already set: a resumed migration), GiveShard
\* publishes the new master and the empty acknowledgement is written.
MigrateRead(r) ==
    LET d == stream[r].donor
        s == stream[r].shard
    IN
    /\ stream[r].dpc = "requested" /\ up[d]
    /\ IF shards[d][s] = NoShard
       THEN /\ stream' = [stream EXCEPT ![r].dpc = "invalid"]
            /\ UNCHANGED <<info, hist, view, shards>>
       ELSE /\ shards' = [shards EXCEPT ![d][s].draining = TRUE]
            /\ GiveShard(d, s)
            /\ stream' = [stream EXCEPT ![r].msgs = Append(@, Msg("ack", 0, Absent)),
                                        ![r].dpc = "dumping",
                                        ![r].wait = ~shards[d][s].draining]
    /\ UNCHANGED <<migrations, askFailed, seen, up, store, wt, imp, crashes, clientVars>>

\* WaitRefs() returned (no handler holds a reference), unless Unref(true)
\* returned false; then DumpShard takes the snapshot and the migrator
\* skips the start_from SSTs the recipient already has.
DumpShard(r) ==
    LET d == stream[r].donor
        snap == [k \in KeysOf(stream[r].shard) |-> store[d][k]]
    IN
    /\ stream[r].dpc = "dumping" /\ up[d]
    /\ stream[r].wait => shards[d][stream[r].shard].refs = 0
    /\ stream' = [stream EXCEPT ![r].snap = snap,
                                ![r].ssts = ResumeFrom(SstKeys(snap), stream[r].start),
                                ![r].next = 0, ![r].dpc = "sending"]
    /\ UNCHANGED <<info, hist, migrations, askFailed, view, seen, up, shards, store, wt,
                   imp, crashes, clientVars>>

\* WRITE: ReadChunk yields the next SST, then the "finished" message; after
\* it the donor reads the recipient's confirmation (status DONE).
SendChunk(r) ==
    LET st == stream[r] IN
    /\ st.dpc = "sending" /\ up[st.donor]
    /\ IF st.next < Len(st.ssts)
       THEN LET k == st.ssts[st.next + 1] IN
            stream' = [stream EXCEPT ![r].msgs = Append(@, Msg("sst", k, st.snap[k])),
                                     ![r].next = @ + 1]
       ELSE stream' = [stream EXCEPT ![r].msgs = Append(@, Msg("finished", 0, Absent)),
                                     ![r].dpc = "await_confirm"]
    /\ UNCHANGED <<info, hist, migrations, askFailed, view, seen, up, shards, store, wt,
                   imp, crashes, clientVars>>

\* DONE: the confirmation arrived; Finish(OK).
DonorFinish(r) ==
    /\ stream[r].dpc = "await_confirm" /\ stream[r].confirm
    /\ up[stream[r].donor]
    /\ stream' = [stream EXCEPT ![r].dpc = "closed"]
    /\ UNCHANGED <<info, hist, migrations, askFailed, view, seen, up, shards, store, wt,
                   imp, crashes, clientVars>>

\* OnDone, the call was not cancelled: Shards::Remove drops the shard and
\* its column family; a node left without shards calls Info::Remove and
\* shuts down.
DonorOnDone(r) ==
    LET d == stream[r].donor
        s == stream[r].shard
        left == {t \in Shard \ {s} : shards[d][t] # NoShard}
    IN
    /\ stream[r].dpc = "closed" /\ up[d]
    /\ shards' = [shards EXCEPT ![d][s] = NoShard]
    /\ store' = [store EXCEPT ![d] = [k \in Key |->
                    IF KeyShard[k] = s THEN Absent ELSE @[k]]]
    /\ stream' = [stream EXCEPT ![r].dpc = "done"]
    /\ IF left = {}
       THEN /\ RemoveSelf(d)
            /\ up' = [up EXCEPT ![d] = FALSE]
       ELSE UNCHANGED <<info, hist, view, up>>
    /\ UNCHANGED <<migrations, askFailed, seen, wt, imp, crashes, clientVars>>

\* OnDone of a cancelled call (the recipient's process is gone): the
\* recipient named in the call's metadata is marked unavailable; the shard
\* stays, draining, for the recipient to request again.
DonorCancelled(r) ==
    LET d == stream[r].donor IN
    /\ stream[r].dpc = "cancelled" /\ up[d]
    /\ SetAvailable(r, FALSE)
    /\ view' = [view EXCEPT ![d] = info']
    /\ stream' = [stream EXCEPT ![r] = NoStream]
    /\ UNCHANGED <<migrations, askFailed, seen, up, shards, store, wt, imp, crashes,
                   clientVars>>

-----------------------------------------------------------------------------
(* Crash and restart of a server process. RocksDB (the column families,   *)
(* their entries and the importer state in the default family) survives; *)
(* the Shard objects, the threads and the open streams do not.            *)

\* A stream after the crash of node n: the donor of a recipient that
\* crashed sees its call cancelled; the recipient of a donor that crashed
\* reads an error; a call the crashed donor had finished never runs OnDone.
StreamAfterCrash(st, r, n) ==
    CASE r = n /\ st.dpc \in OpenStream -> [st EXCEPT !.dpc = "cancelled"]
      [] st.donor = n /\ st.dpc \in OpenStream -> [st EXCEPT !.dpc = "broken"]
      [] st.donor = n /\ st.dpc = "closed" -> [st EXCEPT !.dpc = "done"]
      [] st.donor = n /\ st.dpc = "cancelled" -> NoStream
      [] OTHER -> st

\* The process of node n dies: the streams it was part of fail, a client's
\* open Batch stream to it included.
Crash(n) ==
    /\ up[n] /\ n \in CrashNodes /\ crashes < MaxCrashes
    /\ up' = [up EXCEPT ![n] = FALSE]
    /\ crashes' = crashes + 1
    /\ stream' = [r \in Node |-> StreamAfterCrash(stream[r], r, n)]
    /\ cl' = [c \in Client |-> IF cl[c].bnode = n THEN [cl[c] EXCEPT !.broken = TRUE]
                                                  ELSE cl[c]]
    /\ UNCHANGED <<info, hist, migrations, askFailed, view, seen, shards, store, wt, imp,
                   cv, lastRead, commits, nextId, deletes>>

\* AsyncServer::Init recovering: Shards(db, cf_handles) opens a Shard for
\* every column family (no draining, no old address), then the shards of
\* the node's tasks are set importing with their persisted largest_key.
RecoveredShards(n, i) ==
    [s \in Shard |->
        IF shards[n][s] = NoShard THEN NoShard
        ELSE [OwnedShard EXCEPT !.importing = s \in Tasks(i, n),
                                !.largest = IF s \in Tasks(i, n)
                                            THEN imp[n][s].largest ELSE 0]]

\* The process restarts. Info::Add finds the address and reuses the id when
\* the blob marks it unavailable, and exits otherwise ("another node
\* listening"). Init recovers the shards and watches the blob; the watch
\* thread starts on the tasks of that revision; Run then calls
\* SetAvailable(id, true). The donor has seen the call of the previous
\* process end before the restarted one connects.
Restart(n) ==
    /\ ~up[n] /\ info.live[n] /\ ~info.avail[n]
    /\ stream[n].dpc # "cancelled"
    /\ up' = [up EXCEPT ![n] = TRUE]
    /\ shards' = [shards EXCEPT ![n] = RecoveredShards(n, info)]
    /\ view' = [view EXCEPT ![n] = info]
    /\ seen' = [seen EXCEPT ![n] = rev]
    /\ wt' = [wt EXCEPT ![n] = [pc |-> "idle", pending |-> Tasks(info, n),
                                shard |-> None, clear |-> TRUE]]
    /\ stream' = [stream EXCEPT ![n] = NoStream]
    /\ Publish(SetAvailableInfo(info, n, TRUE))
    /\ UNCHANGED <<migrations, askFailed, store, imp, crashes, clientVars>>

-----------------------------------------------------------------------------
(* Request handlers (part_003) and the client's Operation loop             *)
(* (cluster_impl.cc:142-228). A Put or Delete handler runs in one          *)
(* Proceed call: Ref, write, Unref.                                        *)

\* PutCall / DeleteCall REQUEST: shards->at(shard_id) and shard->Ref().
\* No check of the shard's master (part_003:282-284, 350-352).
AcceptsWrite(m, s) ==
    up[m] /\ shards[m][s] # NoShard /\ Ref(shards[m][s])

\* The status of a refused call: UNAVAILABLE from a server that is not
\* running, INVALID_ARGUMENT from the handler.
Refusal(m) == IF up[m] THEN "invalid" ELSE "unavail"

\* crocksctl constructs a new Cluster for every command: the ClusterImpl
\* constructor reads the blob (Info::Get) and connects to every address.
Connect(c) ==
    /\ cl[c].op = "none"
    /\ cv' = [cv EXCEPT ![c] = ClientView(info)]
    /\ UNCHANGED <<info, hist, migrations, askFailed, serverVars, cl, lastRead, commits,
                   nextId, deletes>>

\* A new operation of client c (crocksctl get, put, del; Cluster::Get,
\* Put, Delete; a WriteBatch of one update).
StartOp(c) ==
    /\ cl[c].op = "none" /\ cl[c].ops < MaxOps
    /\ \E k \in Key, op \in ClientOps :
        /\ op # "get" => nextId <= MaxWrites
        /\ cl' = [cl EXCEPT ![c] = [op |-> op, key |-> k,
                     id |-> IF op = "get" THEN 0 ELSE nextId, retry |-> "no",
                     hops |-> <<>>, from |-> Len(commits[k]), ops |-> @.ops + 1,
                     bnode |-> None, broken |-> FALSE]]
        /\ nextId' = IF op = "get" THEN nextId ELSE nextId + 1
        /\ deletes' = IF op = "del" THEN deletes \cup {nextId} ELSE deletes
    /\ lastRead' = [lastRead EXCEPT ![c] = None]
    /\ UNCHANGED <<info, hist, migrations, askFailed, serverVars, cv, commits>>

\* IndexForKey / NodeForKey: the master of the key's shard in client c's
\* copy of the blob.
IndexForKey(c, k) == cv[c].master[KeyShard[k]]

\* op(NodeForKey(key)) for a Put or Delete, and the handler on that node.
ClientWrite(c) ==
    LET k == cl[c].key
        s == KeyShard[k]
        m == IndexForKey(c, k)
    IN
    /\ cl[c].op \in {"put", "del"} /\ cl[c].retry = "no"
    /\ IF AcceptsWrite(m, s)
       THEN /\ store' = [store EXCEPT ![m][k] = cl[c].id]
            /\ commits' = [commits EXCEPT ![k] = Append(@, cl[c].id)]
            /\ cl' = [cl EXCEPT ![c].op = "none"]
       ELSE /\ cl' = [cl EXCEPT ![c].retry = Refusal(m)]
            /\ UNCHANGED <<store, commits>>
    /\ UNCHANGED <<info, hist, migrations, askFailed, view, seen, up, shards, wt, stream,
                   imp, crashes, cv, lastRead, nextId, deletes>>

\* A one-key Batch stream (BatchCall, part_003:408-479). READ of the first
\* buffer: shards->at and Ref() on the node the client's view names; the
\* reference is held until the call's FINISH. A refused Ref is answered
\* with INVALID_ARGUMENT (spec: the client refreshes and retries).
BatchOpen(c) ==
    LET s == KeyShard[cl[c].key]
        m == IndexForKey(c, cl[c].key)
    IN
    /\ cl[c].op = "batch" /\ cl[c].retry = "no" /\ cl[c].bnode = None
    /\ IF AcceptsWrite(m, s)
       THEN /\ shards' = [shards EXCEPT ![m][s].refs = @ + 1]
            /\ cl' = [cl EXCEPT ![c].bnode = m]
       ELSE /\ cl' = [cl EXCEPT ![c].retry = Refusal(m)]
            /\ UNCHANGED shards
    /\ UNCHANGED <<info, hist, migrations, askFailed, view, seen, up, store, wt, stream,
                   imp, crashes, cv, lastRead, commits, nextId, deletes>>

\* The client half-closes: READ with ok false commits the WriteBatch into
\* the shard's column family and answers its status; FINISH Unrefs. If the
\* server's process crashed since the READ, the stream has failed and nothing
\* was committed: a restarted process never saw this call.
BatchCommit(c) ==
    LET k == cl[c].key
        m == cl[c].bnode
    IN
    /\ cl[c].op = "batch" /\ m # None
    /\ cl' = [cl EXCEPT ![c].op = "none", ![c].bnode = None, ![c].broken = FALSE]
    /\ IF ~cl[c].broken
       THEN /\ store' = [store EXCEPT ![m][k] = cl[c].id]
            /\ commits' = [commits EXCEPT ![k] = Append(@, cl[c].id)]
            /\ shards' = [shards EXCEPT ![m][KeyShard[k]].refs = @ - 1]
       ELSE UNCHANGED <<store, commits, shards>>
    /\ UNCHANGED <<info, hist, migrations, askFailed, view, seen, up, wt, stream,
                   imp, crashes, cv, lastRead, nextId, deletes>>

\* Mutant: Update() leaves the client's copy as it was.
Update_skipped(c) == UNCHANGED cv

\* ClusterImpl::Update: Info::Get re-reads the blob into the client's copy
\* (and connections to new addresses are opened).
Update(c) == cv' = [cv EXCEPT ![c] = ClientView(info)]

\* INVALID_ARGUMENT: sleep, Update(), retry.
ClientUpdate(c) ==
    /\ cl[c].retry = "invalid"
    /\ Update(c)
    /\ cl' = [cl EXCEPT ![c].retry = "no"]
    /\ UNCHANGED <<info, hist, migrations, askFailed, serverVars, lastRead, commits,
                   nextId, deletes>>

\* The end of a round of the UNAVAILABLE path with the client's copy v:
\* retry if v is healthy; else wait until healthy (wait_on_unhealthy) or
\* return the status (cluster_impl.cc:210-213).
RetryOrWait(c, v) ==
    IF IsHealthy(v) THEN cl' = [cl EXCEPT ![c].retry = "no"]
    ELSE IF WaitOnUnhealthy THEN cl' = [cl EXCEPT ![c].retry = "wait"]
    ELSE cl' = [cl EXCEPT ![c].op = "none", ![c].retry = "no", ![c].bnode = None]

\* UNAVAILABLE from node id = IndexForKey(key). "The former master has
\* crashed": no Update. Otherwise Update(), then: a new master (case 1)
\* is tried at once; a master that answers Ping (case 2) is retried; one
\* that does not (case 3) is probed while the blob says healthy.
ClientUnavailable(c) ==
    LET s == KeyShard[cl[c].key]
        id == IndexForKey(c, cl[c].key)
        v == ClientView(info)
    IN
    /\ cl[c].retry \in {"unavail", "crashed"}
    /\ IF cl[c].retry = "crashed"
       THEN RetryOrWait(c, cv[c]) /\ UNCHANGED cv
       ELSE /\ Update(c)
            /\ CASE v.master[s] # id -> cl' = [cl EXCEPT ![c].retry = "no"]
                 [] up[id] -> RetryOrWait(c, v)
                 [] IsHealthy(v) -> cl' = [cl EXCEPT ![c].retry = "probe"]
                 [] OTHER -> RetryOrWait(c, v)
    /\ UNCHANGED <<info, hist, migrations, askFailed, serverVars, lastRead, commits,
                   nextId, deletes>>

\* One round of the probe loop (cluster_impl.cc:193-206): Update(), Ping
\* the master, and with inform_on_unavailable SetAvailable(id, false),
\* which re-reads the blob into the client's copy, whatever Ping returned.
ClientProbe(c) ==
    LET s == KeyShard[cl[c].key]
        id == IndexForKey(c, cl[c].key)
        pingOk == up[info.master[s]]
        v == IF InformOnUnavailable
             THEN ClientView(SetAvailableInfo(info, id, FALSE)) ELSE ClientView(info)
    IN
    /\ cl[c].retry = "probe"
    /\ IF InformOnUnavailable THEN SetAvailable(id, FALSE) ELSE UNCHANGED <<info, hist>>
    /\ cv' = [cv EXCEPT ![c] = v]
    /\ IF IsHealthy(v) /\ ~pingOk THEN UNCHANGED cl ELSE RetryOrWait(c, v)
    /\ UNCHANGED <<migrations, askFailed, serverVars, lastRead, commits, nextId, deletes>>

\* Info::WaitUntilHealthy returns at a healthy revision; then Update().
ClientWaitHealthy(c) ==
    /\ cl[c].retry = "wait" /\ IsHealthy(info)
    /\ Update(c)
    /\ cl' = [cl EXCEPT ![c].retry = "no"]
    /\ UNCHANGED <<info, hist, migrations, askFailed, serverVars, lastRead, commits,
                   nextId, deletes>>

Res(code, v) == [code |-> code, val |-> v]
Hop(n, force) == [node |-> n, force |-> force, st |-> "req", res |-> None]

\* op(NodeForKey(key)) for a Get: a GetCall on the master by cv[c].
ClientGet(c) ==
    /\ cl[c].op = "get" /\ cl[c].retry = "no" /\ cl[c].hops = <<>>
    /\ cl' = [cl EXCEPT ![c].hops = <<Hop(IndexForKey(c, cl[c].key), FALSE)>>]
    /\ UNCHANGED <<info, hist, migrations, askFailed, serverVars, cv, lastRead, commits,
                   nextId, deletes>>

\* GetCall REQUEST (part_003:146-182) on node n. A node that recovered
\* from a crash has no old address for its importing shards (None): the
\* channel to it fails as a server that is not running does.
GetResult(n, k, force) ==
    LET s == KeyShard[k] IN
    CASE n = None -> Res("unavailable", Absent)
      [] ~up[n] -> Res("unavailable", Absent)
      [] WrongShard(n, s) /\ ~force -> Res("invalid", Absent)
      [] shards[n][s] = NoShard -> Res("invalid", Absent)
      [] Ask(n, k) -> Res("ask", Absent)
      [] OTHER -> Res("ok", Visible(store[n][k]))

GetRequest(c) ==
    LET h == Last(cl[c].hops)
        k == cl[c].key
        res == GetResult(h.node, k, h.force)
        i == Len(cl[c].hops)
    IN
    /\ cl[c].hops # <<>> /\ h.st = "req"
    /\ cl' = [cl EXCEPT ![c].hops =
                IF res.code = "ask"
                THEN Append([@ EXCEPT ![i].st = "get"],
                            Hop(shards[h.node][KeyShard[k]].old, TRUE))
                ELSE [@ EXCEPT ![i].st = "done", ![i].res = res]]
    /\ UNCHANGED <<info, hist, migrations, askFailed, serverVars, cv, lastRead, commits,
                   nextId, deletes>>

\* GetCall GET (part_003:184-216) on node n with the former master's
\* answer. If n's own process is gone, the client's call fails instead.
ForwardedResult(n, old, k, res) ==
    CASE ~up[n] -> Res("unavailable", Absent)
      [] res.code \in {"unavailable", "crashed"} /\ old # None /\ view[n].live[old]
            -> Res("crashed", Absent)
      [] res.code # "ok" -> Res("ok", Visible(store[n][k]))
      [] OTHER -> res

GetForwarded(c) ==
    LET i == Len(cl[c].hops) - 1
        h == cl[c].hops[i]
        k == cl[c].key
        res == ForwardedResult(h.node, Last(cl[c].hops).node, k, Last(cl[c].hops).res)
    IN
    /\ Len(cl[c].hops) > 1 /\ Last(cl[c].hops).st = "done"
    /\ cl' = [cl EXCEPT ![c].hops = [Front(@) EXCEPT ![i].st = "done", ![i].res = res]]
    \* the re-read after a failed forward asserts !ask (part_003:208-209)
    /\ askFailed' = (askFailed \/ (Last(cl[c].hops).res.code # "ok"
                                   /\ res.code = "ok"
                                   /\ shards[h.node][KeyShard[k]] # NoShard
                                   /\ Ask(h.node, k)))
    /\ UNCHANGED <<info, hist, migrations, serverVars, cv, lastRead, commits, nextId,
                   deletes>>

\* The Get's answer reaches the client's Operation loop.
GetReturn(c) ==
    LET res == cl[c].hops[1].res
        k == cl[c].key
    IN
    /\ Len(cl[c].hops) = 1 /\ cl[c].hops[1].st = "done"
    /\ IF res.code = "ok"
       THEN /\ cl' = [cl EXCEPT ![c].op = "none", ![c].hops = <<>>]
            /\ lastRead' = [lastRead EXCEPT ![c] = [key |-> k, val |-> res.val,
                                from |-> cl[c].from, upto |-> Len(commits[k])]]
       ELSE /\ cl' = [cl EXCEPT ![c].hops = <<>>, ![c].retry =
                         CASE res.code = "crashed" -> "crashed"
                           [] res.code = "unavailable" -> "unavail"
                           [] OTHER -> "invalid"]
            /\ UNCHANGED lastRead
    /\ UNCHANGED <<info, hist, migrations, askFailed, serverVars, cv, commits, nextId,
                   deletes>>

-----------------------------------------------------------------------------
Next ==
    \/ \E s \in Shard, n \in Node : Migrate(s, n)
    \/ \E n \in Node :
        \/ WatchNext(n) \/ RequestShard(n) \/ ReadAck(n) \/ ReceiveChunk(n)
        \/ FinishStream(n) \/ AlreadyGiven(n) \/ RecipientError(n)
        \/ MigrateRead(n) \/ DumpShard(n) \/ SendChunk(n) \/ DonorFinish(n)
        \/ DonorOnDone(n) \/ DonorCancelled(n)
        \/ Crash(n) \/ Restart(n)
    \/ \E c \in Client :
        \/ Connect(c) \/ StartOp(c) \/ ClientWrite(c) \/ ClientGet(c)
        \/ GetRequest(c) \/ GetForwarded(c) \/ GetReturn(c)
        \/ BatchOpen(c) \/ BatchCommit(c)
        \/ ClientUpdate(c) \/ ClientUnavailable(c) \/ ClientProbe(c)
        \/ ClientWaitHealthy(c)


Spec == Init /\ [][Next]_vars

\* Every server thread that can proceed eventually does (the completion
\* queue threads, the migrate thread and the watch thread never stop while
\* the process runs), and so does a client inside its Operation loop. The
\* operator's Migrate and a client's choice to start an operation are not
\* fair; a crashed process that may rejoin is restarted by the operator
\* (spec 8, scenarios 4 and 5). WaitUntilHealthy sees every revision, so a
\* blob that is healthy again and again is one it returns at (strong
\* fairness).
Fairness ==
    /\ \A n \in Node :
        /\ WF_vars(WatchNext(n)) /\ WF_vars(RequestShard(n))
        /\ WF_vars(ReadAck(n)) /\ WF_vars(ReceiveChunk(n))
        /\ WF_vars(FinishStream(n)) /\ WF_vars(MigrateRead(n))
        /\ WF_vars(DumpShard(n)) /\ WF_vars(SendChunk(n))
        /\ WF_vars(DonorFinish(n)) /\ WF_vars(DonorOnDone(n))
        /\ WF_vars(AlreadyGiven(n)) /\ WF_vars(RecipientError(n))
        /\ WF_vars(DonorCancelled(n)) /\ WF_vars(Restart(n))
    /\ \A c \in Client :
        /\ WF_vars(ClientWrite(c)) /\ WF_vars(ClientUpdate(c))
        /\ WF_vars(ClientGet(c)) /\ WF_vars(GetRequest(c))
        /\ WF_vars(GetForwarded(c)) /\ WF_vars(GetReturn(c))
        /\ WF_vars(BatchOpen(c)) /\ WF_vars(BatchCommit(c))
        /\ WF_vars(ClientUnavailable(c)) /\ WF_vars(ClientProbe(c))
        /\ SF_vars(ClientWaitHealthy(c))

FairSpec == Spec /\ Fairness

-----------------------------------------------------------------------------
(* Properties.                                                             *)

TypeOK ==
    /\ info \in InfoType /\ \A n \in Node : view[n] \in InfoType
    /\ hist \in Seq(InfoType) /\ seen \in [Node -> 0..rev] /\ up \in [Node -> BOOLEAN]
    /\ shards \in [Node -> [Shard -> ShardType \cup {NoShard}]]
    /\ store \in [Node -> [Key -> {Absent} \cup WriteId]]
    /\ \A n \in Node : wt[n].pc \in {"idle", "await_ack", "await_master",
                                     "streaming", "finishing", "await_over"}
    /\ \A n \in Node : stream[n].dpc \in OpenStream \cup {"none", "closed", "done",
                                                      "invalid", "broken", "cancelled"}
    /\ imp \in [Node -> [Shard -> ImportType]] /\ crashes \in 0..MaxCrashes
    /\ cv \in [Client -> [master : [Shard -> Node], avail : [Node -> BOOLEAN]]]
    /\ \A c \in Client : cl[c].op \in {"none", "put", "del", "get", "batch"}
    /\ \A c \in Client : cl[c].retry \in {"no", "invalid", "unavail", "crashed",
                                          "probe", "wait"}
    /\ commits \in [Key -> Seq(WriteId)]
    /\ deletes \subseteq WriteId /\ askFailed \in BOOLEAN

\* What the cluster holds for key k: the master's entry; while the master
\* still imports the shard and has no entry, the entry of the donor (the
\* shard's old address, or after a restart the blob's "from"), which the
\* remaining SSTs carry.
Durable(k) ==
    LET s == KeyShard[k]
        m == info.master[s]
        sh == shards[m][s]
        d == IF sh = NoShard \/ sh.old = None THEN info.from[s] ELSE sh.old
    IN  IF sh # NoShard /\ sh.importing /\ store[m][k] = Absent
           /\ d # None /\ shards[d][s] # NoShard
        THEN store[d][k]
        ELSE store[m][k]

\* The write ids acknowledged to clients.
Acknowledged == UNION {Range(commits[k]) : k \in Key}

KV == INSTANCE CrocksKV WITH OpId <- WriteId, NotFound <- Absent,
        kv <- [k \in Key |-> Visible(Durable(k))], acked <- Acknowledged

\* The cluster implements one key-value map (CrocksKV): under the mapping
\* of every key to what its current holder stores, the only steps that
\* change the map are PutCall/DeleteCall acknowledging a write, and they
\* change it to exactly that write. Migration steps (Unref/GiveShard,
\* DumpShard, ingest behind, OnDone's Remove) never show in it.
KVRefinement == KV!Spec

\* No acknowledged write is lost: across migrations, the value the cluster
\* holds for every key is the one of the write committed last. Writes must
\* be refused by the draining donor (Ref), the recipient's direct writes
\* must win over the ingested SSTs (ingest_behind), and clients must reach
\* the node holding the shard (Operation/Update).
NoLostWrite ==
    \A k \in Key : Visible(Durable(k)) = ValueAt(k, Len(commits[k]))

\* A completed Get returns the value of a write that was the last committed
\* one at some instant during the call (linearizable reads), including when
\* the recipient forwards the Get to the former master (GetCall GET).
ReadsLinearizable ==
    \A c \in Client : lastRead[c] # None =>
        \E i \in lastRead[c].from .. lastRead[c].upto :
            ValueAt(lastRead[c].key, i) = lastRead[c].val

\* The assertion of GetCall after a failed forward holds: by then the
\* shard is imported and Shard::Get no longer asks (part_003:201-209).
GetAssertHolds == ~askFailed

\* A shard is importing only while its migration to the node is under way:
\* once the blob says the migration is over, the only importing shard is
\* the one whose WatchThread waits in MigrationOver before it clears the
\* flag (part_003:1000). A shard left importing forwards the Gets of its
\* absent keys to a donor that no longer has them.
ImportEnds ==
    \A n \in Node, s \in Shard :
        up[n] /\ shards[n][s] # NoShard /\ shards[n][s].importing
        /\ ~info.migrating[s]
        => wt[n].pc = "await_over" /\ wt[n].shard = s /\ wt[n].clear

\* The blob marks a listed node unavailable only while its process is down:
\* SetAvailable(id, false) is written by those who saw it fail (HandleError,
\* a cancelled MigrateCall, a client's probe), and only the node's own
\* restart sets it back (Run). A running node marked unavailable keeps the
\* cluster unhealthy and its shards unrequested until it is restarted.
UnavailableOnlyIfDown ==
    \A n \in Node : info.live[n] /\ ~info.avail[n] => ~up[n]

\* Every migration started by Info::Migrate is eventually over.
MigrationCompletes ==
    \A s \in Shard : info.migrating[s] ~> ~info.migrating[s]

\* Every operation a client starts eventually returns (its Operation loop
\* does not retry forever).
ClientOpsComplete ==
    \A c \in Client : cl[c].op # "none" ~> cl[c].op = "none"

=============================================================================
