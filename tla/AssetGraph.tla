----------------------------- MODULE AssetGraph -----------------------------
(***************************************************************************)
(* The canonical assets of a project's sources (its repositories, remotes, *)
(* connections, machines) and the relations between assets.  A sync reads  *)
(* every source, brings its asset up to date, relates the project to it,   *)
(* and deletes each derived relation it does not want.  Handlers and       *)
(* workers run it after nearly everything they do, many at the same time,  *)
(* statement by statement or within a transaction of their own.            *)
(*                                                                         *)
(* The project is there and has an asset; each source is related to it by  *)
(* "owns", the relation that is derived, or by "uses", which a user adds.  *)
(* A source that is deleted never comes back; an asset made for it then    *)
(* has another id, 2.                                                      *)
(***************************************************************************)
EXTENDS Integers, FiniteSets

CONSTANTS
    Sources,     \* rows of the source tables
    Syncers,     \* syncs that run statement by statement at the same time
    Handlers,    \* requests that sync within their transaction
    MaxStatus    \* bound on the statuses a source goes through

ASSUME StatusAssumption == MaxStatus \in Nat

VARIABLES
    source,   \* of each source: not yet there, live or gone
    status,   \* the status in its row
    asset,    \* the id of its asset, 0 if it has none
    shown,    \* the status of that asset and of its newest snapshot
    derived,  \* keys of the relations that are not manual
    manual,   \* keys of the relations that are
    sync,     \* what each syncer is at
    request,  \* what each handler is at
    alone,    \* syncers nothing has disturbed since they began
    overlapped \* sources deleted while a sync or a request knew of them

sourceRows == <<source, status>>
graph == <<asset, shown, derived, manual>>
vars == <<sourceRows, graph, sync, request, alone, overlapped>>

Types == {"owns", "uses"}
Keys == [of : Sources, id : 1..2, type : Types]
Specs == UNION {[S -> 0..MaxStatus] : S \in SUBSET Sources}

Idle == [pc |-> "idle"]
Syncs == {Idle}
    \cup [pc : {"read"}]
    \cup [pc : {"assets"}, specs : Specs, ids : UNION {[S -> 0..2] : S \in SUBSET Sources}, todo : SUBSET Sources]
    \cup [pc : {"relations"}, specs : Specs, ids : UNION {[S -> 0..2] : S \in SUBSET Sources}, todo : SUBSET Sources]
    \cup [pc : {"prune"}, wanted : SUBSET Keys, todo : SUBSET Keys]
Requests == {Idle}
    \cup [pc : {"delete"}, of : Sources, specs : Specs]
    \cup [pc : {"add"}, key : Keys]
    \cup [pc : {"save", "remove"}, key : Keys, specs : Specs]

TypeOK ==
    /\ source \in [Sources -> {"unborn", "live", "gone"}]
    /\ status \in [Sources -> 0..MaxStatus] /\ shown \in [Sources -> 0..MaxStatus]
    /\ asset \in [Sources -> 0..2]
    /\ derived \subseteq Keys /\ manual \subseteq Keys
    /\ sync \in [Syncers -> Syncs] /\ request \in [Handlers -> Requests]
    /\ alone \subseteq Syncers /\ overlapped \subseteq Sources

Init ==
    /\ source = [s \in Sources |-> "unborn"] /\ status = [s \in Sources |-> 0]
    /\ asset = [s \in Sources |-> 0] /\ shown = [s \in Sources |-> 0]
    /\ derived = {} /\ manual = {}
    /\ sync = [y \in Syncers |-> Idle] /\ request = [h \in Handlers |-> Idle]
    /\ alone = {} /\ overlapped = {}

Live == {s \in Sources : source[s] = "live"}
Key(s, id, type) == [of |-> s, id |-> id, type |-> type]
Read(S) == [s \in S |-> status[s]]
Nothing == [s \in {} |-> 0]

(* An asset made for a source that is gone has another id. *)
NewId(s) == IF source[s] = "gone" THEN 2 ELSE 1

(* Rows that were deleted are in nobody's list any more. *)
Forget(keys, was) ==
    [y \in Syncers |-> IF was[y].pc = "prune" THEN [was[y] EXCEPT !.todo = @ \ keys] ELSE was[y]]

-----------------------------------------------------------------------------
(* Sources change, and whoever changed one syncs. *)

Begin(y) == sync[y] = Idle /\ sync' = [sync EXCEPT ![y] = [pc |-> "read"]]

(* A sync that begins is alone if no other sync nor request is under way;    *)
(* it disturbs all others.                                                   *)
BeginAlone(y) ==
    alone' = IF \A x \in Syncers : sync[x] = Idle THEN
                 IF \A h \in Handlers : request[h] = Idle THEN {y} ELSE {}
             ELSE {}

CreateSource(y, s) ==
    /\ source[s] = "unborn" /\ source' = [source EXCEPT ![s] = "live"]
    /\ Begin(y) /\ BeginAlone(y)
    /\ UNCHANGED <<status, graph, request, overlapped>>

ChangeSource(y, s) ==
    /\ source[s] = "live" /\ status[s] < MaxStatus
    /\ status' = [status EXCEPT ![s] = @ + 1]
    /\ Begin(y) /\ BeginAlone(y)
    /\ UNCHANGED <<source, graph, request, overlapped>>

(* After an operation, by request, or by the tool. *)
StartSync(y) ==
    /\ Begin(y) /\ BeginAlone(y)
    /\ UNCHANGED <<sourceRows, graph, request, overlapped>>

-----------------------------------------------------------------------------
(* The steps of a sync *)

At(y, pc) == sync[y].pc = pc
Set(y, s) == sync' = [sync EXCEPT ![y] = s]

(* canonicalAssetSpecs *)
ReadSources(y) ==
    /\ At(y, "read")
    /\ Set(y, [pc |-> "assets", specs |-> Read(Live), ids |-> Nothing, todo |-> Live])
    /\ UNCHANGED <<sourceRows, graph, request, alone, overlapped>>

(* An error reading a table is ignored: it seems to be empty. *)
ReadFails(y) ==
    /\ At(y, "read")
    /\ Set(y, [pc |-> "assets", specs |-> Nothing, ids |-> Nothing, todo |-> {}])
    /\ alone' = alone \ {y}
    /\ UNCHANGED <<sourceRows, graph, request, overlapped>>

(* upsertCanonicalAsset: the asset is looked for ... *)
LookForAsset(y, s) ==
    /\ At(y, "assets") /\ s \in sync[y].todo /\ s \notin DOMAIN sync[y].ids
    /\ \A t \in sync[y].todo : t \notin DOMAIN sync[y].ids
    /\ Set(y, [sync[y] EXCEPT !.ids = [t \in DOMAIN @ \cup {s} |-> IF t = s THEN asset[s] ELSE @[t]]])
    /\ UNCHANGED <<sourceRows, graph, request, alone, overlapped>>

(* ... and updated, which changes nothing if it was deleted meanwhile, or    *)
(* inserted, which fails if somebody else did; a snapshot goes with it.      *)
WriteAsset(y, s) ==
    /\ At(y, "assets") /\ s \in sync[y].todo /\ s \in DOMAIN sync[y].ids
    /\ LET found == sync[y].ids[s]
           id == IF found = 0 THEN NewId(s) ELSE found
           mine == asset[s] = found
       IN
       /\ asset' = IF found = 0 /\ mine THEN [asset EXCEPT ![s] = id] ELSE asset
       /\ shown' = IF mine THEN [shown EXCEPT ![s] = sync[y].specs[s]] ELSE shown
       /\ Set(y, IF found = 0 /\ ~mine THEN Idle
                 ELSE [sync[y] EXCEPT !.ids[s] = id, !.todo = @ \ {s}])
    /\ UNCHANGED <<sourceRows, derived, manual, request, alone, overlapped>>

AssetsDone(y) ==
    /\ At(y, "assets") /\ sync[y].todo = {}
    /\ Set(y, [sync[y] EXCEPT !.pc = "relations", !.todo = DOMAIN sync[y].specs])
    /\ UNCHANGED <<sourceRows, graph, request, alone, overlapped>>

(* upsertCanonicalRelation: a manual relation with the key becomes derived.  *)
Relate(y, s) ==
    /\ At(y, "relations") /\ s \in sync[y].todo
    /\ LET key == Key(s, sync[y].ids[s], "owns") IN
       derived' = derived \cup {key} /\ manual' = manual \ {key}
    /\ Set(y, [sync[y] EXCEPT !.todo = @ \ {s}])
    /\ UNCHANGED <<sourceRows, asset, shown, request, alone, overlapped>>

(* assetGraphRepairReportGorm *)
Dangling(key) == asset[key.of] # key.id

(* Mutant: only what dangles is pruned. *)
PrunableDangling(wanted) == {key \in derived \ wanted : Dangling(key)}

(* Mutant: a manual relation is pruned like any other. *)
PrunableAll(wanted) == (derived \cup manual) \ wanted

Prunable(wanted) == derived \ wanted

Wanted(y) == {Key(s, sync[y].ids[s], "owns") : s \in DOMAIN sync[y].specs}

(* pruneDerivedRelations: the relations are loaded ... *)
LoadRelations(y) ==
    /\ At(y, "relations") /\ sync[y].todo = {}
    /\ Set(y, [pc |-> "prune", wanted |-> Wanted(y), todo |-> Prunable(Wanted(y))])
    /\ UNCHANGED <<sourceRows, graph, request, alone, overlapped>>

(* ... and each unwanted one is deleted, whatever it is by then. *)
Prune(y, key) ==
    /\ At(y, "prune") /\ key \in sync[y].todo
    /\ derived' = derived \ {key} /\ manual' = manual \ {key}
    /\ sync' = Forget({key}, sync)
    /\ UNCHANGED <<sourceRows, asset, shown, request, alone, overlapped>>

EndSync(y) ==
    /\ At(y, "prune") /\ sync[y].todo = {}
    /\ Set(y, Idle) /\ alone' = alone \ {y}
    /\ UNCHANGED <<sourceRows, graph, request, overlapped>>

(* An error, or the process stops. *)
SyncFails(y) ==
    /\ sync[y] # Idle
    /\ Set(y, Idle) /\ alone' = alone \ {y}
    /\ UNCHANGED <<sourceRows, graph, request, overlapped>>

-----------------------------------------------------------------------------
(* Requests that sync in their transaction.  Its reads of the sources come    *)
(* first; the rest becomes visible with its commit.                          *)

Goto(h, r) == request' = [request EXCEPT ![h] = r]

IdOf(s) == IF asset[s] = 0 THEN NewId(s) ELSE asset[s]

(* The graph after a whole sync of specs, with the assets of "without" and   *)
(* the relations of "deleted" gone.                                          *)
SyncInTransaction(specs, without, deleted, added) ==
    LET kept == [s \in Sources |-> IF s \in without THEN 0 ELSE asset[s]]
        wanted == {Key(s, IdOf(s), "owns") : s \in DOMAIN specs}
    IN
    /\ asset' = [s \in Sources |-> IF s \in DOMAIN specs /\ kept[s] = 0 THEN NewId(s) ELSE kept[s]]
    /\ shown' = [s \in Sources |-> IF s \in DOMAIN specs THEN specs[s] ELSE shown[s]]
    /\ derived' = wanted
    /\ manual' = ((manual \cup added) \ deleted) \ wanted
    /\ sync' = Forget((derived \ wanted) \cup deleted, sync)

(* The row of the source is locked. *)
Unlocked(s) == \A h \in Handlers : request[h].pc = "delete" => request[h].of # s

(* Mutant: the sources are read before the row is deleted. *)
ReadWithoutAll(s) == Live

ReadWithout(s) == Live \ {s}

DeleteSource(h, s) ==
    /\ request[h] = Idle /\ source[s] = "live" /\ Unlocked(s)
    /\ Goto(h, [pc |-> "delete", of |-> s, specs |-> Read(ReadWithout(s))])
    /\ alone' = {}
    /\ UNCHANGED <<sourceRows, graph, sync, overlapped>>

Knows(s) ==
    \/ \E y \in Syncers : sync[y].pc \in {"assets", "relations"} /\ s \in DOMAIN sync[y].specs
    \/ \E h \in Handlers : request[h].pc \in {"save", "remove", "delete"}
          /\ s \in DOMAIN request[h].specs /\ ~(request[h].pc = "delete" /\ request[h].of = s)

(* deleteCanonicalAssetForSourceGorm, the row itself, and a sync. *)
CommitDelete(h) ==
    /\ request[h].pc = "delete"
    /\ LET s == request[h].of
           dead == {key \in derived \cup manual : key.of = s /\ key.id = asset[s]}
       IN
       /\ source' = [source EXCEPT ![s] = "gone"]
       /\ SyncInTransaction(request[h].specs, {s}, dead, {})
       /\ overlapped' = overlapped \cup {t \in Sources : t = s /\ Knows(s)}
    /\ Goto(h, Idle) /\ alone' = {}
    /\ UNCHANGED status

(* createAssetRelation: after a sync of its own both assets are loaded ...   *)
LoadAssets(h, s, type) ==
    /\ request[h] = Idle /\ asset[s] # 0
    /\ Goto(h, [pc |-> "add", key |-> Key(s, asset[s], type)])
    /\ UNCHANGED <<sourceRows, graph, sync, alone, overlapped>>

(* ... and the relation is found or made in a transaction. *)
SaveRelation(h) ==
    /\ request[h].pc = "add"
    /\ Goto(h, [pc |-> "save", key |-> request[h].key, specs |-> Read(Live)])
    /\ alone' = {}
    /\ UNCHANGED <<sourceRows, graph, sync, overlapped>>

CommitRelation(h) ==
    /\ request[h].pc = "save"
    /\ SyncInTransaction(request[h].specs, {}, {}, {request[h].key})
    /\ Goto(h, Idle) /\ alone' = {}
    /\ UNCHANGED <<sourceRows, overlapped>>

(* deleteAssetRelation: a manual one, under a lock. *)
RemoveRelation(h, key) ==
    /\ request[h] = Idle /\ key \in manual
    /\ Goto(h, [pc |-> "remove", key |-> key, specs |-> Read(Live)])
    /\ alone' = {}
    /\ UNCHANGED <<sourceRows, graph, sync, overlapped>>

CommitRemoval(h) ==
    /\ request[h].pc = "remove" /\ request[h].key \in manual
    /\ SyncInTransaction(request[h].specs, {}, {request[h].key}, {})
    /\ Goto(h, Idle) /\ alone' = {}
    /\ UNCHANGED <<sourceRows, overlapped>>

RequestFails(h) ==
    /\ request[h] # Idle
    /\ Goto(h, Idle)
    /\ UNCHANGED <<sourceRows, graph, sync, alone, overlapped>>

(* nodeHeartbeat syncs the node's asset with no relations wanted: that       *)
(* prunes every derived one.                                                 *)
Heartbeat ==
    /\ derived' = {} /\ sync' = Forget(derived, sync) /\ alone' = {}
    /\ UNCHANGED <<sourceRows, asset, shown, manual, request, overlapped>>

-----------------------------------------------------------------------------
Step(y) ==
    \/ \E s \in Sources : CreateSource(y, s) \/ ChangeSource(y, s)
    \/ StartSync(y)
    \/ ReadSources(y) \/ ReadFails(y)
    \/ \E s \in Sources : LookForAsset(y, s) \/ WriteAsset(y, s) \/ Relate(y, s)
    \/ AssetsDone(y) \/ LoadRelations(y)
    \/ \E key \in Keys : Prune(y, key)
    \/ EndSync(y) \/ SyncFails(y)

Serve(h) ==
    \/ \E s \in Sources : DeleteSource(h, s)
    \/ CommitDelete(h)
    \/ \E s \in Sources, type \in Types : LoadAssets(h, s, type)
    \/ SaveRelation(h) \/ CommitRelation(h)
    \/ \E key \in Keys : RemoveRelation(h, key)
    \/ CommitRemoval(h) \/ RequestFails(h)

Next ==
    \/ \E y \in Syncers : Step(y)
    \/ \E h \in Handlers : Serve(h)
    \/ Heartbeat

Spec == Init /\ [][Next]_vars

-----------------------------------------------------------------------------
(* Properties *)

(* What a sync is to leave: each source has an asset that shows its status,  *)
(* and is related to the project; no other derived relation is there, none   *)
(* that dangles.                                                             *)
Exact ==
    /\ \A s \in Live : asset[s] # 0 /\ shown[s] = status[s]
    /\ derived = {Key(s, asset[s], "owns") : s \in Live}
    /\ \A key \in derived : ~Dangling(key)

(* A sync that nothing disturbs repairs whatever overlapping syncs, failed   *)
(* ones and heartbeats left.                                                 *)
UndisturbedSyncRepairs ==
    [][\A y \in alone : EndSync(y) => Exact']_vars

(* A manual relation goes only when a user removes it, with a source, when   *)
(* it is derived as well, or by a sync that overlapped its being made manual.*)
ManualStays ==
    [][\A key \in manual \ manual' :
          \/ key \in derived'
          \/ \E h \in Handlers : request[h] # Idle /\ request[h].pc = "remove" /\ request[h].key = key
          \/ source'[key.of] = "gone"
          \/ \E y \in Syncers \ alone : At(y, "prune") /\ key \in sync[y].todo]_vars

(* A source that is gone has an asset only if a sync or a request that read  *)
(* the source before was still under way when it was deleted.                *)
GhostNeedsOverlap ==
    \A s \in Sources : source[s] = "gone" /\ asset[s] # 0 => s \in overlapped
=============================================================================
