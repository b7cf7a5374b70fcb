----------------------------- MODULE ArgoTargets -----------------------------
(***************************************************************************)
(* Synchronisation of Argo CD.  A sync fetches the applications of a       *)
(* connection and records them in one transaction: it replaces the         *)
(* connection's apps, finds or makes the deployment target of each, rolls  *)
(* their statuses up and deletes the connection's targets that no app is   *)
(* on any more.  Connections share targets: a target belongs to a project, *)
(* environment, cluster and namespace, and to the connection whose sync    *)
(* saved it last.                                                          *)
(*                                                                         *)
(* Transactions run at READ COMMITTED: a statement sees what is committed  *)
(* and what its own transaction wrote, and a write waits for rows and keys *)
(* another transaction has written.  Whoever waits may also fail (it is    *)
(* the deadlock's victim, or a request times out).  Application names are  *)
(* unique in the project, so every app has a deployment record of its own; *)
(* its rollback points are those of one revision.                          *)
(***************************************************************************)
EXTENDS Integers, Sequences, FiniteSets

CONSTANTS
    Connections, \* argo_connections
    Apps,        \* the names of the applications
    Workers,     \* control worker processes
    Handlers,    \* requests the gateway serves at the same time
    ConnOf,      \* [Apps -> Connections]: the server that has the application
    Scope,       \* [Apps -> its project, environment and namespace]
    Cluster,     \* [Apps -> the cluster its labels name, or None]
    None,
    MaxTargets,  \* bound on the ids of deployment_targets
    MaxOps       \* bound on the operations

ASSUME MapAssumption == ConnOf \in [Apps -> Connections] /\ DOMAIN Scope = Apps /\ DOMAIN Cluster = Apps
ASSUME BoundAssumption == MaxTargets \in Nat /\ MaxOps \in Nat

VARIABLES
    connection,  \* argo_connections.last_sync_status
    app,         \* argo_apps
    target,      \* deployment_targets
    deployed,    \* deployment_records, with the target of the app's rollback_point
    ops,         \* operation_runs of type argo.apps.sync with their jobs
    worker,      \* what each worker is at
    request,     \* what each handler is at
    cut,         \* history: targets deleted with a connection or by overlapping syncs
    resaved      \* history: connections whose status an update wrote back since

tables == <<app, target, deployed>>
vars == <<connection, tables, ops, worker, request, cut, resaved>>

(* Ids are random: the first target by id may be any of them. *)
Ids == 1..MaxTargets
Statuses == {"Synced", "OutOfSync", "Unknown"}

(* What the server says of an application; pinned: it names a revision or   *)
(* images, without which there is nothing to roll back to.                  *)
Reports == [status : Statuses, pinned : BOOLEAN]
AppRows == [target : Ids, status : Statuses]
TargetRows == [scope : {Scope[a] : a \in Apps}, cluster : {Cluster[a] : a \in Apps},
               conn : Connections, status : Statuses \cup {"unknown"}]
DeployedRows == [target : Ids, point : Ids \cup {None}]
Listings == [Apps -> Reports \cup {None}]

ASSUME NoneAssumption ==
    /\ None \notin Apps /\ None \notin Ids /\ None \notin Statuses
    /\ None \notin Reports /\ None \notin AppRows /\ None \notin TargetRows /\ None \notin DeployedRows

Idle == [stage |-> "idle"]
InTx == {"look", "put", "gather", "commit"}

(* A worker's transaction: the apps it deleted, the rows it wrote, and the  *)
(* targets it is about to delete.  alone: no other sync recorded meanwhile. *)
NoTx == [dropped |-> {}, apps |-> [a \in Apps |-> None], targets |-> [i \in Ids |-> None],
         doomed |-> {}, alone |-> TRUE]

SyncStatuses == {"never", "running", "completed", "failed"}
Transactions == [dropped : SUBSET Apps, apps : [Apps -> AppRows \cup {None}],
                 targets : [Ids -> TargetRows \cup {None}], doomed : SUBSET Ids, alone : BOOLEAN]
Jobs == [stage : {"fetch", "drop", "stalled", "finish"} \cup InTx, op : Nat \ {0},
         list : Listings, left : SUBSET Apps, at : Apps \cup {None}, found : Ids \cup {None},
         ok : BOOLEAN, tx : Transactions]

TypeOK ==
    /\ connection \in [Connections -> {"absent", "deleted"} \cup SyncStatuses]
    /\ app \in [Apps -> AppRows \cup {None}]
    /\ target \in [Ids -> TargetRows \cup {None}]
    /\ deployed \in [Apps -> DeployedRows \cup {None}]
    /\ ops \in Seq([conn : Connections,
                    status : {"queued", "running", "stopping", "canceled", "completed", "failed"}])
    /\ worker \in [Workers -> {Idle} \cup Jobs]
    /\ \A w \in Workers : worker[w] # Idle => worker[w].op \in DOMAIN ops
    /\ request \in [Handlers -> {Idle} \cup [stage : {"enqueue"}, conn : Connections]
             \cup [stage : {"save"}, conn : Connections, status : SyncStatuses]]
    /\ cut \subseteq Ids /\ resaved \subseteq Connections

Init ==
    /\ connection = [c \in Connections |-> "absent"]
    /\ app = [a \in Apps |-> None] /\ target = [i \in Ids |-> None]
    /\ deployed = [a \in Apps |-> None]
    /\ ops = <<>>
    /\ worker = [w \in Workers |-> Idle] /\ request = [h \in Handlers |-> Idle]
    /\ cut = {} /\ resaved = {}

-----------------------------------------------------------------------------
(* Connections and operations *)

Exists(c) == connection[c] \notin {"absent", "deleted"}

(* An update by id that finds no row changes nothing. *)
SetStatus(c, status) ==
    /\ connection' = IF Exists(c) THEN [connection EXCEPT ![c] = status] ELSE connection
    /\ resaved' = resaved \ {c}

CreateConnection(c) ==
    /\ connection[c] = "absent"
    /\ connection' = [connection EXCEPT ![c] = "never"]
    /\ UNCHANGED <<tables, ops, worker, request, cut, resaved>>

(* The row is read without a lock and saved whole, status included. *)
UpdateRead(h, c) ==
    /\ request[h] = Idle /\ Exists(c)
    /\ request' = [request EXCEPT ![h] = [stage |-> "save", conn |-> c, status |-> connection[c]]]
    /\ UNCHANGED <<connection, tables, ops, worker, cut, resaved>>

UpdateSave(h) ==
    /\ request[h].stage = "save"
    /\ LET c == request[h].conn IN
          IF Exists(c)
          THEN /\ connection' = [connection EXCEPT ![c] = request[h].status]
               /\ resaved' = IF request[h].status = connection[c] THEN resaved ELSE resaved \cup {c}
          ELSE UNCHANGED <<connection, resaved>>
    /\ request' = [request EXCEPT ![h] = Idle]
    /\ UNCHANGED <<tables, ops, worker, cut>>

Enqueue(c) ==
    /\ Len(ops) < MaxOps
    /\ ops' = Append(ops, [conn |-> c, status |-> "queued"])

(* syncArgoApps looks for an operation of the connection, then enqueues. *)
SyncCheck(h, c) ==
    /\ request[h] = Idle /\ Exists(c)
    /\ \A i \in DOMAIN ops : ops[i].conn = c => ops[i].status \notin {"queued", "running"}
    /\ request' = [request EXCEPT ![h] = [stage |-> "enqueue", conn |-> c]]
    /\ UNCHANGED <<connection, tables, ops, worker, cut, resaved>>

SyncEnqueue(h) ==
    /\ request[h].stage = "enqueue"
    /\ Enqueue(request[h].conn)
    /\ request' = [request EXCEPT ![h] = Idle]
    /\ UNCHANGED <<connection, tables, worker, cut, resaved>>

(* The refresh of a project version looks for operations of the version. *)
RefreshVersion(c) ==
    /\ Exists(c) /\ Enqueue(c)
    /\ UNCHANGED <<connection, tables, worker, request, cut, resaved>>

(* Canceling a running operation leaves its job to the worker. *)
CancelOperation(i) ==
    /\ ops[i].status \in {"queued", "running"}
    /\ ops' = [ops EXCEPT ![i].status = IF @ = "queued" THEN "canceled" ELSE "stopping"]
    /\ UNCHANGED <<connection, tables, worker, request, cut, resaved>>

-----------------------------------------------------------------------------
(* A worker up to its transaction *)

Conn(w) == ops[worker[w].op].conn
Active(w) == worker[w] # Idle
Recording(w) == worker[w].stage \in InTx
NoListing == [a \in Apps |-> None]

Claim(w, i) ==
    /\ worker[w] = Idle
    /\ ops[i].status = "queued" /\ \A j \in 1..(i - 1) : ops[j].status # "queued"
    /\ ops' = [ops EXCEPT ![i].status = "running"]
    /\ worker' = [worker EXCEPT ![w] = [stage |-> "fetch", op |-> i, list |-> NoListing, left |-> {},
                                        at |-> None, found |-> None, ok |-> TRUE, tx |-> NoTx]]
    /\ SetStatus(ops[i].conn, "running")
    /\ UNCHANGED <<tables, request, cut>>

(* What the server lists is up to it. *)
Fetch(w) ==
    /\ worker[w].stage = "fetch" /\ Exists(Conn(w))
    /\ \E list \in Listings :
          /\ \A a \in Apps : list[a] # None => ConnOf[a] = Conn(w)
          /\ worker' = [worker EXCEPT ![w].stage = "drop", ![w].list = list,
                                      ![w].left = {a \in Apps : list[a] # None}]
    /\ UNCHANGED <<connection, tables, ops, request, cut, resaved>>

-----------------------------------------------------------------------------
(* The transaction of recordArgoSyncAdapterRun *)

(* The tables as worker w's statements see them. *)
AppSeen(w, a) ==
    LET tx == worker[w].tx IN
    IF tx.apps[a] # None \/ a \in tx.dropped THEN tx.apps[a] ELSE app[a]
TargetSeen(w, i) == IF worker[w].tx.targets[i] # None THEN worker[w].tx.targets[i] ELSE target[i]

AppsSeenOf(w, c) == {a \in Apps : ConnOf[a] = c /\ AppSeen(w, a) # None}

(* Rows that another worker's transaction has written. *)
AppLocked(w, a) ==
    \E v \in Workers \ {w} : Recording(v) /\ (a \in worker[v].tx.dropped \/ worker[v].tx.apps[a] # None)
TargetLocked(w, i) == \E v \in Workers \ {w} : Recording(v) /\ worker[v].tx.targets[i] # None

(* A recording that begins beside others leaves none of them alone. *)
Begin(w, tx) ==
    LET others == {v \in Workers \ {w} : Recording(v)} IN
    worker' = [v \in Workers |->
        IF v = w
        THEN [worker[w] EXCEPT !.stage = "look", !.tx = [tx EXCEPT !.alone = others = {}]]
        ELSE IF v \in others THEN [worker[v] EXCEPT !.tx.alone = FALSE] ELSE worker[v]]

Drop(w) ==
    LET old == {a \in Apps : ConnOf[a] = Conn(w) /\ app[a] # None} IN
    /\ worker[w].stage = "drop"
    /\ \/ /\ \A a \in old : ~AppLocked(w, a)
          /\ Begin(w, [NoTx EXCEPT !.dropped = old])
       \/ /\ \E a \in old : AppLocked(w, a)  \* it waits for that transaction
          /\ worker' = [worker EXCEPT ![w].stage = "stalled"]
    /\ UNCHANGED <<connection, tables, ops, request, cut, resaved>>

(* When it ends, a delete that waited for it finds the rows gone and does   *)
(* not see their successors, or finds them as they were.                    *)
Resumed(w, committed) == [v \in Workers |->
    IF v # w /\ worker[v].stage = "stalled" /\ Conn(v) = Conn(w)
    THEN IF committed
         THEN [worker[v] EXCEPT !.stage = "look", !.tx = [NoTx EXCEPT !.alone = FALSE]]
         ELSE [worker[v] EXCEPT !.stage = "drop"]
    ELSE worker[v]]

(* Conditions on empty columns are left out: no cluster matches any. *)
Matches(row, a) ==
    /\ row # None /\ row.scope = Scope[a]
    /\ Cluster[a] = None \/ row.cluster = Cluster[a]

Look(w, a) ==
    LET found == {i \in Ids : Matches(TargetSeen(w, i), a)} IN
    /\ worker[w].stage = "look" /\ a \in worker[w].left
    /\ worker' = [worker EXCEPT
          ![w].stage = "put", ![w].at = a, ![w].left = @ \ {a},
          ![w].found = IF found = {} THEN None ELSE CHOOSE i \in found : \A j \in found : i <= j]
    /\ UNCHANGED <<connection, tables, ops, request, cut, resaved>>

(* deployment_targets_project_scope_key, also against uncommitted rows. *)
HasKey(row, scope, cluster) == row # None /\ row.scope = scope /\ row.cluster = cluster
KeyTaken(w, i, scope, cluster) ==
    \E j \in Ids \ {i} :
        \/ HasKey(TargetSeen(w, j), scope, cluster)
        \/ \E v \in Workers \ {w} : Recording(v) /\ worker[v].tx.targets[j] # None
              /\ (HasKey(worker[v].tx.targets[j], scope, cluster) \/ HasKey(target[j], scope, cluster))

Unused == {i \in Ids :
    /\ target[i] = None /\ i \notin cut
    /\ \A a \in Apps : /\ app[a] # None => app[a].target # i
                       /\ deployed[a] # None => i \notin {deployed[a].target, deployed[a].point}
    /\ \A w \in Workers : Active(w) => worker[w].tx.targets[i] = None /\ worker[w].found # i}

(* The row is saved whole: the app's cluster replaces the target's.  A row *)
(* deleted meanwhile is inserted again.  Its status is settled by Gather.  *)
Put(w) ==
    LET a == worker[w].at
        row == [scope |-> Scope[a], cluster |-> Cluster[a], conn |-> Conn(w), status |-> "unknown"] IN
    /\ worker[w].stage = "put"
    /\ \E i \in Ids :
          /\ i = worker[w].found \/ (worker[w].found = None /\ i \in Unused)
          /\ ~TargetLocked(w, i) /\ ~KeyTaken(w, i, Scope[a], Cluster[a])
          /\ AppSeen(w, a) = None /\ ~AppLocked(w, a)  \* idx_argo_apps_conn_name
          /\ worker' = [worker EXCEPT
                ![w].stage = "look", ![w].at = None, ![w].found = None,
                ![w].tx = [@ EXCEPT !.targets[i] = row,
                                    !.apps[a] = [target |-> i, status |-> worker[w].list[a].status]]]
    /\ UNCHANGED <<connection, tables, ops, request, cut, resaved>>

(* Mutant: only an app that is out of sync counts against its target. *)
RolledUpWithoutUnknown(statuses) == IF "OutOfSync" \in statuses THEN "OutOfSync" ELSE "Synced"

(* argoDeploymentTargetStatusFromApps *)
RolledUp(statuses) ==
    CASE "OutOfSync" \in statuses -> "OutOfSync"
      [] statuses = {"Synced"}    -> "Synced"
      [] OTHER                    -> "Unknown"

StatusesOn(w, i) == {AppSeen(w, a).status : a \in {b \in AppsSeenOf(w, Conn(w)) : AppSeen(w, b).target = i}}

Owned(w) == {i \in Ids : TargetSeen(w, i) # None /\ TargetSeen(w, i).conn = Conn(w)}

(* Mutant: only the connection's own apps keep a target. *)
OrphansOfOwnApps(w) ==
    {i \in Owned(w) : \A a \in AppsSeenOf(w, Conn(w)) : AppSeen(w, a).target # i}

Orphans(w) ==
    {i \in Owned(w) : \A a \in Apps : AppSeen(w, a) # None => AppSeen(w, a).target # i}

Gather(w) ==
    LET rolled == {i \in Ids : TargetSeen(w, i) # None /\ StatusesOn(w, i) # {}} IN
    /\ worker[w].stage = "look" /\ worker[w].left = {}
    /\ \A i \in rolled : ~TargetLocked(w, i)
    /\ worker' = [worker EXCEPT
          ![w].stage = "commit",
          ![w].tx = [@ EXCEPT !.doomed = Orphans(w), !.targets = [i \in Ids |->
              IF i \in rolled THEN [TargetSeen(w, i) EXCEPT !.status = RolledUp(StatusesOn(w, i))]
              ELSE worker[w].tx.targets[i]]]]
    /\ UNCHANGED <<connection, tables, ops, request, cut, resaved>>

(* upsertDeploymentRecordForArgoApp: without a revision and images it does  *)
(* not look for a rollback point, and an earlier one stays as it is.        *)
RecordOf(w, a) ==
    LET on == worker[w].tx.apps[a].target IN
    [target |-> on,
     point |-> IF worker[w].list[a].pinned THEN on
               ELSE IF deployed[a] = None THEN None ELSE deployed[a].point]

Commit(w) ==
    LET tx == worker[w].tx IN
    /\ worker[w].stage = "commit"
    /\ \A i \in tx.doomed : ~TargetLocked(w, i)
    /\ app' = [a \in Apps |-> AppSeen(w, a)]
    /\ target' = [i \in Ids |-> IF i \in tx.doomed THEN None ELSE TargetSeen(w, i)]
    /\ deployed' = [a \in Apps |-> IF tx.apps[a] = None THEN deployed[a] ELSE RecordOf(w, a)]
    /\ SetStatus(Conn(w), "completed")
    /\ cut' = IF tx.alone THEN cut ELSE cut \cup tx.doomed
    /\ worker' = [Resumed(w, TRUE) EXCEPT ![w].stage = "finish", ![w].list = NoListing, ![w].tx = NoTx]
    /\ UNCHANGED <<ops, request>>

-----------------------------------------------------------------------------
(* How syncs end, connections go and jobs are recovered *)

(* The server or a statement fails; the transaction is rolled back. *)
Fail(w) ==
    /\ worker[w].stage \in {"fetch", "drop", "stalled"} \cup InTx
    /\ worker' = [Resumed(w, FALSE) EXCEPT
          ![w] = [@ EXCEPT !.stage = "finish", !.ok = FALSE, !.list = NoListing, !.left = {},
                           !.at = None, !.found = None, !.tx = NoTx]]
    /\ SetStatus(Conn(w), "failed")
    /\ UNCHANGED <<tables, ops, request, cut>>

Finish(w) ==
    /\ worker[w].stage = "finish"
    /\ ops' = [ops EXCEPT ![worker[w].op].status = IF worker[w].ok THEN "completed" ELSE "failed"]
    /\ worker' = [worker EXCEPT ![w] = Idle]
    /\ UNCHANGED <<connection, tables, request, cut, resaved>>

(* The process dies, or cannot record how its job ended. *)
Stop(w) ==
    /\ Active(w)
    /\ worker' = [Resumed(w, FALSE) EXCEPT ![w] = Idle]
    /\ UNCHANGED <<connection, tables, ops, request, cut, resaved>>

(* Mutant: the connection is forgotten. *)
RecoverJobOnly(i) ==
    /\ ops[i].status \in {"running", "stopping"}
    /\ ops' = [ops EXCEPT ![i].status = "failed"]
    /\ UNCHANGED <<connection, tables, worker, request, cut, resaved>>

(* recoverStaleRunningJobs: the job runs for too long, worked on or not. *)
Recover(i) ==
    /\ ops[i].status \in {"running", "stopping"}
    /\ ops' = [ops EXCEPT ![i].status = "failed"]
    /\ SetStatus(ops[i].conn, "failed")
    /\ UNCHANGED <<tables, worker, request, cut>>

(* A rollback point of a deleted target is deleted. *)
PointKept(record, targets) == [record EXCEPT !.point = IF @ \in targets THEN None ELSE @]

(* deleteArgoConnection; a recording that has rows of it is waited for, or  *)
(* fails first.                                                             *)
DeleteConnection(c) ==
    LET apps == {a \in Apps : ConnOf[a] = c}
        targets == {i \in Ids : target[i] # None /\ target[i].conn = c} IN
    /\ Exists(c)
    /\ \A w \in Workers : Recording(w) =>
          worker[w].tx.dropped \cap apps = {} /\ \A i \in targets : worker[w].tx.targets[i] = None
    /\ connection' = [connection EXCEPT ![c] = "deleted"]
    /\ app' = [a \in Apps |-> IF a \in apps THEN None ELSE app[a]]
    /\ target' = [i \in Ids |-> IF i \in targets THEN None ELSE target[i]]
    /\ deployed' = [a \in Apps |-> IF a \in apps \/ deployed[a] = None THEN None
                                   ELSE PointKept(deployed[a], targets)]
    /\ worker' = [w \in Workers |->
          IF Recording(w) THEN [worker[w] EXCEPT !.tx.alone = FALSE] ELSE worker[w]]
    /\ cut' = cut \cup targets /\ resaved' = resaved \ {c}
    /\ UNCHANGED <<ops, request>>

WorkerStep(w) ==
    \/ \E i \in DOMAIN ops : Claim(w, i)
    \/ Fetch(w)
    \/ Drop(w)
    \/ \E a \in Apps : Look(w, a)
    \/ Put(w)
    \/ Gather(w)
    \/ Commit(w)
    \/ Fail(w)
    \/ Finish(w)
    \/ Stop(w)

Next ==
    \/ \E c \in Connections : CreateConnection(c) \/ RefreshVersion(c) \/ DeleteConnection(c)
    \/ \E h \in Handlers, c \in Connections : UpdateRead(h, c) \/ SyncCheck(h, c)
    \/ \E h \in Handlers : UpdateSave(h) \/ SyncEnqueue(h)
    \/ \E i \in DOMAIN ops : CancelOperation(i) \/ Recover(i)
    \/ \E w \in Workers : WorkerStep(w)

Spec == Init /\ [][Next]_vars

-----------------------------------------------------------------------------

(* An app is on a target of its scope, which no cleanup of another          *)
(* connection's sync has taken away, unless the two syncs overlapped or a   *)
(* connection was deleted; and never on a target of another named cluster   *)
(* than its labels name, though an app without a label may unname its       *)
(* target's cluster.                                                        *)
AppHasItsTarget ==
    \A a \in Apps : app[a] # None =>
        LET t == target[app[a].target] IN
        \/ t = None /\ app[a].target \in cut
        \/ /\ t # None /\ t.scope = Scope[a]
           /\ Cluster[a] # None => t.cluster \in {Cluster[a], None}

(* A sync that recorded alone leaves its connection as the server listed    *)
(* it: exactly these apps, each on a target the connection owns, which is   *)
(* in sync when all its apps there are, out of sync when one of them is and *)
(* unknown otherwise, each with a rollback point on that target if it has a *)
(* revision or images; and no target without an app.                        *)
Mirrors(c, list) ==
    /\ \A a \in Apps : ConnOf[a] = c /\ list[a] = None => app[a] = None
    /\ \A a \in Apps : ConnOf[a] = c /\ list[a] # None =>
          /\ app[a] # None /\ app[a].status = list[a].status
          /\ deployed[a] # None /\ deployed[a].target = app[a].target
          /\ list[a].pinned => deployed[a].point = app[a].target
          /\ LET t == target[app[a].target]
                 there == {b \in Apps : /\ ConnOf[b] = c /\ list[b] # None
                                       /\ app[b].target = app[a].target} IN
                /\ t # None /\ t.conn = c /\ t.status \in Statuses
                /\ t.status = "Synced" <=> \A b \in there : list[b].status = "Synced"
                /\ t.status = "OutOfSync" <=> \E b \in there : list[b].status = "OutOfSync"
    /\ \A i \in Ids : target[i] # None /\ target[i].conn = c =>
          \E a \in Apps : app[a] # None /\ app[a].target = i

UndisturbedSyncMirrors ==
    [][\A w \in Workers :
          /\ worker[w].stage = "commit" /\ worker[w].tx.alone
          /\ worker'[w].stage = "finish" /\ worker'[w].ok
          => \A c \in {Conn(w)}, list \in {worker[w].list} : Mirrors(c, list)']_vars

(* A connection shown as syncing has a job that runs, which a worker will   *)
(* end or the recovery will, unless an update wrote the status back.        *)
RunningHasASync ==
    \A c \in Connections : connection[c] = "running" =>
        \/ c \in resaved
        \/ \E i \in DOMAIN ops : ops[i].conn = c /\ ops[i].status \in {"running", "stopping"}

=============================================================================
