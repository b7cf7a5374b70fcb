--------------------------- MODULE ConfigVersions ---------------------------
(***************************************************************************)
(* A config repository and a project version that is pinned to a commit of *)
(* it.  Operators ask for scaffold commits, for refreshes of the           *)
(* repository's recorded head, for pins, for refreshes of what the version *)
(* names and for reruns of its validation.  Control workers commit and     *)
(* push, fetch, and record on the version's asset what a validation of the *)
(* recorded state shows; operators record that, and reviews of the         *)
(* repository, too.                                                        *)
(*                                                                         *)
(* The repository has one remote, with one branch.  A commit is named by   *)
(* the operation that made it, or a number above MaxOps if somebody else   *)
(* pushed it; 0 is no commit.  The version's manifest names the repository *)
(* and an Argo revision; the assets of both are there.  Refreshes of other *)
(* versions, remotes and connections, and reruns of other versions, are in *)
(* the queue and in the sight of requests, and change nothing here.        *)
(***************************************************************************)
EXTENDS Integers, Sequences, FiniteSets

CONSTANTS
    Handlers,     \* requests the gateway serves at the same time
    Workers,      \* control worker processes
    MaxConnections, \* bound on the project's Argo connections
    LookBack,     \* active operations a request for a refresh looks at: limit*5
    MaxOps,       \* bound on the operations
    MaxPushes     \* bound on the commits somebody else pushes

ASSUME ActorAssumption == IsFiniteSet(Handlers) /\ Handlers \cap Workers = {}
ASSUME LookBackAssumption == LookBack \in Nat \ {0}
ASSUME BoundAssumption == MaxConnections \in Nat /\ MaxOps \in Nat /\ MaxPushes \in Nat

VARIABLES
    config,   \* the repository's role is config
    sole,     \* its remote is the only local_bare one
    history,  \* the commits of the branch
    connections, \* how many Argo connections the project has
    latest,   \* git_remotes.latest_sha
    pin,      \* config_commit_sha in the version's manifest
    ops,      \* operations with their jobs, in order of creation
    rows,     \* the snapshots of the version's asset, in order
    reviews,  \* what was recorded on the repository's asset
    lost,     \* a worker stopped after an operation, before it recorded
    request,  \* what each handler is at
    worker,   \* what each worker is at
    reader    \* validations under way, of handlers and of workers

repository == <<config, sole, history, connections>>
recorded == <<rows, reviews, lost>>
vars == <<repository, latest, pin, ops, recorded, request, worker, reader>>

Active == {"queued", "running"}
Statuses == Active \cup {"completed", "failed", "canceled"}
RefreshKinds == {"refs", "argo"}
Elsewhere == {"other", "otherRerun"}
Kinds == RefreshKinds \cup Elsewhere \cup {"commit", "head", "rerun"}
Families == {"promotion", "refresh"}

Commits == 1..(MaxOps + MaxPushes)
Shas == {0} \cup Commits
Ops == [kind : Kinds, write : BOOLEAN, op : Statuses, job : Statuses]
Outcomes == {"not_requested", "waiting", "failed", "canceled", "recorded"}
Rows == [state : {"ready", "partial", "blocked"}, status : Outcomes, completed : 0..MaxOps]

Idle == [pc |-> "idle"]
Requests == {Idle}
    \cup [pc : {"commit"}, write : BOOLEAN]
    \cup [pc : {"lock", "head", "rerun"}]
    \cup [pc : {"refresh"}, kinds : Seq(RefreshKinds)]
    \cup [pc : {"pin"}, sha : Commits]
    \cup [pc : {"review"}, family : Families]
Stages == {Idle} \cup
    [pc : {"read", "fetch", "push", "record", "finish"}, i : 1..MaxOps, sha : Shas, ok : BOOLEAN]
Readings == {Idle}
    \cup [pc : {"look"}, need : BOOLEAN]
    \cup [pc : {"count"}, need : BOOLEAN, state : {"ready", "partial", "blocked"}]
    \cup [pc : {"write"}, row : Rows]

TypeOK ==
    /\ config \in BOOLEAN /\ sole \in BOOLEAN /\ lost \in BOOLEAN
    /\ history \in Seq(Commits) /\ connections \in 0..MaxConnections
    /\ latest \in Shas /\ pin \in Shas
    /\ ops \in Seq(Ops) /\ Len(ops) <= MaxOps
    /\ rows \in Seq(Rows) /\ reviews \subseteq Families
    /\ request \in [Handlers -> Requests]
    /\ worker \in [Workers -> Stages]
    /\ reader \in [Handlers \cup Workers -> Readings]

Init ==
    /\ config = TRUE /\ sole = TRUE /\ connections = 0 /\ lost = FALSE
    /\ history \in {<<>>} \cup {<<sha>> : sha \in {MaxOps + 1} \cap Commits}
    /\ latest \in {0} \cup {history[n] : n \in DOMAIN history}
    /\ pin \in {0, latest}
    /\ ops = <<>> /\ rows = <<>> /\ reviews = {}
    /\ request = [h \in Handlers |-> Idle]
    /\ worker = [w \in Workers |-> Idle]
    /\ reader = [a \in Handlers \cup Workers |-> Idle]

Tip == IF history = <<>> THEN 0 ELSE history[Len(history)]
InHistory(sha) == \E n \in DOMAIN history : history[n] = sha

-----------------------------------------------------------------------------
(* The repository *)

SomebodyPushes ==
    LET pushed == {n \in DOMAIN history : history[n] > MaxOps} IN
    /\ Cardinality(pushed) < MaxPushes
    /\ history' = Append(history, MaxOps + Cardinality(pushed) + 1)
    /\ UNCHANGED <<config, sole, connections, latest, pin, ops, recorded, request, worker, reader>>

ChangeRole ==
    /\ config' = ~config
    /\ UNCHANGED <<sole, history, connections, latest, pin, ops, recorded, request, worker, reader>>

(* Another local_bare remote is created. *)
AddRemote ==
    /\ sole /\ sole' = FALSE
    /\ UNCHANGED <<config, history, connections, latest, pin, ops, recorded, request, worker, reader>>

(* An Argo connection of the project is created. *)
ConnectArgo ==
    /\ connections < MaxConnections /\ connections' = connections + 1
    /\ UNCHANGED <<config, sole, history, latest, pin, ops, recorded, request, worker, reader>>

-----------------------------------------------------------------------------
(* Requests *)

Free(h) == request[h] = Idle /\ reader[h] = Idle
Goto(h, r) == request' = [request EXCEPT ![h] = r]

Enqueue(kind, write) ==
    /\ Len(ops) < MaxOps
    /\ ops' = Append(ops, [kind |-> kind, write |-> write, op |-> "queued", job |-> "queued"])

Underway(kinds) == \E i \in DOMAIN ops : ops[i].kind \in kinds /\ ops[i].op \in Active

(* The operations of these kinds that are under way and newer. *)
Newer(i, kinds) == {j \in DOMAIN ops : j > i /\ ops[j].kind \in kinds /\ ops[j].op \in Active}

(* projectVersionOperationRunsGorm: of the newest operations of some types that *)
(* are under way, whatever they are of, those of the version.                   *)
Found(kinds, types) ==
    \E i \in DOMAIN ops : /\ ops[i].kind \in kinds /\ ops[i].op \in Active
                         /\ Cardinality(Newer(i, types)) < LookBack

(* configRepositoryScaffoldPreview: what blocks a plan is the role; the      *)
(* repository's remote and default branch are there.                         *)
ScaffoldReady == config

(* Only a sole local_bare remote is to be written; without it the workflow   *)
(* is an audit.                                                              *)
WriteEligible == sole

(* The plan of a scaffold commit: from a request, or again when one that     *)
(* needed an approval is approved.                                           *)
PlanCommit(h) ==
    /\ Free(h) /\ ScaffoldReady
    /\ Goto(h, [pc |-> "commit", write |-> WriteEligible])
    /\ UNCHANGED <<repository, latest, pin, ops, recorded, worker, reader>>

EnqueueCommit(h) ==
    /\ request[h].pc = "commit"
    /\ Enqueue("commit", request[h].write)
    /\ Goto(h, Idle)
    /\ UNCHANGED <<repository, latest, pin, recorded, worker, reader>>

(* A refresh of the repository's head: the role is read without a lock ...   *)
CheckRole(h) ==
    /\ Free(h) /\ config
    /\ Goto(h, [pc |-> "lock"])
    /\ UNCHANGED <<repository, latest, pin, ops, recorded, worker, reader>>

RepositoryUnlocked == \A g \in Handlers : request[g].pc # "head"

(* ... and the operations under the lock of the repository's row. *)
LookForHeadRefresh(h) ==
    /\ request[h].pc = "lock" /\ RepositoryUnlocked
    /\ Goto(h, IF Underway({"head"}) THEN Idle ELSE [pc |-> "head"])
    /\ UNCHANGED <<repository, latest, pin, ops, recorded, worker, reader>>

EnqueueHeadRefresh(h) ==
    /\ request[h].pc = "head"
    /\ Enqueue("head", FALSE)
    /\ Goto(h, Idle)
    /\ UNCHANGED <<repository, latest, pin, recorded, worker, reader>>

(* projectVersionProviderRefreshPlan: nothing before a remote is pinned. *)
PlannedSteps ==
    IF pin = 0 THEN <<>> ELSE <<"refs">> \o [c \in 1..connections |-> "argo"]

(* The operations whose types a refresh of the version has: a refresh of a *)
(* repository's head is of one of them.                                    *)
RefreshTypes == RefreshKinds \cup {"head", "other"}

(* Mutant: only operations nobody claimed count. *)
RefreshUnderwayQueued ==
    \E i \in DOMAIN ops : /\ ops[i].kind \in RefreshKinds /\ ops[i].op = "queued"
                         /\ Cardinality(Newer(i, RefreshTypes)) < LookBack

RefreshUnderway == Found(RefreshKinds, RefreshTypes)

(* The newest operations are read without a lock ... *)
LookForRefresh(h) ==
    /\ Free(h) /\ PlannedSteps # <<>> /\ ~RefreshUnderway
    /\ Goto(h, [pc |-> "refresh", kinds |-> PlannedSteps])
    /\ UNCHANGED <<repository, latest, pin, ops, recorded, worker, reader>>

(* ... and the new ones appear together. *)
EnqueueRefresh(h) ==
    /\ request[h].pc = "refresh"
    /\ LET kinds == request[h].kinds IN
       /\ Len(ops) + Len(kinds) <= MaxOps
       /\ ops' = ops \o [n \in DOMAIN kinds |->
             [kind |-> kinds[n], write |-> FALSE, op |-> "queued", job |-> "queued"]]
    /\ Goto(h, Idle)
    /\ UNCHANGED <<repository, latest, pin, recorded, worker, reader>>

LookForRerun(h) ==
    /\ Free(h) /\ ~Found({"rerun"}, {"rerun", "otherRerun"})
    /\ Goto(h, [pc |-> "rerun"])
    /\ UNCHANGED <<repository, latest, pin, ops, recorded, worker, reader>>

EnqueueRerun(h) ==
    /\ request[h].pc = "rerun"
    /\ Enqueue("rerun", FALSE)
    /\ Goto(h, Idle)
    /\ UNCHANGED <<repository, latest, pin, recorded, worker, reader>>

(* Somebody asks for a refresh of something else, or a rerun. *)
EnqueueElsewhere(kind) ==
    /\ Enqueue(kind, FALSE)
    /\ UNCHANGED <<repository, latest, pin, recorded, request, worker, reader>>

(* The row of the version is locked, the remote is not. *)
ReadLatest(h) ==
    /\ Free(h) /\ config /\ latest # 0
    /\ \A g \in Handlers : request[g].pc # "pin"
    /\ Goto(h, [pc |-> "pin", sha |-> latest])
    /\ UNCHANGED <<repository, latest, pin, ops, recorded, worker, reader>>

SavePin(h) ==
    /\ request[h].pc = "pin"
    /\ pin' = request[h].sha
    /\ Goto(h, Idle)
    /\ UNCHANGED <<repository, latest, ops, recorded, worker, reader>>

Cancel(i) ==
    /\ ops[i].op \in Active
    /\ ops' = [ops EXCEPT ![i].op = "canceled",
                          ![i].job = IF @ = "queued" THEN "canceled" ELSE @]
    /\ UNCHANGED <<repository, latest, pin, recorded, request, worker, reader>>

-----------------------------------------------------------------------------
(* Control workers *)

At(w, pc) == worker[w].pc = pc
Job(w) == ops[worker[w].i]
Step(w, pc, sha, ok) ==
    worker' = [worker EXCEPT ![w] = [pc |-> pc, i |-> worker[w].i, sha |-> sha, ok |-> ok]]
Stage(w, pc, sha) == Step(w, pc, sha, worker[w].ok)
Fail(w) == Step(w, "finish", worker[w].sha, FALSE)

Read(a, need) == reader' = [reader EXCEPT ![a] = [pc |-> "look", need |-> need]]

FirstStage(i) ==
    CASE ops[i].kind = "commit" -> (IF ops[i].write THEN "read" ELSE "record")
      [] ops[i].kind \in {"refs", "head"} -> "fetch"
      [] OTHER -> "record"

(* A rerun validates in place of a call to Git or Argo. *)
Claim(w, i) ==
    /\ worker[w] = Idle /\ reader[w] = Idle
    /\ ops[i].job = "queued" /\ \A j \in 1..(i - 1) : ops[j].job # "queued"
    /\ ops' = [ops EXCEPT ![i].op = "running", ![i].job = "running"]
    /\ worker' = [worker EXCEPT ![w] = [pc |-> FirstStage(i), i |-> i, sha |-> 0, ok |-> TRUE]]
    /\ IF ops[i].kind = "rerun" THEN Read(w, TRUE) ELSE UNCHANGED reader
    /\ UNCHANGED <<repository, latest, pin, recorded, request>>

(* CommitConfigScaffold reads the repository and its remotes again. *)
ReadRepository(w) ==
    /\ At(w, "read")
    /\ IF config /\ sole THEN Stage(w, "fetch", 0) ELSE Fail(w)
    /\ UNCHANGED <<repository, latest, pin, ops, recorded, request, reader>>

Fetch(w) ==
    /\ At(w, "fetch")
    /\ Stage(w, IF Job(w).kind = "commit" THEN "push" ELSE "record", Tip)
    /\ UNCHANGED <<repository, latest, pin, ops, recorded, request, reader>>

(* The scaffold is in the tree that was fetched. *)
NothingChanged(w) ==
    /\ At(w, "push") /\ worker[w].sha # 0
    /\ Stage(w, "record", worker[w].sha)
    /\ UNCHANGED <<repository, latest, pin, ops, recorded, request, reader>>

(* Mutant: the push is forced. *)
AcceptedForced(base) == TRUE

(* What the remote takes: a commit on top of its newest. *)
Accepted(base) == base = Tip

(* A commit with its ancestors. *)
UpTo(sha) ==
    IF InHistory(sha)
      THEN SubSeq(history, 1, CHOOSE n \in DOMAIN history : history[n] = sha) ELSE <<>>

Push(w) ==
    /\ At(w, "push")
    /\ IF Accepted(worker[w].sha)
         THEN /\ history' = Append(UpTo(worker[w].sha), worker[w].i)
              /\ Stage(w, "record", worker[w].i)
         ELSE Fail(w) /\ UNCHANGED history
    /\ UNCHANGED <<config, sole, connections, latest, pin, ops, recorded, request, reader>>

(* recordAdapterSuccess: the remote's row, by the worker's own result. *)
Record(w) ==
    /\ At(w, "record") /\ reader[w] = Idle
    /\ latest' = IF worker[w].sha = 0 THEN latest ELSE worker[w].sha
    /\ Stage(w, "finish", worker[w].sha)
    /\ UNCHANGED <<repository, pin, ops, recorded, request, reader>>

(* The execution fails, or an error while a success is recorded. *)
Fails(w) ==
    /\ worker[w] # Idle /\ worker[w].ok
    /\ Fail(w)
    /\ reader' = [reader EXCEPT ![w] = Idle]
    /\ UNCHANGED <<repository, latest, pin, ops, recorded, request>>

(* Mutant: only a refresh of refs is followed by a validation. *)
ValidatedAfterRefs == {"refs"}

ValidatedAfter == RefreshKinds

Finish(w) ==
    /\ At(w, "finish")
    /\ LET status == IF worker[w].ok THEN "completed" ELSE "failed" IN
       ops' = [ops EXCEPT ![worker[w].i].op = status, ![worker[w].i].job = status]
    /\ IF Job(w).kind \in ValidatedAfter THEN Read(w, TRUE) ELSE UNCHANGED reader
    /\ worker' = [worker EXCEPT ![w] = Idle]
    /\ UNCHANGED <<repository, latest, pin, recorded, request>>

(* The process stops, or its validation after an operation fails. *)
Crash(w) ==
    /\ worker[w] # Idle \/ reader[w] # Idle
    /\ lost' = (lost \/ worker[w] = Idle)
    /\ worker' = [worker EXCEPT ![w] = Idle]
    /\ reader' = [reader EXCEPT ![w] = Idle]
    /\ UNCHANGED <<repository, latest, pin, ops, rows, reviews, request>>

(* The sweep of stale jobs: also of one whose worker is only slow. *)
TimeOut(i) ==
    /\ ops[i].job = "running"
    /\ ops' = [ops EXCEPT ![i].op = "failed", ![i].job = "failed"]
    /\ UNCHANGED <<repository, latest, pin, recorded, request, worker, reader>>

-----------------------------------------------------------------------------
(* Validations *)

OfKinds(kinds) == {i \in DOMAIN ops : ops[i].kind \in kinds}
Refreshes == OfKinds(RefreshKinds)
Some(is, statuses) == \E i \in is : ops[i].op \in statuses

(* projectVersionRefreshResultSummary; the evidence of the config workflow   *)
(* and of its ref refreshes takes the same order.                            *)
StatusOf(is) ==
    CASE is = {} -> "not_requested"
      [] Some(is, Active) -> "waiting"
      [] ~Some(is, Active) /\ Some(is, {"failed"}) -> "failed"
      [] ~Some(is, Active \cup {"failed"}) /\ Some(is, {"canceled"}) -> "canceled"
      [] OTHER -> "recorded"

(* An item of the manifest against the recorded head. *)
ItemStatus(sha) ==
    CASE sha = 0 \/ latest = 0 -> "blocked"
      [] sha # 0 /\ latest # 0 /\ sha = latest -> "ready"
      [] OTHER -> "partial"

(* The manifest has one item. *)
ValidationState == ItemStatus(pin)

StartRecording(h) ==
    /\ Free(h)
    /\ \E need \in BOOLEAN : Read(h, need)
    /\ UNCHANGED <<repository, latest, pin, ops, recorded, request, worker>>

(* The version and its remotes are read ... *)
ReadRemotes(a) ==
    /\ reader[a].pc = "look"
    /\ reader' = [reader EXCEPT ![a] =
          [pc |-> "count", need |-> reader[a].need, state |-> ValidationState]]
    /\ UNCHANGED <<repository, latest, pin, ops, recorded, request, worker>>

(* server_side_validation_recheck_ready *)
Rechecked == Refreshes # {} /\ ~Some(Refreshes, Active)

(* snapshot_ready_for_review *)
ReadyForReview == StatusOf(Refreshes) = "recorded" /\ Rechecked

(* projectVersionValidationSnapshotAutoRecordReadiness *)
ReadyToRecord(need) == need => ReadyForReview

RowSeen(state) ==
    [state |-> state, status |-> StatusOf(Refreshes),
     completed |-> Cardinality({i \in Refreshes : ops[i].op = "completed"})]

(* ... and then the operations ... *)
ReadOperations(a) ==
    /\ reader[a].pc = "count"
    /\ reader' = [reader EXCEPT ![a] =
          IF ReadyToRecord(reader[a].need)
            THEN [pc |-> "write", row |-> RowSeen(reader[a].state)]
            ELSE Idle]
    /\ UNCHANGED <<repository, latest, pin, ops, recorded, request, worker>>

(* ... and a row is inserted that differs from the newest. *)
WriteRow(a) ==
    /\ reader[a].pc = "write"
    /\ rows' = IF rows # <<>> /\ rows[Len(rows)] = reader[a].row
                 THEN rows ELSE Append(rows, reader[a].row)
    /\ reader' = [reader EXCEPT ![a] = Idle]
    /\ UNCHANGED <<repository, latest, pin, ops, reviews, lost, request, worker>>

CommitStatus == StatusOf(OfKinds({"commit"}))
HeadStatus == StatusOf(OfKinds({"head"}))

(* configRepositoryGitCommitPromotionReadinessPlan and                       *)
(* configRepositoryRefRefreshSnapshotReadiness: all of the newest succeeded. *)
PromotionReady == CommitStatus = "recorded"
HeadRefreshReady == HeadStatus = "recorded"

LookForReview(h, family) ==
    /\ Free(h)
    /\ IF family = "promotion" THEN PromotionReady ELSE HeadRefreshReady
    /\ Goto(h, [pc |-> "review", family |-> family])
    /\ UNCHANGED <<repository, latest, pin, ops, recorded, worker, reader>>

RecordPromotion(h) ==
    /\ request[h].pc = "review" /\ request[h].family = "promotion"
    /\ reviews' = reviews \cup {"promotion"}
    /\ Goto(h, Idle)
    /\ UNCHANGED <<repository, latest, pin, ops, rows, lost, worker, reader>>

RecordHeadRefresh(h) ==
    /\ request[h].pc = "review" /\ request[h].family = "refresh"
    /\ reviews' = reviews \cup {"refresh"}
    /\ Goto(h, Idle)
    /\ UNCHANGED <<repository, latest, pin, ops, rows, lost, worker, reader>>

RequestFails(h) ==
    /\ ~Free(h)
    /\ Goto(h, Idle)
    /\ reader' = [reader EXCEPT ![h] = Idle]
    /\ UNCHANGED <<repository, latest, pin, ops, recorded, worker>>

-----------------------------------------------------------------------------
Serve(h) ==
    \/ PlanCommit(h) \/ EnqueueCommit(h)
    \/ CheckRole(h) \/ LookForHeadRefresh(h) \/ EnqueueHeadRefresh(h)
    \/ LookForRefresh(h) \/ EnqueueRefresh(h)
    \/ LookForRerun(h) \/ EnqueueRerun(h)
    \/ ReadLatest(h) \/ SavePin(h)
    \/ StartRecording(h)
    \/ \E family \in Families : LookForReview(h, family)
    \/ RecordPromotion(h) \/ RecordHeadRefresh(h)
    \/ RequestFails(h)

Work(w) ==
    \/ \E i \in DOMAIN ops : Claim(w, i)
    \/ ReadRepository(w) \/ Fetch(w) \/ NothingChanged(w) \/ Push(w)
    \/ Record(w) \/ Fails(w) \/ Finish(w) \/ Crash(w)

Validate(a) == ReadRemotes(a) \/ ReadOperations(a) \/ WriteRow(a)

Next ==
    \/ SomebodyPushes \/ ChangeRole \/ AddRemote \/ ConnectArgo
    \/ \E h \in Handlers : Serve(h)
    \/ \E w \in Workers : Work(w)
    \/ \E a \in Handlers \cup Workers : Validate(a)
    \/ \E i \in DOMAIN ops : Cancel(i) \/ TimeOut(i)
    \/ \E kind \in Elsewhere : EnqueueElsewhere(kind)

Spec == Init /\ [][Next]_vars

-----------------------------------------------------------------------------
(* Properties *)

(* What is recorded as the head, and what the version is pinned to, was      *)
(* pushed and is still there: commits of workers that overlap, and of        *)
(* somebody else between a fetch and a push, are never dropped.              *)
RecordedShaIsInHistory ==
    /\ latest # 0 => InHistory(latest)
    /\ pin # 0 => InHistory(pin)

(* What may hide one refresh of the version from the request for another: as *)
(* many operations of its types that are of something else as the request    *)
(* looks at, between the two.                                                *)
Between(i, j) == {k \in OfKinds(RefreshTypes \ RefreshKinds) : i < k /\ k < j}
Hidden(i, j) == Cardinality(Between(i, j)) >= LookBack

(* The refreshes of the version under way that nothing hides from this one. *)
UnderwayBeside(i) ==
    {j \in OfKinds({"refs"}) : ops[j].op \in Active /\ i <= j /\ ~Hidden(i, j)}

(* A head refresh that is under way is found by every other request, for    *)
(* the repository is locked meanwhile.  A version is refreshed once for     *)
(* each request that is served at the same time: more often only where at   *)
(* least LookBack refreshes of other things came in between, because a      *)
(* request looks at the newest of all and filters afterwards.               *)
RefreshOncePerRequest ==
    /\ \A i, j \in OfKinds({"head"}) : ops[i].op \in Active /\ ops[j].op \in Active => i = j
    /\ \A i \in OfKinds({"refs"}) :
          ops[i].op \in Active => Cardinality(UnderwayBeside(i)) <= Cardinality(Handlers)

(* When every refresh of the version completed, and the workers that         *)
(* validate are done, a row of its asset tells so, whichever operation was   *)
(* the last, unless a worker stopped between the two.                        *)
CompletedRefreshIsRecorded ==
    /\ StatusOf(Refreshes) = "recorded"
    /\ ~lost /\ \A w \in Workers : reader[w] = Idle
    => \E r \in DOMAIN rows :
          rows[r].status = "recorded" /\ rows[r].completed = Cardinality(Refreshes)

=============================================================================
