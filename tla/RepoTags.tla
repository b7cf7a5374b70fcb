------------------------------ MODULE RepoTags ------------------------------
(***************************************************************************)
(* Tagging a remote repository and what follows.  A tag run asks a worker  *)
(* to push a tag; when that is recorded the worker enqueues a lookup of    *)
(* the tag and a refresh of the remote's GitHub Actions runs.  Operators   *)
(* ask for lookups and refreshes too, and GitHub reports the progress of a *)
(* workflow run in webhooks.  Each of these rewrites the tag run or the    *)
(* rows of the Actions runs.  Pages and snapshots tell what became of a     *)
(* run from its row, its newest lookup and refresh and the rows of the      *)
(* Actions runs.                                                            *)
(*                                                                         *)
(* All runs are for one tag of one GitHub remote, which has one workflow   *)
(* run: its rows in github_action_runs are identified by their writes.     *)
(***************************************************************************)
EXTENDS Integers, Sequences, FiniteSets

CONSTANTS
    Runs,        \* tag runs
    Callers,    \* requests the gateway serves at the same time
    Workers,     \* control worker processes
    MaxManual,   \* bound on what operators ask for
    MaxHooks,    \* bound on the workflow-run webhooks
    MaxRecords   \* bound on the snapshots recorded

NoValue == "none"

ASSUME BoundAssumption == MaxManual \in Nat /\ MaxHooks \in Nat /\ MaxRecords \in Nat
ASSUME ActorAssumption ==
    /\ IsFiniteSet(Callers) /\ IsFiniteSet(Workers)
    /\ Callers \cap Workers = {} /\ NoValue \notin Workers

VARIABLES
    tagged,    \* the remote has the tag
    wasTagged, \* it had it at some time
    run,       \* repo_tag_runs.status
    ops,       \* operation_runs with their worker_jobs, in order of creation
    rows,      \* the rows of the workflow run in github_action_runs
    mixed,     \* writers of rows overlapped since a refresh nobody disturbed
    lone,      \* the worker whose refresh nobody disturbed so far
    records,   \* the snapshots recorded, in order
    request,   \* what each handler is at
    worker,    \* what each worker is at
    manual,    \* lookups and refreshes asked for
    hooks      \* webhooks received

remoteTag == <<tagged, wasTagged>>
actions == <<rows, mixed, lone>>
counts == <<manual, hooks>>
tagVars == <<remoteTag, run, ops, actions, records, request, worker, counts>>

Active == {"queued", "running"}
Outcomes == {"completed", "failed"}
Statuses == Active \cup Outcomes \cup {"canceled"}
Kinds == {"tag", "lookup", "refresh"}

(* found: the result of a lookup tells that the tag is there. *)
TagOps == [kind : Kinds, run : Runs, op : Statuses, job : Statuses, found : BOOLEAN]

RowIds == Nat \ {0}

States == {"planned", "waiting", "running", "observed", "recorded", "failed", "blocked"}
Records == [kind : {"result"}, run : Runs, state : States, ready : BOOLEAN, rehearsal : States, lookup : States, live : States, refresh : States]
    \cup [kind : {"actions"}, run : Runs, state : States, total : Nat]

Idle == [pc |-> "idle"]
Requests == {Idle} \cup [pc : {"lookup", "refresh"}, run : Runs] \cup [pc : {"hook"}, found : SUBSET RowIds]
    \cup [pc : {"snapshot"}, record : Records]

(* What a worker does for an operation; seen is what git or the rows told. *)
Stages == {Idle}
    \cup [pc : {"execute", "follow"}, i : 1..Len(ops), ok : BOOLEAN]
    \cup [pc : {"record", "finish"}, i : 1..Len(ops), ok : BOOLEAN, found : BOOLEAN]
    \cup [pc : {"insert"}, i : 1..Len(ops), ok : BOOLEAN, found : SUBSET RowIds]

TagTypeOK ==
    /\ tagged \in BOOLEAN /\ wasTagged \in BOOLEAN /\ (tagged => wasTagged)
    /\ run \in [Runs -> Active \cup Outcomes \cup {NoValue}]
    /\ ops \in Seq(TagOps)
    /\ rows \subseteq RowIds /\ mixed \in BOOLEAN /\ lone \in Workers \cup {NoValue}
    /\ records \in Seq(Records)
    /\ request \in [Callers -> Requests] /\ worker \in [Workers -> Stages]
    /\ manual \in 0..MaxManual /\ hooks \in 0..MaxHooks

TagInit ==
    /\ tagged = FALSE /\ wasTagged = FALSE
    /\ run = [r \in Runs |-> NoValue] /\ ops = <<>>
    /\ rows = {} /\ mixed = FALSE /\ lone = NoValue /\ records = <<>>
    /\ request = [h \in Callers |-> Idle] /\ worker = [w \in Workers |-> Idle]
    /\ manual = 0 /\ hooks = 0

-----------------------------------------------------------------------------
(* The remote *)

(* Somebody else creates the tag, or deletes it. *)
TagElsewhere ==
    /\ tagged' = ~tagged /\ wasTagged' = TRUE
    /\ UNCHANGED <<run, ops, actions, records, request, worker, counts>>

-----------------------------------------------------------------------------
(* Requests *)

Turn(h, r) == request' = [request EXCEPT ![h] = r]

NewOp(kind, r) == [kind |-> kind, run |-> r, op |-> "queued", job |-> "queued", found |-> FALSE]

OpsOf(kind, r) == {i \in DOMAIN ops : ops[i].kind = kind /\ ops[i].run = r}
InFlight(kind, r) == {i \in OpsOf(kind, r) : ops[i].op \in Active}

CreateTag(r) ==
    /\ run[r] = NoValue
    /\ run' = [run EXCEPT ![r] = "queued"] /\ ops' = Append(ops, NewOp("tag", r))
    /\ UNCHANGED <<remoteTag, actions, records, request, worker, counts>>

(* What an operator may ask for: a lookup of any run, a refresh of a        *)
(* completed one.                                                           *)
MayAsk(kind, r) == run[r] # NoValue /\ (kind = "refresh" => run[r] = "completed")

(* The transaction looks for one that is in flight, and locks nothing. *)
Ask(h, kind, r) ==
    /\ request[h] = Idle /\ manual < MaxManual /\ manual' = manual + 1
    /\ MayAsk(kind, r)
    /\ InFlight(kind, r) = {}
    /\ Turn(h, [pc |-> kind, run |-> r])
    /\ UNCHANGED <<remoteTag, run, ops, actions, records, worker, hooks>>

Enqueue(h) ==
    /\ request[h].pc \in {"lookup", "refresh"}
    /\ ops' = Append(ops, NewOp(request[h].pc, request[h].run))
    /\ Turn(h, Idle)
    /\ UNCHANGED <<remoteTag, run, actions, records, worker, counts>>

(* An error: the transaction, which wrote nothing yet, is rolled back. *)
DropRequest(h) ==
    /\ request[h] # Idle /\ Turn(h, Idle)
    /\ UNCHANGED <<remoteTag, run, ops, actions, records, worker, counts>>

(* cancelOperation: also a running operation is canceled, its job is not. *)
Cancel(i) ==
    /\ ops[i].op \in Active
    /\ ops' = [ops EXCEPT ![i].op = "canceled",
                          ![i].job = IF @ = "queued" THEN "canceled" ELSE @]
    /\ UNCHANGED <<remoteTag, run, actions, records, request, worker, counts>>

-----------------------------------------------------------------------------
(* The rows of the workflow run *)

Writing == {h \in Callers : request[h].pc = "hook"} \cup {w \in Workers : worker[w].pc = "insert"}

Remembered ==
    UNION ({request[h].found : h \in {g \in Callers : request[g].pc = "hook"}}
      \cup {worker[w].found : w \in {v \in Workers : worker[v].pc = "insert"}})

(* Another writer begins: whoever is at it is no longer alone. *)
Overlap ==
    /\ mixed' = (mixed \/ Writing # {})
    /\ lone' = NoValue

(* The new row has a name that no row has, and nobody remembers. *)
Names == rows \cup Remembered
NewRow == CHOOSE id \in 1..(Cardinality(Names) + 1) : id \notin Names

(* upsertGitHubWorkflowRunFromWebhookGorm: FirstOrCreate reads the row ... *)
HookRead(h) ==
    /\ request[h] = Idle /\ hooks < MaxHooks /\ hooks' = hooks + 1
    /\ Turn(h, [pc |-> "hook", found |-> rows])
    /\ Overlap
    /\ UNCHANGED <<remoteTag, run, ops, rows, records, worker, manual>>

(* ... and updates it where it still is, or inserts one if there was none. *)
HookWrite(h) ==
    /\ request[h].pc = "hook"
    /\ rows' = IF request[h].found = {} THEN rows \cup {NewRow} ELSE rows
    /\ Turn(h, Idle)
    /\ UNCHANGED <<remoteTag, run, ops, mixed, lone, records, worker, counts>>

-----------------------------------------------------------------------------
(* Control workers *)

At(w, pc) == worker[w].pc = pc
Op(w) == ops[worker[w].i]
Kind(w) == Op(w).kind
Rest(w) == worker' = [worker EXCEPT ![w] = Idle]

Stage(w, pc, ok) ==
    worker' = [worker EXCEPT ![w] = [pc |-> pc, i |-> worker[w].i, ok |-> ok]]
StageFound(w, pc, ok, found) ==
    worker' = [worker EXCEPT ![w] = [pc |-> pc, i |-> worker[w].i, ok |-> ok, found |-> found]]
ToRecord(w, ok, found) == StageFound(w, "record", ok, found)
ToFinish(w, ok, found) == StageFound(w, "finish", ok, found)

SetRun(r, status) == run' = [run EXCEPT ![r] = status]

(* The oldest job; a tag or a lookup puts the run to running, whatever it was. *)
ClaimOldest(w, i) ==
    /\ worker[w] = Idle
    /\ ops[i].job = "queued" /\ \A j \in 1..(i - 1) : ops[j].job # "queued"
    /\ ops' = [ops EXCEPT ![i].op = "running", ![i].job = "running"]
    /\ IF ops[i].kind = "refresh" THEN UNCHANGED run ELSE SetRun(ops[i].run, "running")
    /\ worker' = [worker EXCEPT ![w] = [pc |-> "execute", i |-> i, ok |-> TRUE]]
    /\ UNCHANGED <<remoteTag, actions, records, request, counts>>

(* git push of a tag, which never moves one. *)
PushTag(w) ==
    /\ At(w, "execute") /\ Kind(w) = "tag" /\ ~tagged
    /\ tagged' = TRUE /\ wasTagged' = TRUE
    /\ ToRecord(w, TRUE, TRUE)
    /\ UNCHANGED <<run, ops, actions, records, request, counts>>

(* git ls-remote *)
LookUp(w) ==
    /\ At(w, "execute") /\ Kind(w) = "lookup"
    /\ ToRecord(w, TRUE, tagged)
    /\ UNCHANGED <<remoteTag, run, ops, actions, records, request, counts>>

(* The Actions API is asked for the workflow runs. *)
FetchRuns(w) ==
    /\ At(w, "execute") /\ Kind(w) = "refresh"
    /\ ToRecord(w, TRUE, FALSE)
    /\ UNCHANGED <<remoteTag, run, ops, actions, records, request, counts>>

(* A command or a call fails; a push may have reached the remote. *)
ExecuteFails(w) ==
    /\ At(w, "execute")
    /\ \/ UNCHANGED remoteTag
       \/ Kind(w) = "tag" /\ ~tagged /\ tagged' = TRUE /\ wasTagged' = TRUE
    /\ ToRecord(w, FALSE, FALSE)
    /\ UNCHANGED <<run, ops, actions, records, request, counts>>

(* Mutant: what a lookup found is not looked at. *)
TagThereIgnored(w) == worker[w].ok

TagThere(w) == worker[w].found

(* The tag run is written in a transaction of its own: a tag is followed up *)
(* after that.                                                              *)
RecordTag(w) ==
    /\ At(w, "record") /\ Kind(w) = "tag" /\ worker[w].ok
    /\ SetRun(Op(w).run, "completed") /\ Stage(w, "follow", TRUE)
    /\ UNCHANGED <<remoteTag, ops, actions, records, request, counts>>

RecordLookup(w) ==
    /\ At(w, "record") /\ Kind(w) = "lookup" /\ worker[w].ok
    /\ SetRun(Op(w).run, IF TagThere(w) THEN "completed" ELSE "failed")
    /\ ToFinish(w, TRUE, worker[w].found)
    /\ UNCHANGED <<remoteTag, ops, actions, records, request, counts>>

(* Mutant: the operation is finished before its follow-ups are enqueued. *)
FollowUpLater(w) ==
    /\ At(w, "follow") /\ ToFinish(w, TRUE, FALSE)
    /\ UNCHANGED <<remoteTag, run, ops, actions, records, request, counts>>

(* A lookup and a refresh, each unless the run ever had one. *)
FollowUp(w) ==
    LET r == Op(w).run
        First(kind) == IF OpsOf(kind, r) = {} THEN <<NewOp(kind, r)>> ELSE <<>>
    IN  /\ At(w, "follow")
        /\ ops' = ops \o First("lookup") \o First("refresh")
        /\ ToFinish(w, TRUE, FALSE)
        /\ UNCHANGED <<remoteTag, run, actions, records, request, counts>>

(* A refresh deletes the rows it sees; its transaction is still open. *)
DeleteRows(w) ==
    /\ At(w, "record") /\ Kind(w) = "refresh" /\ worker[w].ok
    /\ worker' = [worker EXCEPT ![w] = [pc |-> "insert", i |-> worker[w].i, ok |-> TRUE, found |-> rows]]
    /\ mixed' = (mixed \/ Writing # {})
    /\ lone' = IF Writing = {} THEN w ELSE NoValue
    /\ UNCHANGED <<remoteTag, run, ops, rows, records, request, counts>>

(* Mutant: the old rows stay. *)
InsertRowsOnly(w) ==
    /\ At(w, "insert")
    /\ rows' = rows \cup {NewRow}
    /\ mixed' = (mixed /\ lone # w)
    /\ ToFinish(w, TRUE, FALSE)
    /\ UNCHANGED <<remoteTag, run, ops, lone, records, request, counts>>

(* It inserts what the API told and commits: rows that others committed      *)
(* meanwhile stay.  The outcome is written in the same transaction, or the   *)
(* next: no difference to the rows.                                          *)
InsertRows(w) ==
    /\ At(w, "insert")
    /\ rows' = (rows \ worker[w].found) \cup {NewRow}
    /\ mixed' = (mixed /\ lone # w)
    /\ ToFinish(w, TRUE, FALSE)
    /\ UNCHANGED <<remoteTag, run, ops, lone, records, request, counts>>

(* A failure fails the run, whatever it is, or deletes the rows there are. *)
RecordFailure(w) ==
    /\ At(w, "record") /\ ~worker[w].ok
    /\ IF Kind(w) = "refresh"
       THEN UNCHANGED run /\ rows' = {} /\ Overlap
       ELSE SetRun(Op(w).run, "failed") /\ UNCHANGED actions
    /\ ToFinish(w, FALSE, FALSE)
    /\ UNCHANGED <<remoteTag, ops, records, request, counts>>

(* The transaction around a success fails, with what a refresh wrote in it:  *)
(* the operation is recorded as a failure.                                   *)
RecordFails(w) ==
    /\ worker[w].pc \in {"record", "follow", "insert", "finish"} /\ worker[w].ok
    /\ At(w, "finish") => Kind(w) # "refresh"
    /\ ToRecord(w, FALSE, FALSE)
    /\ UNCHANGED <<remoteTag, run, ops, actions, records, request, counts>>

Finish(w) ==
    /\ At(w, "finish")
    /\ LET status == IF worker[w].ok THEN "completed" ELSE "failed" IN
       ops' = [ops EXCEPT ![worker[w].i].op = status, ![worker[w].i].job = status,
                            ![worker[w].i].found = worker[w].found]
    /\ Rest(w)
    /\ UNCHANGED <<remoteTag, run, actions, records, request, counts>>

WorkerStops(w) ==
    /\ worker[w] # Idle /\ Rest(w)
    /\ UNCHANGED <<remoteTag, run, ops, actions, records, request, counts>>

(* Mutant: the run a lookup had put to running is left. *)
TimeOutTagOnly(i) ==
    /\ ops[i].job = "running"
    /\ ops' = [ops EXCEPT ![i].op = "failed", ![i].job = "failed"]
    /\ IF ops[i].kind = "tag" /\ run[ops[i].run] \in Active
       THEN SetRun(ops[i].run, "failed") ELSE UNCHANGED run
    /\ UNCHANGED <<remoteTag, actions, records, request, worker, counts>>

(* The sweep of stale jobs fails a run that is still active. *)
TimeOut(i) ==
    /\ ops[i].job = "running"
    /\ ops' = [ops EXCEPT ![i].op = "failed", ![i].job = "failed"]
    /\ IF ops[i].kind # "refresh" /\ run[ops[i].run] \in Active
       THEN SetRun(ops[i].run, "failed") ELSE UNCHANGED run
    /\ UNCHANGED <<remoteTag, actions, records, request, worker, counts>>

-----------------------------------------------------------------------------
(* What pages and snapshots tell *)

TagObserved(r) == run[r] = "completed"
TagFailed(r) == run[r] = "failed"

(* annotateRepoTagRunOperationsGorm: a page looks at the newest one. *)
Newest(kind, r) ==
    LET all == OpsOf(kind, r) IN
    IF all = {} THEN [op |-> NoValue, found |-> FALSE]
    ELSE ops[CHOOSE i \in all : \A j \in all : j <= i]

(* A snapshot looks at none. *)
Unknown == [op |-> NoValue, found |-> FALSE]

LookupPerformed(lookup) == lookup.op = "completed"

LookupFailed(lookup) == lookup.op = "failed" \/ (LookupPerformed(lookup) /\ ~lookup.found)
LookupObserved(lookup) == LookupPerformed(lookup) /\ ~LookupFailed(lookup)

(* repoTagRemoteRehearsalPlan: the last line that applies wins. *)
RehearsalState(r, lookup) ==
    IF LookupObserved(lookup) THEN "observed"
    ELSE IF lookup.op \in Active THEN "running"
    ELSE IF LookupFailed(lookup) THEN "failed"
    ELSE IF TagObserved(r) THEN "observed"
    ELSE IF TagFailed(r) THEN "failed"
    ELSE "planned"

(* repoTagLiveRemoteLookupPreflight *)
LookupState(r, lookup) ==
    IF LookupFailed(lookup) THEN "failed"
    ELSE IF LookupObserved(lookup) THEN "observed"
    ELSE IF TagFailed(r) THEN "failed"
    ELSE IF TagObserved(r) THEN "observed"
    ELSE IF lookup.op \in Active THEN "running"
    ELSE "planned"

(* repoTagLiveResultPlan *)
LiveResultState(r, rehearsal) ==
    IF TagFailed(r) THEN "failed" ELSE IF rehearsal = "observed" THEN "planned" ELSE "blocked"

(* repoTagActionsRefreshPlan: a refresh that completed lists the one         *)
(* workflow run.                                                             *)
RefreshState(r, rehearsal, refresh) ==
    IF refresh.op \in {"failed", "canceled"} THEN "failed"
    ELSE IF TagFailed(r) THEN "failed"
    ELSE IF refresh.op = "completed" THEN "recorded"
    ELSE IF refresh.op \in Active THEN "running"
    ELSE IF rehearsal = "observed" THEN "planned"
    ELSE "blocked"

(* repoTagRemoteResultEvidence *)
ResultEvidence(r) ==
    IF TagObserved(r) THEN "recorded" ELSE IF TagFailed(r) THEN "failed" ELSE "waiting"

(* repoTagRemoteRehearsalResultRecordingPlan: only an outcome is ready. *)
ResultReady(evidence) == evidence \in {"recorded", "failed"}

(* repoTagRunResultSnapshotPayload *)
ResultRecord(r) ==
    LET rehearsal == RehearsalState(r, Unknown) IN
    [kind |-> "result", run |-> r, state |-> ResultEvidence(r),
     ready |-> ResultReady(ResultEvidence(r)), rehearsal |-> rehearsal,
     lookup |-> LookupState(r, Unknown), live |-> LiveResultState(r, rehearsal),
     refresh |-> RefreshState(r, rehearsal, Unknown)]

(* repoTagRunActionsRefreshEvidence: every row there is has been synced. *)
RefreshEvidence == Cardinality(rows)

(* repoTagRunActionsRefreshSnapshotPayload *)
RefreshReady(r) == TagObserved(r) /\ RefreshEvidence > 0
ActionsRecord(r) == [kind |-> "actions", run |-> r, state |-> "recorded", total |-> RefreshEvidence]

Known(record) == records # <<>> /\ records[Len(records)] = record

(* recordAssetStatusSnapshotIfChanged: the newest snapshot is compared, and  *)
(* nothing locked.  Without the asset of the run nothing is recorded.        *)
RecordIfChanged(h, record) ==
    /\ request[h] = Idle /\ Len(records) < MaxRecords
    /\ ~Known(record)
    /\ Turn(h, [pc |-> "snapshot", record |-> record])
    /\ UNCHANGED <<remoteTag, run, ops, actions, records, worker, counts>>

(* The result is recorded whatever it is. *)
RecordRepoTagRunResultSnapshot(h, r) == run[r] # NoValue /\ RecordIfChanged(h, ResultRecord(r))

RecordRepoTagRunActionsRefreshSnapshot(h, r) == RefreshReady(r) /\ RecordIfChanged(h, ActionsRecord(r))

InsertRecord(h) ==
    /\ request[h].pc = "snapshot"
    /\ records' = Append(records, request[h].record)
    /\ Turn(h, Idle)
    /\ UNCHANGED <<remoteTag, run, ops, actions, worker, counts>>

-----------------------------------------------------------------------------
Serve(h) ==
    \/ \E kind \in {"lookup", "refresh"}, r \in Runs : Ask(h, kind, r)
    \/ Enqueue(h) \/ DropRequest(h) \/ HookRead(h) \/ HookWrite(h)
    \/ \E r \in Runs : RecordRepoTagRunResultSnapshot(h, r) \/ RecordRepoTagRunActionsRefreshSnapshot(h, r)
    \/ InsertRecord(h)

Work(w) ==
    \/ \E i \in DOMAIN ops : ClaimOldest(w, i)
    \/ PushTag(w) \/ LookUp(w) \/ FetchRuns(w) \/ ExecuteFails(w)
    \/ RecordTag(w) \/ FollowUp(w) \/ RecordLookup(w)
    \/ DeleteRows(w) \/ InsertRows(w)
    \/ RecordFailure(w) \/ RecordFails(w) \/ Finish(w) \/ WorkerStops(w)

TagNext ==
    \/ TagElsewhere
    \/ \E r \in Runs : CreateTag(r)
    \/ \E h \in Callers : Serve(h)
    \/ \E w \in Workers : Work(w)
    \/ \E i \in DOMAIN ops : Cancel(i) \/ TimeOut(i)

TagSpec == TagInit /\ [][TagNext]_tagVars

-----------------------------------------------------------------------------
(* Properties *)

(* A run is completed, or shown as observed on a page, or recorded in a     *)
(* snapshot as recorded, only if its tag was on the remote at some time:    *)
(* answers that come late, lookups of a run that failed or still waits and  *)
(* a cancel of what runs do not change that.                                *)
ShownTagWasThere ==
    (\/ \E r \in Runs : TagObserved(r) \/ RehearsalState(r, Newest("lookup", r)) = "observed"
     \/ \E i \in DOMAIN records : records[i].state = "recorded") => wasTagged

(* A lookup puts even a completed run back to running; whatever fails then, *)
(* no run shows "running" without a job that the sweep can time out.        *)
RunningHasAJob ==
    \A r \in Runs : run[r] = "running" =>
        \E i \in DOMAIN ops :
            ops[i].run = r /\ ops[i].kind \in {"tag", "lookup"} /\ ops[i].job = "running"

(* Behind a tag operation that completed there is a lookup and a refresh:   *)
(* they are enqueued in a transaction of their own, which may fail.         *)
FollowedUp ==
    \A i \in DOMAIN ops : ops[i].kind = "tag" /\ ops[i].op = "completed" =>
        \A kind \in {"lookup", "refresh"} : OpsOf(kind, ops[i].run) # {}

(* A workflow run has one row, unless writers of rows overlapped since the  *)
(* last refresh that nobody disturbed: no index keeps its rows apart.       *)
OneRowUnlessMixed == ~mixed => Cardinality(rows) <= 1
=============================================================================
