------------------------------ MODULE RepoSync ------------------------------
(***************************************************************************)
(* Mirroring a repository.  A Git host reports each push to the source     *)
(* remote in a webhook delivery, which it may repeat; the gateway starts   *)
(* a repo sync run for every sync asset that listens.  Operators start     *)
(* runs too, replay recorded events, refresh the recorded refs of a target *)
(* and edit, archive and restore the assets.  Control workers fetch from   *)
(* the source, push to the target and record the outcome in the run, the   *)
(* asset and the target remote.                                            *)
(*                                                                         *)
(* Each target has one sync asset, and one branch whose versions are       *)
(* numbered; delivery d reports the push of version d.  The jobs follow    *)
(* module WorkQueue, reduced to what the rows written here depend on.      *)
(***************************************************************************)
EXTENDS Integers, Sequences, FiniteSets

CONSTANTS
    Targets,     \* target remotes, each with its sync asset
    Handlers,    \* requests the gateway serves at the same time
    Workers,     \* control worker processes
    NoId,        \* the deliveries that carry no id
    MaxPushes,   \* bound on the pushes to the source
    MaxManual    \* bound on the jobs operators start

ASSUME BoundAssumption == MaxPushes \in Nat /\ MaxManual \in Nat
ASSUME ActorAssumption == IsFiniteSet(Targets) /\ IsFiniteSet(Handlers) /\ IsFiniteSet(Workers)

VARIABLES
    pushed,    \* the source's newest version
    mirror,    \* the version each target has
    latest,    \* git_remotes.latest_sha of the target
    remote,    \* git_remotes.last_sync_status of the target
    asset,     \* repo_sync_assets
    jobs,      \* worker_jobs with their repo_sync_runs, in order of creation
    seen,      \* deliveries with a verified webhook event
    request,   \* what each handler is at
    worker,    \* what each worker is at
    manual     \* jobs operators started so far

repository == <<pushed, mirror>>
records == <<latest, remote>>
vars == <<repository, records, asset, jobs, seen, request, worker, manual>>

Deliveries == 1..MaxPushes
Versions == 0..MaxPushes
Active == {"queued", "running"}
Outcomes == {"completed", "failed"}
AssetStatuses == {"never"} \cup Active \cup Outcomes

NoAsset == [exists |-> FALSE, enabled |-> FALSE, archived |-> FALSE,
            hooked |-> FALSE, status |-> "never"]

(* kind: "delivery" and "manual" jobs sync, of them those that are linked   *)
(* report to the asset; a "refresh" has no run.  due is the version the     *)
(* source had when the job was asked for.                                   *)
Jobs == [kind : {"delivery", "manual", "refresh"}, target : Targets, linked : BOOLEAN,
         due : Versions, job : Active \cup Outcomes \cup {"canceled"},
         run : Active \cup Outcomes]

Idle == [pc |-> "idle"]
Requests == {Idle}
    \cup [pc : {"select"}, delivery : Deliveries, replay : BOOLEAN]
    \cup [pc : {"write"}, delivery : Deliveries, replay : BOOLEAN, chosen : SUBSET Targets]
    \cup [pc : {"update"}, target : Targets]

Stages == [stage : {"fetch", "push", "record", "finish"}, job : 1..Len(jobs),
           version : Versions, ok : BOOLEAN]

TypeOK ==
    /\ pushed \in Versions /\ mirror \in [Targets -> Versions]
    /\ latest \in [Targets -> Versions]
    /\ remote \in [Targets -> {"never", "running"} \cup Outcomes]
    /\ asset \in [Targets -> [exists : BOOLEAN, enabled : BOOLEAN, archived : BOOLEAN,
                              hooked : BOOLEAN, status : AssetStatuses]]
    /\ jobs \in Seq(Jobs)
    /\ seen \subseteq Deliveries
    /\ request \in [Handlers -> Requests]
    /\ worker \in [Workers -> Stages \cup {Idle}]
    /\ manual \in 0..MaxManual

Init ==
    /\ pushed = 0 /\ mirror = [t \in Targets |-> 0]
    /\ latest = [t \in Targets |-> 0] /\ remote = [t \in Targets |-> "never"]
    /\ asset = [t \in Targets |-> NoAsset]
    /\ jobs = <<>> /\ seen = {} /\ manual = 0
    /\ request = [h \in Handlers |-> Idle] /\ worker = [w \in Workers |-> Idle]

-----------------------------------------------------------------------------
(* The source *)

Push ==
    /\ pushed < MaxPushes /\ pushed' = pushed + 1
    /\ UNCHANGED <<mirror, records, asset, jobs, seen, request, worker, manual>>

-----------------------------------------------------------------------------
(* Enqueueing *)

NewJob(kind, t, linked, due) ==
    [kind |-> kind, target |-> t, linked |-> linked, due |-> due,
     job |-> "queued", run |-> "queued"]

(* Jobs for these targets, in some order. *)
Orders(targets) ==
    {s \in [1..Cardinality(targets) -> targets] : \A i, j \in DOMAIN s : s[i] = s[j] => i = j}

EnqueueRuns(kind, targets, due) ==
    /\ \E s \in Orders(targets) :
          jobs' = jobs \o [i \in DOMAIN s |-> NewJob(kind, s[i], TRUE, due)]
    /\ asset' = [t \in Targets |->
          IF t \in targets THEN [asset[t] EXCEPT !.status = "queued"] ELSE asset[t]]

(* runRepoSyncAsset and rerunRepoSyncRun hold the asset while they decide. *)
Runnable(t) == asset[t].exists /\ asset[t].enabled /\ ~asset[t].archived

Manual == manual < MaxManual /\ manual' = manual + 1

RunAsset(t) ==
    /\ Manual /\ Runnable(t)
    /\ EnqueueRuns("manual", {t}, pushed)
    /\ UNCHANGED <<repository, records, seen, request, worker>>

(* A rerun takes the remotes and the refs of an earlier run of the asset. *)
RerunAsset(t) ==
    /\ Manual /\ Runnable(t)
    /\ \E i \in DOMAIN jobs : jobs[i].target = t /\ jobs[i].linked
    /\ EnqueueRuns("manual", {t}, pushed)
    /\ UNCHANGED <<repository, records, seen, request, worker>>

(* A sync of the repository, or of a remote, reports to no asset. *)
SyncRepository(t) ==
    /\ Manual
    /\ jobs' = Append(jobs, NewJob("manual", t, FALSE, pushed))
    /\ UNCHANGED <<repository, records, asset, seen, request, worker>>

RefreshRefs(t) ==
    /\ Manual
    /\ jobs' = Append(jobs, NewJob("refresh", t, FALSE, 0))
    /\ UNCHANGED <<repository, records, asset, seen, request, worker>>

(* cancelOperation: a job that waits is canceled, its run row is not touched. *)
CancelJob(i) ==
    /\ jobs[i].job = "queued"
    /\ jobs' = [jobs EXCEPT ![i].job = "canceled"]
    /\ UNCHANGED <<repository, records, asset, seen, request, worker, manual>>

-----------------------------------------------------------------------------
(* Webhook deliveries *)

Goto(h, r) == request' = [request EXCEPT ![h] = r]
Others == <<repository, records, worker, manual>>

(* Mutant: the check for an earlier delivery is gone. *)
ReceiveAgain(h, d) ==
    /\ request[h] = Idle /\ d <= pushed
    /\ Goto(h, [pc |-> "select", delivery |-> d, replay |-> FALSE])
    /\ UNCHANGED <<Others, asset, jobs, seen>>

(* A delivery with a valid signature; one whose id was recorded before is   *)
(* answered as a duplicate and changes nothing.  Without an id there is     *)
(* nothing to look for.                                                     *)
Receive(h, d) ==
    /\ request[h] = Idle /\ d <= pushed
    /\ d \notin seen \/ d \in NoId
    /\ Goto(h, [pc |-> "select", delivery |-> d, replay |-> FALSE])
    /\ UNCHANGED <<Others, asset, jobs, seen>>

(* An operator replays a verified event, whatever became of it. *)
Replay(h, d) ==
    /\ request[h] = Idle /\ d \in seen /\ Manual
    /\ Goto(h, [pc |-> "select", delivery |-> d, replay |-> TRUE])
    /\ UNCHANGED <<repository, records, worker, asset, jobs, seen>>

Listens(t) == Runnable(t) /\ asset[t].hooked

(* The transaction reads the assets that listen to the branch, unlocked. *)
SelectAssets(h) ==
    /\ request[h].pc = "select"
    /\ Goto(h, [pc |-> "write", delivery |-> request[h].delivery,
                replay |-> request[h].replay, chosen |-> {t \in Targets : Listens(t)}])
    /\ UNCHANGED <<Others, asset, jobs, seen>>

(* The event of a replay does not count as verified. *)
Recorded(h) ==
    seen' = IF request[h].replay THEN seen ELSE seen \cup {request[h].delivery}

(* The runs, the assets and the event are committed together; no asset that *)
(* listens gives an event that is ignored.                                  *)
StartRuns(h) ==
    /\ request[h].pc = "write"
    /\ EnqueueRuns(IF request[h].replay THEN "manual" ELSE "delivery",
                   request[h].chosen, request[h].delivery)
    /\ Recorded(h) /\ Goto(h, Idle)
    /\ UNCHANGED Others

(* The transaction fails and only an event "failed" is recorded. *)
StartFails(h) ==
    /\ request[h].pc \in {"select", "write"}
    /\ Recorded(h) /\ Goto(h, Idle)
    /\ UNCHANGED <<Others, asset, jobs>>

(* Nothing is recorded: the host is told of an error and may try again. *)
DropRequest(h) ==
    /\ request[h] # Idle /\ Goto(h, Idle)
    /\ UNCHANGED <<Others, asset, jobs, seen>>

-----------------------------------------------------------------------------
(* The sync assets *)

Edit(t, row) ==
    /\ asset' = [asset EXCEPT ![t] = row]
    /\ UNCHANGED <<Others, jobs, seen>>

(* An asset is enabled when it is created: the column's default replaces a *)
(* false the request may ask for.                                          *)
CreateAsset(t) ==
    /\ ~asset[t].exists
    /\ \E hooked \in BOOLEAN :
          Edit(t, [NoAsset EXCEPT !.exists = TRUE, !.enabled = TRUE, !.hooked = hooked])
    /\ UNCHANGED request

(* updateRepoSyncAsset looks once, and once more when it holds the row. *)
BeginUpdate(h, t) ==
    /\ request[h] = Idle /\ asset[t].exists /\ ~asset[t].archived
    /\ Goto(h, [pc |-> "update", target |-> t])
    /\ UNCHANGED <<Others, asset, jobs, seen>>

EndUpdate(h) ==
    /\ request[h].pc = "update" /\ Goto(h, Idle)
    /\ LET t == request[h].target IN
       /\ ~asset[t].archived
       /\ \E enabled, hooked \in BOOLEAN :
             Edit(t, [asset[t] EXCEPT !.enabled = enabled, !.hooked = hooked])

ArchiveAsset(t) ==
    /\ asset[t].exists
    /\ Edit(t, [asset[t] EXCEPT !.enabled = FALSE, !.archived = TRUE])
    /\ UNCHANGED request

RestoreAsset(t) ==
    /\ asset[t].exists
    /\ Edit(t, [asset[t] EXCEPT !.enabled = TRUE, !.archived = FALSE])
    /\ UNCHANGED request

-----------------------------------------------------------------------------
(* Control workers *)

Syncs(i) == jobs[i].kind # "refresh"

(* What is written in the asset a run reports to. *)
Report(i, status) ==
    asset' = IF Syncs(i) /\ jobs[i].linked
             THEN [asset EXCEPT ![jobs[i].target].status = status] ELSE asset

At(w, stage) == worker[w] # Idle /\ worker[w].stage = stage
Step(w, stage, version, ok) ==
    worker' = [worker EXCEPT ![w] = [stage |-> stage, job |-> worker[w].job,
                                     version |-> version, ok |-> ok]]
Rest(w) == worker' = [worker EXCEPT ![w] = Idle]

(* The oldest job that waits; markAdapterRunning writes the run and its      *)
(* asset, or the remote whose refs are refreshed.                            *)
Claim(w, i) ==
    /\ worker[w] = Idle
    /\ jobs[i].job = "queued" /\ \A j \in 1..(i - 1) : jobs[j].job # "queued"
    /\ jobs' = [jobs EXCEPT ![i].job = "running",
                            ![i].run = IF Syncs(i) THEN "running" ELSE @]
    /\ Report(i, "running")
    /\ remote' = [remote EXCEPT ![jobs[i].target] = IF Syncs(i) THEN @ ELSE "running"]
    /\ worker' = [worker EXCEPT ![w] = [stage |-> "fetch", job |-> i,
                                        version |-> 0, ok |-> TRUE]]
    /\ UNCHANGED <<repository, latest, seen, request, manual>>

AdapterStep == UNCHANGED <<pushed, records, asset, jobs, seen, request, manual>>

(* git fetch: of the source, or of the target whose refs are refreshed. *)
Fetch(w) ==
    /\ At(w, "fetch")
    /\ LET i == worker[w].job IN
       IF Syncs(i) THEN Step(w, "push", pushed, TRUE)
       ELSE Step(w, "record", mirror[jobs[i].target], TRUE)
    /\ AdapterStep /\ UNCHANGED mirror

(* Mutant: git push --force. *)
PushForced(w) ==
    /\ At(w, "push")
    /\ mirror' = [mirror EXCEPT ![jobs[worker[w].job].target] = worker[w].version]
    /\ Step(w, "record", worker[w].version, TRUE)
    /\ AdapterStep

(* git push without --force: the target never goes back. *)
PushTarget(w) ==
    /\ At(w, "push")
    /\ LET t == jobs[worker[w].job].target
           version == worker[w].version
       IN  /\ version >= mirror[t]
           /\ mirror' = [mirror EXCEPT ![t] = version]
           /\ Step(w, "record", version, TRUE)
    /\ AdapterStep

(* A command fails: no network, no such branch, a push that would go back. *)
CommandFails(w) ==
    /\ At(w, "fetch") \/ At(w, "push")
    /\ Step(w, "record", 0, FALSE)
    /\ AdapterStep /\ UNCHANGED mirror

Outcome(w) == IF worker[w].ok THEN "completed" ELSE "failed"

(* updateRepoSyncRunGorm and updateOperationRemoteSyncStatusGorm, whatever   *)
(* the job has become meanwhile.                                             *)
RecordRows(w) ==
    LET i == worker[w].job
        t == jobs[i].target
    IN  /\ At(w, "record")
        /\ jobs' = [jobs EXCEPT ![i].run = IF Syncs(i) THEN Outcome(w) ELSE @]
        /\ Report(i, Outcome(w))
        /\ remote' = [remote EXCEPT ![t] = Outcome(w)]
        /\ latest' = [latest EXCEPT ![t] = IF worker[w].ok THEN worker[w].version ELSE @]
        /\ UNCHANGED <<repository, seen, request, manual>>

Record(w) == RecordRows(w) /\ Step(w, "finish", 0, worker[w].ok)

(* The rows are committed and the transaction around them fails: the outcome *)
(* is recorded once more, as a failure.                                      *)
RecordThenFail(w) == worker[w] # Idle /\ worker[w].ok /\ RecordRows(w) /\ Step(w, "record", 0, FALSE)

(* markWorkerOperationFinished *)
Finish(w) ==
    /\ At(w, "finish")
    /\ jobs' = [jobs EXCEPT ![worker[w].job].job = Outcome(w)]
    /\ Rest(w)
    /\ UNCHANGED <<repository, records, asset, seen, request, manual>>

(* The process stops, or cannot write to the database. *)
Crash(w) ==
    /\ worker[w] # Idle /\ Rest(w)
    /\ UNCHANGED <<repository, records, asset, jobs, seen, request, manual>>

(* Mutant: the asset of a run that timed out is forgotten. *)
TimeOutRunOnly(i) ==
    /\ jobs[i].job = "running"
    /\ jobs' = [jobs EXCEPT ![i].job = "failed",
                            ![i].run = IF Syncs(i) /\ @ \in Active THEN "failed" ELSE @]
    /\ UNCHANGED <<repository, records, asset, seen, request, worker, manual>>

(* The sweep of stale jobs fails the run that is still active, its asset and *)
(* its target; the remote of a refresh is left as it is.                     *)
TimeOut(i) ==
    /\ jobs[i].job = "running"
    /\ LET active == Syncs(i) /\ jobs[i].run \in Active
           t == jobs[i].target
       IN  /\ jobs' = [jobs EXCEPT ![i].job = "failed",
                                   ![i].run = IF active THEN "failed" ELSE @]
           /\ IF active THEN Report(i, "failed") ELSE UNCHANGED asset
           /\ remote' = [remote EXCEPT ![t] = IF active THEN "failed" ELSE @]
    /\ UNCHANGED <<repository, latest, seen, request, worker, manual>>

-----------------------------------------------------------------------------
Operator(t) ==
    \/ RunAsset(t) \/ RerunAsset(t) \/ SyncRepository(t) \/ RefreshRefs(t)
    \/ CreateAsset(t) \/ ArchiveAsset(t) \/ RestoreAsset(t)

Serve(h) ==
    \/ \E d \in Deliveries : Receive(h, d) \/ Replay(h, d)
    \/ SelectAssets(h) \/ StartRuns(h) \/ StartFails(h) \/ DropRequest(h)
    \/ \E t \in Targets : BeginUpdate(h, t)
    \/ EndUpdate(h)

Work(w) ==
    \/ \E i \in DOMAIN jobs : Claim(w, i)
    \/ Fetch(w) \/ PushTarget(w) \/ CommandFails(w)
    \/ Record(w) \/ RecordThenFail(w) \/ Finish(w) \/ Crash(w)

Next ==
    \/ Push
    \/ \E t \in Targets : Operator(t)
    \/ \E h \in Handlers : Serve(h)
    \/ \E w \in Workers : Work(w)
    \/ \E i \in DOMAIN jobs : CancelJob(i) \/ TimeOut(i)

Spec == Init /\ [][Next]_vars

-----------------------------------------------------------------------------
(* Properties *)

RunsOf(d, t) ==
    {i \in DOMAIN jobs : jobs[i].kind = "delivery" /\ jobs[i].due = d /\ jobs[i].target = t}

(* However often a host repeats a delivery that has an id, it starts no     *)
(* more runs of an asset than the gateway serves requests at once: the      *)
(* check for an earlier delivery holds no lock, so only requests that       *)
(* overlap the first get by.                                                *)
DeliveryStartsFewRuns ==
    \A d \in Deliveries \ NoId, t \in Targets : Cardinality(RunsOf(d, t)) <= Cardinality(Handlers)

(* A run that is recorded as completed brought the target the push it was   *)
(* started for, and the recorded SHA of a target is one it really had: late *)
(* answers, two workers and repeated records do not change that.            *)
RecordsAreTrue ==
    \A t \in Targets :
        /\ latest[t] <= mirror[t]
        /\ \A i \in DOMAIN jobs :
              jobs[i].target = t /\ Syncs(i) /\ jobs[i].run = "completed"
                  => jobs[i].due <= mirror[t]

LinkedRuns(t) == {i \in DOMAIN jobs : jobs[i].target = t /\ jobs[i].linked}

(* An asset shows the status of one of its runs, "queued" and "running" only *)
(* while such a run is left; a target shows "running" only while a refresh   *)
(* runs or after one that timed out.                                         *)
StatusesHaveARun ==
    \A t \in Targets :
        /\ asset[t].status # "never" =>
              \E i \in LinkedRuns(t) : jobs[i].run = asset[t].status
        /\ remote[t] = "running" =>
              \E i \in DOMAIN jobs : /\ ~Syncs(i) /\ jobs[i].target = t
                                     /\ jobs[i].job \in {"running", "failed"}

=============================================================================
