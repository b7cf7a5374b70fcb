----------------------------- MODULE AgentTasks -----------------------------
(***************************************************************************)
(* An agent task: its plans, the executions of an approved plan by workers *)
(* with the audit rows of their tool calls, the AI runtimes, and the       *)
(* snapshots that record on the task's asset what the audit rows show.     *)
(*                                                                         *)
(* There is one task.  The six tool calls of an execution are written      *)
(* together, so an execution has one status for them.                      *)
(***************************************************************************)
EXTENDS Integers, Sequences, FiniteSets

CONSTANTS
    Handlers,  \* requests the gateway serves at the same time
    Workers,   \* control worker processes
    Window,    \* how many of the newest executions a snapshot looks at
    MaxPlans,  \* bound on the plans
    MaxOps,    \* bound on the executions
    MaxRows    \* bound on the snapshots

ASSUME BoundAssumption == MaxPlans \in Nat /\ MaxOps \in Nat /\ MaxRows \in Nat
ASSUME WindowAssumption == Window \in Nat \ {0}
ASSUME HandlersAssumption == "none" \notin Handlers

VARIABLES
    plans,     \* agent_plans.status, in order of creation
    task,      \* agent_tasks.status
    ops,       \* agent.execute operations with their job and tool calls, in order
    runtimes,  \* the status of the AI runtime of the project and of the global one
    asset,     \* the task has an asset
    rows,      \* the snapshots of the asset, in order
    lock,      \* the request that holds the row of the task
    request,   \* what each handler is at
    worker     \* what each worker is at

snapshots == <<asset, rows>>
vars == <<plans, task, ops, runtimes, snapshots, lock, request, worker>>

Active == {"queued", "running"}
Outcomes == {"completed", "failed"}
Statuses == Active \cup Outcomes \cup {"canceled"}
None == "none"
Scopes == {"project", "global"}
Families == {"audit", "arming", "code"}

Ops == [plan : 1..MaxPlans, op : Statuses, job : Statuses, calls : Active \cup Outcomes]
Evidence == [task : {"draft", "queued", "running", "executed", "failed"},
             active : 0..MaxOps, completed : 0..MaxOps, failed : 0..MaxOps]

(* What a snapshot holds: what was read, and the plans it shows as ready.    *)
Rows == [family : Families, seen : Evidence, shows : SUBSET {"result", "arming", "review"}]

Idle == [pc |-> "idle"]
Requests == {Idle}
    \cup [pc : {"approve", "execute"}, plan : 1..MaxPlans]
    \cup [pc : {"compare"}, family : Families, seen : Evidence]
    \cup [pc : {"insert"}, row : Rows]
Stages == {Idle} \cup [pc : {"execute", "calls", "task", "finish"}, i : 1..MaxOps, ok : BOOLEAN]

TypeOK ==
    /\ plans \in Seq({"generated", "approved"}) /\ Len(plans) <= MaxPlans
    /\ task \in {"draft", "queued", "running", "executed", "failed"}
    /\ ops \in Seq(Ops) /\ Len(ops) <= MaxOps
    /\ runtimes \in [Scopes -> {None, "unknown", "verified"}]
    /\ asset \in BOOLEAN
    /\ rows \in Seq(Rows)
    /\ lock \in Handlers \cup {None}
    /\ request \in [Handlers -> Requests] /\ worker \in [Workers -> Stages]

Init ==
    /\ plans = <<>> /\ task = "draft" /\ ops = <<>>
    /\ runtimes = [s \in Scopes |-> None]
    /\ asset = FALSE /\ rows = <<>>
    /\ lock = None
    /\ request = [h \in Handlers |-> Idle] /\ worker = [w \in Workers |-> Idle]

Goto(h, r) == request' = [request EXCEPT ![h] = r]

-----------------------------------------------------------------------------
(* Plans *)

GeneratePlan ==
    /\ Len(plans) < MaxPlans
    /\ plans' = Append(plans, "generated")
    /\ UNCHANGED <<task, ops, runtimes, snapshots, lock, request, worker>>

(* approvePlan is told no plan: it reads the newest ... *)
ReadPlan(h) ==
    /\ request[h] = Idle /\ plans # <<>>
    /\ Goto(h, [pc |-> "approve", plan |-> Len(plans)])
    /\ UNCHANGED <<plans, task, ops, runtimes, snapshots, lock, worker>>

(* ... and saves it, the newest or not. *)
SavePlan(h) ==
    /\ request[h].pc = "approve"
    /\ plans' = [plans EXCEPT ![request[h].plan] = "approved"]
    /\ Goto(h, Idle)
    /\ UNCHANGED <<task, ops, runtimes, snapshots, lock, worker>>

-----------------------------------------------------------------------------
(* Executions *)

(* Mutant: the row of the task is read without a lock. *)
LockTaskUnlocked(h) == UNCHANGED lock

LockTask(h) == lock = None /\ lock' = h

NewestApproved == plans # <<>> /\ plans[Len(plans)] = "approved"

(* enqueueAgentTaskExecutionGorm, from a request or an approval: the newest  *)
(* plan must be approved.                                                    *)
BeginExecution(h) ==
    /\ request[h] = Idle
    /\ LockTask(h) /\ NewestApproved
    /\ Goto(h, [pc |-> "execute", plan |-> Len(plans)])
    /\ UNCHANGED <<plans, task, ops, runtimes, snapshots, worker>>

Unlock(h) == lock' = IF lock = h THEN None ELSE lock

(* The operation and the audit rows of its tool calls. *)
Execution(p) == [plan |-> p, op |-> "queued", job |-> "queued", calls |-> "queued"]

EnqueueExecution(h) ==
    /\ request[h].pc = "execute" /\ Len(ops) < MaxOps
    /\ ops' = Append(ops, Execution(request[h].plan))
    /\ task' = "queued"
    /\ Unlock(h) /\ Goto(h, Idle)
    /\ UNCHANGED <<plans, runtimes, snapshots, worker>>

(* The transaction of a request fails and is rolled back, or a snapshot is   *)
(* not recorded.                                                             *)
RequestFails(h) ==
    /\ request[h] # Idle
    /\ Unlock(h) /\ Goto(h, Idle)
    /\ UNCHANGED <<plans, task, ops, runtimes, snapshots, worker>>

(* The tool calls and the task are not told. *)
Cancel(i) ==
    /\ ops[i].op \in Active
    /\ ops' = [ops EXCEPT ![i].op = "canceled",
                          ![i].job = IF @ = "queued" THEN "canceled" ELSE @]
    /\ UNCHANGED <<plans, task, runtimes, snapshots, lock, request, worker>>

-----------------------------------------------------------------------------
(* Control workers *)

At(w, pc) == worker[w].pc = pc
Rest(w) == worker' = [worker EXCEPT ![w] = Idle]
Stage(w, pc, ok) ==
    worker' = [worker EXCEPT ![w] = [pc |-> pc, i |-> worker[w].i, ok |-> ok]]

(* The transaction of the claim marks the calls and the task. *)
Claim(w, i) ==
    /\ worker[w] = Idle
    /\ ops[i].job = "queued" /\ \A j \in 1..(i - 1) : ops[j].job # "queued"
    /\ ops' = [ops EXCEPT ![i].op = "running", ![i].job = "running",
                          ![i].calls = IF @ = "queued" THEN "running" ELSE @]
    /\ task' = IF task = "queued" THEN "running" ELSE task
    /\ worker' = [worker EXCEPT ![w] = [pc |-> "execute", i |-> i, ok |-> TRUE]]
    /\ UNCHANGED <<plans, runtimes, snapshots, lock, request>>

(* executeAgentTaskAudit reads the calls, and may fail at it. *)
Execute(w) ==
    /\ At(w, "execute")
    /\ \E ok \in BOOLEAN : Stage(w, "calls", ok)
    /\ UNCHANGED <<plans, task, ops, runtimes, snapshots, lock, request>>

(* Mutant: the calls are written whatever their status. *)
SettledAgain(calls, ok) == IF ok THEN "completed" ELSE "failed"

Settled(calls, ok) ==
    IF calls \in Active THEN (IF ok THEN "completed" ELSE "failed") ELSE calls

(* recordAdapterSuccess and recordAdapterFailure: both write the calls ...   *)
RecordCalls(w) ==
    /\ At(w, "calls")
    /\ ops' = [ops EXCEPT ![worker[w].i].calls = Settled(@, worker[w].ok)]
    /\ Stage(w, "task", worker[w].ok)
    /\ UNCHANGED <<plans, task, runtimes, snapshots, lock, request>>

(* ... and then the task, outside of the transaction around them. *)
RecordTask(w) ==
    /\ At(w, "task")
    /\ task' = IF task \notin Active THEN task ELSE IF worker[w].ok THEN "executed" ELSE "failed"
    /\ Stage(w, "finish", worker[w].ok)
    /\ UNCHANGED <<plans, ops, runtimes, snapshots, lock, request>>

(* Mutant: the failure is recorded for the operation only. *)
RecordFailsOperation(w) ==
    /\ worker[w].pc \in {"calls", "task", "finish"} /\ worker[w].ok
    /\ Stage(w, "finish", FALSE)
    /\ UNCHANGED <<plans, task, ops, runtimes, snapshots, lock, request>>

(* An error while a success is recorded: what is written stays, and the      *)
(* operation is recorded as a failure.                                       *)
RecordFails(w) ==
    /\ worker[w].pc \in {"calls", "task", "finish"} /\ worker[w].ok
    /\ Stage(w, "calls", FALSE)
    /\ UNCHANGED <<plans, task, ops, runtimes, snapshots, lock, request>>

Finish(w) ==
    /\ At(w, "finish")
    /\ LET status == IF worker[w].ok THEN "completed" ELSE "failed" IN
       ops' = [ops EXCEPT ![worker[w].i].op = status, ![worker[w].i].job = status]
    /\ Rest(w)
    /\ UNCHANGED <<plans, task, runtimes, snapshots, lock, request>>

Crash(w) ==
    /\ worker[w] # Idle /\ Rest(w)
    /\ UNCHANGED <<plans, task, ops, runtimes, snapshots, lock, request>>

(* Mutant: a task that is running is left. *)
TimedOutTaskQueued == IF task = "queued" THEN "failed" ELSE task

TimedOutTask == IF task \in Active THEN "failed" ELSE task

(* The sweep of stale jobs: also of one whose worker is only slow. *)
TimeOut(i) ==
    /\ ops[i].job = "running"
    /\ ops' = [ops EXCEPT ![i].op = "failed", ![i].job = "failed",
                          ![i].calls = Settled(@, FALSE)]
    /\ task' = TimedOutTask
    /\ UNCHANGED <<plans, runtimes, snapshots, lock, request, worker>>

-----------------------------------------------------------------------------
(* AI runtimes *)

CreateRuntime(s) ==
    /\ runtimes[s] = None
    /\ runtimes' = [runtimes EXCEPT ![s] = "unknown"]
    /\ UNCHANGED <<plans, task, ops, snapshots, lock, request, worker>>

VerifyRuntime(s) ==
    /\ runtimes[s] = "unknown"
    /\ runtimes' = [runtimes EXCEPT ![s] = "verified"]
    /\ UNCHANGED <<plans, task, ops, snapshots, lock, request, worker>>

(* One of the project goes before a global one, verified or not. *)
Selected == IF runtimes["project"] # None THEN runtimes["project"] ELSE runtimes["global"]

-----------------------------------------------------------------------------
(* Snapshots *)

(* No code of the repository makes assets of this type any more. *)
AssetAppears ==
    /\ ~asset /\ asset' = TRUE
    /\ UNCHANGED <<plans, task, ops, runtimes, rows, lock, request, worker>>

Newest == {i \in DOMAIN ops : i > Len(ops) - Window}
CountOf(statuses) == Cardinality({i \in Newest : ops[i].calls \in statuses})

(* agentToolCallAuditEvidence *)
Seen ==
    [task |-> task, active |-> CountOf(Active), completed |-> CountOf({"completed"}), failed |-> CountOf({"failed"})]

(* Nothing is under way; a failure counts as an outcome. *)
Terminal(seen) == seen.active = 0 /\ seen.completed + seen.failed > 0

(* Mutant: that nothing is under way is taken for a success. *)
RecordedAlsoFailed(seen) == Terminal(seen)

Recorded(seen) == Terminal(seen) /\ seen.failed = 0

(* agentCodexCLIReadiness *)
RuntimeReady == Selected = "verified"

(* agentToolAuditSnapshotReadiness *)
AuditReady(seen) == Terminal(seen)

(* agentCodeModificationEvidence: the calls of the three plans are written   *)
(* together with the others.                                                 *)
CodeReady(seen) == Recorded(seen)

(* agentWorkerToolExecutionArmingPlan, agentWorkerToolInvocationReviewPlan   *)
ArmingReady(seen) == RuntimeReady /\ Recorded(seen)
ReviewReady(seen) == RuntimeReady /\ Terminal(seen) /\ ArmingReady(seen)

(* The plans a snapshot shows as ready. *)
CallbackPlan(seen) == {x \in {"result"} : Terminal(seen)}
CodePlans(seen) == {x \in {"arming", "review"} : CodeReady(seen)}
DispatchPlan(seen) ==
    CallbackPlan(seen) \cup {x \in {"arming"} : ArmingReady(seen)} \cup {x \in {"review"} : ReviewReady(seen)}

AuditRow(seen) == [family |-> "audit", seen |-> seen, shows |-> CallbackPlan(seen)]
CodeRow(seen) == [family |-> "code", seen |-> seen, shows |-> CodePlans(seen)]
ArmingRow(seen) == [family |-> "arming", seen |-> seen, shows |-> DispatchPlan(seen)]

(* agentToolArmingSnapshotReadiness, agentCodeAuditSnapshotReadiness         *)
ReadyForReview(row) == {"arming", "review"} \subseteq row.shows

(* A recorder reads the task and its calls ... *)
Look(h, family) ==
    /\ request[h] = Idle /\ Len(rows) < MaxRows
    /\ Goto(h, [pc |-> "compare", family |-> family, seen |-> Seen])
    /\ UNCHANGED <<plans, task, ops, runtimes, snapshots, lock, worker>>

Looked(h, family) == request[h].pc = "compare" /\ request[h].family = family

Known(row) == rows # <<>> /\ rows[Len(rows)] = row

(* ... the runtimes, the asset and its newest row ... *)
Compare(h, row) ==
    /\ asset
    /\ Goto(h, IF Known(row) THEN Idle ELSE [pc |-> "insert", row |-> row])
    /\ UNCHANGED <<plans, task, ops, runtimes, snapshots, lock, worker>>

RecordAgentToolAuditSnapshot(h) ==
    /\ Looked(h, "audit") /\ AuditReady(request[h].seen)
    /\ Compare(h, AuditRow(request[h].seen))

RecordAgentCodeAuditSnapshot(h) ==
    /\ Looked(h, "code") /\ ReadyForReview(CodeRow(request[h].seen))
    /\ Compare(h, CodeRow(request[h].seen))

RecordAgentToolArmingSnapshot(h) ==
    /\ Looked(h, "arming") /\ ReadyForReview(ArmingRow(request[h].seen))
    /\ Compare(h, ArmingRow(request[h].seen))

(* ... and inserts another one, without a lock. *)
Insert(h) ==
    /\ request[h].pc = "insert"
    /\ rows' = Append(rows, request[h].row)
    /\ Goto(h, Idle)
    /\ UNCHANGED <<plans, task, ops, runtimes, asset, lock, worker>>

-----------------------------------------------------------------------------
Serve(h) ==
    \/ ReadPlan(h) \/ SavePlan(h)
    \/ BeginExecution(h) \/ EnqueueExecution(h) \/ RequestFails(h)
    \/ \E family \in Families : Look(h, family)
    \/ RecordAgentToolAuditSnapshot(h) \/ RecordAgentCodeAuditSnapshot(h)
    \/ RecordAgentToolArmingSnapshot(h) \/ Insert(h)

Work(w) ==
    \/ \E i \in DOMAIN ops : Claim(w, i)
    \/ Execute(w) \/ RecordCalls(w) \/ RecordTask(w) \/ RecordFails(w)
    \/ Finish(w) \/ Crash(w)

Next ==
    \/ GeneratePlan \/ AssetAppears
    \/ \E s \in Scopes : CreateRuntime(s) \/ VerifyRuntime(s)
    \/ \E h \in Handlers : Serve(h)
    \/ \E w \in Workers : Work(w)
    \/ \E i \in DOMAIN ops : Cancel(i) \/ TimeOut(i)

Spec == Init /\ [][Next]_vars

-----------------------------------------------------------------------------
(* Properties *)

(* The task shows queued or running only while an execution of it is, or     *)
(* after one was canceled: executions of one task overlap, and each rewrites *)
(* the status only from some statuses.                                       *)
ActiveTaskHasOperation ==
    task \in Active => \E i \in DOMAIN ops : ops[i].op \in Active \cup {"canceled"}

(* The calls of an execution that ended are not active: a worker that fails  *)
(* between its writes, and one whose job is swept, leave none.               *)
NoCallLeftActive == \A i \in DOMAIN ops : ops[i].op \in Outcomes => ops[i].calls \in Outcomes

(* Executions follow the plans: one that was enqueued later never runs an    *)
(* older plan, though plans are generated and approved meanwhile.            *)
PlansInOrder ==
    \A i, j \in DOMAIN ops : i < j => ops[i].plan <= ops[j].plan

(* What is recorded as ready for review happened: an execution completed,    *)
(* and for the arming a runtime was verified.                                *)
ArmedWasExecuted ==
    \A r \in DOMAIN rows : rows[r].family # "audit" =>
        /\ \E i \in DOMAIN ops : ops[i].calls = "completed"
        /\ rows[r].family = "arming" => \E s \in Scopes : runtimes[s] = "verified"

(* The outcome of a call stays: a worker that answers after its job was      *)
(* swept does not change it.                                                 *)
OutcomeStays ==
    [][\A i \in DOMAIN ops : ops[i].calls \in Outcomes => ops'[i].calls = ops[i].calls]_vars

=============================================================================
