-------------------------- MODULE AgentTasks_proof --------------------------
(***************************************************************************)
(* Theorems about AgentTasks for any numbers of handlers, workers, plans,  *)
(* executions and snapshots.                                               *)
(*                                                                         *)
(* IInv joins to the properties what the requests and workers under way    *)
(* will rely on: the lock of the task (PlanBounds), the writes a worker    *)
(* has behind it (WorkersAtWork, TaskFollows), and what a recorder has     *)
(* read (Backing).                                                         *)
(***************************************************************************)
EXTENDS AgentTasks, SequenceTheorems, FiniteSetTheorems, TLAPS

USE BoundAssumption, WindowAssumption, HandlersAssumption

(* A worker works on an execution that is there, and has written its calls *)
(* before it writes the task.                                              *)
WorkersAtWork ==
    \A w \in Workers :
        /\ worker[w] # Idle => worker[w].i \in DOMAIN ops
        /\ worker[w].pc \in {"task", "finish"} => ops[worker[w].i].calls \in Outcomes

(* Behind an active task is an execution whose worker, if it still has     *)
(* one, has yet to write the task.                                         *)
Finishing(i) == \E w \in Workers : worker[w].pc = "finish" /\ worker[w].i = i

TaskFollows ==
    task \in Active =>
        \E i \in DOMAIN ops : ops[i].op \in Active \cup {"canceled"} /\ ~Finishing(i)

(* The request that is about to enqueue an execution holds the lock, and   *)
(* its plan is as new as that of any execution.                            *)
PlanBounds ==
    /\ \A i \in DOMAIN ops : ops[i].plan <= Len(plans)
    /\ \A h \in Handlers : request[h].pc = "execute" =>
           /\ lock = h
           /\ request[h].plan <= Len(plans)
           /\ \A i \in DOMAIN ops : ops[i].plan <= request[h].plan

CallsCompleted == \E i \in DOMAIN ops : ops[i].calls = "completed"
RuntimeVerified == \E s \in Scopes : runtimes[s] = "verified"

(* What a snapshot shows is backed by an execution and a runtime.          *)
Backed(row) ==
    row.family # "audit" => CallsCompleted /\ (row.family = "arming" => RuntimeVerified)

Backing ==
    /\ \A h \in Handlers :
           /\ request[h].pc = "compare" /\ request[h].seen.completed > 0 => CallsCompleted
           /\ request[h].pc = "insert" => Backed(request[h].row)
    /\ \A r \in DOMAIN rows : Backed(rows[r])

IInv ==
    /\ TypeOK
    /\ WorkersAtWork
    /\ TaskFollows
    /\ NoCallLeftActive
    /\ PlanBounds
    /\ PlansInOrder
    /\ Backing

-----------------------------------------------------------------------------
(* Sequences *)

(* Rewriting one execution. *)
LEMMA Rewritten ==
  ASSUME TypeOK, NEW i \in DOMAIN ops, NEW e \in Ops, ops' = [ops EXCEPT ![i] = e]
  PROVE  /\ ops' \in Seq(Ops) /\ Len(ops') = Len(ops) /\ DOMAIN ops' = DOMAIN ops
         /\ \A j \in DOMAIN ops : ops'[j] = IF j = i THEN e ELSE ops[j]
<1>1. ops \in Seq(Ops) /\ DOMAIN ops = 1..Len(ops)
  BY LenProperties DEF TypeOK
<1>2. ops' \in Seq(Ops) /\ Len(ops') = Len(ops)
  BY <1>1, ExceptSeq
<1>3. QED
  BY <1>1, <1>2, ExceptSeq, LenProperties

(* One more execution. *)
LEMMA Appended ==
  ASSUME TypeOK, NEW e \in Ops, ops' = Append(ops, e)
  PROVE  /\ ops' \in Seq(Ops) /\ Len(ops') = Len(ops) + 1
         /\ DOMAIN ops = 1..Len(ops) /\ DOMAIN ops' = 1..(Len(ops) + 1) /\ Len(ops) \in Nat
         /\ \A j \in DOMAIN ops : ops'[j] = ops[j]
         /\ ops'[Len(ops) + 1] = e
<1>1. ops \in Seq(Ops) /\ DOMAIN ops = 1..Len(ops) /\ Len(ops) \in Nat
  BY LenProperties DEF TypeOK
<1>2. ops' \in Seq(Ops) /\ Len(ops') = Len(ops) + 1
  BY <1>1, AppendProperties
<1>3. QED
  BY <1>1, <1>2, AppendProperties, LenProperties

(* Executions and plans are numbered from one. *)
LEMMA Numbered ==
  ASSUME TypeOK
  PROVE  /\ DOMAIN ops = 1..Len(ops) /\ Len(ops) \in Nat /\ \A i \in DOMAIN ops : ops[i] \in Ops
         /\ Len(plans) \in Nat /\ DOMAIN plans = 1..Len(plans)
         /\ DOMAIN rows = 1..Len(rows) /\ \A r \in DOMAIN rows : rows[r] \in Rows
  BY LenProperties, ElementOfSeq DEF TypeOK

(* What a request or a worker carries with it. *)
LEMMA Carried ==
  ASSUME TypeOK
  PROVE  /\ \A h \in Handlers :
              /\ request[h].pc \in {"approve", "execute"} => request[h].plan \in 1..MaxPlans
              /\ request[h].pc = "compare" =>
                    request[h].family \in Families /\ request[h].seen \in Evidence
              /\ request[h].pc = "insert" => request[h].row \in Rows
         /\ \A w \in Workers :
              /\ worker[w] # Idle <=> worker[w].pc # "idle"
              /\ worker[w] # Idle => worker[w].i \in 1..MaxOps /\ worker[w].ok \in BOOLEAN
<1>1. ASSUME NEW h \in Handlers
      PROVE  /\ request[h].pc \in {"approve", "execute"} => request[h].plan \in 1..MaxPlans
             /\ request[h].pc = "compare" =>
                   request[h].family \in Families /\ request[h].seen \in Evidence
             /\ request[h].pc = "insert" => request[h].row \in Rows
  <2>1. request[h] \in Requests
    BY DEF TypeOK
  <2>2. QED
    BY <2>1 DEF Requests, Idle
<1>2. ASSUME NEW w \in Workers
      PROVE  /\ worker[w] # Idle <=> worker[w].pc # "idle"
             /\ worker[w] # Idle => worker[w].i \in 1..MaxOps /\ worker[w].ok \in BOOLEAN
  <2>1. worker[w] \in Stages
    BY DEF TypeOK
  <2>2. QED
    BY <2>1 DEF Stages, Idle
<1>3. QED
  BY <1>1, <1>2

-----------------------------------------------------------------------------
(* Types *)

(* The empty tables are well typed. *)
LEMMA TypeInit == Init => TypeOK
<1> SUFFICES ASSUME Init PROVE TypeOK
  OBVIOUS
<1>1. /\ plans \in Seq({"generated", "approved"}) /\ Len(plans) <= MaxPlans
      /\ ops \in Seq(Ops) /\ Len(ops) <= MaxOps /\ rows \in Seq(Rows)
  BY EmptySeq DEF Init
<1>2. Idle \in Requests /\ Idle \in Stages
  BY DEF Requests, Stages
<1>3. QED
  BY <1>1, <1>2 DEF Init, TypeOK

(* Counting executions stays within the bound on them. *)
LEMMA SeenIsEvidence == TypeOK => Seen \in Evidence
<1> SUFFICES ASSUME TypeOK PROVE Seen \in Evidence
  OBVIOUS
<1>1. ASSUME NEW S PROVE CountOf(S) \in 0..MaxOps
  <2> DEFINE T == {i \in Newest : ops[i].calls \in S}
  <2>1. T \in SUBSET (1..Len(ops)) /\ Len(ops) \in Nat /\ Len(ops) <= MaxOps
    <3>1. T \subseteq DOMAIN ops
      BY DEF Newest
    <3>2. DOMAIN ops = 1..Len(ops) /\ Len(ops) \in Nat /\ Len(ops) <= MaxOps
      BY Numbered DEF TypeOK
    <3>3. QED
      BY <3>1, <3>2
  <2>2. IsFiniteSet(1..Len(ops)) /\ Cardinality(1..Len(ops)) = Len(ops)
    <3>1. 1 \in Int /\ Len(ops) \in Int
      BY <2>1
    <3>2. /\ IsFiniteSet(1..Len(ops))
          /\ Cardinality(1..Len(ops)) = IF 1 > Len(ops) THEN 0 ELSE Len(ops) - 1 + 1
      BY ONLY <3>1, FS_Interval
    <3>3. QED
      BY <2>1, <3>2
  <2>3. Cardinality(T) \in Nat /\ Cardinality(T) <= Len(ops)
    BY <2>1, <2>2, FS_Subset, FS_CardinalityType
  <2>4. QED
    BY <2>1, <2>3 DEF CountOf
<1>2. QED
  BY <1>1 DEF Seen, Evidence, TypeOK

(* The requests that read, save and lock the plans, and those that record. *)
LEMMA TypeServe ==
  ASSUME TypeOK, NEW h \in Handlers, Serve(h)
  PROVE  TypeOK'
<1> USE DEF TypeOK, Goto, snapshots
<1>1. CASE ReadPlan(h)
  <2>1. Len(plans) \in 1..MaxPlans
    BY <1>1, EmptySeq DEF ReadPlan
  <2>2. [pc |-> "approve", plan |-> Len(plans)] \in Requests
    BY <2>1 DEF Requests
  <2>3. QED
    BY <1>1, <2>2 DEF ReadPlan
<1>2. CASE SavePlan(h)
  <2>1. Idle \in Requests
    BY DEF Requests
  <2>2. plans' \in Seq({"generated", "approved"}) /\ Len(plans') = Len(plans)
    <3>1. CASE request[h].plan \in DOMAIN plans
      BY <1>2, <3>1, Numbered, ExceptSeq DEF SavePlan
    <3>2. CASE request[h].plan \notin DOMAIN plans
      <4>1. plans' = plans
        BY <1>2, <3>2, Numbered, LenProperties DEF SavePlan
      <4>2. QED
        BY <4>1
    <3>3. QED
      BY <3>1, <3>2
  <2>3. QED
    BY <1>2, <2>1, <2>2 DEF SavePlan
<1>3. CASE BeginExecution(h)
  <2>1. Len(plans) \in 1..MaxPlans
    BY <1>3, EmptySeq DEF BeginExecution, NewestApproved
  <2>2. [pc |-> "execute", plan |-> Len(plans)] \in Requests
    BY <2>1 DEF Requests
  <2>3. QED
    BY <1>3, <2>2 DEF BeginExecution, LockTask
<1>4. CASE EnqueueExecution(h)
  <2>1. Idle \in Requests /\ Execution(request[h].plan) \in Ops
    BY <1>4, Carried DEF EnqueueExecution, Requests, Execution, Ops, Statuses, Active
  <2>2. ops' \in Seq(Ops) /\ Len(ops') <= MaxOps
    BY <1>4, <2>1, Appended DEF EnqueueExecution
  <2>3. QED
    BY <1>4, <2>1, <2>2 DEF EnqueueExecution, Unlock
<1>5. CASE RequestFails(h)
  BY <1>5 DEF RequestFails, Unlock, Requests
<1>6. ASSUME NEW family \in Families, Look(h, family) PROVE TypeOK'
  <2>1. [pc |-> "compare", family |-> family, seen |-> Seen] \in Requests
    BY SeenIsEvidence DEF Requests
  <2>2. QED
    BY <1>6, <2>1 DEF Look
<1>7. ASSUME NEW row \in Rows, Compare(h, row) PROVE TypeOK'
  <2>1. Idle \in Requests /\ [pc |-> "insert", row |-> row] \in Requests
    BY DEF Requests
  <2>2. QED
    BY <1>7, <2>1 DEF Compare
<1>8. CASE RecordAgentToolAuditSnapshot(h)
  <2>1. AuditRow(request[h].seen) \in Rows
    BY <1>8, Carried DEF RecordAgentToolAuditSnapshot, Looked, AuditRow, CallbackPlan, Rows, Families
  <2>2. QED
    BY <1>7, <1>8, <2>1 DEF RecordAgentToolAuditSnapshot
<1>9. CASE RecordAgentCodeAuditSnapshot(h)
  <2>1. CodeRow(request[h].seen) \in Rows
    BY <1>9, Carried DEF RecordAgentCodeAuditSnapshot, Looked, CodeRow, CodePlans, Rows, Families
  <2>2. QED
    BY <1>7, <1>9, <2>1 DEF RecordAgentCodeAuditSnapshot
<1>10. CASE RecordAgentToolArmingSnapshot(h)
  <2>1. ArmingRow(request[h].seen) \in Rows
    BY <1>10, Carried DEF RecordAgentToolArmingSnapshot, Looked, ArmingRow, DispatchPlan,
         CallbackPlan, Rows, Families
  <2>2. QED
    BY <1>7, <1>10, <2>1 DEF RecordAgentToolArmingSnapshot
<1>11. CASE Insert(h)
  <2>1. Idle \in Requests /\ request[h].row \in Rows
    BY <1>11, Carried DEF Insert, Requests
  <2>2. rows' \in Seq(Rows)
    BY <1>11, <2>1, AppendProperties DEF Insert
  <2>3. QED
    BY <1>11, <2>1, <2>2 DEF Insert
<1>12. QED
  BY <1>1, <1>2, <1>3, <1>4, <1>5, <1>6, <1>8, <1>9, <1>10, <1>11 DEF Serve

-----------------------------------------------------------------------------
(* What each step does to an execution. *)

(* Execution i becomes e: its plan stays, and so does an outcome of its    *)
(* calls.                                                                  *)
Step(i, e) ==
    /\ e \in Ops /\ e.plan = ops[i].plan
    /\ ops[i].calls \in Outcomes => e.calls = ops[i].calls
    /\ ops' = [ops EXCEPT ![i] = e]

(* A claim marks the execution and its queued calls running. *)
LEMMA ClaimStep ==
  ASSUME TypeOK, NEW w \in Workers, NEW i \in DOMAIN ops, Claim(w, i)
  PROVE  \E e : Step(i, e) /\ e.op = "running"
<1> DEFINE e == [ops[i] EXCEPT !.op = "running", !.job = "running",
                               !.calls = IF @ = "queued" THEN "running" ELSE @]
<1>1. ops[i] \in Ops
  BY Numbered
<1>2. e \in Ops /\ e.plan = ops[i].plan /\ e.op = "running"
      /\ (ops[i].calls \in Outcomes => e.calls = ops[i].calls)
  BY <1>1 DEF Ops, Statuses, Active, Outcomes
<1>3. ops' = [ops EXCEPT ![i] = e]
  BY DEF Claim
<1>4. QED
  BY <1>2, <1>3 DEF Step

(* A cancel leaves the calls alone. *)
LEMMA CancelStep ==
  ASSUME TypeOK, NEW i \in DOMAIN ops, Cancel(i)
  PROVE  \E e : Step(i, e) /\ e.op = "canceled" /\ e.calls = ops[i].calls
<1> DEFINE e == [ops[i] EXCEPT !.op = "canceled", !.job = IF @ = "queued" THEN "canceled" ELSE @]
<1>1. ops[i] \in Ops
  BY Numbered
<1>2. e \in Ops /\ e.plan = ops[i].plan /\ e.op = "canceled" /\ e.calls = ops[i].calls
  BY <1>1 DEF Ops, Statuses
<1>3. ops' = [ops EXCEPT ![i] = e]
  BY DEF Cancel
<1>4. QED
  BY <1>2, <1>3 DEF Step

(* The sweep settles calls that are active. *)
LEMMA TimeOutStep ==
  ASSUME TypeOK, NEW i \in DOMAIN ops, TimeOut(i)
  PROVE  \E e : Step(i, e) /\ e.op = "failed" /\ e.calls \in Outcomes
<1> DEFINE e == [ops[i] EXCEPT !.op = "failed", !.job = "failed", !.calls = Settled(@, FALSE)]
<1>1. ops[i] \in Ops
  BY Numbered
<1>2. e \in Ops /\ e.plan = ops[i].plan /\ e.op = "failed" /\ e.calls \in Outcomes
      /\ (ops[i].calls \in Outcomes => e.calls = ops[i].calls)
  BY <1>1 DEF Ops, Statuses, Outcomes, Active, Settled
<1>3. ops' = [ops EXCEPT ![i] = e]
  BY DEF TimeOut
<1>4. QED
  BY <1>2, <1>3 DEF Step

(* A worker settles calls that are active. *)
LEMMA RecordCallsStep ==
  ASSUME TypeOK, WorkersAtWork, NEW w \in Workers, RecordCalls(w)
  PROVE  \E e : Step(worker[w].i, e) /\ e.op = ops[worker[w].i].op /\ e.calls \in Outcomes
<1> DEFINE i == worker[w].i
           e == [ops[i] EXCEPT !.calls = Settled(@, worker[w].ok)]
<1>1. i \in DOMAIN ops /\ ops[i] \in Ops
  BY Numbered, Carried DEF WorkersAtWork, RecordCalls, At, Idle
<1>2. e \in Ops /\ e.plan = ops[i].plan /\ e.op = ops[i].op /\ e.calls \in Outcomes
      /\ (ops[i].calls \in Outcomes => e.calls = ops[i].calls)
  BY <1>1 DEF Ops, Statuses, Outcomes, Active, Settled
<1>3. ops' = [ops EXCEPT ![i] = e]
  BY DEF RecordCalls
<1>4. QED
  BY <1>2, <1>3 DEF Step

(* A worker ends the operation and its job. *)
LEMMA FinishStep ==
  ASSUME TypeOK, WorkersAtWork, NEW w \in Workers, Finish(w)
  PROVE  \E e : Step(worker[w].i, e) /\ e.op \in Outcomes /\ e.calls = ops[worker[w].i].calls
<1> DEFINE i == worker[w].i
           s == IF worker[w].ok THEN "completed" ELSE "failed"
           e == [ops[i] EXCEPT !.op = s, !.job = s]
<1>1. i \in DOMAIN ops /\ ops[i] \in Ops
  BY Numbered, Carried DEF WorkersAtWork, Finish, At, Idle
<1>2. e \in Ops /\ e.plan = ops[i].plan /\ e.op \in Outcomes /\ e.calls = ops[i].calls
  BY <1>1 DEF Ops, Statuses, Outcomes
<1>3. ops' = [ops EXCEPT ![i] = e]
  BY DEF Finish
<1>4. QED
  BY <1>2, <1>3 DEF Step

(* After a step of one execution the others are as they were. *)
LEMMA Stepped ==
  ASSUME TypeOK, NEW i \in DOMAIN ops, NEW e, Step(i, e)
  PROVE  /\ ops' \in Seq(Ops) /\ Len(ops') = Len(ops) /\ DOMAIN ops' = DOMAIN ops
         /\ \A j \in DOMAIN ops : ops'[j] = IF j = i THEN e ELSE ops[j]
  BY Rewritten DEF Step

(* A worker that works has an execution. *)
LEMMA AtWork ==
  ASSUME TypeOK, WorkersAtWork, NEW w \in Workers, worker[w].pc # "idle"
  PROVE  worker[w].i \in DOMAIN ops /\ worker[w].i \in 1..MaxOps /\ worker[w].ok \in BOOLEAN
  BY Carried DEF WorkersAtWork

(* The steps of the workers and of the sweep. *)
LEMMA TypeWork ==
  ASSUME TypeOK, WorkersAtWork, NEW w \in Workers, Work(w)
  PROVE  TypeOK'
<1> USE DEF TypeOK, snapshots
<1>1. ASSUME NEW i \in DOMAIN ops, Claim(w, i) PROVE TypeOK'
  <2>1. ops' \in Seq(Ops) /\ Len(ops') <= MaxOps
    BY <1>1, ClaimStep, Stepped
  <2>2. [pc |-> "execute", i |-> i, ok |-> TRUE] \in Stages
    BY Numbered DEF Stages
  <2>3. QED
    BY <1>1, <2>1, <2>2 DEF Claim
<1>2. ASSUME NEW pc \in {"calls", "task", "finish"}, NEW ok \in BOOLEAN, Stage(w, pc, ok),
             worker[w].pc # "idle"
      PROVE  worker' \in [Workers -> Stages]
  <2>1. [pc |-> pc, i |-> worker[w].i, ok |-> ok] \in Stages
    BY <1>2, AtWork DEF Stages
  <2>2. QED
    BY <1>2, <2>1 DEF Stage
<1>3. CASE Execute(w)
  BY <1>2, <1>3 DEF Execute, At
<1>4. CASE RecordCalls(w)
  <2>1. ops' \in Seq(Ops) /\ Len(ops') <= MaxOps
    BY <1>4, RecordCallsStep, Stepped, AtWork DEF RecordCalls, At
  <2>2. QED
    BY <1>2, <1>4, <2>1, AtWork DEF RecordCalls, At
<1>5. CASE RecordTask(w)
  BY <1>2, <1>5, AtWork DEF RecordTask, At
<1>6. CASE RecordFails(w)
  BY <1>2, <1>6 DEF RecordFails
<1>7. CASE Finish(w)
  <2>1. ops' \in Seq(Ops) /\ Len(ops') <= MaxOps
    BY <1>7, FinishStep, Stepped, AtWork DEF Finish, At
  <2>2. QED
    BY <1>7, <2>1 DEF Finish, Rest, Stages
<1>8. CASE Crash(w)
  BY <1>8 DEF Crash, Rest, Stages
<1>9. QED
  BY <1>1, <1>3, <1>4, <1>5, <1>6, <1>7, <1>8 DEF Work

(* Every step keeps the types. *)
LEMMA TypeNext == TypeOK /\ WorkersAtWork /\ [Next]_vars => TypeOK'
<1> SUFFICES ASSUME TypeOK, WorkersAtWork, [Next]_vars PROVE TypeOK'
  OBVIOUS
<1> USE DEF TypeOK, snapshots
<1>1. CASE GeneratePlan
  <2>1. plans' \in Seq({"generated", "approved"}) /\ Len(plans') <= MaxPlans
    BY <1>1, AppendProperties, Numbered DEF GeneratePlan
  <2>2. QED
    BY <1>1, <2>1 DEF GeneratePlan
<1>2. CASE AssetAppears
  BY <1>2 DEF AssetAppears
<1>3. ASSUME NEW s \in Scopes, CreateRuntime(s) \/ VerifyRuntime(s) PROVE TypeOK'
  BY <1>3 DEF CreateRuntime, VerifyRuntime
<1>4. ASSUME NEW i \in DOMAIN ops, Cancel(i) PROVE TypeOK'
  <2>1. ops' \in Seq(Ops) /\ Len(ops') <= MaxOps
    BY <1>4, CancelStep, Stepped
  <2>2. QED
    BY <1>4, <2>1 DEF Cancel
<1>5. ASSUME NEW i \in DOMAIN ops, TimeOut(i) PROVE TypeOK'
  <2>1. ops' \in Seq(Ops) /\ Len(ops') <= MaxOps
    BY <1>5, TimeOutStep, Stepped
  <2>2. QED
    BY <1>5, <2>1 DEF TimeOut, TimedOutTask
<1>6. CASE UNCHANGED vars
  BY <1>6 DEF vars
<1>7. QED
  BY <1>1, <1>2, <1>3, <1>4, <1>5, <1>6, TypeServe, TypeWork DEF Next

-----------------------------------------------------------------------------
(* The parts of the invariant *)

(* A step adds an execution, changes one, or none. *)
LEMMA OpsMove ==
  ASSUME TypeOK, WorkersAtWork, [Next]_vars
  PROVE  \/ ops' = ops
         \/ \E i \in DOMAIN ops : \E e : Step(i, e)
         \/ \E h \in Handlers : EnqueueExecution(h)
<1> DEFINE Moved == \/ ops' = ops
                    \/ \E i \in DOMAIN ops : \E e : Step(i, e)
                    \/ \E h \in Handlers : EnqueueExecution(h)
<1>1. ASSUME NEW i \in DOMAIN ops, Cancel(i) \/ TimeOut(i) PROVE Moved
  BY <1>1, CancelStep, TimeOutStep
<1>2. ASSUME NEW w \in Workers, Work(w) PROVE Moved
  <2>1. CASE \E i \in DOMAIN ops : Claim(w, i)
    BY <2>1, ClaimStep
  <2>2. CASE RecordCalls(w)
    BY <2>2, RecordCallsStep, AtWork DEF RecordCalls, At
  <2>3. CASE Finish(w)
    BY <2>3, FinishStep, AtWork DEF Finish, At
  <2>4. CASE Execute(w) \/ RecordTask(w) \/ RecordFails(w) \/ Crash(w)
    BY <2>4 DEF Execute, RecordTask, RecordFails, Crash
  <2>5. QED
    BY <1>2, <2>1, <2>2, <2>3, <2>4 DEF Work
<1>3. ASSUME NEW h \in Handlers, Serve(h) PROVE Moved
  BY <1>3 DEF Serve, ReadPlan, SavePlan, BeginExecution, RequestFails, Look, Compare, Insert,
       RecordAgentToolAuditSnapshot, RecordAgentCodeAuditSnapshot, RecordAgentToolArmingSnapshot
<1>4. CASE GeneratePlan \/ AssetAppears \/ UNCHANGED vars
           \/ \E s \in Scopes : CreateRuntime(s) \/ VerifyRuntime(s)
  BY <1>4 DEF GeneratePlan, AssetAppears, CreateRuntime, VerifyRuntime, vars
<1>5. QED
  BY <1>1, <1>2, <1>3, <1>4 DEF Next

(* An execution keeps its plan, and its calls the outcome they have. *)
LEMMA CallsKept ==
  ASSUME TypeOK, WorkersAtWork, [Next]_vars
  PROVE  \A i \in DOMAIN ops :
             /\ i \in DOMAIN ops' /\ ops'[i].plan = ops[i].plan
             /\ ops[i].calls \in Outcomes => ops'[i].calls = ops[i].calls
<1>1. ASSUME NEW i \in DOMAIN ops, NEW e, Step(i, e)
      PROVE  \A j \in DOMAIN ops :
                 /\ j \in DOMAIN ops' /\ ops'[j].plan = ops[j].plan
                 /\ ops[j].calls \in Outcomes => ops'[j].calls = ops[j].calls
  BY <1>1, Stepped DEF Step
<1>2. ASSUME NEW h \in Handlers, EnqueueExecution(h)
      PROVE  \A j \in DOMAIN ops : j \in DOMAIN ops' /\ ops'[j] = ops[j]
  <2>1. Execution(request[h].plan) \in Ops
    BY <1>2, Carried DEF EnqueueExecution, Execution, Ops, Statuses, Active
  <2>2. QED
    BY <1>2, <2>1, Appended DEF EnqueueExecution
<1>3. QED
  BY <1>1, <1>2, OpsMove

(* A step of a worker takes it on with its execution. *)
LEMMA WorkersAtWorkNext ==
  ASSUME TypeOK, WorkersAtWork, [Next]_vars
  PROVE  WorkersAtWork'
<1>1. ASSUME NEW v \in Workers, worker'[v] = worker[v] \/ worker'[v] = Idle
      PROVE  /\ worker'[v] # Idle => worker'[v].i \in DOMAIN ops'
             /\ worker'[v].pc \in {"task", "finish"} => ops'[worker'[v].i].calls \in Outcomes
  <2>1. CASE worker'[v] = Idle
    BY <2>1 DEF Idle
  <2>2. CASE worker'[v] = worker[v] /\ worker[v] # Idle
    <3>1. /\ worker[v].i \in DOMAIN ops
          /\ worker[v].pc \in {"task", "finish"} => ops[worker[v].i].calls \in Outcomes
      BY <2>2 DEF WorkersAtWork
    <3>2. QED
      BY <2>2, <3>1, CallsKept
  <2>3. worker'[v] = Idle \/ (worker'[v] = worker[v] /\ worker[v] # Idle)
    BY <1>1
  <2>4. QED
    BY <2>1, <2>2, <2>3
<1>2. ASSUME NEW w \in Workers, Work(w) PROVE WorkersAtWork'
  <2>1. \A v \in Workers : v # w => worker'[v] = worker[v]
    BY <1>2 DEF Work, Claim, Execute, RecordCalls, RecordTask, RecordFails, Finish, Crash,
         Stage, Rest, TypeOK
  <2>2. SUFFICES /\ worker'[w] # Idle => worker'[w].i \in DOMAIN ops'
                 /\ worker'[w].pc \in {"task", "finish"} => ops'[worker'[w].i].calls \in Outcomes
    BY <1>1, <2>1 DEF WorkersAtWork
  <2> USE DEF TypeOK
  <2>3. ASSUME NEW i \in DOMAIN ops, Claim(w, i)
        PROVE  worker'[w].pc = "execute" /\ worker'[w].i \in DOMAIN ops'
    BY <2>3, CallsKept DEF Claim
  <2>4. CASE Execute(w) \/ RecordFails(w)
    <3>1. worker'[w].pc = "calls" /\ worker'[w].i = worker[w].i /\ worker[w].pc # "idle"
      BY <2>4 DEF Execute, RecordFails, Stage, At
    <3>2. QED
      BY <3>1, AtWork, CallsKept
  <2>5. CASE RecordCalls(w)
    <3>1. worker'[w].i = worker[w].i /\ worker[w].i \in DOMAIN ops
      BY <2>5, AtWork DEF RecordCalls, Stage, At
    <3>2. ops'[worker[w].i].calls \in Outcomes
      BY <2>5, <3>1, RecordCallsStep, Stepped
    <3>3. QED
      BY <3>1, <3>2, CallsKept
  <2>6. CASE RecordTask(w)
    <3>1. worker'[w].i = worker[w].i /\ worker[w].i \in DOMAIN ops /\ worker[w].pc = "task"
      BY <2>6, AtWork DEF RecordTask, Stage, At
    <3>2. QED
      BY <3>1, CallsKept DEF WorkersAtWork
  <2>7. CASE Finish(w) \/ Crash(w)
    BY <1>1, <2>7 DEF Finish, Crash, Rest
  <2>8. QED
    BY <1>2, <2>3, <2>4, <2>5, <2>6, <2>7 DEF Work
<1>3. CASE worker' = worker
  BY <1>1, <1>3 DEF WorkersAtWork
<1>4. QED
  BY <1>2, <1>3 DEF Next, Serve, ReadPlan, SavePlan, BeginExecution, EnqueueExecution,
     RequestFails, Look, Compare, Insert, RecordAgentToolAuditSnapshot, Cancel, TimeOut,
     RecordAgentCodeAuditSnapshot, RecordAgentToolArmingSnapshot, GeneratePlan, AssetAppears,
     CreateRuntime, VerifyRuntime, vars

(* The sweep and the worker that finishes have written the calls. *)
LEMMA NoCallLeftActiveNext ==
  ASSUME TypeOK, WorkersAtWork, NoCallLeftActive, [Next]_vars
  PROVE  NoCallLeftActive'
<1>1. ASSUME NEW i \in DOMAIN ops, NEW e, Step(i, e), e.op \in Outcomes => e.calls \in Outcomes
      PROVE  NoCallLeftActive'
  BY <1>1, Stepped DEF NoCallLeftActive
<1>2. ASSUME NEW h \in Handlers, EnqueueExecution(h) PROVE NoCallLeftActive'
  <2>1. Execution(request[h].plan) \in Ops
    BY <1>2, Carried DEF EnqueueExecution, Execution, Ops, Statuses, Active
  <2>2. Execution(request[h].plan).op \notin Outcomes
    BY DEF Execution, Outcomes
  <2>3. QED
    BY <1>2, <2>1, <2>2, Appended DEF EnqueueExecution, NoCallLeftActive
<1>3. ASSUME NEW i \in DOMAIN ops, Cancel(i) \/ TimeOut(i) PROVE NoCallLeftActive'
  BY <1>1, <1>3, CancelStep, TimeOutStep DEF Outcomes
<1>4. ASSUME NEW w \in Workers, NEW i \in DOMAIN ops, Claim(w, i) PROVE NoCallLeftActive'
  BY <1>1, <1>4, ClaimStep DEF Outcomes
<1>5. ASSUME NEW w \in Workers, RecordCalls(w) PROVE NoCallLeftActive'
  BY <1>1, <1>5, RecordCallsStep, AtWork DEF RecordCalls, At
<1>6. ASSUME NEW w \in Workers, Finish(w) PROVE NoCallLeftActive'
  BY <1>1, <1>6, FinishStep, AtWork DEF Finish, At, WorkersAtWork
<1>7. CASE ops' = ops
  BY <1>7 DEF NoCallLeftActive
<1>8. QED
  BY <1>2, <1>3, <1>4, <1>5, <1>6, <1>7 DEF Next, Serve, Work, ReadPlan, SavePlan,
     BeginExecution, RequestFails, Look, Compare, Insert, RecordAgentToolAuditSnapshot,
     RecordAgentCodeAuditSnapshot, RecordAgentToolArmingSnapshot, GeneratePlan, AssetAppears,
     CreateRuntime, VerifyRuntime, Execute, RecordTask, RecordFails, Crash, vars

(* The task is set active with the newest execution, and no worker finishes *)
(* an execution before it has written the task.                            *)
LEMMA TaskFollowsNext ==
  ASSUME TypeOK, WorkersAtWork, TaskFollows, [Next]_vars
  PROVE  TaskFollows'
<1>2. ASSUME ops' = ops, task' \in Active => task \in Active,
             \A i \in DOMAIN ops : Finishing(i)' => Finishing(i)
      PROVE  TaskFollows'
  BY <1>2 DEF TaskFollows
<1>3. ASSUME NEW i \in DOMAIN ops, NEW e, Step(i, e), e.op \in Active \cup {"canceled"},
             task' \in Active => task \in Active,
             \A j \in DOMAIN ops : Finishing(j)' => Finishing(j)
      PROVE  TaskFollows'
  BY <1>3, Stepped DEF TaskFollows
<1>4. ASSUME NEW w \in Workers, NEW i \in DOMAIN ops, Claim(w, i) PROVE TaskFollows'
  <2>1. \A j \in DOMAIN ops : Finishing(j)' => Finishing(j)
    BY <1>4 DEF Claim, Finishing, TypeOK
  <2>2. task' \in Active => task \in Active
    BY <1>4 DEF Claim, Active
  <2>3. PICK e : Step(i, e) /\ e.op = "running"
    BY <1>4, ClaimStep
  <2>4. QED
    BY <1>3, <2>1, <2>2, <2>3 DEF Active
<1>5. ASSUME NEW i \in DOMAIN ops, Cancel(i) PROVE TaskFollows'
  <2>1. \A j \in DOMAIN ops : Finishing(j)' => Finishing(j)
    BY <1>5 DEF Cancel, Finishing
  <2>2. PICK e : Step(i, e) /\ e.op = "canceled"
    BY <1>5, CancelStep
  <2>3. task' = task
    BY <1>5 DEF Cancel
  <2>4. QED
    BY <1>3, <2>1, <2>2, <2>3
<1>6. ASSUME NEW i \in DOMAIN ops, TimeOut(i) PROVE TaskFollows'
  BY <1>6 DEF TimeOut, TimedOutTask, TaskFollows, Active
<1>7. ASSUME NEW w \in Workers, RecordCalls(w) PROVE TaskFollows'
  <2>1. worker[w].i \in DOMAIN ops
    BY <1>7, AtWork DEF RecordCalls, At
  <2>2. PICK e : Step(worker[w].i, e) /\ e.op = ops[worker[w].i].op
    BY <1>7, RecordCallsStep
  <2>3. \A j \in DOMAIN ops : ops'[j].op = ops[j].op /\ j \in DOMAIN ops'
    BY <2>1, <2>2, Stepped
  <2>4. \A j \in DOMAIN ops : Finishing(j)' => Finishing(j)
    <3>1. worker'[w].pc = "task" /\ \A v \in Workers : v # w => worker'[v] = worker[v]
      BY <1>7 DEF RecordCalls, Stage, TypeOK
    <3>2. QED
      BY <3>1 DEF Finishing
  <2>5. task' = task
    BY <1>7 DEF RecordCalls
  <2>6. QED
    BY <2>3, <2>4, <2>5 DEF TaskFollows
<1>8. ASSUME NEW w \in Workers, RecordTask(w) PROVE TaskFollows'
  BY <1>8 DEF RecordTask, TaskFollows, Active
<1>9. ASSUME NEW w \in Workers, Execute(w) \/ RecordFails(w) PROVE TaskFollows'
  <2>1. \A j \in DOMAIN ops : Finishing(j)' => Finishing(j)
    <3>1. worker'[w].pc = "calls" /\ \A v \in Workers : v # w => worker'[v] = worker[v]
      BY <1>9 DEF Execute, RecordFails, Stage, TypeOK
    <3>2. QED
      BY <3>1 DEF Finishing
  <2>2. QED
    BY <1>2, <1>9, <2>1 DEF Execute, RecordFails
<1>10. ASSUME NEW w \in Workers, Rest(w)
       PROVE  \A j \in DOMAIN ops : Finishing(j)' => Finishing(j)
  BY <1>10 DEF Rest, Finishing, TypeOK, Idle
<1>11. ASSUME NEW w \in Workers, Finish(w) PROVE TaskFollows'
  <2>1. worker[w].i \in DOMAIN ops /\ Finishing(worker[w].i)
    BY <1>11, AtWork DEF Finish, At, Finishing
  <2>2. PICK e : Step(worker[w].i, e)
    BY <1>11, FinishStep
  <2>3. \A j \in DOMAIN ops : j # worker[w].i => ops'[j] = ops[j] /\ j \in DOMAIN ops'
    BY <2>1, <2>2, Stepped
  <2>4. \A j \in DOMAIN ops : Finishing(j)' => Finishing(j)
    BY <1>10, <1>11 DEF Finish
  <2>5. task' = task
    BY <1>11 DEF Finish
  <2>6. QED
    BY <2>1, <2>3, <2>4, <2>5 DEF TaskFollows
<1>12. ASSUME NEW w \in Workers, Crash(w) PROVE TaskFollows'
  <2>1. \A j \in DOMAIN ops : Finishing(j)' => Finishing(j)
    BY <1>10, <1>12 DEF Crash
  <2>2. QED
    BY <1>2, <1>12, <2>1 DEF Crash
<1>13. ASSUME NEW h \in Handlers, EnqueueExecution(h) PROVE TaskFollows'
  <2>1. Execution(request[h].plan) \in Ops /\ Execution(request[h].plan).op = "queued"
    BY <1>13, Carried DEF EnqueueExecution, Execution, Ops, Statuses, Active
  <2>2. /\ Len(ops) + 1 \in DOMAIN ops' /\ Len(ops) + 1 \notin DOMAIN ops
        /\ ops'[Len(ops) + 1].op = "queued"
    BY <1>13, <2>1, Appended DEF EnqueueExecution
  <2>3. ~Finishing(Len(ops) + 1)
    BY <2>2, AtWork DEF Finishing
  <2>4. worker' = worker
    BY <1>13 DEF EnqueueExecution
  <2>5. QED
    BY <2>2, <2>3, <2>4 DEF TaskFollows, Finishing, Active
<1>14. CASE UNCHANGED <<ops, task, worker>>
  BY <1>2, <1>14 DEF Finishing
<1>15. QED
  BY <1>4, <1>5, <1>6, <1>7, <1>8, <1>9, <1>11, <1>12, <1>13, <1>14 DEF Next, Serve, Work,
     ReadPlan, SavePlan, BeginExecution, RequestFails, Look, Compare, Insert,
     RecordAgentToolAuditSnapshot, RecordAgentCodeAuditSnapshot, RecordAgentToolArmingSnapshot,
     GeneratePlan, AssetAppears, CreateRuntime, VerifyRuntime, vars

(* The plans only grow, and only the holder of the lock enqueues. *)
LEMMA PlansNext ==
  ASSUME TypeOK, TypeOK', WorkersAtWork, PlanBounds, PlansInOrder, [Next]_vars
  PROVE  PlanBounds' /\ PlansInOrder'
<1>1. Len(plans) \in Nat /\ Len(plans)' \in Nat /\ \A i \in DOMAIN ops : ops[i].plan \in 1..MaxPlans
  BY Numbered DEF TypeOK, Ops
<1>2. ASSUME DOMAIN ops' = DOMAIN ops, Len(plans) <= Len(plans)',
             \A h \in Handlers : request'[h].pc = "execute" =>
                 \/ request'[h] = request[h] /\ lock' = lock
                 \/ lock' = h /\ request'[h].plan = Len(plans) /\ Len(plans)' = Len(plans)
      PROVE  PlanBounds' /\ PlansInOrder'
  <2>1. \A i \in DOMAIN ops : ops'[i].plan = ops[i].plan
    BY CallsKept
  <2>2. PlansInOrder'
    BY <1>2, <2>1 DEF PlansInOrder
  <2>3. \A i \in DOMAIN ops' : ops'[i].plan <= Len(plans')
    BY <1>1, <1>2, <2>1 DEF PlanBounds
  <2>4. ASSUME NEW h \in Handlers, request'[h].pc = "execute"
        PROVE  /\ lock' = h
               /\ request'[h].plan <= Len(plans')
               /\ \A i \in DOMAIN ops' : ops'[i].plan <= request'[h].plan
    <3>1. CASE request'[h] = request[h] /\ lock' = lock
      <4>1. request[h].plan \in 1..MaxPlans
        BY <2>4, <3>1, Carried
      <4>2. QED
        BY <1>1, <1>2, <2>1, <2>4, <3>1, <4>1, BoundAssumption DEF PlanBounds
    <3>2. CASE lock' = h /\ request'[h].plan = Len(plans) /\ Len(plans)' = Len(plans)
      BY <1>1, <1>2, <2>1, <3>2 DEF PlanBounds
    <3>3. QED
      BY <1>2, <2>4, <3>1, <3>2
  <2>5. QED
    BY <2>2, <2>3, <2>4 DEF PlanBounds
<1>3. ASSUME NEW h \in Handlers, EnqueueExecution(h) PROVE PlanBounds' /\ PlansInOrder'
  <2> DEFINE p == request[h].plan
  <2>1. /\ p \in 1..MaxPlans /\ p <= Len(plans) /\ lock = h
        /\ \A i \in DOMAIN ops : ops[i].plan <= p
    BY <1>3, Carried DEF EnqueueExecution, PlanBounds
  <2>2. Execution(p) \in Ops /\ Execution(p).plan = p
    BY <2>1 DEF Execution, Ops, Statuses, Active
  <2>3. /\ DOMAIN ops = 1..Len(ops) /\ DOMAIN ops' = 1..(Len(ops) + 1) /\ Len(ops) \in Nat
        /\ \A j \in DOMAIN ops : ops'[j] = ops[j]
        /\ ops'[Len(ops) + 1].plan = p
    BY <1>3, <2>2, Appended DEF EnqueueExecution
  <2>4. plans' = plans /\ \A g \in Handlers : request'[g].pc # "execute"
    <3>1. request' = [request EXCEPT ![h] = Idle] /\ plans' = plans
      BY <1>3 DEF EnqueueExecution, Goto
    <3>2. \A g \in Handlers : g # h => request[g].pc # "execute"
      BY <2>1 DEF PlanBounds
    <3>3. QED
      BY <3>1, <3>2 DEF TypeOK, Idle
  <2>5. PlansInOrder'
    BY <1>1, <2>1, <2>3 DEF PlansInOrder
  <2>6. PlanBounds'
    BY <2>1, <2>3, <2>4 DEF PlanBounds
  <2>7. QED
    BY <2>5, <2>6
<1>4. ASSUME NEW h \in Handlers, ops' = ops, Len(plans') = Len(plans), NEW r, Goto(h, r),
             r.pc # "execute",
             lock' = lock \/ (lock = h /\ lock' = None)
      PROVE  PlanBounds' /\ PlansInOrder'
  <2>1. \A g \in Handlers : request'[g].pc = "execute" =>
            g # h /\ request'[g] = request[g] /\ lock = g
    BY <1>4 DEF Goto, TypeOK, PlanBounds
  <2>2. QED
    BY <1>1, <1>2, <1>4, <2>1
<1>5. ASSUME NEW h \in Handlers, BeginExecution(h) PROVE PlanBounds' /\ PlansInOrder'
  <2>1. \A g \in Handlers : request[g].pc # "execute"
    BY <1>5, HandlersAssumption DEF BeginExecution, LockTask, PlanBounds, None
  <2>2. /\ request' = [request EXCEPT ![h] = [pc |-> "execute", plan |-> Len(plans)]]
        /\ lock' = h /\ ops' = ops /\ plans' = plans
    BY <1>5 DEF BeginExecution, LockTask, Goto
  <2>3. \A g \in Handlers : request'[g].pc = "execute" =>
            lock' = g /\ request'[g].plan = Len(plans)
    BY <2>1, <2>2 DEF TypeOK
  <2>4. QED
    BY <1>1, <1>2, <2>2, <2>3
<1>6. ASSUME NEW h \in Handlers, Serve(h) PROVE PlanBounds' /\ PlansInOrder'
  <2>1. CASE SavePlan(h)
    <3>1. Len(plans') = Len(plans)
      <4>1. DOMAIN plans' = DOMAIN plans
        BY <2>1 DEF SavePlan
      <4>2. QED
        BY <4>1, <1>1, Numbered DEF TypeOK
    <3>2. QED
      BY <1>4, <2>1, <3>1 DEF SavePlan, Idle
  <2>2. CASE RequestFails(h)
    BY <1>4, <2>2 DEF RequestFails, Unlock, Idle
  <2>3. CASE ReadPlan(h) \/ Insert(h) \/ \E family \in Families : Look(h, family)
    BY <1>4, <2>3 DEF ReadPlan, Insert, Look, Idle
  <2>4. ASSUME NEW row, Compare(h, row) PROVE PlanBounds' /\ PlansInOrder'
    BY <1>4, <2>4 DEF Compare, Idle
  <2>5. QED
    BY <1>3, <1>5, <1>6, <2>1, <2>2, <2>3, <2>4 DEF Serve, RecordAgentToolAuditSnapshot,
       RecordAgentCodeAuditSnapshot, RecordAgentToolArmingSnapshot
<1>7. CASE UNCHANGED <<plans, lock, request>> /\ DOMAIN ops' = DOMAIN ops
  BY <1>1, <1>2, <1>7
<1>8. CASE GeneratePlan
  <2>1. Len(plans') = Len(plans) + 1
    BY <1>8, AppendProperties DEF GeneratePlan, TypeOK
  <2>2. QED
    BY <1>1, <1>2, <1>8, <2>1 DEF GeneratePlan
<1>9. ASSUME NEW w \in Workers, Work(w) PROVE UNCHANGED <<plans, lock, request>>
  BY <1>9 DEF Work, Claim, Execute, RecordCalls, RecordTask, RecordFails, Finish, Crash
<1>10. ASSUME NEW i \in DOMAIN ops, Cancel(i) \/ TimeOut(i) PROVE UNCHANGED <<plans, lock, request>>
  BY <1>10 DEF Cancel, TimeOut
<1>11. request' = request => DOMAIN ops' = DOMAIN ops
  <2>1. ASSUME NEW h \in Handlers, EnqueueExecution(h) PROVE request' # request
    BY <2>1 DEF EnqueueExecution, Goto, TypeOK, Idle
  <2>2. QED
    BY <2>1, OpsMove, Stepped
<1>12. QED
  BY <1>6, <1>7, <1>8, <1>9, <1>10, <1>11 DEF Next, AssetAppears, CreateRuntime, VerifyRuntime, vars

(* What a recorder counted as completed is there. *)
LEMMA SeenIsThere ==
  ASSUME TypeOK, Seen.completed > 0
  PROVE  CallsCompleted
<1> DEFINE T == {i \in Newest : ops[i].calls \in {"completed"}}
<1>1. Seen.completed = Cardinality(T)
  BY DEF Seen, CountOf
<1>2. T # {}
  BY <1>1, FS_EmptySet
<1>3. QED
  BY <1>2 DEF CallsCompleted, Newest

(* A success recorded is one that was counted. *)
LEMMA RecordedCounts ==
  ASSUME NEW seen \in Evidence, Recorded(seen)
  PROVE  seen.completed > 0
  BY DEF Recorded, Terminal, Evidence

(* A runtime that is ready was verified, of the project or a global one. *)
LEMMA ReadyIsVerified == RuntimeReady => RuntimeVerified
  BY DEF RuntimeReady, Selected, RuntimeVerified, Scopes

(* A row ready for review is backed when its counts are. *)
LEMMA CodeBacked ==
  ASSUME NEW seen \in Evidence, seen.completed > 0 => CallsCompleted, ReadyForReview(CodeRow(seen))
  PROVE  Backed(CodeRow(seen))
  BY RecordedCounts DEF ReadyForReview, CodeRow, CodePlans, CodeReady, Backed

(* The arming family needs a verified runtime as well. *)
LEMMA ArmingBacked ==
  ASSUME NEW seen \in Evidence, seen.completed > 0 => CallsCompleted, ReadyForReview(ArmingRow(seen))
  PROVE  Backed(ArmingRow(seen))
<1>1. "arming" \in DispatchPlan(seen)
  BY DEF ReadyForReview, ArmingRow
<1>2. ArmingReady(seen)
  BY <1>1 DEF DispatchPlan, CallbackPlan
<1>3. QED
  BY <1>2, RecordedCounts, ReadyIsVerified DEF ArmingReady, Backed, ArmingRow

(* What is backed stays so: outcomes stay, and so do verified runtimes. *)
LEMMA BackedStays ==
  ASSUME TypeOK, WorkersAtWork, [Next]_vars
  PROVE  /\ CallsCompleted => CallsCompleted'
         /\ RuntimeVerified => RuntimeVerified'
<1>1. CallsCompleted => CallsCompleted'
  BY CallsKept DEF CallsCompleted, Outcomes
<1>2. \A s \in Scopes : runtimes[s] = "verified" => runtimes'[s] = "verified"
  BY DEF Next, Serve, Work, ReadPlan, SavePlan, BeginExecution, EnqueueExecution, RequestFails,
     Look, Compare, Insert, RecordAgentToolAuditSnapshot, RecordAgentCodeAuditSnapshot,
     RecordAgentToolArmingSnapshot, GeneratePlan, AssetAppears, CreateRuntime, VerifyRuntime,
     Claim, Execute, RecordCalls, RecordTask, RecordFails, Finish, Crash, Cancel, TimeOut,
     vars, TypeOK, None
<1>3. QED
  BY <1>1, <1>2 DEF RuntimeVerified

(* Recorders insert what they read, or less. *)
LEMMA BackingNext ==
  ASSUME TypeOK, WorkersAtWork, Backing, [Next]_vars
  PROVE  Backing'
<1>1. \A row : Backed(row) => Backed(row)'
  BY BackedStays DEF Backed
<1>2. ASSUME NEW h \in Handlers, NEW r, Goto(h, r), rows' = rows,
             r.pc = "compare" /\ r.seen.completed > 0 => CallsCompleted,
             r.pc = "insert" => Backed(r.row)
      PROVE  Backing'
  BY <1>1, <1>2, BackedStays DEF Backing, Goto, TypeOK
<1>3. CASE UNCHANGED <<request, rows>>
  BY <1>1, <1>3, BackedStays DEF Backing
<1>4. ASSUME NEW h \in Handlers, NEW row, Backed(row), Compare(h, row) PROVE Backing'
  BY <1>2, <1>4 DEF Compare, Idle, snapshots
<1>5. ASSUME NEW h \in Handlers, Serve(h) PROVE Backing'
  <2>1. CASE ReadPlan(h) \/ SavePlan(h) \/ BeginExecution(h) \/ EnqueueExecution(h) \/ RequestFails(h)
    BY <1>2, <2>1 DEF ReadPlan, SavePlan, BeginExecution, EnqueueExecution, RequestFails, Idle,
         snapshots
  <2>2. ASSUME NEW family \in Families, Look(h, family) PROVE Backing'
    BY <1>2, <2>2, SeenIsThere DEF Look, snapshots
  <2>3. CASE RecordAgentToolAuditSnapshot(h)
    BY <1>4, <2>3 DEF RecordAgentToolAuditSnapshot, AuditRow, Backed
  <2>4. CASE RecordAgentCodeAuditSnapshot(h)
    BY <1>4, <2>4, Carried, CodeBacked DEF RecordAgentCodeAuditSnapshot, Looked, Backing
  <2>5. CASE RecordAgentToolArmingSnapshot(h)
    BY <1>4, <2>5, Carried, ArmingBacked DEF RecordAgentToolArmingSnapshot, Looked, Backing
  <2>6. CASE Insert(h)
    <3>1. /\ request[h].row \in Rows /\ Backed(request[h].row)
          /\ rows' = Append(rows, request[h].row) /\ rows \in Seq(Rows)
          /\ request' = [request EXCEPT ![h] = Idle]
      BY <2>6, Carried DEF Insert, Goto, Backing, TypeOK
    <3>2. \A r \in DOMAIN rows' : rows'[r] = request[h].row \/ (r \in DOMAIN rows /\ rows'[r] = rows[r])
      BY <3>1, AppendProperties, LenProperties
    <3>3. \A r \in DOMAIN rows' : Backed(rows[r])'
      BY <1>1, <3>1, <3>2 DEF Backing
    <3>4. QED
      BY <1>1, <3>1, <3>3, BackedStays DEF Backing, TypeOK, Idle
  <2>7. QED
    BY <1>5, <2>1, <2>2, <2>3, <2>4, <2>5, <2>6 DEF Serve
<1>6. QED
  BY <1>3, <1>5 DEF Next, Work, GeneratePlan, AssetAppears, CreateRuntime, VerifyRuntime, Claim,
     Execute, RecordCalls, RecordTask, RecordFails, Finish, Crash, Cancel, TimeOut, vars, snapshots

-----------------------------------------------------------------------------
(* The invariant holds initially. *)
LEMMA InvInit == Init => IInv
<1> SUFFICES ASSUME Init PROVE IInv
  OBVIOUS
<1>1. TypeOK
  BY TypeInit
<1>2. DOMAIN ops = {} /\ DOMAIN rows = {}
  BY DEF Init
<1>3. QED
  BY <1>1, <1>2 DEF Init, IInv, WorkersAtWork, TaskFollows, NoCallLeftActive, PlanBounds,
     PlansInOrder, Backing, Idle, Active

(* Every step preserves the invariant. *)
LEMMA InvNext == IInv /\ [Next]_vars => IInv'
  BY TypeNext, WorkersAtWorkNext, TaskFollowsNext, NoCallLeftActiveNext, PlansNext, BackingNext
     DEF IInv

(* The inductive invariant holds of every reachable state. *)
THEOREM InvCorrect == Spec => []IInv
  BY InvInit, InvNext, PTL DEF Spec

(* Every reachable state is well typed. *)
THEOREM TypeCorrect == Spec => []TypeOK
  BY InvCorrect, PTL DEF IInv

(* An active task has an execution that is active or was canceled, however *)
(* executions, sweeps, failures and late workers overlap.                  *)
THEOREM ActiveTaskHasOperationCorrect == Spec => []ActiveTaskHasOperation
<1>1. IInv => ActiveTaskHasOperation
  BY DEF IInv, TaskFollows, ActiveTaskHasOperation
<1>2. QED
  BY <1>1, InvCorrect, PTL

(* No execution that ended leaves an active call behind. *)
THEOREM NoCallLeftActiveCorrect == Spec => []NoCallLeftActive
  BY InvCorrect, PTL DEF IInv

(* Executions are enqueued in the order of their plans. *)
THEOREM PlansInOrderCorrect == Spec => []PlansInOrder
  BY InvCorrect, PTL DEF IInv

(* What is recorded as ready for review was executed, and what is recorded *)
(* as armed had a verified runtime.                                        *)
THEOREM ArmedWasExecutedCorrect == Spec => []ArmedWasExecuted
<1>1. IInv => ArmedWasExecuted
  BY DEF IInv, Backing, Backed, ArmedWasExecuted, CallsCompleted, RuntimeVerified
<1>2. QED
  BY <1>1, InvCorrect, PTL

(* No step changes the outcome of a call: not the answer of a worker whose *)
(* job was swept, nor a sweep that comes after the answer.                 *)
THEOREM OutcomeStaysCorrect == Spec => OutcomeStays
<1>1. IInv /\ [Next]_vars =>
        [\A i \in DOMAIN ops : ops[i].calls \in Outcomes => ops'[i].calls = ops[i].calls]_vars
  BY CallsKept DEF IInv
<1>2. QED
  BY <1>1, InvCorrect, PTL DEF Spec, OutcomeStays
=============================================================================
