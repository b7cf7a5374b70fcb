----------------------------- MODULE WorkQueue -----------------------------
(***************************************************************************)
(* The durable work queue of the control plane: the operation_runs and     *)
(* worker_jobs tables, the control workers that poll them, the remote node *)
(* workers that claim over HTTP, the cancel endpoint, and the sweep that   *)
(* fails work left running for 30 minutes.                                 *)
(*                                                                         *)
(* enqueueOperationGorm creates one operation with one job, so both rows   *)
(* are indexed by the operation.  A transaction is cut where it can wait:  *)
(* its first step takes the job rows it selects FOR UPDATE SKIP LOCKED     *)
(* (held), its last step takes the operation row and commits every write.  *)
(* Writes are seen by others at the commit (READ COMMITTED).               *)
(***************************************************************************)
EXTENDS Integers

CONSTANTS
    Ops,            \* operations clients may ask for
    Workers,        \* control worker processes
    Nodes,          \* registered remote nodes
    Clients,        \* HTTP requests that cancel an operation
    None,           \* no operation / no node
    Tool,           \* [Ops -> ToolKinds]: how the tool keeps its run row
    PreferredKind,  \* [Ops -> STRING]: worker_jobs.preferred_node_kind
    Required,       \* [Ops -> set of capabilities]
    NodeKind,       \* [Nodes -> STRING]
    Capabilities,   \* [Nodes -> set of capabilities]
    MayHang,        \* workers whose adapter may never return (git has no deadline)
    MaxFaults       \* bound on crashes, failed transactions and lost messages

(* How a tool's own run row is written when the outcome is recorded:      *)
(* "direct"  - by operation id whatever its status (repo.sync, ssh.exec);  *)
(* "guarded" - only while it is still active (agent.execute);              *)
(* "none"    - the tool has no run row (node.*, argo.pod_logs).            *)
ToolKinds == {"direct", "guarded", "none"}

LocalKinds == {"", "control-worker", "local"}

ASSUME ToolAssumption     == Tool \in [Ops -> ToolKinds]
ASSUME ActorAssumption    == Workers \cap Nodes = {} /\ None \notin Ops
ASSUME FaultsAssumption   == MaxFaults \in Nat /\ MayHang \subseteq Workers

(* A remote job is never run by a control worker: it has no run row.       *)
ASSUME RemoteAssumption ==
    \A o \in Ops : PreferredKind[o] \notin LocalKinds => Tool[o] = "none"

VARIABLES
    op,        \* operation_runs.status
    job,       \* worker_jobs.status
    run,       \* status of the tool's run row (repo_sync_runs, ...)
    born,      \* worker_jobs.created_at
    aged,      \* started_at is older than 30 minutes
    assigned,  \* worker_jobs.assigned_worker_node_id
    now,       \* the next creation time
    pc,        \* where each worker and node is
    cur,       \* the job it is working on
    held,      \* the job rows its open transaction has locked
    creq,      \* the operation row a cancel request has locked
    cseen,     \* that request read the job as queued
    posts,     \* /complete and /fail requests on their way to the gateway
    faults     \* faults so far

tables == <<op, job, run, born, aged, assigned, now>>
actors == <<pc, cur, held>>
cancels == <<creq, cseen>>
vars == <<tables, actors, cancels, posts, faults>>

Actors == Workers \cup Nodes
Terminal == {"completed", "failed", "canceled"}
Active == {"queued", "running"}
RunStatus == {"none"} \cup Active \cup {"completed", "failed"}
WorkerPC == {"poll", "recover", "claim", "claiming", "adapter", "recordSuccess",
             "recordFailure", "markCompleted", "markFailed"}
NodePC == {"idle", "claiming", "running"}
Jobless == {"poll", "recover", "claim", "idle"}
Posts == [op : Ops, node : Nodes, status : {"completed", "failed"}]

TypeOK ==
    /\ op \in [Ops -> {"none"} \cup Active \cup Terminal]
    /\ job \in [Ops -> {"none"} \cup Active \cup Terminal]
    /\ run \in [Ops -> RunStatus]
    /\ born \in [Ops -> Nat] /\ now \in Nat
    /\ aged \in [Ops -> BOOLEAN]
    /\ assigned \in [Ops -> Nodes \cup {None}]
    /\ pc \in [Actors -> WorkerPC \cup NodePC]
    /\ \A w \in Workers : pc[w] \in WorkerPC
    /\ \A n \in Nodes : pc[n] \in NodePC
    /\ cur \in [Actors -> Ops \cup {None}]
    /\ \A a \in Actors : cur[a] = None <=> pc[a] \in Jobless
    /\ held \in [Actors -> SUBSET Ops]
    /\ creq \in [Clients -> Ops \cup {None}]
    /\ cseen \in [Clients -> BOOLEAN]
    /\ posts \subseteq Posts
    /\ faults \in 0..MaxFaults

Init ==
    /\ op = [o \in Ops |-> "none"] /\ job = [o \in Ops |-> "none"]
    /\ run = [o \in Ops |-> "none"]
    /\ born = [o \in Ops |-> 0] /\ now = 0
    /\ aged = [o \in Ops |-> FALSE]
    /\ assigned = [o \in Ops |-> None]
    /\ pc = [a \in Actors |-> IF a \in Workers THEN "poll" ELSE "idle"]
    /\ cur = [a \in Actors |-> None]
    /\ held = [a \in Actors |-> {}]
    /\ creq = [c \in Clients |-> None] /\ cseen = [c \in Clients |-> FALSE]
    /\ posts = {} /\ faults = 0

(* Mutant: a claim without FOR UPDATE SKIP LOCKED. *)
JobLockedNever(o) == FALSE

JobLocked(o) == \E a \in Actors : o \in held[a]
OpLocked(o) == \E c \in Clients : creq[c] = o

Fault == faults < MaxFaults /\ faults' = faults + 1
Goto(a, label) == pc' = [pc EXCEPT ![a] = label]
Rest(a) == IF a \in Workers THEN "poll" ELSE "idle"

(* The actor drops what it was doing; its open transaction is rolled back. *)
Release(a) ==
    /\ Goto(a, Rest(a))
    /\ cur' = [cur EXCEPT ![a] = None]
    /\ held' = [held EXCEPT ![a] = {}]

-----------------------------------------------------------------------------
(* Creating work *)

(* One transaction creates the operation, its job and, for the tools that  *)
(* keep one, the run row.                                                  *)
Enqueue(o) ==
    /\ op[o] = "none"
    /\ op' = [op EXCEPT ![o] = "queued"]
    /\ job' = [job EXCEPT ![o] = "queued"]
    /\ run' = [run EXCEPT ![o] = IF Tool[o] = "none" THEN "none" ELSE "queued"]
    /\ born' = [born EXCEPT ![o] = now] /\ now' = now + 1
    /\ UNCHANGED <<aged, assigned, actors, cancels, posts, faults>>

(* Thirty minutes pass since the job was started. *)
Age(o) ==
    /\ job[o] = "running" /\ ~aged[o]
    /\ aged' = [aged EXCEPT ![o] = TRUE]
    /\ UNCHANGED <<op, job, run, born, assigned, now, actors, cancels, posts, faults>>

-----------------------------------------------------------------------------
(* processOne, first half: recoverStaleRunningJobs *)

(* Mutant: jobs of nodes are skipped. *)
StaleJobsOfWorkers == {o \in Ops : job[o] = "running" /\ aged[o] /\ ~JobLocked(o)
                                   /\ assigned[o] = None}

StaleJobs == {o \in Ops : job[o] = "running" /\ aged[o] /\ ~JobLocked(o)}

(* Second scan of the sweep: running operations with no active job left.   *)
OrphanOps == {o \in Ops : op[o] = "running" /\ aged[o] /\ ~OpLocked(o)
                          /\ job[o] \notin Active}

RecoverLock(w) ==
    /\ pc[w] = "poll"
    /\ held' = [held EXCEPT ![w] = StaleJobs]
    /\ Goto(w, "recover")
    /\ UNCHANGED <<tables, cur, cancels, posts, faults>>

(* Mutant: the run rows are forgotten. *)
RecoverCommitRunsLeft(w) ==
    /\ pc[w] = "recover"
    /\ \A o \in held[w] : ~OpLocked(o)
    /\ op' = [o \in Ops |-> IF o \in held[w] \cup OrphanOps THEN "failed" ELSE op[o]]
    /\ job' = [o \in Ops |-> IF o \in held[w] THEN "failed" ELSE job[o]]
    /\ held' = [held EXCEPT ![w] = {}]
    /\ Goto(w, "claim")
    /\ UNCHANGED <<run, born, aged, assigned, now, cur, cancels, posts, faults>>

(* failTimedOutOperationGorm overwrites the operation whatever its status, *)
(* and fails the run rows that are still active.                           *)
RecoverCommit(w) ==
    /\ pc[w] = "recover"
    /\ \A o \in held[w] : ~OpLocked(o)
    /\ LET timedOut == held[w] \cup OrphanOps IN
       /\ op' = [o \in Ops |-> IF o \in timedOut THEN "failed" ELSE op[o]]
       /\ run' = [o \in Ops |-> IF o \in timedOut /\ run[o] \in Active
                                THEN "failed" ELSE run[o]]
    /\ job' = [o \in Ops |-> IF o \in held[w] THEN "failed" ELSE job[o]]
    /\ held' = [held EXCEPT ![w] = {}]
    /\ Goto(w, "claim")
    /\ UNCHANGED <<born, aged, assigned, now, cur, cancels, posts, faults>>

(* A failed sweep is logged and the worker goes on to claim. *)
RecoverAbort(w) ==
    /\ pc[w] = "recover" /\ Fault
    /\ held' = [held EXCEPT ![w] = {}]
    /\ Goto(w, "claim")
    /\ UNCHANGED <<tables, cur, cancels, posts>>

-----------------------------------------------------------------------------
(* processOne, second half: claim, execute, record, finish *)

Claimable == {o \in Ops : job[o] = "queued" /\ PreferredKind[o] \in LocalKinds
                          /\ ~JobLocked(o)}
IsOldest(o, S) == o \in S /\ \A p \in S : born[o] <= born[p]

ClaimNone(w) ==
    /\ pc[w] = "claim" /\ Claimable = {}
    /\ Goto(w, "poll")
    /\ UNCHANGED <<tables, cur, held, cancels, posts, faults>>

ClaimLock(w) ==
    /\ pc[w] = "claim"
    /\ \E o \in Ops :
         /\ IsOldest(o, Claimable)
         /\ cur' = [cur EXCEPT ![w] = o]
         /\ held' = [held EXCEPT ![w] = {o}]
    /\ Goto(w, "claiming")
    /\ UNCHANGED <<tables, cancels, posts, faults>>

(* The status of the run row once the claim marks it running. *)
MarkedRunning(o) ==
    IF Tool[o] = "direct" \/ run[o] = "queued" THEN "running" ELSE run[o]

ClaimCommit(w) ==
    /\ pc[w] = "claiming"
    /\ LET o == cur[w] IN
       /\ ~OpLocked(o)
       /\ job' = [job EXCEPT ![o] = "running"]
       /\ op' = [op EXCEPT ![o] = "running"]
       /\ run' = [run EXCEPT ![o] = MarkedRunning(o)]
       /\ aged' = [aged EXCEPT ![o] = FALSE]
    /\ held' = [held EXCEPT ![w] = {}]
    /\ Goto(w, "adapter")
    /\ UNCHANGED <<born, assigned, now, cur, cancels, posts, faults>>

(* The claim transaction fails: the job is still queued. *)
ClaimAbort(a) ==
    /\ pc[a] = "claiming" /\ Fault
    /\ Release(a)
    /\ UNCHANGED <<tables, cancels, posts>>

(* executeAdapterRun runs outside any transaction. *)
AdapterReturn(w) ==
    /\ pc[w] = "adapter"
    /\ \E next \in {"recordSuccess", "recordFailure"} : Goto(w, next)
    /\ UNCHANGED <<tables, cur, held, cancels, posts, faults>>

(* The run row of o after an outcome is recorded in it. *)
Recorded(o, status) ==
    IF Tool[o] = "direct" \/ (Tool[o] = "guarded" /\ run[o] \in Active)
    THEN [run EXCEPT ![o] = status] ELSE run

(* recordAdapterSuccess writes the run row on a connection of its own, so  *)
(* an error after that write leaves it "completed" and still takes the     *)
(* failure path.                                                           *)
RecordSuccess(w) ==
    /\ pc[w] = "recordSuccess"
    /\ \/ run' = Recorded(cur[w], "completed") /\ Goto(w, "markCompleted")
          /\ UNCHANGED faults
       \/ run' \in {run, Recorded(cur[w], "completed")} /\ Goto(w, "recordFailure")
          /\ Fault
    /\ UNCHANGED <<op, job, born, aged, assigned, now, cur, held, cancels, posts>>

(* An error while recording a failure leaves the job running until the     *)
(* sweep finds it.                                                         *)
RecordFailure(w) ==
    /\ pc[w] = "recordFailure"
    /\ \/ /\ run' = Recorded(cur[w], "failed") /\ Goto(w, "markFailed")
          /\ UNCHANGED <<cur, held, faults>>
       \/ run' \in {run, Recorded(cur[w], "failed")} /\ Release(w) /\ Fault
    /\ UNCHANGED <<op, job, born, aged, assigned, now, cancels, posts>>

(* Mutant: the operation row is forgotten. *)
WriteOutcomeJobOnly(o, status) ==
    /\ ~JobLocked(o) /\ ~OpLocked(o)
    /\ job' = [job EXCEPT ![o] = status]
    /\ UNCHANGED <<op, run, born, aged, assigned, now>>

(* Both rows by id, whatever their status. *)
WriteOutcome(o, status) ==
    /\ ~JobLocked(o) /\ ~OpLocked(o)
    /\ job' = [job EXCEPT ![o] = status]
    /\ op' = [op EXCEPT ![o] = status]
    /\ UNCHANGED <<run, born, aged, assigned, now>>

MarkFinished(w) ==
    /\ \/ pc[w] = "markCompleted" /\ WriteOutcome(cur[w], "completed")
       \/ pc[w] = "markFailed" /\ WriteOutcome(cur[w], "failed")
    /\ Release(w)
    /\ UNCHANGED <<cancels, posts, faults>>

MarkFinishedAbort(w) ==
    /\ pc[w] \in {"markCompleted", "markFailed"} /\ Fault
    /\ Release(w)
    /\ UNCHANGED <<tables, cancels, posts>>

-----------------------------------------------------------------------------
(* Remote nodes *)

MatchesNode(o, n) ==
    /\ PreferredKind[o] \notin LocalKinds
    /\ PreferredKind[o] = NodeKind[n]
    /\ Required[o] \subseteq Capabilities[n]

(* The claim locks every queued job, then picks the oldest that matches.   *)
(* A claim that matches nothing commits nothing and is left out.           *)
NodeClaimLock(n) ==
    /\ pc[n] = "idle"
    /\ LET queued == {o \in Ops : job[o] = "queued" /\ ~JobLocked(o)} IN
       /\ \E o \in Ops :
            /\ IsOldest(o, {p \in queued : MatchesNode(p, n)})
            /\ cur' = [cur EXCEPT ![n] = o]
       /\ held' = [held EXCEPT ![n] = queued]
    /\ Goto(n, "claiming")
    /\ UNCHANGED <<tables, cancels, posts, faults>>

(* The answer to a committed claim may be lost: the job is then running,   *)
(* assigned to a node that does not know it.                               *)
NodeClaimCommit(n) ==
    /\ pc[n] = "claiming"
    /\ LET o == cur[n] IN
       /\ ~OpLocked(o)
       /\ job' = [job EXCEPT ![o] = "running"]
       /\ op' = [op EXCEPT ![o] = "running"]
       /\ aged' = [aged EXCEPT ![o] = FALSE]
       /\ assigned' = [assigned EXCEPT ![o] = n]
    /\ \/ Goto(n, "running") /\ held' = [held EXCEPT ![n] = {}]
          /\ UNCHANGED <<cur, faults>>
       \/ Release(n) /\ Fault
    /\ UNCHANGED <<run, born, now, cancels, posts>>

(* The node's tool ends and the node posts the outcome, once. *)
NodePost(n) ==
    /\ pc[n] = "running"
    /\ \E s \in {"completed", "failed"} :
         posts' = posts \cup {[op |-> cur[n], node |-> n, status |-> s]}
    /\ Release(n)
    /\ UNCHANGED <<tables, cancels, faults>>

(* finishNodeJob: only the node the job is assigned to may finish it. *)
FinishNodeJob(m) ==
    /\ m \in posts
    /\ \/ assigned[m.op] = m.node /\ WriteOutcome(m.op, m.status)
       \/ assigned[m.op] # m.node /\ UNCHANGED tables
    /\ posts' = posts \ {m}
    /\ UNCHANGED <<actors, cancels, faults>>

PostLost(m) ==
    /\ m \in posts /\ Fault
    /\ posts' = posts \ {m}
    /\ UNCHANGED <<tables, actors, cancels>>

(* A process dies at any point; a node registers again under its name.     *)
Crash(a) ==
    /\ pc[a] # Rest(a) /\ Fault
    /\ Release(a)
    /\ UNCHANGED <<tables, cancels, posts>>

-----------------------------------------------------------------------------
(* Canceling *)

(* Mutant: a terminal operation is not refused. *)
CancelLockAnyStatus(c, o) ==
    /\ creq[c] = None
    /\ op[o] # "none" /\ ~OpLocked(o)
    /\ creq' = [creq EXCEPT ![c] = o]
    /\ cseen' = [cseen EXCEPT ![c] = (job[o] = "queued")]
    /\ UNCHANGED <<tables, actors, posts, faults>>

(* Locks the operation row, refuses a terminal one, and reads the job.     *)
CancelLock(c, o) ==
    /\ creq[c] = None
    /\ op[o] \in Active /\ ~OpLocked(o)
    /\ creq' = [creq EXCEPT ![c] = o]
    /\ cseen' = [cseen EXCEPT ![c] = (job[o] = "queued")]
    /\ UNCHANGED <<tables, actors, posts, faults>>

CancelEnd(c) ==
    /\ creq' = [creq EXCEPT ![c] = None]
    /\ cseen' = [cseen EXCEPT ![c] = FALSE]

(* Saves the whole job row it read as queued; a running job is left alone. *)
CancelCommit(c) ==
    /\ creq[c] # None
    /\ cseen[c] => ~JobLocked(creq[c])
    /\ op' = [op EXCEPT ![creq[c]] = "canceled"]
    /\ job' = IF cseen[c] THEN [job EXCEPT ![creq[c]] = "canceled"] ELSE job
    /\ CancelEnd(c)
    /\ UNCHANGED <<run, born, aged, assigned, now, actors, posts, faults>>

CancelAbort(c) ==
    /\ creq[c] # None /\ Fault
    /\ CancelEnd(c)
    /\ UNCHANGED <<tables, actors, posts>>

(* A claim locks the job row, then the operation row; a cancel locks them  *)
(* in the other order.  PostgreSQL breaks the cycle by failing either.     *)
Deadlocked(a, c) ==
    pc[a] = "claiming" /\ creq[c] = cur[a] /\ cseen[c]

DeadlockAbort(a, c) ==
    /\ Deadlocked(a, c)
    /\ \/ Release(a) /\ UNCHANGED cancels
       \/ CancelEnd(c) /\ UNCHANGED actors
    /\ UNCHANGED <<tables, posts, faults>>

-----------------------------------------------------------------------------
WorkerStep(w) ==
    \/ RecoverLock(w) \/ RecoverCommit(w)
    \/ ClaimNone(w) \/ ClaimLock(w) \/ ClaimCommit(w)
    \/ AdapterReturn(w) \/ RecordSuccess(w) \/ RecordFailure(w) \/ MarkFinished(w)

WorkerFault(w) == RecoverAbort(w) \/ MarkFinishedAbort(w)

NodeStep(n) == NodeClaimLock(n) \/ NodeClaimCommit(n) \/ NodePost(n)

Next ==
    \/ \E o \in Ops : Enqueue(o) \/ Age(o)
    \/ \E w \in Workers : WorkerStep(w) \/ WorkerFault(w)
    \/ \E n \in Nodes : NodeStep(n)
    \/ \E a \in Actors : ClaimAbort(a) \/ Crash(a)
    \/ \E m \in posts : FinishNodeJob(m) \/ PostLost(m)
    \/ \E c \in Clients : CancelCommit(c) \/ CancelAbort(c)
    \/ \E c \in Clients, o \in Ops : CancelLock(c, o)
    \/ \E a \in Actors, c \in Clients : DeadlockAbort(a, c)

Spec == Init /\ [][Next]_vars

Hung(w) == w \in MayHang /\ pc[w] = "adapter"

(* What the scheduling justifies.  Worker and node loops keep running,     *)
(* adapters return except where they may hang, posts that are not lost     *)
(* arrive and time passes (WF).                                            *)
(* A transaction waiting for a row lock queues in PostgreSQL and gets the  *)
(* lock when it is freed, before anyone who asks later (SF).  Nobody is    *)
(* obliged to enqueue, cancel or fail.                                     *)
Fairness ==
    /\ \A w \in Workers : WF_vars(WorkerStep(w) /\ ~Hung(w)) /\ SF_vars(ClaimCommit(w))
    /\ \A n \in Nodes : WF_vars(NodeStep(n)) /\ SF_vars(NodeClaimCommit(n))
    /\ \A o \in Ops : WF_vars(Age(o))
    /\ \A m \in Posts : WF_vars(FinishNodeJob(m))
    /\ \A c \in Clients : SF_vars(CancelCommit(c))
    /\ \A a \in Actors, c \in Clients : WF_vars(DeadlockAbort(a, c))

FairSpec == Spec /\ Fairness

-----------------------------------------------------------------------------
(* Properties *)

(* o was handed to actor a, which may still report an outcome for it.      *)
Executing(a, o) ==
    /\ cur[a] = o
    /\ pc[a] \in {"adapter", "recordSuccess", "recordFailure",
                  "markCompleted", "markFailed", "running"}

Reporting(o) == \E m \in posts : m.op = o

InHand(o) == Reporting(o) \/ \E a \in Actors : Executing(a, o)

(* The two tables agree on every operation at every commit: the only       *)
(* tolerated difference is an operation canceled while its job runs, which *)
(* cancelOperationRunGorm leaves to the worker.  Claim, finish, sweep and  *)
(* cancel each write both rows in one transaction.                         *)
StatusAgreement ==
    \A o \in Ops : job[o] = op[o] \/ (op[o] = "canceled" /\ job[o] = "running")

(* A job is handed to at most one executor, ever: no requeue, no double    *)
(* claim under SKIP LOCKED, no second report for a job already reported.   *)
AtMostOneExecutor ==
    \A o \in Ops :
      /\ \A a, b \in Actors : Executing(a, o) /\ Executing(b, o) => a = b
      /\ \A m, k \in posts : m.op = o /\ k.op = o => m = k
      /\ Reporting(o) => \A a \in Actors : ~Executing(a, o)

(* A job the cancel endpoint marked canceled has not been handed to any    *)
(* executor, although the cancel reads it without locking it and saves the *)
(* whole row it read.                                                      *)
CanceledJobNeverRuns ==
    \A o \in Ops : job[o] = "canceled" =>
      ~InHand(o) /\ run[o] \in {"none", "queued"} /\ assigned[o] = None

(* Once an operation has completed or failed, nothing that is written for  *)
(* it leaves its run row active: neither the sweep nor a worker that       *)
(* reports after it leaves a repo sync, tag or SSH run "running" behind.   *)
(* Another operation may: a lookup sets the run of a tag operation that    *)
(* completed to running again (worker_part03.go 57-62), see RepoTags.      *)
NoRunLeftActive ==
    \A o \in Ops : op[o] \in {"completed", "failed"} => run[o] \notin Active

(* An operation is reported completed only after its own run row was: a    *)
(* completed repo sync never shows a failed run, even when the sweep had   *)
(* failed both before the late answer.                                     *)
CompletedWasRecorded ==
    \A o \in Ops : op[o] = "completed" /\ Tool[o] = "direct" => run[o] = "completed"

(* A completed operation stays completed: no cancel, sweep or late report  *)
(* of anybody changes it.                                                  *)
CompletedIsFinal ==
    [][\A o \in Ops : op[o] = "completed" => op'[o] = "completed"]_vars

(* A failed operation changes only by the late answer of the executor the  *)
(* job was given to before the sweep timed it out.                         *)
FailedChangesOnlyByLateAnswer ==
    [][\A o \in Ops : op[o] = "failed" /\ op'[o] # "failed" =>
         InHand(o) /\ op'[o] = "completed" /\ ~InHand(o)']_vars

(* An operation some live process is able to run. *)
Servable(o) ==
    PreferredKind[o] \in LocalKinds \/ \E n \in Nodes : MatchesNode(o, n)

(* Every accepted operation reaches a terminal status and so does its job, *)
(* whatever crashes, failed transactions and lost messages happen, as long *)
(* as one control worker is left whose adapters return.                    *)
EveryOperationSettles ==
    \A o \in Ops : Servable(o) =>
      (op[o] # "none" ~> op[o] \in Terminal /\ job[o] \in Terminal)

(* The right to run an operation, as OperationLifecycle sees it. *)
Token(o) ==
    IF InHand(o) THEN "out"
    ELSE IF job[o] \in {"none", "queued", "canceled"} THEN "unissued" ELSE "spent"

Lifecycle == INSTANCE OperationLifecycle
             WITH status <- op, token <- [o \in Ops |-> Token(o)]

(* The queue implements the life cycle of OperationLifecycle: every step   *)
(* of a worker, node, client, sweep or fault is a step or a stutter of it. *)
ImplementsLifecycle == Lifecycle!Spec
=============================================================================
