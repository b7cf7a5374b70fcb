-------------------------- MODULE WorkQueue_proof --------------------------
(***************************************************************************)
(* Theorems about WorkQueue, for any sets of operations, workers, nodes    *)
(* and clients, and, in the second part, about LogStream, through which    *)
(* clients follow the operations of the queue, for any logs and readers.   *)
(* The names of the second part begin with Stream.                         *)
(***************************************************************************)
EXTENDS WorkQueue, LogStream, SequenceTheorems, FiniteSetTheorems, TLAPS

USE ToolAssumption, ActorAssumption, FaultsAssumption DEF Actors

(* The type invariant holds of every reachable state. *)
LEMMA TypeInit == Init => TypeOK
  BY DEF Init, TypeOK, WorkerPC, NodePC, Jobless, Active, Terminal, RunStatus, Posts

(* Every step keeps the types. *)
LEMMA TypeNext == TypeOK /\ [Next]_vars => TypeOK'
<1> SUFFICES ASSUME TypeOK, [Next]_vars PROVE TypeOK'
  OBVIOUS
<1> USE DEF TypeOK, WorkerPC, NodePC, Jobless, Active, Terminal, RunStatus, tables,
            actors, cancels, Goto, Rest, Release, Fault
<1>1. ASSUME NEW o \in Ops, Enqueue(o) PROVE TypeOK'
  BY <1>1 DEF Enqueue
<1>2. ASSUME NEW o \in Ops, Age(o) PROVE TypeOK'
  BY <1>2 DEF Age
<1>3. ASSUME NEW w \in Workers, RecoverLock(w) PROVE TypeOK'
  BY <1>3 DEF RecoverLock, StaleJobs
<1>4. ASSUME NEW w \in Workers, RecoverCommit(w) PROVE TypeOK'
  BY <1>4 DEF RecoverCommit
<1>5. ASSUME NEW w \in Workers, RecoverAbort(w) PROVE TypeOK'
  BY <1>5 DEF RecoverAbort
<1>6. ASSUME NEW w \in Workers, ClaimNone(w) PROVE TypeOK'
  BY <1>6 DEF ClaimNone
<1>7. ASSUME NEW w \in Workers, ClaimLock(w) PROVE TypeOK'
  BY <1>7 DEF ClaimLock
<1>8. ASSUME NEW w \in Workers, ClaimCommit(w) PROVE TypeOK'
  BY <1>8 DEF ClaimCommit, MarkedRunning
<1>9. ASSUME NEW w \in Workers, AdapterReturn(w) PROVE TypeOK'
  BY <1>9 DEF AdapterReturn
<1>10. ASSUME NEW w \in Workers, RecordSuccess(w) PROVE TypeOK'
  BY <1>10 DEF RecordSuccess, Recorded
<1>11. ASSUME NEW w \in Workers, RecordFailure(w) PROVE TypeOK'
  BY <1>11 DEF RecordFailure, Recorded
<1>12. ASSUME NEW w \in Workers, MarkFinished(w) PROVE TypeOK'
  BY <1>12 DEF MarkFinished, WriteOutcome
<1>13. ASSUME NEW w \in Workers, MarkFinishedAbort(w) PROVE TypeOK'
  BY <1>13 DEF MarkFinishedAbort
<1>14. ASSUME NEW n \in Nodes, NodeClaimLock(n) PROVE TypeOK'
  BY <1>14 DEF NodeClaimLock
<1>15. ASSUME NEW n \in Nodes, NodeClaimCommit(n) PROVE TypeOK'
  <2> DEFINE o == cur[n]
  <2>1. /\ job' = [job EXCEPT ![o] = "running"]
        /\ op' = [op EXCEPT ![o] = "running"]
        /\ aged' = [aged EXCEPT ![o] = FALSE]
        /\ assigned' = [assigned EXCEPT ![o] = n]
        /\ UNCHANGED <<run, born, now, cancels, posts>>
    BY <1>15 DEF NodeClaimCommit
  <2>2. CASE Goto(n, "running") /\ held' = [held EXCEPT ![n] = {}] /\ UNCHANGED <<cur, faults>>
    <3>1. pc' = [pc EXCEPT ![n] = "running"] /\ n \notin Workers
      BY <2>2
    <3>2. /\ op' \in [Ops -> {"none"} \cup Active \cup Terminal]
          /\ job' \in [Ops -> {"none"} \cup Active \cup Terminal]
          /\ aged' \in [Ops -> BOOLEAN]
          /\ assigned' \in [Ops -> Nodes \cup {None}]
      BY <2>1
    <3>3. QED
      BY <2>1, <2>2, <3>1, <3>2, <1>15 DEF NodeClaimCommit
  <2>3. CASE Release(n) /\ Fault
    <3>1. pc' = [pc EXCEPT ![n] = "idle"] /\ n \notin Workers
      BY <2>3
    <3>2. /\ op' \in [Ops -> {"none"} \cup Active \cup Terminal]
          /\ job' \in [Ops -> {"none"} \cup Active \cup Terminal]
          /\ aged' \in [Ops -> BOOLEAN]
          /\ assigned' \in [Ops -> Nodes \cup {None}]
      BY <2>1
    <3>3. QED
      BY <2>1, <2>3, <3>1, <3>2
  <2>4. QED
    BY <1>15, <2>2, <2>3 DEF NodeClaimCommit
<1>16. ASSUME NEW n \in Nodes, NodePost(n) PROVE TypeOK'
  <2>1. Release(n) /\ UNCHANGED <<tables, cancels, faults>>
    BY <1>16 DEF NodePost
  <2>2. cur[n] \in Ops
    BY <1>16 DEF NodePost
  <2>3. posts' \subseteq Posts
    BY <1>16, <2>2 DEF NodePost, Posts
  <2>4. QED
    BY <2>1, <2>3
<1>17. ASSUME NEW a \in Actors, ClaimAbort(a) \/ Crash(a) PROVE TypeOK'
  BY <1>17 DEF ClaimAbort, Crash
<1>18. ASSUME NEW m \in posts, FinishNodeJob(m) \/ PostLost(m) PROVE TypeOK'
  BY <1>18 DEF FinishNodeJob, PostLost, WriteOutcome, Posts
<1>19. ASSUME NEW c \in Clients, CancelCommit(c) \/ CancelAbort(c) PROVE TypeOK'
  <2>1. CASE CancelCommit(c)
    BY <2>1 DEF CancelCommit, CancelEnd
  <2>2. CASE CancelAbort(c)
    BY <2>2 DEF CancelAbort, CancelEnd
  <2>3. QED
    BY <1>19, <2>1, <2>2
<1>20. ASSUME NEW c \in Clients, NEW o \in Ops, CancelLock(c, o) PROVE TypeOK'
  BY <1>20 DEF CancelLock
<1>21. ASSUME NEW a \in Actors, NEW c \in Clients, DeadlockAbort(a, c) PROVE TypeOK'
  <2>1. CASE Release(a) /\ UNCHANGED cancels
    BY <1>21, <2>1 DEF DeadlockAbort
  <2>2. CASE CancelEnd(c) /\ UNCHANGED actors
    BY <1>21, <2>2 DEF DeadlockAbort, CancelEnd
  <2>3. QED
    BY <1>21, <2>1, <2>2 DEF DeadlockAbort
<1>22. CASE UNCHANGED vars
  BY <1>22 DEF vars
<1>23. QED
  BY <1>1, <1>2, <1>3, <1>4, <1>5, <1>6, <1>7, <1>8, <1>9, <1>10, <1>11, <1>12,
     <1>13, <1>14, <1>15, <1>16, <1>17, <1>18, <1>19, <1>20, <1>21, <1>22
     DEF Next, WorkerStep, WorkerFault, NodeStep

(* Every reachable state is well typed: no row, lock or request ever names *)
(* something that does not exist, and an actor has a job exactly where it   *)
(* works on one.                                                           *)
THEOREM TypeCorrect == Spec => []TypeOK
  BY TypeInit, TypeNext, PTL DEF Spec

-----------------------------------------------------------------------------
(* The inductive invariant.  The safety properties of WorkQueue speak of   *)
(* what is in the tables; they are inductive only together with what the   *)
(* open transactions have locked and what the executors have still to say. *)

(* An open transaction locks jobs of one status, and closed ones nothing.  *)
HeldRows ==
    \A a \in Actors :
      /\ pc[a] \notin {"recover", "claiming"} => held[a] = {}
      /\ pc[a] = "recover" => \A o \in held[a] : job[o] = "running"
      /\ pc[a] = "claiming" => cur[a] \in held[a] /\ \A o \in held[a] : job[o] = "queued"

HeldOnce ==
    \A a, b \in Actors : \A o \in Ops : o \in held[a] /\ o \in held[b] => a = b

(* While a cancel holds its operation row, what it read stays true.        *)
CancelRows ==
    /\ \A c \in Clients : creq[c] # None =>
         op[creq[c]] \in Active /\ (cseen[c] <=> job[creq[c]] = "queued")
    /\ \A c, d \in Clients : creq[c] = creq[d] /\ creq[c] # None => c = d

(* A job in somebody's hand is running, or failed by the sweep.            *)
InHandRunning ==
    \A o \in Ops : InHand(o) => job[o] \in {"running", "failed"}

(* A job nobody was given has left no trace.                               *)
Untouched ==
    \A o \in Ops : job[o] \in {"none", "queued", "canceled"} =>
      run[o] \in {"none", "queued"} /\ assigned[o] = None

(* Tools without a run row, which are the only ones remote nodes run.      *)
NoRunRow ==
    /\ \A o \in Ops : Tool[o] = "none" => run[o] = "none"
    /\ \A n \in Nodes : pc[n] \in {"claiming", "running"} => Tool[cur[n]] = "none"
    /\ \A m \in posts : Tool[m.op] = "none"

(* What a worker is about to report is recorded already.                   *)
OutcomeRecorded ==
    \A w \in Workers :
      /\ pc[w] \in {"markCompleted", "markFailed"} => run[cur[w]] \notin Active
      /\ pc[w] = "markCompleted" /\ Tool[cur[w]] = "direct" => run[cur[w]] = "completed"

IInv ==
    /\ TypeOK
    /\ HeldRows
    /\ HeldOnce
    /\ CancelRows
    /\ StatusAgreement
    /\ InHandRunning
    /\ AtMostOneExecutor
    /\ Untouched
    /\ NoRunRow
    /\ OutcomeRecorded
    /\ NoRunLeftActive
    /\ CompletedWasRecorded

-----------------------------------------------------------------------------
(* The invariant holds initially. *)
LEMMA InvInit == Init => IInv
  BY TypeInit DEF Init, IInv, HeldRows, HeldOnce, CancelRows, StatusAgreement,
       InHandRunning, AtMostOneExecutor, Untouched, NoRunRow, OutcomeRecorded,
       NoRunLeftActive, CompletedWasRecorded, InHand, Executing, Reporting, Active, Rest

(* Handing a job that nobody has to the actor that locked it keeps it in   *)
(* one hand.                                                               *)
LEMMA HandOver ==
  ASSUME HeldRows, InHandRunning, AtMostOneExecutor, posts' = posts,
         NEW b \in Actors, pc[b] = "claiming", cur[b] \in Ops, None \notin Ops,
         cur'[b] \in {cur[b], None},
         \A a \in Actors : a # b => pc'[a] = pc[a] /\ cur'[a] = cur[a]
  PROVE  AtMostOneExecutor'
<1>1. ~InHand(cur[b])
  BY DEF HeldRows, InHandRunning
<1>2. \A a \in Actors, o \in Ops :
        Executing(a, o)' => Executing(a, o) \/ (a = b /\ o = cur[b])
  BY DEF Executing
<1>3. QED
  BY <1>1, <1>2 DEF AtMostOneExecutor, InHand, Reporting

(* A new operation disturbs no executor and no lock. *)
LEMMA InvEnqueue ==
  ASSUME NEW o \in Ops, IInv, TypeOK', Enqueue(o)
  PROVE  IInv'
<1> USE DEF IInv, TypeOK, tables, actors, cancels, Goto, Rest, Release, CancelEnd,
     InHand, Executing, Reporting, Active
<1>1. HeldOnce' /\ AtMostOneExecutor'
  BY DEF Enqueue, HeldOnce, AtMostOneExecutor
<1>2. HeldRows'
  BY DEF Enqueue, HeldRows, StatusAgreement
<1>3. CancelRows'
  BY DEF Enqueue, CancelRows
<1>4. StatusAgreement'
  BY DEF Enqueue, StatusAgreement
<1>5. InHandRunning'
  BY DEF Enqueue, InHandRunning, HeldRows, AtMostOneExecutor, StatusAgreement
<1>6. Untouched'
  BY DEF Enqueue, Untouched, HeldRows, InHandRunning, CancelRows, StatusAgreement
<1>7. NoRunRow'
  BY DEF Enqueue, NoRunRow
<1>8. OutcomeRecorded'
  BY DEF Enqueue, OutcomeRecorded, InHandRunning, StatusAgreement, Jobless
<1>9. NoRunLeftActive'
  BY DEF Enqueue, NoRunLeftActive
<1>10. CompletedWasRecorded'
  BY DEF Enqueue, CompletedWasRecorded
<1>11. QED
  BY <1>1, <1>2, <1>3, <1>4, <1>5, <1>6, <1>7, <1>8, <1>9, <1>10

(* Time only makes a job old enough for the sweep. *)
LEMMA InvAge ==
  ASSUME NEW o \in Ops, IInv, TypeOK', Age(o)
  PROVE  IInv'
<1> USE DEF IInv, TypeOK, tables, actors, cancels, Goto, Rest, Release, CancelEnd,
     InHand, Executing, Reporting, Active
<1>1. /\ HeldRows' /\ HeldOnce' /\ CancelRows' /\ StatusAgreement'
      /\ InHandRunning' /\ AtMostOneExecutor' /\ Untouched' /\ NoRunRow'
      /\ OutcomeRecorded' /\ NoRunLeftActive' /\ CompletedWasRecorded'
  BY DEF Age, HeldRows, HeldOnce, CancelRows, StatusAgreement, InHandRunning,
       AtMostOneExecutor, Untouched, NoRunRow, OutcomeRecorded, NoRunLeftActive,
       CompletedWasRecorded
<1>2. QED
  BY <1>1

(* The sweep locks running jobs nobody else has locked. *)
LEMMA InvRecoverLock ==
  ASSUME NEW w \in Workers, IInv, TypeOK', RecoverLock(w)
  PROVE  IInv'
<1> USE DEF IInv, TypeOK, tables, actors, cancels, Goto, Rest, Release, CancelEnd,
     InHand, Executing, Reporting, Active
<1>1. /\ CancelRows' /\ StatusAgreement' /\ Untouched' /\ NoRunLeftActive'
      /\ CompletedWasRecorded'
  BY DEF RecoverLock, StaleJobs, CancelRows, StatusAgreement, Untouched,
       NoRunLeftActive, CompletedWasRecorded
<1>2. HeldRows'
  BY DEF RecoverLock, StaleJobs, HeldRows
<1>3. HeldOnce'
  BY DEF RecoverLock, StaleJobs, HeldRows, HeldOnce, JobLocked
<1>4. InHandRunning'
  BY DEF RecoverLock, StaleJobs, InHandRunning
<1>5. AtMostOneExecutor'
  BY DEF RecoverLock, StaleJobs, AtMostOneExecutor
<1>6. NoRunRow'
  BY DEF RecoverLock, StaleJobs, NoRunRow
<1>7. OutcomeRecorded'
  BY DEF RecoverLock, StaleJobs, OutcomeRecorded
<1>8. QED
  BY <1>1, <1>2, <1>3, <1>4, <1>5, <1>6, <1>7

(* The second scan of the sweep never finds anything: with one job per     *)
(* operation a running operation has an active job.                        *)
LEMMA NoOrphans == StatusAgreement => OrphanOps = {}
  BY DEF StatusAgreement, OrphanOps, Active

(* The sweep fails both rows and the active run rows of what it locked. *)
LEMMA InvRecoverCommit ==
  ASSUME NEW w \in Workers, IInv, TypeOK', RecoverCommit(w)
  PROVE  IInv'
<1> USE DEF IInv, TypeOK, tables, actors, cancels, Goto, Rest, Release, CancelEnd,
     InHand, Executing, Reporting, Active
<1>a. OrphanOps = {}
  BY NoOrphans
<1>b. \A o \in held[w] : job[o] = "running" /\ ~OpLocked(o)
  BY DEF RecoverCommit, HeldRows
<1>c. /\ job' = [o \in Ops |-> IF o \in held[w] THEN "failed" ELSE job[o]]
      /\ op' = [o \in Ops |-> IF o \in held[w] THEN "failed" ELSE op[o]]
      /\ run' = [o \in Ops |-> IF o \in held[w] /\ run[o] \in Active THEN "failed" ELSE run[o]]
      /\ UNCHANGED <<assigned, creq, cseen>>
  BY <1>a DEF RecoverCommit
<1>1. HeldRows'
  BY DEF RecoverCommit, HeldRows, HeldOnce, JobLocked
<1>2. HeldOnce'
  BY DEF RecoverCommit, HeldOnce
<1>3. CancelRows'
  BY <1>b, <1>c DEF CancelRows, OpLocked
<1>4. StatusAgreement'
  BY <1>c DEF StatusAgreement
<1>5. InHandRunning'
  BY DEF RecoverCommit, InHandRunning
<1>6. AtMostOneExecutor'
  <2>1. AtMostOneExecutor /\ posts' = posts
    BY DEF RecoverCommit
  <2>2. cur' = cur /\ pc' = [pc EXCEPT ![w] = "claim"] /\ pc \in [Actors -> WorkerPC \cup NodePC]
    BY DEF RecoverCommit
  <2>3. \A a \in Actors, o \in Ops : Executing(a, o)' => Executing(a, o)
    BY ONLY <2>2, w \in Workers DEF Executing, Actors
  <2>4. QED
    BY ONLY <2>1, <2>3 DEF AtMostOneExecutor, Reporting
<1>7. Untouched'
  <2>1. ASSUME NEW o \in Ops, o \in held[w]
        PROVE  job'[o] = "failed"
    BY <1>c, <2>1
  <2>2. ASSUME NEW o \in Ops, o \notin held[w]
        PROVE  job'[o] = job[o] /\ run'[o] = run[o] /\ assigned'[o] = assigned[o]
    BY <1>c, <2>2
  <2>3. QED
    BY <2>1, <2>2 DEF Untouched
<1>8. NoRunRow'
  BY DEF RecoverCommit, NoRunRow
<1>9. OutcomeRecorded'
  BY DEF RecoverCommit, OutcomeRecorded, NoRunRow, AtMostOneExecutor, InHandRunning,
       HeldRows, Posts, WorkerPC, NodePC, Jobless
<1>10. NoRunLeftActive'
  BY DEF RecoverCommit, NoRunLeftActive
<1>11. CompletedWasRecorded'
  BY DEF RecoverCommit, CompletedWasRecorded
<1>12. QED
  BY <1>1, <1>2, <1>3, <1>4, <1>5, <1>6, <1>7, <1>8, <1>9, <1>10, <1>11

(* A failed sweep changes nothing in the tables. *)
LEMMA InvRecoverAbort ==
  ASSUME NEW w \in Workers, IInv, TypeOK', RecoverAbort(w)
  PROVE  IInv'
<1> USE DEF IInv, TypeOK, tables, actors, cancels, Goto, Rest, Release, CancelEnd,
     InHand, Executing, Reporting, Active
<1>1. /\ CancelRows' /\ StatusAgreement' /\ Untouched' /\ NoRunLeftActive'
      /\ CompletedWasRecorded'
  BY DEF RecoverAbort, CancelRows, StatusAgreement, Untouched, NoRunLeftActive,
       CompletedWasRecorded
<1>2. HeldRows'
  BY DEF RecoverAbort, HeldRows
<1>3. HeldOnce'
  BY DEF RecoverAbort, HeldOnce
<1>4. InHandRunning'
  BY DEF RecoverAbort, InHandRunning
<1>5. AtMostOneExecutor'
  BY DEF RecoverAbort, AtMostOneExecutor
<1>6. NoRunRow'
  BY DEF RecoverAbort, NoRunRow
<1>7. OutcomeRecorded'
  BY DEF RecoverAbort, OutcomeRecorded
<1>8. QED
  BY <1>1, <1>2, <1>3, <1>4, <1>5, <1>6, <1>7

(* A worker that finds nothing to claim polls again. *)
LEMMA InvClaimNone ==
  ASSUME NEW w \in Workers, IInv, TypeOK', ClaimNone(w)
  PROVE  IInv'
<1> USE DEF IInv, TypeOK, tables, actors, cancels, Goto, Rest, Release, CancelEnd,
     InHand, Executing, Reporting, Active
<1>1. /\ HeldOnce' /\ CancelRows' /\ StatusAgreement' /\ Untouched'
      /\ NoRunLeftActive' /\ CompletedWasRecorded'
  BY DEF ClaimNone, HeldOnce, CancelRows, StatusAgreement, Untouched, NoRunLeftActive,
       CompletedWasRecorded
<1>2. HeldRows'
  BY DEF ClaimNone, HeldRows
<1>3. InHandRunning'
  BY DEF ClaimNone, InHandRunning
<1>4. AtMostOneExecutor'
  BY DEF ClaimNone, AtMostOneExecutor
<1>5. NoRunRow'
  BY DEF ClaimNone, NoRunRow
<1>6. OutcomeRecorded'
  BY DEF ClaimNone, OutcomeRecorded
<1>7. QED
  BY <1>1, <1>2, <1>3, <1>4, <1>5, <1>6

(* A claim locks a queued job nobody else has locked. *)
LEMMA InvClaimLock ==
  ASSUME NEW w \in Workers, IInv, TypeOK', ClaimLock(w)
  PROVE  IInv'
<1> USE DEF IInv, TypeOK, tables, actors, cancels, Goto, Rest, Release, CancelEnd,
     InHand, Executing, Reporting, Active
<1>1. /\ CancelRows' /\ StatusAgreement' /\ Untouched' /\ NoRunLeftActive'
      /\ CompletedWasRecorded'
  BY DEF ClaimLock, IsOldest, Claimable, CancelRows, StatusAgreement, Untouched,
       NoRunLeftActive, CompletedWasRecorded
<1>2. HeldRows'
  BY DEF ClaimLock, IsOldest, Claimable, HeldRows
<1>3. HeldOnce'
  BY DEF ClaimLock, IsOldest, Claimable, HeldRows, HeldOnce, JobLocked
<1>4. InHandRunning'
  BY DEF ClaimLock, IsOldest, Claimable, InHandRunning
<1>5. AtMostOneExecutor'
  BY DEF ClaimLock, IsOldest, Claimable, AtMostOneExecutor
<1>6. NoRunRow'
  BY DEF ClaimLock, IsOldest, Claimable, NoRunRow
<1>7. OutcomeRecorded'
  BY DEF ClaimLock, IsOldest, Claimable, OutcomeRecorded
<1>8. QED
  BY <1>1, <1>2, <1>3, <1>4, <1>5, <1>6, <1>7

(* A committed claim puts a queued job in one worker's hand. *)
LEMMA InvClaimCommit ==
  ASSUME NEW w \in Workers, IInv, TypeOK', ClaimCommit(w)
  PROVE  IInv'
<1> USE DEF IInv, TypeOK, tables, actors, cancels, Goto, Rest, Release, CancelEnd,
     InHand, Executing, Reporting, Active
<1>1. HeldRows'
  BY DEF ClaimCommit, MarkedRunning, HeldRows, HeldOnce, JobLocked
<1>2. HeldOnce'
  BY DEF ClaimCommit, MarkedRunning, HeldOnce
<1>3. CancelRows'
  BY DEF ClaimCommit, MarkedRunning, CancelRows, HeldRows, StatusAgreement, OpLocked
<1>4. StatusAgreement'
  BY DEF ClaimCommit, MarkedRunning, StatusAgreement
<1>5. InHandRunning'
  BY DEF ClaimCommit, MarkedRunning, InHandRunning
<1>6. AtMostOneExecutor'
  <2>1. cur[w] \in Ops /\ pc[w] = "claiming"
    BY DEF ClaimCommit, Jobless
  <2>2. /\ posts' = posts /\ cur'[w] \in {cur[w], None}
        /\ \A a \in Actors : a # w => pc'[a] = pc[a] /\ cur'[a] = cur[a]
    BY DEF ClaimCommit
  <2>3. QED
    BY <2>1, <2>2, HandOver
<1>7. Untouched'
  BY DEF ClaimCommit, MarkedRunning, Untouched
<1>8. NoRunRow'
  BY DEF ClaimCommit, MarkedRunning, NoRunRow
<1>9. OutcomeRecorded'
  BY DEF ClaimCommit, MarkedRunning, OutcomeRecorded, NoRunRow, AtMostOneExecutor,
       InHandRunning, HeldRows, Posts, WorkerPC, NodePC, Jobless
<1>10. NoRunLeftActive'
  BY DEF ClaimCommit, MarkedRunning, NoRunLeftActive
<1>11. CompletedWasRecorded'
  BY DEF ClaimCommit, MarkedRunning, CompletedWasRecorded
<1>12. QED
  BY <1>1, <1>2, <1>3, <1>4, <1>5, <1>6, <1>7, <1>8, <1>9, <1>10, <1>11

(* The adapter's answer changes nothing in the tables. *)
LEMMA InvAdapterReturn ==
  ASSUME NEW w \in Workers, IInv, TypeOK', AdapterReturn(w)
  PROVE  IInv'
<1> USE DEF IInv, TypeOK, tables, actors, cancels, Goto, Rest, Release, CancelEnd,
     InHand, Executing, Reporting, Active
<1>1. /\ HeldOnce' /\ CancelRows' /\ StatusAgreement' /\ Untouched'
      /\ NoRunLeftActive' /\ CompletedWasRecorded'
  BY DEF AdapterReturn, HeldOnce, CancelRows, StatusAgreement, Untouched,
       NoRunLeftActive, CompletedWasRecorded
<1>2. HeldRows'
  BY DEF AdapterReturn, HeldRows
<1>3. InHandRunning'
  BY DEF AdapterReturn, InHandRunning
<1>4. AtMostOneExecutor'
  BY DEF AdapterReturn, AtMostOneExecutor
<1>5. NoRunRow'
  BY DEF AdapterReturn, NoRunRow
<1>6. OutcomeRecorded'
  BY DEF AdapterReturn, OutcomeRecorded
<1>7. QED
  BY <1>1, <1>2, <1>3, <1>4, <1>5, <1>6

(* The run row is written before the outcome. *)
LEMMA InvRecordSuccess ==
  ASSUME NEW w \in Workers, IInv, TypeOK', RecordSuccess(w)
  PROVE  IInv'
<1> USE DEF IInv, TypeOK, tables, actors, cancels, Goto, Rest, Release, CancelEnd,
     InHand, Executing, Reporting, Active
<1>1. HeldOnce' /\ CancelRows' /\ StatusAgreement'
  BY DEF RecordSuccess, Recorded, HeldOnce, CancelRows, StatusAgreement
<1>2. HeldRows'
  BY DEF RecordSuccess, Recorded, HeldRows
<1>3. InHandRunning'
  BY DEF RecordSuccess, Recorded, InHandRunning
<1>4. AtMostOneExecutor'
  BY DEF RecordSuccess, Recorded, AtMostOneExecutor
<1>5. Untouched'
  BY DEF RecordSuccess, Recorded, Untouched, HeldRows, InHandRunning, CancelRows,
       StatusAgreement
<1>6. NoRunRow'
  BY DEF RecordSuccess, Recorded, NoRunRow
<1>7. OutcomeRecorded'
  <2> DEFINE o == cur[w]
  <2>1. o \in Ops /\ run' \in {run, Recorded(o, "completed")}
    BY DEF RecordSuccess, Jobless
  <2>2. pc'[w] \in {"markCompleted", "markFailed"} =>
          pc'[w] = "markCompleted" /\ cur'[w] = o /\ run' = Recorded(o, "completed")
    BY DEF RecordSuccess, WorkerPC
  <2>3. /\ Recorded(o, "completed")[o] \notin Active
        /\ Tool[o] = "direct" => Recorded(o, "completed")[o] = "completed"
    BY <2>1 DEF Recorded, NoRunRow, ToolKinds
  <2>4. ASSUME NEW v \in Workers, v # w, pc[v] \in {"markCompleted", "markFailed"}
        PROVE  run'[cur[v]] = run[cur[v]] /\ cur[v] \in Ops
    <3>1. cur[v] \in Ops /\ cur[v] # o
      BY <2>1, <2>4 DEF AtMostOneExecutor, RecordSuccess, Jobless
    <3>2. QED
      BY <2>1, <3>1 DEF Recorded
  <2>5. \A v \in Workers : v # w => pc'[v] = pc[v] /\ cur'[v] = cur[v]
    BY DEF RecordSuccess
  <2>6. QED
    BY <2>2, <2>3, <2>4, <2>5 DEF OutcomeRecorded
<1>8. NoRunLeftActive'
  BY DEF RecordSuccess, Recorded, NoRunLeftActive
<1>9. CompletedWasRecorded'
  BY DEF RecordSuccess, Recorded, CompletedWasRecorded
<1>10. QED
  BY <1>1, <1>2, <1>3, <1>4, <1>5, <1>6, <1>7, <1>8, <1>9

(* The run row is written before the outcome, or the job is let go. *)
LEMMA InvRecordFailure ==
  ASSUME NEW w \in Workers, IInv, TypeOK', RecordFailure(w)
  PROVE  IInv'
<1> USE DEF IInv, TypeOK, tables, actors, cancels, Goto, Rest, Release, CancelEnd,
     InHand, Executing, Reporting, Active
<1>1. CancelRows' /\ StatusAgreement'
  BY DEF RecordFailure, Recorded, CancelRows, StatusAgreement
<1>2. HeldRows'
  BY DEF RecordFailure, Recorded, HeldRows
<1>3. HeldOnce'
  BY DEF RecordFailure, Recorded, HeldOnce
<1>4. InHandRunning'
  BY DEF RecordFailure, Recorded, InHandRunning
<1>5. AtMostOneExecutor'
  BY SMTT(30) DEF RecordFailure, Recorded, AtMostOneExecutor
<1>6. Untouched'
  BY DEF RecordFailure, Recorded, Untouched, HeldRows, InHandRunning, CancelRows,
       StatusAgreement
<1>7. NoRunRow'
  BY DEF RecordFailure, Recorded, NoRunRow
<1>8. OutcomeRecorded'
  <2> DEFINE o == cur[w]
  <2>1. o \in Ops /\ run' \in {run, Recorded(o, "failed")}
    BY DEF RecordFailure, Jobless
  <2>2. pc'[w] \in {"markCompleted", "markFailed"} =>
          pc'[w] = "markFailed" /\ cur'[w] = o /\ run' = Recorded(o, "failed")
    BY DEF RecordFailure, WorkerPC
  <2>3. /\ Recorded(o, "failed")[o] \notin Active
        /\ Tool[o] = "direct" => Recorded(o, "failed")[o] = "failed"
    BY <2>1 DEF Recorded, NoRunRow, ToolKinds
  <2>4. ASSUME NEW v \in Workers, v # w, pc[v] \in {"markCompleted", "markFailed"}
        PROVE  run'[cur[v]] = run[cur[v]] /\ cur[v] \in Ops
    <3>1. cur[v] \in Ops /\ cur[v] # o
      BY <2>1, <2>4 DEF AtMostOneExecutor, RecordFailure, Jobless
    <3>2. QED
      BY <2>1, <3>1 DEF Recorded
  <2>5. \A v \in Workers : v # w => pc'[v] = pc[v] /\ cur'[v] = cur[v]
    BY DEF RecordFailure
  <2>6. QED
    BY <2>2, <2>3, <2>4, <2>5 DEF OutcomeRecorded
<1>9. NoRunLeftActive'
  BY DEF RecordFailure, Recorded, NoRunLeftActive
<1>10. CompletedWasRecorded'
  BY DEF RecordFailure, Recorded, CompletedWasRecorded, OutcomeRecorded, NoRunRow,
       InHandRunning, HeldRows, CancelRows, StatusAgreement
<1>11. QED
  BY <1>1, <1>2, <1>3, <1>4, <1>5, <1>6, <1>7, <1>8, <1>9, <1>10

(* The outcome is written to both rows and the job leaves the hand. *)
LEMMA InvMarkFinished ==
  ASSUME NEW w \in Workers, IInv, TypeOK', MarkFinished(w)
  PROVE  IInv'
<1> USE DEF IInv, TypeOK, tables, actors, cancels, Goto, Rest, Release, CancelEnd,
     InHand, Executing, Reporting, Active
<1>1. HeldRows'
  BY DEF MarkFinished, WriteOutcome, HeldRows, HeldOnce, JobLocked
<1>2. HeldOnce'
  BY DEF MarkFinished, WriteOutcome, HeldOnce
<1>3. CancelRows'
  BY DEF MarkFinished, WriteOutcome, CancelRows, HeldRows, StatusAgreement, OpLocked
<1>4. StatusAgreement'
  BY DEF MarkFinished, WriteOutcome, StatusAgreement
<1>5. InHandRunning'
  BY DEF MarkFinished, WriteOutcome, InHandRunning, HeldRows, AtMostOneExecutor,
       StatusAgreement
<1>6. AtMostOneExecutor'
  BY DEF MarkFinished, WriteOutcome, AtMostOneExecutor
<1>7. Untouched'
  BY DEF MarkFinished, WriteOutcome, Untouched
<1>8. NoRunRow'
  BY DEF MarkFinished, WriteOutcome, NoRunRow
<1>9. OutcomeRecorded'
  BY DEF MarkFinished, WriteOutcome, OutcomeRecorded
<1>10. NoRunLeftActive'
  BY DEF MarkFinished, WriteOutcome, NoRunLeftActive, OutcomeRecorded, NoRunRow,
       InHandRunning, HeldRows, CancelRows, StatusAgreement
<1>11. CompletedWasRecorded'
  BY DEF MarkFinished, WriteOutcome, CompletedWasRecorded, OutcomeRecorded, NoRunRow,
       InHandRunning, HeldRows, CancelRows, StatusAgreement
<1>12. QED
  BY <1>1, <1>2, <1>3, <1>4, <1>5, <1>6, <1>7, <1>8, <1>9, <1>10, <1>11

(* A node's claim locks every queued job that is free. *)
LEMMA InvNodeClaimLock ==
  ASSUME NEW n \in Nodes, IInv, TypeOK', NodeClaimLock(n)
  PROVE  IInv'
<1> USE DEF IInv, TypeOK, tables, actors, cancels, Goto, Rest, Release, CancelEnd,
     InHand, Executing, Reporting, Active
<1>1. /\ CancelRows' /\ StatusAgreement' /\ Untouched' /\ NoRunLeftActive'
      /\ CompletedWasRecorded'
  BY DEF NodeClaimLock, IsOldest, MatchesNode, CancelRows, StatusAgreement, Untouched,
       NoRunLeftActive, CompletedWasRecorded
<1>2. HeldRows'
  BY DEF NodeClaimLock, IsOldest, MatchesNode, HeldRows
<1>3. HeldOnce'
  BY DEF NodeClaimLock, IsOldest, MatchesNode, HeldRows, HeldOnce, JobLocked
<1>4. InHandRunning'
  BY DEF NodeClaimLock, IsOldest, MatchesNode, InHandRunning
<1>5. AtMostOneExecutor'
  BY DEF NodeClaimLock, IsOldest, MatchesNode, AtMostOneExecutor
<1>6. NoRunRow'
  <2>1. PICK o \in Ops : MatchesNode(o, n) /\ cur' = [cur EXCEPT ![n] = o]
    BY DEF NodeClaimLock, IsOldest
  <2>2. Tool[o] = "none"
    BY <2>1, RemoteAssumption DEF MatchesNode
  <2>3. pc' = [pc EXCEPT ![n] = "claiming"] /\ UNCHANGED <<run, posts>>
    BY DEF NodeClaimLock
  <2>4. QED
    BY <2>1, <2>2, <2>3 DEF NoRunRow
<1>7. OutcomeRecorded'
  BY DEF NodeClaimLock, IsOldest, MatchesNode, OutcomeRecorded
<1>8. QED
  BY <1>1, <1>2, <1>3, <1>4, <1>5, <1>6, <1>7

(* A node's claim puts a job without run row in the node's hand. *)
LEMMA InvNodeClaimCommit ==
  ASSUME NEW n \in Nodes, IInv, TypeOK', NodeClaimCommit(n)
  PROVE  IInv'
<1> USE DEF IInv, TypeOK, tables, actors, cancels, Goto, Rest, Release, CancelEnd,
     InHand, Executing, Reporting, Active
<1>1. HeldRows'
  BY SMTT(30) DEF NodeClaimCommit, HeldRows, HeldOnce, JobLocked
<1>2. HeldOnce'
  BY DEF NodeClaimCommit, HeldOnce
<1>3. CancelRows'
  BY DEF NodeClaimCommit, CancelRows, HeldRows, StatusAgreement, OpLocked
<1>4. StatusAgreement'
  BY DEF NodeClaimCommit, StatusAgreement
<1>5. InHandRunning'
  BY DEF NodeClaimCommit, InHandRunning
<1>6. AtMostOneExecutor'
  <2>1. cur[n] \in Ops /\ pc[n] = "claiming"
    BY DEF NodeClaimCommit, Jobless
  <2>2. /\ posts' = posts /\ cur'[n] \in {cur[n], None}
        /\ \A a \in Actors : a # n => pc'[a] = pc[a] /\ cur'[a] = cur[a]
    BY DEF NodeClaimCommit
  <2>3. QED
    BY <2>1, <2>2, HandOver
<1>7. Untouched'
  BY DEF NodeClaimCommit, Untouched
<1>8. NoRunRow'
  BY DEF NodeClaimCommit, NoRunRow
<1>9. OutcomeRecorded'
  BY DEF NodeClaimCommit, OutcomeRecorded
<1>10. NoRunLeftActive'
  BY DEF NodeClaimCommit, NoRunLeftActive
<1>11. CompletedWasRecorded'
  BY DEF NodeClaimCommit, CompletedWasRecorded
<1>12. QED
  BY <1>1, <1>2, <1>3, <1>4, <1>5, <1>6, <1>7, <1>8, <1>9, <1>10, <1>11

(* The job passes from the node to its post. *)
LEMMA InvNodePost ==
  ASSUME NEW n \in Nodes, IInv, TypeOK', NodePost(n)
  PROVE  IInv'
<1> USE DEF IInv, TypeOK, tables, actors, cancels, Goto, Rest, Release, CancelEnd,
     InHand, Executing, Reporting, Active
<1>1. /\ CancelRows' /\ StatusAgreement' /\ Untouched' /\ NoRunLeftActive'
      /\ CompletedWasRecorded'
  BY DEF NodePost, CancelRows, StatusAgreement, Untouched, NoRunLeftActive,
       CompletedWasRecorded
<1>2. HeldRows'
  BY DEF NodePost, HeldRows
<1>3. HeldOnce'
  BY DEF NodePost, HeldOnce
<1>4. InHandRunning'
  BY DEF NodePost, InHandRunning
<1>5. AtMostOneExecutor'
  BY DEF NodePost, AtMostOneExecutor
<1>6. NoRunRow'
  BY DEF NodePost, NoRunRow
<1>7. OutcomeRecorded'
  BY DEF NodePost, OutcomeRecorded
<1>8. QED
  BY <1>1, <1>2, <1>3, <1>4, <1>5, <1>6, <1>7

(* What a crash, a rolled back claim and a failed commit have in common. *)
LEMMA InvDrop ==
  ASSUME NEW a \in Actors, IInv, TypeOK', Release(a), UNCHANGED <<tables, cancels, posts>>
  PROVE  IInv'
<1> USE DEF IInv, TypeOK, tables, actors, cancels, Goto, Rest, Release, CancelEnd,
     InHand, Executing, Reporting, Active
<1>1. /\ CancelRows' /\ StatusAgreement' /\ Untouched' /\ NoRunLeftActive'
      /\ CompletedWasRecorded'
  BY DEF CancelRows, StatusAgreement, Untouched, NoRunLeftActive, CompletedWasRecorded
<1>2. HeldRows'
  BY DEF HeldRows
<1>3. HeldOnce'
  BY DEF HeldOnce
<1>4. InHandRunning'
  BY DEF InHandRunning
<1>5. AtMostOneExecutor'
  BY DEF AtMostOneExecutor
<1>6. NoRunRow'
  BY DEF NoRunRow
<1>7. OutcomeRecorded'
  BY DEF OutcomeRecorded
<1>8. QED
  BY <1>1, <1>2, <1>3, <1>4, <1>5, <1>6, <1>7

(* A post that arrives writes both rows and is gone. *)
LEMMA InvFinishNodeJob ==
  ASSUME NEW m \in posts, IInv, TypeOK', FinishNodeJob(m)
  PROVE  IInv'
<1> USE DEF IInv, TypeOK, tables, actors, cancels, Goto, Rest, Release, CancelEnd,
     InHand, Executing, Reporting, Active
<1>1. HeldOnce' /\ OutcomeRecorded'
  BY DEF FinishNodeJob, WriteOutcome, HeldOnce, OutcomeRecorded
<1>2. HeldRows'
  BY DEF FinishNodeJob, WriteOutcome, HeldRows, HeldOnce, JobLocked
<1>3. CancelRows'
  BY DEF FinishNodeJob, WriteOutcome, CancelRows, HeldRows, StatusAgreement, OpLocked
<1>4. StatusAgreement'
  BY DEF FinishNodeJob, WriteOutcome, StatusAgreement
<1>5. InHandRunning'
  BY DEF FinishNodeJob, WriteOutcome, InHandRunning, HeldRows, AtMostOneExecutor,
       StatusAgreement
<1>6. AtMostOneExecutor'
  BY DEF FinishNodeJob, WriteOutcome, AtMostOneExecutor
<1>7. Untouched'
  <2>1. UNCHANGED <<run, assigned>>
    BY DEF FinishNodeJob, WriteOutcome
  <2>2. m.op \in Ops /\ m.status \in {"completed", "failed"}
    BY DEF Posts
  <2>3. job' = job \/ job' = [job EXCEPT ![m.op] = m.status]
    BY DEF FinishNodeJob, WriteOutcome
  <2>4. QED
    BY <2>1, <2>2, <2>3 DEF Untouched
<1>8. NoRunRow'
  BY DEF FinishNodeJob, WriteOutcome, NoRunRow
<1>9. NoRunLeftActive'
  BY DEF FinishNodeJob, WriteOutcome, NoRunLeftActive, OutcomeRecorded, NoRunRow,
       InHandRunning, HeldRows, CancelRows, StatusAgreement
<1>10. CompletedWasRecorded'
  BY DEF FinishNodeJob, WriteOutcome, CompletedWasRecorded, OutcomeRecorded, NoRunRow,
       InHandRunning, HeldRows, CancelRows, StatusAgreement
<1>11. QED
  BY <1>1, <1>2, <1>3, <1>4, <1>5, <1>6, <1>7, <1>8, <1>9, <1>10

(* A lost post takes the job out of everybody's hand. *)
LEMMA InvPostLost ==
  ASSUME NEW m \in posts, IInv, TypeOK', PostLost(m)
  PROVE  IInv'
<1> USE DEF IInv, TypeOK, tables, actors, cancels, Goto, Rest, Release, CancelEnd,
     InHand, Executing, Reporting, Active
<1>1. /\ HeldRows' /\ HeldOnce' /\ CancelRows' /\ StatusAgreement'
      /\ Untouched' /\ OutcomeRecorded' /\ NoRunLeftActive'
      /\ CompletedWasRecorded'
  BY DEF PostLost, HeldRows, HeldOnce, CancelRows, StatusAgreement, Untouched,
       OutcomeRecorded, NoRunLeftActive, CompletedWasRecorded
<1>2. InHandRunning'
  BY DEF PostLost, InHandRunning
<1>3. AtMostOneExecutor'
  BY DEF PostLost, AtMostOneExecutor
<1>4. NoRunRow'
  BY DEF PostLost, NoRunRow
<1>5. QED
  BY <1>1, <1>2, <1>3, <1>4

(* A cancel changes the job only if it is still queued. *)
LEMMA InvCancelCommit ==
  ASSUME NEW c \in Clients, IInv, TypeOK', CancelCommit(c)
  PROVE  IInv'
<1> USE DEF IInv, TypeOK, tables, actors, cancels, Goto, Rest, Release, CancelEnd,
     InHand, Executing, Reporting, Active
<1>1. HeldOnce' /\ AtMostOneExecutor' /\ NoRunRow' /\ OutcomeRecorded'
  BY DEF CancelCommit, HeldOnce, AtMostOneExecutor, NoRunRow, OutcomeRecorded
<1>2. HeldRows'
  BY DEF CancelCommit, HeldRows, HeldOnce, JobLocked
<1>3. CancelRows'
  BY DEF CancelCommit, CancelRows
<1>4. StatusAgreement'
  BY DEF CancelCommit, StatusAgreement, HeldRows, CancelRows, InHandRunning
<1>5. InHandRunning'
  <2>1. ~InHand(creq[c]) \/ job' = job
    BY DEF CancelCommit, CancelRows, InHandRunning
  <2>2. \A o \in Ops : o # creq[c] => job'[o] = job[o]
    BY DEF CancelCommit
  <2>3. UNCHANGED <<actors, posts>>
    BY DEF CancelCommit
  <2>4. QED
    BY <2>1, <2>2, <2>3 DEF InHandRunning
<1>6. Untouched'
  BY DEF CancelCommit, Untouched, HeldRows, InHandRunning, CancelRows, StatusAgreement
<1>7. NoRunLeftActive'
  BY DEF CancelCommit, NoRunLeftActive
<1>8. CompletedWasRecorded'
  BY DEF CancelCommit, CompletedWasRecorded
<1>9. QED
  BY <1>1, <1>2, <1>3, <1>4, <1>5, <1>6, <1>7, <1>8

(* A cancel rolled back frees its operation row. *)
LEMMA InvCancelDrop ==
  ASSUME NEW c \in Clients, IInv, TypeOK', CancelEnd(c), UNCHANGED <<tables, actors, posts>>
  PROVE  IInv'
<1> USE DEF IInv, TypeOK, tables, actors, cancels, Goto, Rest, Release, CancelEnd,
     InHand, Executing, Reporting, Active
<1>1. /\ HeldRows' /\ HeldOnce' /\ StatusAgreement' /\ InHandRunning'
      /\ AtMostOneExecutor' /\ Untouched' /\ NoRunRow' /\ OutcomeRecorded'
      /\ NoRunLeftActive' /\ CompletedWasRecorded'
  BY DEF HeldRows, HeldOnce, StatusAgreement, InHandRunning, AtMostOneExecutor,
       Untouched, NoRunRow, OutcomeRecorded, NoRunLeftActive, CompletedWasRecorded
<1>2. CancelRows'
  BY DEF CancelRows
<1>3. QED
  BY <1>1, <1>2

(* A cancel locks an active operation that nobody else is canceling. *)
LEMMA InvCancelLock ==
  ASSUME NEW c \in Clients, NEW o \in Ops, IInv, TypeOK', CancelLock(c, o)
  PROVE  IInv'
<1> USE DEF IInv, TypeOK, tables, actors, cancels, Goto, Rest, Release, CancelEnd,
     InHand, Executing, Reporting, Active
<1>1. /\ HeldRows' /\ HeldOnce' /\ StatusAgreement' /\ InHandRunning'
      /\ AtMostOneExecutor' /\ Untouched' /\ NoRunRow' /\ OutcomeRecorded'
      /\ NoRunLeftActive' /\ CompletedWasRecorded'
  BY DEF CancelLock, HeldRows, HeldOnce, StatusAgreement, InHandRunning,
       AtMostOneExecutor, Untouched, NoRunRow, OutcomeRecorded, NoRunLeftActive,
       CompletedWasRecorded
<1>2. CancelRows'
  <2>1. /\ creq' = [creq EXCEPT ![c] = o]
        /\ cseen' = [cseen EXCEPT ![c] = (job[o] = "queued")]
        /\ op[o] \in Active /\ UNCHANGED <<op, job>>
        /\ \A d \in Clients : creq[d] # o
    BY DEF CancelLock, OpLocked
  <2>2. ASSUME NEW d \in Clients, creq'[d] # None
        PROVE  op'[creq'[d]] \in Active /\ (cseen'[d] <=> job'[creq'[d]] = "queued")
    <3>1. CASE d = c
      BY <2>1, <3>1
    <3>2. CASE d # c
      BY <2>1, <2>2, <3>2 DEF CancelRows
    <3>3. QED
      BY <3>1, <3>2
  <2>3. ASSUME NEW d \in Clients, NEW e \in Clients, creq'[d] = creq'[e], creq'[d] # None
        PROVE  d = e
    BY <2>1, <2>3 DEF CancelRows
  <2>4. QED
    BY <2>2, <2>3 DEF CancelRows
<1>3. QED
  BY <1>1, <1>2

(* Every step preserves the invariant. *)
LEMMA InvNext == IInv /\ [Next]_vars => IInv'
<1> SUFFICES ASSUME IInv, [Next]_vars PROVE IInv'
  OBVIOUS
<1>1. TypeOK'
  BY TypeNext DEF IInv
<1>2. ASSUME NEW o \in Ops, Enqueue(o) \/ Age(o) PROVE IInv'
  BY <1>1, <1>2, InvEnqueue, InvAge
<1>3. ASSUME NEW w \in Workers, WorkerStep(w) PROVE IInv'
  BY <1>1, <1>3, InvRecoverLock, InvRecoverCommit, InvClaimNone, InvClaimLock,
     InvClaimCommit, InvAdapterReturn, InvRecordSuccess, InvRecordFailure, InvMarkFinished
     DEF WorkerStep
<1>4. ASSUME NEW w \in Workers, WorkerFault(w) PROVE IInv'
  BY <1>1, <1>4, InvRecoverAbort, InvDrop DEF WorkerFault, MarkFinishedAbort
<1>5. ASSUME NEW n \in Nodes, NodeStep(n) PROVE IInv'
  BY <1>1, <1>5, InvNodeClaimLock, InvNodeClaimCommit, InvNodePost DEF NodeStep
<1>6. ASSUME NEW a \in Actors, ClaimAbort(a) \/ Crash(a) PROVE IInv'
  BY <1>1, <1>6, InvDrop DEF ClaimAbort, Crash
<1>7. ASSUME NEW m \in posts, FinishNodeJob(m) \/ PostLost(m) PROVE IInv'
  BY <1>1, <1>7, InvFinishNodeJob, InvPostLost
<1>8. ASSUME NEW c \in Clients, CancelCommit(c) \/ CancelAbort(c) PROVE IInv'
  BY <1>1, <1>8, InvCancelCommit, InvCancelDrop DEF CancelAbort
<1>9. ASSUME NEW c \in Clients, NEW o \in Ops, CancelLock(c, o) PROVE IInv'
  BY <1>1, <1>9, InvCancelLock
<1>10. ASSUME NEW a \in Actors, NEW c \in Clients, DeadlockAbort(a, c) PROVE IInv'
  <2>1. CASE Release(a) /\ UNCHANGED cancels
    BY <1>1, <1>10, <2>1, InvDrop DEF DeadlockAbort
  <2>2. CASE CancelEnd(c) /\ UNCHANGED actors
    BY <1>1, <1>10, <2>2, InvCancelDrop DEF DeadlockAbort
  <2>3. QED
    BY <1>10, <2>1, <2>2 DEF DeadlockAbort
<1>11. CASE UNCHANGED vars
  BY <1>1, <1>11 DEF vars, tables, actors, cancels, IInv, HeldRows, HeldOnce,
       CancelRows,
     StatusAgreement, InHandRunning, AtMostOneExecutor, Untouched, NoRunRow,
     OutcomeRecorded, NoRunLeftActive, CompletedWasRecorded, InHand, Executing, Reporting
<1>12. QED
  BY <1>2, <1>3, <1>4, <1>5, <1>6, <1>7, <1>8, <1>9, <1>10, <1>11 DEF Next

(* The invariant holds of every reachable state. *)
LEMMA InvCorrect == Spec => []IInv
  BY InvInit, InvNext, PTL DEF Spec

-----------------------------------------------------------------------------
(* Operation and job rows agree at every commit, but for a running job     *)
(* whose operation was canceled: claim, finish, sweep and cancel never     *)
(* leave one row behind the other.                                         *)
THEOREM StatusAgreementHolds == Spec => []StatusAgreement
  BY InvCorrect, PTL DEF IInv

(* No job is ever in two hands, and none is handed out again. *)
THEOREM AtMostOneExecutorHolds == Spec => []AtMostOneExecutor
  BY InvCorrect, PTL DEF IInv

(* A job canceled in the queue was never claimed and left no trace. *)
THEOREM CanceledJobNeverRunsHolds == Spec => []CanceledJobNeverRuns
<1>1. IInv => CanceledJobNeverRuns
  BY DEF IInv, CanceledJobNeverRuns, InHandRunning, Untouched
<1>2. QED
  BY <1>1, InvCorrect, PTL

(* No run row is left active behind a completed or failed operation. *)
THEOREM NoRunLeftActiveHolds == Spec => []NoRunLeftActive
  BY InvCorrect, PTL DEF IInv

(* A completed operation's own run row was recorded completed before it. *)
THEOREM CompletedWasRecordedHolds == Spec => []CompletedWasRecorded
  BY InvCorrect, PTL DEF IInv

-----------------------------------------------------------------------------
(* The steps that change the status of an operation, and what they found.  *)
LEMMA OpChanges ==
  ASSUME IInv, Next, NEW o \in Ops, op'[o] # op[o]
  PROVE  \/ op[o] = "none" /\ op'[o] = "queued"
         \/ op[o] = "queued" /\ op'[o] = "running"
         \/ op[o] \in Active /\ op'[o] = "canceled"
         \/ op[o] \in {"running", "canceled"} /\ op'[o] = "failed"
         \/ op[o] # "completed" /\ InHand(o) /\ ~InHand(o)' /\ op'[o] \in {"completed", "failed"}
<1> DEFINE G == \/ op[o] = "none" /\ op'[o] = "queued"
                \/ op[o] = "queued" /\ op'[o] = "running"
                \/ op[o] \in Active /\ op'[o] = "canceled"
                \/ op[o] \in {"running", "canceled"} /\ op'[o] = "failed"
                \/ op[o] # "completed" /\ InHand(o) /\ ~InHand(o)'
                   /\ op'[o] \in {"completed", "failed"}
<1> USE DEF IInv, TypeOK, tables
<1>1. ASSUME NEW p \in Ops, Enqueue(p) PROVE G
  BY <1>1 DEF Enqueue
<1>2. ASSUME NEW w \in Workers, RecoverCommit(w) PROVE G
  <2>1. op[o] # "completed" /\ o \in held[w] /\ op'[o] = "failed" /\ job[o] = "running"
    BY <1>2, NoOrphans DEF RecoverCommit, HeldRows, StatusAgreement
  <2>2. QED
    BY <2>1 DEF StatusAgreement
<1>3. ASSUME NEW w \in Workers, ClaimCommit(w) PROVE G
  BY <1>3 DEF ClaimCommit, HeldRows, StatusAgreement
<1>4. ASSUME NEW w \in Workers, MarkFinished(w) PROVE G
  <2>1. /\ o = cur[w] /\ Executing(w, o) /\ op'[o] \in {"completed", "failed"}
        /\ Release(w) /\ posts' = posts
    BY <1>4 DEF MarkFinished, WriteOutcome, Executing
  <2>2. ~InHand(o)'
    BY <2>1, <1>4 DEF AtMostOneExecutor, InHand, Reporting, Executing, Release, Goto,
         Rest
  <2>3. InHand(o) /\ op[o] # "completed"
    BY <2>1 DEF InHand, InHandRunning, StatusAgreement
  <2>4. QED
    BY <2>1, <2>2, <2>3
<1>5. ASSUME NEW n \in Nodes, NodeClaimCommit(n) PROVE G
  BY <1>5 DEF NodeClaimCommit, HeldRows, StatusAgreement
<1>6. ASSUME NEW m \in posts, FinishNodeJob(m) PROVE G
  <2>1. /\ o = m.op /\ op'[o] \in {"completed", "failed"}
        /\ UNCHANGED actors /\ posts' = posts \ {m}
    BY <1>6 DEF FinishNodeJob, WriteOutcome, Posts
  <2>2. ~InHand(o)'
    BY <2>1 DEF AtMostOneExecutor, InHand, Reporting, Executing, actors
  <2>3. InHand(o) /\ op[o] # "completed"
    BY <2>1 DEF InHand, Reporting, InHandRunning, StatusAgreement
  <2>4. QED
    BY <2>1, <2>2, <2>3
<1>7. ASSUME NEW c \in Clients, CancelCommit(c) PROVE G
  BY <1>7 DEF CancelCommit, CancelRows
<1>8. op' = op \/ (\E p \in Ops : Enqueue(p))
      \/ (\E w \in Workers : RecoverCommit(w) \/ ClaimCommit(w) \/ MarkFinished(w))
      \/ (\E n \in Nodes : NodeClaimCommit(n)) \/ (\E m \in posts : FinishNodeJob(m))
      \/ (\E c \in Clients : CancelCommit(c))
  BY DEF Next, WorkerStep, WorkerFault, NodeStep, Age, RecoverLock, RecoverAbort,
       ClaimNone,
     ClaimLock, ClaimAbort, AdapterReturn, RecordSuccess, RecordFailure, MarkFinishedAbort,
     NodeClaimLock, NodePost, PostLost, Crash, CancelLock, CancelAbort, DeadlockAbort
<1>9. QED
  BY <1>1, <1>2, <1>3, <1>4, <1>5, <1>6, <1>7, <1>8

(* Nothing changes a completed operation: the sweep and the cancel find it *)
(* terminal, and nobody else still has the job in hand.                    *)
THEOREM CompletedIsFinalHolds == Spec => CompletedIsFinal
<1>1. IInv /\ [Next]_vars => [\A o \in Ops : op[o] = "completed" => op'[o] = "completed"]_vars
  BY OpChanges DEF Active
<1>2. QED
  BY <1>1, InvCorrect, PTL DEF Spec, CompletedIsFinal

(* A failed operation becomes completed only by the late answer of the one *)
(* executor it was given to, which then has nothing more to say.           *)
THEOREM FailedChangesOnlyByLateAnswerHolds == Spec => FailedChangesOnlyByLateAnswer
<1>1. IInv /\ [Next]_vars =>
        [\A o \in Ops : op[o] = "failed" /\ op'[o] # "failed" =>
           InHand(o) /\ op'[o] = "completed" /\ ~InHand(o)']_vars
  BY OpChanges DEF Active
<1>2. QED
  BY <1>1, InvCorrect, PTL DEF Spec, FailedChangesOnlyByLateAnswer

-----------------------------------------------------------------------------
(* The queue implements OperationLifecycle.  The abstract token of an      *)
(* operation is computed from whose hand its job is in and from the job's  *)
(* status; each lemma below maps one kind of step of the queue.            *)
tokens == [o \in Ops |-> Token(o)]

Unissued == {"none", "queued", "canceled"}

LifecycleStep == Lifecycle!Next \/ UNCHANGED <<op, tokens>>

(* An operation whose executors, posts and job are as before keeps its     *)
(* token.                                                                  *)
LEMMA TokenKept ==
  ASSUME NEW o \in Ops, InHand(o)' <=> InHand(o), job'[o] \in Unissued <=> job[o] \in Unissued
  PROVE  Token(o)' = Token(o)
  BY DEF Token, Unissued

(* When every token is kept, so is the mapping. *)
LEMMA TokensKept ==
  ASSUME \A o \in Ops : Token(o)' = Token(o)
  PROVE  tokens' = tokens
  BY DEF tokens

(* When every other token is kept, one entry of the mapping moves. *)
LEMMA OneToken ==
  ASSUME NEW o \in Ops, \A p \in Ops : p # o => Token(p)' = Token(p)
  PROVE  tokens' = [tokens EXCEPT ![o] = Token(o)']
  BY DEF tokens

(* A token out of hand whose job has started is spent. *)
LEMMA TokenSpent ==
  ASSUME NEW o \in Ops, ~InHand(o)', job'[o] \notin Unissued
  PROVE  Token(o)' = "spent"
  BY DEF Token, Unissued

(* Hands move only with the actors and the posts. *)
LEMMA HandsKept ==
  ASSUME NEW o \in Ops, \A m \in Posts : m.op = o => (m \in posts' <=> m \in posts),
         posts \subseteq Posts, posts' \subseteq Posts,
         \A a \in Actors : Executing(a, o)' <=> Executing(a, o)
  PROVE  InHand(o)' <=> InHand(o)
  BY DEF InHand, Reporting

(* Nothing is requested, issued or in hand at the start. *)
LEMMA RefInit == Init => Lifecycle!Init
<1> SUFFICES ASSUME Init PROVE Lifecycle!Init
  OBVIOUS
<1>1. \A o \in Ops : ~InHand(o)
  BY DEF Init, InHand, Executing, Reporting, Rest
<1>2. \A o \in Ops : Token(o) = "unissued"
  BY <1>1 DEF Token, Init
<1>3. QED
  BY <1>2 DEF Init, Lifecycle!Init

(* Creating an operation is Request: its job row is created queued. *)
LEMMA RefEnqueue ==
  ASSUME NEW o \in Ops, IInv, Enqueue(o)
  PROVE  LifecycleStep
<1> USE DEF IInv, TypeOK, actors
<1>1. \A p \in Ops : InHand(p)' <=> InHand(p)
  BY DEF Enqueue, InHand, Executing, Reporting
<1>2. job[o] = "none" /\ job' = [job EXCEPT ![o] = "queued"]
  BY DEF Enqueue, StatusAgreement
<1>3. tokens' = tokens
  BY <1>1, <1>2, TokenKept, TokensKept DEF Unissued
<1>4. Lifecycle!Request(o)
  BY <1>3 DEF Enqueue, Lifecycle!Request, tokens
<1>5. QED
  BY <1>4 DEF LifecycleStep, Lifecycle!Next

(* The sweep is TimeOut: every job it locked was handed out and has not    *)
(* been reported.                                                          *)
LEMMA RefRecoverCommit ==
  ASSUME NEW w \in Workers, IInv, RecoverCommit(w)
  PROVE  LifecycleStep
<1> USE DEF IInv, TypeOK
<1>1. OrphanOps = {}
  BY NoOrphans
<1>2. /\ job' = [o \in Ops |-> IF o \in held[w] THEN "failed" ELSE job[o]]
      /\ op' = [o \in Ops |-> IF o \in held[w] THEN "failed" ELSE op[o]]
  BY <1>1 DEF RecoverCommit
<1>3. \A o \in held[w] : job[o] = "running"
  BY DEF RecoverCommit, HeldRows
<1>4. \A p \in Ops : InHand(p)' <=> InHand(p)
  BY DEF RecoverCommit, InHand, Executing, Reporting, Goto
<1>5. tokens' = tokens
  BY <1>2, <1>3, <1>4, TokenKept, TokensKept DEF Unissued
<1>6. \A o \in held[w] : Token(o) # "unissued" /\ op[o] \in {"running", "canceled"}
  BY <1>3 DEF Token, StatusAgreement
<1>7. held[w] \in SUBSET Ops
  OBVIOUS
<1>8. Lifecycle!TimeOut(held[w])
  BY <1>2, <1>5, <1>6, <1>7 DEF Lifecycle!TimeOut, tokens
<1>9. QED
  BY <1>7, <1>8 DEF LifecycleStep, Lifecycle!Next

(* A claim, of a worker or of a node, gives the token of a job nobody has. *)
LEMMA RefClaim ==
  ASSUME NEW b \in Actors, NEW o \in Ops, IInv, TypeOK', pc[b] = "claiming", cur[b] = o,
         job' = [job EXCEPT ![o] = "running"], op' = [op EXCEPT ![o] = "running"],
         posts' = posts, \A a \in Actors : a # b => pc'[a] = pc[a] /\ cur'[a] = cur[a],
         cur'[b] \in {o, None}
  PROVE  LifecycleStep
<1> USE DEF IInv, TypeOK
<1>1. job[o] = "queued" /\ op[o] = "queued" /\ ~InHand(o)
  BY DEF HeldRows, StatusAgreement, InHandRunning
<1>2. \A p \in Ops : p # o => (InHand(p)' <=> InHand(p))
  BY HandsKept DEF Executing
<1>3. \A p \in Ops : p # o => Token(p)' = Token(p)
  BY <1>2, TokenKept
<1>4. Token(o) = "unissued" /\ Token(o)' \in {"out", "spent"}
  BY <1>1 DEF Token
<1>5. tokens[o] = "unissued" /\ tokens' = [tokens EXCEPT ![o] = Token(o)']
  BY <1>3, <1>4, OneToken DEF tokens
<1>6. Lifecycle!Start(o)
  BY <1>1, <1>4, <1>5 DEF Lifecycle!Start, tokens
<1>7. QED
  BY <1>6 DEF LifecycleStep, Lifecycle!Next

(* An outcome is written by the only hand the job is in. *)
LEMMA RefOutcome ==
  ASSUME NEW o \in Ops, NEW s \in {"completed", "failed"}, IInv, InHand(o), ~InHand(o)',
         WriteOutcome(o, s), \A p \in Ops : p # o => (InHand(p)' <=> InHand(p))
  PROVE  LifecycleStep
<1> USE DEF IInv, TypeOK
<1>1. job' = [job EXCEPT ![o] = s] /\ op' = [op EXCEPT ![o] = s]
  BY DEF WriteOutcome
<1>2. \A p \in Ops : p # o => Token(p)' = Token(p)
  BY <1>1, TokenKept
<1>3. Token(o) = "out" /\ Token(o)' = "spent"
  BY <1>1, TokenSpent DEF Token, Unissued
<1>4. tokens[o] = "out" /\ tokens' = [tokens EXCEPT ![o] = "spent"]
  BY <1>2, <1>3, OneToken DEF tokens
<1>5. Lifecycle!Report(o)
  BY <1>1, <1>4 DEF Lifecycle!Report, tokens
<1>6. QED
  BY <1>5 DEF LifecycleStep, Lifecycle!Next

(* An executor that is gone, or whose answer is, leaves the rows as they   *)
(* are.                                                                    *)
LEMMA RefVanish ==
  ASSUME NEW o \in Ops, IInv, InHand(o), ~InHand(o)', UNCHANGED <<op, job>>,
         \A p \in Ops : p # o => (InHand(p)' <=> InHand(p))
  PROVE  LifecycleStep
<1>1. \A p \in Ops : p # o => Token(p)' = Token(p)
  BY TokenKept
<1>2. Token(o) = "out" /\ Token(o)' = "spent"
  BY TokenSpent DEF Token, Unissued, IInv, InHandRunning
<1>3. tokens[o] = "out" /\ tokens' = [tokens EXCEPT ![o] = "spent"]
  BY <1>1, <1>2, OneToken DEF tokens
<1>4. Lifecycle!Vanish(o)
  BY <1>3 DEF Lifecycle!Vanish, tokens
<1>5. QED
  BY <1>4 DEF LifecycleStep, Lifecycle!Next

(* Nothing a client reads and no hand moves. *)
LEMMA RefStutter ==
  ASSUME UNCHANGED <<op, job>>, \A o \in Ops : InHand(o)' <=> InHand(o)
  PROVE  LifecycleStep
  BY TokenKept, TokensKept DEF LifecycleStep

(* What an actor that lets go had in hand is in nobody's hand. *)
LEMMA RefDrop ==
  ASSUME NEW a \in Actors, IInv, TypeOK', Release(a), UNCHANGED <<op, job, posts>>
  PROVE  LifecycleStep
<1> USE DEF IInv, TypeOK
<1>1. \A b \in Actors, p \in Ops : Executing(b, p)' <=> Executing(b, p) /\ b # a
  BY DEF Executing, Release, Goto, Rest
<1>2. CASE \E o \in Ops : Executing(a, o)
  <2>1. PICK o \in Ops : Executing(a, o)
    BY <1>2
  <2>2. InHand(o) /\ ~InHand(o)'
    BY <1>1, <2>1 DEF InHand, Reporting, AtMostOneExecutor
  <2>3. \A p \in Ops : p # o => (InHand(p)' <=> InHand(p))
    BY <1>1, <2>1 DEF InHand, Reporting, Executing
  <2>4. QED
    BY <2>2, <2>3, RefVanish
<1>3. CASE ~\E o \in Ops : Executing(a, o)
  <2>1. \A p \in Ops : InHand(p)' <=> InHand(p)
    BY <1>1, <1>3 DEF InHand, Reporting
  <2>2. QED
    BY <2>1, RefStutter
<1>4. QED
  BY <1>2, <1>3

(* A step of a control worker: only its claim, its sweep, its outcome and  *)
(* its letting go are seen.                                                *)
LEMMA RefWorker ==
  ASSUME NEW w \in Workers, IInv, TypeOK', WorkerStep(w) \/ WorkerFault(w)
  PROVE  LifecycleStep
<1> USE DEF IInv, TypeOK
<1>1. CASE ClaimCommit(w)
  <2>1. cur[w] \in Ops /\ pc[w] = "claiming"
    BY <1>1 DEF ClaimCommit, Jobless
  <2>2. QED
    BY <1>1, <2>1, RefClaim DEF ClaimCommit, Goto
<1>2. CASE MarkFinished(w)
  <2>1. PICK o \in Ops, s \in {"completed", "failed"} :
          cur[w] = o /\ pc[w] \in {"markCompleted", "markFailed"} /\ WriteOutcome(o, s)
    BY <1>2 DEF MarkFinished, Jobless
  <2>2. Executing(w, o) /\ Release(w) /\ posts' = posts
    BY <1>2, <2>1 DEF MarkFinished, Executing
  <2>3. \A b \in Actors, p \in Ops : Executing(b, p)' <=> Executing(b, p) /\ b # w
    BY <2>2 DEF Executing, Release, Goto, Rest
  <2>4. InHand(o) /\ ~InHand(o)'
    BY <2>2, <2>3 DEF InHand, Reporting, AtMostOneExecutor
  <2>5. \A p \in Ops : p # o => (InHand(p)' <=> InHand(p))
    BY <2>2, <2>3 DEF InHand, Reporting, Executing
  <2>6. QED
    BY <2>1, <2>4, <2>5, RefOutcome
<1>3. CASE RecordFailure(w)
  <2>1. CASE Release(w)
    BY <1>3, <2>1, RefDrop DEF RecordFailure
  <2>2. CASE Goto(w, "markFailed") /\ UNCHANGED <<cur, held>>
    <3>1. \A b \in Actors, p \in Ops : Executing(b, p)' <=> Executing(b, p)
      BY <1>3, <2>2 DEF RecordFailure, Executing, Goto
    <3>2. QED
      BY <1>3, <3>1, RefStutter DEF RecordFailure, InHand, Reporting
  <2>3. QED
    BY <1>3, <2>1, <2>2 DEF RecordFailure
<1>4. CASE MarkFinishedAbort(w)
  BY <1>4, RefDrop DEF MarkFinishedAbort, tables
<1>5. CASE \/ RecoverLock(w) \/ RecoverAbort(w) \/ ClaimNone(w) \/ ClaimLock(w)
           \/ AdapterReturn(w) \/ RecordSuccess(w)
  <2>1. \A b \in Actors, p \in Ops : Executing(b, p)' <=> Executing(b, p)
    BY <1>5 DEF RecoverLock, RecoverAbort, ClaimNone, ClaimLock, AdapterReturn,
         RecordSuccess, Executing, Goto
  <2>2. UNCHANGED <<op, job, posts>>
    BY <1>5 DEF RecoverLock, RecoverAbort, ClaimNone, ClaimLock, AdapterReturn,
         RecordSuccess, tables
  <2>3. QED
    BY <2>1, <2>2, RefStutter DEF InHand, Reporting
<1>6. QED
  BY <1>1, <1>2, <1>3, <1>4, <1>5, RefRecoverCommit DEF WorkerStep, WorkerFault

(* A step of a remote node: its claim is seen, and its post keeps the job  *)
(* in hand.                                                                *)
LEMMA RefNode ==
  ASSUME NEW n \in Nodes, IInv, TypeOK', NodeStep(n)
  PROVE  LifecycleStep
<1> USE DEF IInv, TypeOK
<1>1. CASE NodeClaimLock(n)
  <2>1. \A b \in Actors, p \in Ops : Executing(b, p)' <=> Executing(b, p)
    BY <1>1 DEF NodeClaimLock, Executing, Goto
  <2>2. QED
    BY <1>1, <2>1, RefStutter DEF NodeClaimLock, tables, InHand, Reporting
<1>2. CASE NodeClaimCommit(n)
  <2>1. cur[n] \in Ops /\ pc[n] = "claiming"
    BY <1>2 DEF NodeClaimCommit, Jobless
  <2>2. \A a \in Actors : a # n => pc'[a] = pc[a] /\ cur'[a] = cur[a]
    BY <1>2 DEF NodeClaimCommit, Goto, Release
  <2>3. cur'[n] \in {cur[n], None}
    BY <1>2 DEF NodeClaimCommit, Goto, Release
  <2>4. QED
    BY <1>2, <2>1, <2>2, <2>3, RefClaim DEF NodeClaimCommit
<1>3. CASE NodePost(n)
  <2>1. PICK o \in Ops, s \in {"completed", "failed"} :
          cur[n] = o /\ posts' = posts \cup {[op |-> o, node |-> n, status |-> s]}
    BY <1>3 DEF NodePost, Jobless
  <2>2. Executing(n, o) /\ Release(n) /\ UNCHANGED <<op, job>>
    BY <1>3, <2>1 DEF NodePost, Executing, tables
  <2>3. \A b \in Actors, p \in Ops : Executing(b, p)' <=> Executing(b, p) /\ b # n
    BY <2>2 DEF Executing, Release, Goto, Rest
  <2>4. InHand(o) /\ InHand(o)'
    <3>1. [op |-> o, node |-> n, status |-> s] \in posts'
      BY <2>1
    <3>2. Reporting(o)'
      BY <3>1 DEF Reporting
    <3>3. QED
      BY <2>2, <3>2 DEF InHand
  <2>5. \A p \in Ops : p # o => (Reporting(p)' <=> Reporting(p))
    BY <2>1 DEF Reporting
  <2>6. \A p \in Ops, b \in Actors : p # o => (Executing(b, p)' <=> Executing(b, p))
    BY <2>2, <2>3 DEF Executing
  <2>7. \A p \in Ops : InHand(p)' <=> InHand(p)
    BY <2>4, <2>5, <2>6 DEF InHand
  <2>8. QED
    BY <2>2, <2>7, RefStutter
<1>4. QED
  BY <1>1, <1>2, <1>3 DEF NodeStep

(* A post that arrives is Report, or Vanish when the job is not assigned   *)
(* to its node; a post that is lost is Vanish.                             *)
LEMMA RefPost ==
  ASSUME NEW m \in posts, IInv, TypeOK', FinishNodeJob(m) \/ PostLost(m)
  PROVE  LifecycleStep
<1> USE DEF IInv, TypeOK
<1>1. m.op \in Ops /\ m.status \in {"completed", "failed"}
  BY DEF Posts
<1>2. posts' = posts \ {m} /\ UNCHANGED actors
  BY DEF FinishNodeJob, PostLost
<1>3. \A b \in Actors, p \in Ops : Executing(b, p)' <=> Executing(b, p)
  BY <1>2 DEF Executing, actors
<1>4. InHand(m.op) /\ ~InHand(m.op)'
  BY <1>1, <1>2, <1>3 DEF InHand, Reporting, AtMostOneExecutor
<1>5. \A p \in Ops : p # m.op => (InHand(p)' <=> InHand(p))
  BY <1>2, <1>3 DEF InHand, Reporting
<1>6. CASE WriteOutcome(m.op, m.status)
  BY <1>1, <1>4, <1>5, <1>6, RefOutcome
<1>7. CASE UNCHANGED tables
  BY <1>1, <1>4, <1>5, <1>7, RefVanish DEF tables
<1>8. QED
  BY <1>6, <1>7 DEF FinishNodeJob, PostLost

(* A cancel takes an active operation, and a job only from the queue. *)
LEMMA RefCancel ==
  ASSUME NEW c \in Clients, IInv, CancelCommit(c)
  PROVE  LifecycleStep
<1> USE DEF IInv, TypeOK
<1> DEFINE o == creq[c]
<1>1. /\ o \in Ops /\ op[o] \in Active /\ (cseen[c] => job[o] = "queued")
      /\ op' = [op EXCEPT ![o] = "canceled"]
      /\ job' = IF cseen[c] THEN [job EXCEPT ![o] = "canceled"] ELSE job
      /\ UNCHANGED <<actors, posts>>
  BY DEF CancelCommit, CancelRows
<1>2. \A p \in Ops : InHand(p)' <=> InHand(p)
  BY <1>1 DEF InHand, Reporting, Executing, actors
<1>3. \A p \in Ops : job'[p] \in Unissued <=> job[p] \in Unissued
  BY <1>1 DEF Unissued
<1>4. tokens' = tokens
  BY <1>2, <1>3, TokenKept, TokensKept
<1>5. Lifecycle!Cancel(o)
  BY <1>1, <1>4 DEF Lifecycle!Cancel, tokens, Active
<1>6. QED
  BY <1>1, <1>5 DEF LifecycleStep, Lifecycle!Next

(* Every step of the queue is a step of the life cycle or leaves it alone. *)
LEMMA RefNext == IInv /\ [Next]_vars => [Lifecycle!Next]_(<<op, tokens>>)
<1> SUFFICES ASSUME IInv, [Next]_vars PROVE LifecycleStep
  BY DEF LifecycleStep
<1>1. TypeOK'
  BY TypeNext DEF IInv
<1>2. ASSUME NEW o \in Ops, Enqueue(o) PROVE LifecycleStep
  BY <1>2, RefEnqueue
<1>3. ASSUME NEW w \in Workers, WorkerStep(w) \/ WorkerFault(w) PROVE LifecycleStep
  BY <1>1, <1>3, RefWorker
<1>4. ASSUME NEW n \in Nodes, NodeStep(n) PROVE LifecycleStep
  BY <1>1, <1>4, RefNode
<1>5. ASSUME NEW m \in posts, FinishNodeJob(m) \/ PostLost(m) PROVE LifecycleStep
  BY <1>1, <1>5, RefPost
<1>6. ASSUME NEW c \in Clients, CancelCommit(c) PROVE LifecycleStep
  BY <1>6, RefCancel
<1>7. ASSUME NEW a \in Actors, Release(a), UNCHANGED <<tables, posts>> PROVE LifecycleStep
  BY <1>1, <1>7, RefDrop DEF tables
<1>8. ASSUME UNCHANGED <<op, job, actors, posts>> PROVE LifecycleStep
  BY <1>8, RefStutter DEF actors, InHand, Reporting, Executing
<1>9. QED
  BY <1>2, <1>3, <1>4, <1>5, <1>6, <1>7, <1>8
     DEF Next, Age, ClaimAbort, Crash, CancelAbort, CancelLock, DeadlockAbort, vars, tables

(* The queue, with its two kinds of executors, its sweep, its cancels, its *)
(* crashes, its rolled back transactions and its lost messages, implements *)
(* the life cycle: the right to run an operation is given out once and     *)
(* used at most once.                                                      *)
THEOREM ImplementsLifecycleHolds == Spec => ImplementsLifecycle
<1>1. Init => Lifecycle!Init
  BY RefInit
<1>2. IInv /\ [Next]_vars => [Lifecycle!Next]_(Lifecycle!vars)
  BY RefNext DEF Lifecycle!vars, tokens
<1>3. QED
  BY <1>1, <1>2, InvCorrect, PTL DEF Spec, ImplementsLifecycle, Lifecycle!Spec

-----------------------------------------------------------------------------
(* LogStream: the log stream of an operation *)

USE LogAssumption, BatchAssumption

(* l comes no later than m. *)
UpTo(l, m) == ~Before(m, l)

(* What clients and handlers refer to has been written. *)
Placed(c) ==
    /\ cursor[c] \in Written \cup {NoLog}
    /\ lastId[c] \in Written \cup {NoLog}
    /\ LogsIn(got[c]) \subseteq Written
    /\ LogsIn(wire[c]) \subseteq Written

(* Nothing is on the wire of a client that is not connected. *)
Quiet(c) == place[c] = "off" => wire[c] = <<>>

InOrder(c) ==
    /\ \A i, j \in DOMAIN got[c] : i < j => Before(got[c][i], got[c][j])
    /\ \A i \in DOMAIN got[c] : lastId[c] # NoLog /\ UpTo(got[c][i], lastId[c])
    /\ \A i, j \in DOMAIN wire[c] :
          i < j /\ wire[c][i] \in Logs /\ wire[c][j] \in Logs => Before(wire[c][i], wire[c][j])
    /\ \A l \in LogsIn(wire[c]) :
          AfterCursor(l, lastId[c]) /\ cursor[c] # NoLog /\ UpTo(l, cursor[c])
    /\ place[c] # "off" /\ lastId[c] # NoLog => cursor[c] # NoLog /\ UpTo(lastId[c], cursor[c])
    /\ \A l \in batch[c] : AfterCursor(l, cursor[c])

Complete(c) ==
    \A l \in Written \ late :
        /\ lastId[c] # NoLog /\ UpTo(l, lastId[c]) => l \in LogsIn(got[c])
        /\ place[c] # "off" /\ cursor[c] # NoLog /\ UpTo(l, cursor[c])
              => l \in LogsIn(got[c]) \cup LogsIn(wire[c])
        /\ \A m \in batch[c] : AfterCursor(l, cursor[c]) /\ UpTo(l, m) => l \in batch[c]

Stream(c) == Placed(c) /\ Quiet(c) /\ InOrder(c) /\ Complete(c)

StreamInv == StreamTypeOK /\ \A c \in Readers : Stream(c)

-----------------------------------------------------------------------------
(* The order of the logs *)

(* Time of creation and then id put the logs in a strict total order. *)
LEMMA Order ==
  ASSUME StreamTypeOK
  PROVE  /\ \A l \in Logs : UpTo(l, l)
         /\ \A l, m \in Logs : l # m => Before(l, m) \/ Before(m, l)
         /\ \A l, m \in Logs : Before(l, m) => UpTo(l, m)
         /\ \A l, m, n \in Logs : Before(l, m) /\ UpTo(m, n) => Before(l, n)
         /\ \A l, m, n \in Logs : UpTo(l, m) /\ Before(m, n) => Before(l, n)
         /\ \A l, m, n \in Logs : UpTo(l, m) /\ UpTo(m, n) => UpTo(l, n)
<1>1. stamp \in [Logs -> Times \cup {0}]
  BY DEF StreamTypeOK
<1>2. \A l \in Logs : stamp[l] \in Times \cup {0}
  BY <1>1
<1>3. \A l \in Logs : stamp[l] \in Nat
  <2>1. Times \subseteq Nat
    OBVIOUS
  <2>2. ASSUME NEW l \in Logs
        PROVE  stamp[l] \in Nat
    <3>1. stamp[l] \in Times \/ stamp[l] = 0
      BY <1>2
    <3>2. CASE stamp[l] \in Times
      BY <2>1, <3>2
    <3>3. CASE stamp[l] = 0
      BY ONLY <3>3
    <3>4. QED
      BY <3>1, <3>2, <3>3
  <2>3. QED
    BY <2>2
<1>4. \A l \in Logs : Rank[l] \in Nat
  OBVIOUS
<1>5. QED
  BY <1>3, <1>4 DEF Before, UpTo

(* The next batch has the first logs after the cursor. *)
LEMMA BatchIsFirst ==
  ASSUME StreamTypeOK, NEW from \in Written \cup {NoLog}
  PROVE  /\ NextBatch(from) \subseteq Written
         /\ \A m \in NextBatch(from) : AfterCursor(m, from)
         /\ \A m \in NextBatch(from), l \in Written :
               AfterCursor(l, from) /\ UpTo(l, m) => l \in NextBatch(from)
<1> DEFINE after == {l \in Written : AfterCursor(l, from)}
           ahead(l) == {m \in after : Before(m, l)}
<1>1. /\ NextBatch(from) \subseteq Written
      /\ \A m \in NextBatch(from) : AfterCursor(m, from)
  BY DEF NextBatch
<1>2. ASSUME NEW m \in NextBatch(from), NEW l \in Written, AfterCursor(l, from), UpTo(l, m)
      PROVE  l \in NextBatch(from)
  <2>1. l \in Logs /\ m \in Logs /\ after \subseteq Logs
    BY DEF NextBatch, Written
  <2>2. ahead(l) \subseteq ahead(m)
    BY <1>2, <2>1, Order
  <2>3. IsFiniteSet(ahead(m))
    BY <2>1, FS_Subset
  <2>4. Cardinality(ahead(l)) <= Cardinality(ahead(m)) /\ IsFiniteSet(ahead(l))
    BY <2>2, <2>3, FS_Subset
  <2>5. Cardinality(ahead(l)) \in Nat /\ Cardinality(ahead(m)) \in Nat
    BY <2>3, <2>4, FS_CardinalityType
  <2>6. Cardinality(ahead(m)) < Batch
    BY DEF NextBatch
  <2>7. Cardinality(ahead(l)) < Batch
    BY <2>4, <2>5, <2>6
  <2>8. QED
    BY <1>2, <2>7 DEF NextBatch
<1>3. QED
  BY <1>1, <1>2

-----------------------------------------------------------------------------
(* Sequences of events *)

(* The empty sequence has no logs. *)
LEMMA LogsInEmpty == LogsIn(<<>>) = {}
  BY DEF LogsIn

(* Appending an event adds at most one log. *)
LEMMA LogsInAppend ==
  ASSUME NEW S, NEW s \in Seq(S), NEW e \in S
  PROVE  /\ LogsIn(Append(s, e)) = LogsIn(s) \cup ({e} \cap Logs)
         /\ Append(s, e) \in Seq(S)
         /\ DOMAIN s = 1..Len(s) /\ Len(s) \in Nat /\ DOMAIN Append(s, e) = 1..(Len(s) + 1)
         /\ \A i \in DOMAIN s : Append(s, e)[i] = s[i]
         /\ Append(s, e)[Len(s) + 1] = e
<1>1. /\ DOMAIN s = 1..Len(s) /\ Len(s) \in Nat
      /\ Append(s, e) \in Seq(S) /\ DOMAIN Append(s, e) = 1..(Len(s) + 1)
      /\ \A i \in DOMAIN s : Append(s, e)[i] = s[i]
      /\ Append(s, e)[Len(s) + 1] = e
  BY AppendProperties, LenProperties
<1>2. \A l : l \in LogsIn(Append(s, e)) <=> l \in LogsIn(s) \/ (l = e /\ l \in Logs)
  BY <1>1 DEF LogsIn
<1>3. QED
  BY <1>1, <1>2

(* Taking the first event takes at most its log. *)
LEMMA LogsInTail ==
  ASSUME NEW S, NEW s \in Seq(S), s # <<>>
  PROVE  /\ Head(s) \in S /\ Head(s) = s[1] /\ 1 \in DOMAIN s
         /\ Tail(s) \in Seq(S)
         /\ \A i \in DOMAIN Tail(s) : i + 1 \in DOMAIN s /\ Tail(s)[i] = s[i + 1] /\ i \in Nat \ {0}
         /\ LogsIn(s) = LogsIn(Tail(s)) \cup ({Head(s)} \cap Logs)
<1>1. /\ Head(s) = s[1] /\ Head(s) \in S /\ Tail(s) \in Seq(S)
      /\ DOMAIN s = 1..Len(s) /\ Len(s) \in Nat \ {0} /\ DOMAIN Tail(s) = 1..(Len(s) - 1)
      /\ \A i \in 1..(Len(s) - 1) : Tail(s)[i] = s[i + 1]
  BY EmptySeq, HeadTailProperties, LenProperties
<1>2. \A i \in DOMAIN s : i = 1 \/ (i - 1 \in DOMAIN Tail(s) /\ s[i] = Tail(s)[i - 1])
  BY <1>1
<1>3. \A i \in DOMAIN Tail(s) : i + 1 \in DOMAIN s /\ Tail(s)[i] = s[i + 1] /\ i \in Nat \ {0}
  BY <1>1
<1>4. ASSUME NEW l \in LogsIn(s)
      PROVE  l \in LogsIn(Tail(s)) \cup ({Head(s)} \cap Logs)
  <2>1. PICK i \in DOMAIN s : l = s[i] /\ l \in Logs
    BY DEF LogsIn
  <2>2. CASE i = 1
    BY <1>1, <2>1, <2>2
  <2>3. CASE i - 1 \in DOMAIN Tail(s) /\ s[i] = Tail(s)[i - 1]
    BY <2>1, <2>3 DEF LogsIn
  <2>4. QED
    BY <1>2, <2>2, <2>3
<1>5. 1 \in DOMAIN s
  BY <1>1
<1>6. LogsIn(Tail(s)) \subseteq LogsIn(s)
  BY <1>3 DEF LogsIn
<1>7. {Head(s)} \cap Logs \subseteq LogsIn(s)
  BY <1>1, <1>5 DEF LogsIn
<1>8. LogsIn(s) = LogsIn(Tail(s)) \cup ({Head(s)} \cap Logs)
  BY <1>4, <1>6, <1>7
<1>9. QED
  BY <1>1, <1>3, <1>5, <1>8

-----------------------------------------------------------------------------
(* Steps *)

(* A client that a step leaves alone keeps its stream. *)
LEMMA StreamKept ==
  ASSUME NEW c \in Readers, Stream(c), UNCHANGED log,
         place'[c] = place[c], cursor'[c] = cursor[c], batch'[c] = batch[c], wire'[c] = wire[c],
         got'[c] = got[c], lastId'[c] = lastId[c]
  PROVE  Stream(c)'
<1>1. /\ Written' = Written /\ late' = late
      /\ \A l, m : Before(l, m)' <=> Before(l, m)
  BY DEF log, Written, Before
<1>2. /\ \A l, m : UpTo(l, m)' <=> UpTo(l, m)
      /\ \A l, m : AfterCursor(l, m)' <=> AfterCursor(l, m)
  BY <1>1 DEF UpTo, AfterCursor
<1>3. Placed(c)' /\ Quiet(c)'
  BY <1>1 DEF Stream, Placed, Quiet
<1>4. InOrder(c)'
  BY <1>1, <1>2 DEF Stream, InOrder
<1>5. Complete(c)'
  BY <1>1, <1>2 DEF Stream, Complete
<1>6. QED
  BY <1>3, <1>4, <1>5 DEF Stream

(* A new log changes nothing among those written before, and either comes  *)
(* behind all of them or is late.                                          *)
LEMMA NewLog ==
  ASSUME StreamTypeOK, NEW l \in Logs, NEW t \in Times, WriteLog(l, t)
  PROVE  /\ Written' = Written \cup {l} /\ l \notin Written
         /\ late' \cap Written = late
         /\ \A m, n \in Written :
               (Before(m, n)' <=> Before(m, n)) /\ (UpTo(m, n)' <=> UpTo(m, n))
         /\ l \in late' \/ \A n \in Written : ~UpTo(l, n)'
<1>1. /\ stamp[l] = 0 /\ t \in Nat \ {0}
      /\ stamp' = [stamp EXCEPT ![l] = t]
      /\ stamp \in [Logs -> Times \cup {0}]
  BY DEF WriteLog, StreamTypeOK
<1>2. stamp'[l] = t /\ \A m \in Logs \ {l} : stamp'[m] = stamp[m]
  BY <1>1
<1>3. Written' = Written \cup {l} /\ l \notin Written
  BY <1>1, <1>2 DEF Written
<1>4. late' = late \cup {m \in {l} : \E n \in Written :
                             t < stamp[n] \/ (t = stamp[n] /\ Rank[l] < Rank[n])}
  BY DEF WriteLog
<1>5. late' \cap Written = late
  BY <1>3, <1>4 DEF StreamTypeOK
<1>6. \A m, n \in Written :
        (Before(m, n)' <=> Before(m, n)) /\ (UpTo(m, n)' <=> UpTo(m, n))
  BY <1>2, <1>3 DEF Before, UpTo, Written
<1>7. ASSUME l \notin late', NEW n \in Written
      PROVE  ~UpTo(l, n)'
  <2>1. ~(t < stamp[n] \/ (t = stamp[n] /\ Rank[l] < Rank[n]))
    BY <1>4, <1>7
  <2>2. n # l /\ n \in Logs /\ stamp'[n] = stamp[n] /\ stamp[n] \in Nat
    BY <1>1, <1>2, <1>3 DEF Written
  <2>3. Rank[l] # Rank[n] /\ Rank[l] \in Nat /\ Rank[n] \in Nat
    BY <2>2
  <2>4. Before(n, l)'
    BY <1>1, <1>2, <2>1, <2>2, <2>3 DEF Before
  <2>5. QED
    BY <2>4 DEF UpTo
<1>8. QED
  BY <1>3, <1>5, <1>6, <1>7

(* Writing a log keeps every stream. *)
LEMMA StreamWriteLog ==
  ASSUME StreamInv, NEW l \in Logs, NEW t \in Times, WriteLog(l, t), NEW c \in Readers
  PROVE  Stream(c)'
<1>1. StreamTypeOK /\ Placed(c) /\ Quiet(c) /\ InOrder(c) /\ Complete(c)
  BY DEF StreamInv, Stream
<1>2. UNCHANGED <<place, cursor, batch, wire, got, lastId>>
  BY DEF WriteLog, handler, browser
<1>3. /\ batch[c] \subseteq Written
      /\ \A i \in DOMAIN got[c] : got[c][i] \in Written
      /\ \A i \in DOMAIN wire[c] : wire[c][i] \in Logs => wire[c][i] \in Written
      /\ got[c] \in Seq(Logs)
  BY <1>1 DEF StreamTypeOK, Placed, LogsIn
<1>4. /\ Written' = Written \cup {l}
      /\ \A m, n \in Written :
            (Before(m, n)' <=> Before(m, n)) /\ (UpTo(m, n)' <=> UpTo(m, n))
      /\ \A m \in Written, from \in Written \cup {NoLog} : AfterCursor(m, from)' <=> AfterCursor(m, from)
  BY <1>1, NewLog DEF AfterCursor
<1>5. Placed(c)' /\ Quiet(c)'
  BY <1>1, <1>2, <1>4 DEF Placed, Quiet
<1>6. InOrder(c)'
  BY <1>1, <1>2, <1>3, <1>4 DEF InOrder, Placed
<1>7. ASSUME NEW k \in (Written \ late)'
      PROVE  /\ lastId'[c] # NoLog /\ UpTo(k, lastId[c])' => k \in LogsIn(got'[c])
             /\ place'[c] # "off" /\ cursor'[c] # NoLog /\ UpTo(k, cursor[c])'
                   => k \in LogsIn(got'[c]) \cup LogsIn(wire'[c])
             /\ \A m \in batch'[c] : AfterCursor(k, cursor[c])' /\ UpTo(k, m)' => k \in batch'[c]
  <2>1. CASE k = l
    <3>1. \A n \in Written : ~UpTo(k, n)'
      BY <1>1, <1>7, <2>1, NewLog
    <3>2. lastId[c] \in Written \cup {NoLog} /\ cursor[c] \in Written \cup {NoLog}
      BY <1>1 DEF Placed
    <3>3. \A m \in batch'[c] : ~UpTo(k, m)'
      BY <1>2, <1>3, <3>1
    <3>4. lastId'[c] # NoLog => ~UpTo(k, lastId[c])'
      BY <1>2, <3>1, <3>2
    <3>5. cursor'[c] # NoLog => ~UpTo(k, cursor[c])'
      BY <1>2, <3>1, <3>2
    <3>6. QED
      BY <3>3, <3>4, <3>5
  <2>2. CASE k # l
    <3>1. k \in Written \ late
      BY <1>1, <1>7, <2>2, NewLog
    <3>2. lastId[c] \in Written \cup {NoLog} /\ cursor[c] \in Written \cup {NoLog}
      BY <1>1 DEF Placed
    <3>3. lastId'[c] # NoLog /\ UpTo(k, lastId[c])' => k \in LogsIn(got'[c])
      BY <1>1, <1>2, <1>4, <3>1, <3>2 DEF Complete
    <3>4. place'[c] # "off" /\ cursor'[c] # NoLog /\ UpTo(k, cursor[c])'
                   => k \in LogsIn(got'[c]) \cup LogsIn(wire'[c])
      BY <1>1, <1>2, <1>4, <3>1, <3>2 DEF Complete
    <3>5. \A m \in batch'[c] : AfterCursor(k, cursor[c])' /\ UpTo(k, m)' => k \in batch'[c]
      BY <1>1, <1>2, <1>3, <1>4, <3>1, <3>2 DEF Complete
    <3>6. QED
      BY <3>3, <3>4, <3>5
  <2>3. QED
    BY <2>1, <2>2
<1>8. Complete(c)'
  BY <1>7 DEF Complete, LogsIn
<1>9. QED
  BY <1>5, <1>6, <1>8 DEF Stream

(* Coming back, the handler starts where the client is. *)
LEMMA StreamConnect ==
  ASSUME StreamInv, NEW c \in Readers, Connect(c)
  PROVE  Stream(c)'
<1>1. StreamTypeOK /\ Placed(c) /\ Quiet(c) /\ InOrder(c) /\ Complete(c)
  BY DEF StreamInv, Stream
<1>2. /\ UNCHANGED <<stamp, late, batch, wire, got, lastId>>
      /\ place[c] = "off" /\ place'[c] = "select" /\ cursor'[c] = lastId[c]
  BY <1>1 DEF Connect, Proceed, StreamTypeOK, log, browser
<1>3. wire[c] = <<>> /\ batch[c] = {} /\ LogsIn(wire[c]) = {}
  BY <1>1, <1>2, LogsInEmpty DEF Quiet, StreamTypeOK
<1>4. lastId[c] # NoLog => UpTo(lastId[c], lastId[c])
  BY <1>1, Order DEF Placed, Written
<1>5. /\ Written' = Written /\ late' = late
      /\ \A l, m : (Before(l, m)' <=> Before(l, m)) /\ (UpTo(l, m)' <=> UpTo(l, m))
  BY <1>2 DEF Written, Before, UpTo
<1>6. Placed(c)' /\ Quiet(c)'
  BY <1>1, <1>2, <1>3, <1>5 DEF Placed, Quiet
<1>7. InOrder(c)'
  BY <1>1, <1>2, <1>3, <1>4, <1>5 DEF InOrder
<1>8. Complete(c)'
  BY <1>1, <1>2, <1>3, <1>5 DEF Complete
<1>9. QED
  BY <1>6, <1>7, <1>8 DEF Stream

(* The logs read are the first after the cursor. *)
LEMMA StreamReadLogs ==
  ASSUME StreamInv, NEW c \in Readers, ReadLogs(c)
  PROVE  Stream(c)'
<1>1. StreamTypeOK /\ Placed(c) /\ Quiet(c) /\ InOrder(c) /\ Complete(c)
  BY DEF StreamInv, Stream
<1>2. /\ UNCHANGED <<stamp, late, cursor, wire, got, lastId>>
      /\ place[c] = "select" /\ place'[c] = "send" /\ batch'[c] = NextBatch(cursor[c])
  BY <1>1 DEF ReadLogs, Proceed, StreamTypeOK, log, browser
<1>3. /\ Written' = Written /\ late' = late
      /\ \A l, m : (Before(l, m)' <=> Before(l, m)) /\ (UpTo(l, m)' <=> UpTo(l, m))
      /\ \A l, m : AfterCursor(l, m)' <=> AfterCursor(l, m)
  BY <1>2 DEF Written, Before, UpTo, AfterCursor
<1>4. /\ \A m \in NextBatch(cursor[c]) : AfterCursor(m, cursor[c])
      /\ \A m \in NextBatch(cursor[c]), l \in Written :
            AfterCursor(l, cursor[c]) /\ UpTo(l, m) => l \in NextBatch(cursor[c])
  BY <1>1, BatchIsFirst DEF Placed
<1>5. Placed(c)' /\ Quiet(c)'
  BY <1>1, <1>2, <1>3 DEF Placed, Quiet
<1>6. InOrder(c)'
  BY <1>1, <1>2, <1>3, <1>4 DEF InOrder
<1>7. Complete(c)'
  BY <1>1, <1>2, <1>3, <1>4 DEF Complete
<1>8. QED
  BY <1>5, <1>6, <1>7 DEF Stream

(* The first log of the batch goes out behind all the client has and all   *)
(* that is on its way.                                                     *)
LEMMA StreamSendLog ==
  ASSUME StreamInv, NEW c \in Readers, SendLog(c)
  PROVE  Stream(c)'
<1>1. StreamTypeOK /\ Placed(c) /\ Quiet(c) /\ InOrder(c) /\ Complete(c)
  BY DEF StreamInv, Stream
<1>2. PICK l \in batch[c] :
        /\ \A m \in batch[c] \ {l} : Before(l, m)
        /\ Send(c, l)
        /\ cursor' = [cursor EXCEPT ![c] = l]
        /\ batch' = [batch EXCEPT ![c] = @ \ {l}]
  BY DEF SendLog
<1>3. /\ UNCHANGED <<stamp, late, place, got, lastId>> /\ place[c] = "send"
      /\ cursor'[c] = l /\ batch'[c] = batch[c] \ {l} /\ wire'[c] = Append(wire[c], l)
  BY <1>1, <1>2 DEF SendLog, Send, StreamTypeOK, log, browser
<1>4. /\ Written' = Written /\ late' = late
      /\ \A k, m : (Before(k, m)' <=> Before(k, m)) /\ (UpTo(k, m)' <=> UpTo(k, m))
      /\ \A k, m : AfterCursor(k, m)' <=> AfterCursor(k, m)
  BY <1>3 DEF Written, Before, UpTo, AfterCursor
<1>5. /\ l \in Written /\ l \in Logs /\ batch[c] \subseteq Logs /\ Written \subseteq Logs
      /\ wire[c] \in Seq(Logs \cup Ends)
  BY <1>1 DEF StreamTypeOK, Written
<1>6. /\ LogsIn(Append(wire[c], l)) = LogsIn(wire[c]) \cup {l}
      /\ DOMAIN wire[c] = 1..Len(wire[c]) /\ Len(wire[c]) \in Nat
      /\ DOMAIN Append(wire[c], l) = 1..(Len(wire[c]) + 1)
      /\ \A i \in DOMAIN wire[c] : Append(wire[c], l)[i] = wire[c][i]
      /\ Append(wire[c], l)[Len(wire[c]) + 1] = l
  BY <1>5, LogsInAppend
<1>7. AfterCursor(l, cursor[c]) /\ cursor[c] \in Written \cup {NoLog} /\ lastId[c] \in Written \cup {NoLog}
  BY <1>1 DEF InOrder, Placed
<1>8. \A k \in LogsIn(wire[c]) : k \in Logs /\ Before(k, l) /\ AfterCursor(k, lastId[c])
  <2>1. \A k \in LogsIn(wire[c]) : cursor[c] # NoLog /\ UpTo(k, cursor[c]) /\ k \in Logs /\ AfterCursor(k, lastId[c])
    BY <1>1 DEF InOrder, LogsIn
  <2>2. QED
    BY <1>1, <1>5, <1>7, <2>1, Order DEF AfterCursor
<1>9. lastId[c] # NoLog => Before(lastId[c], l)
  BY <1>1, <1>3, <1>5, <1>7, Order DEF AfterCursor, InOrder
<1>10. Placed(c)' /\ Quiet(c)'
  BY <1>1, <1>3, <1>4, <1>5, <1>6 DEF Placed, Quiet
<1>11. InOrder(c)'
  <2>1. ASSUME NEW i \in DOMAIN wire'[c], NEW j \in DOMAIN wire'[c], i < j,
               wire'[c][i] \in Logs, wire'[c][j] \in Logs
        PROVE  Before(wire'[c][i], wire'[c][j])
    <3>1. i \in DOMAIN wire[c] /\ wire'[c][i] = wire[c][i]
      BY <1>3, <1>6, <2>1
    <3>2. CASE j \in DOMAIN wire[c]
      BY <1>1, <1>3, <1>6, <2>1, <3>1, <3>2 DEF InOrder
    <3>3. CASE j = Len(wire[c]) + 1
      <4>1. wire[c][i] \in LogsIn(wire[c])
        BY <2>1, <3>1 DEF LogsIn
      <4>2. QED
        BY <1>3, <1>6, <1>8, <3>1, <3>3, <4>1
    <3>4. QED
      BY <1>3, <1>6, <3>2, <3>3
  <2>2. \A k \in LogsIn(wire'[c]) : AfterCursor(k, lastId[c]) /\ UpTo(k, l)
    BY <1>1, <1>3, <1>5, <1>6, <1>8, <1>9, Order DEF AfterCursor
  <2>3. \A m \in batch'[c] : AfterCursor(m, l)
    BY <1>2, <1>3 DEF AfterCursor
  <2>4. lastId[c] # NoLog => UpTo(lastId[c], l)
    BY <1>1, <1>5, <1>7, <1>9, Order
  <2>5. l # NoLog
    BY <1>5
  <2>6. QED
    BY <1>1, <1>3, <1>4, <2>1, <2>2, <2>3, <2>4, <2>5 DEF InOrder
<1>12. ASSUME NEW k \in Written \ late
       PROVE  /\ UpTo(k, l) => k \in LogsIn(got[c]) \cup LogsIn(wire[c]) \cup {l}
              /\ \A m \in batch'[c] : AfterCursor(k, l) /\ UpTo(k, m) => k \in batch'[c]
  <2>1. k \in Logs
    BY <1>5
  <2>2. ASSUME UpTo(k, l), k # l
        PROVE  k \in LogsIn(got[c]) \cup LogsIn(wire[c])
    <3>1. ~AfterCursor(k, cursor[c])
      <4>1. k \in batch[c] => Before(l, k)
        BY <1>2, <2>2
      <4>2. k \notin batch[c]
        BY <2>2, <4>1 DEF UpTo
      <4>3. QED
        BY <1>1, <2>2, <4>2 DEF Complete
    <3>2. cursor[c] # NoLog /\ UpTo(k, cursor[c])
      BY <3>1 DEF AfterCursor, UpTo
    <3>3. QED
      BY <1>1, <1>3, <3>2 DEF Complete
  <2>3. ASSUME NEW m \in batch'[c], AfterCursor(k, l), UpTo(k, m)
        PROVE  k \in batch'[c]
    <3>1. Before(l, k)
      BY <1>5, <2>3 DEF AfterCursor
    <3>2. k # l
      BY <1>1, <1>5, <3>1, Order DEF UpTo
    <3>3. AfterCursor(k, cursor[c])
      BY <1>1, <1>5, <1>7, <2>1, <3>1, Order DEF AfterCursor, UpTo
    <3>4. QED
      BY <1>1, <1>3, <2>3, <3>2, <3>3 DEF Complete
  <2>4. QED
    BY <2>2, <2>3
<1>13. Complete(c)'
  BY <1>1, <1>3, <1>4, <1>6, <1>12 DEF Complete
<1>14. QED
  BY <1>10, <1>11, <1>13 DEF Stream

(* A step of the handler that sends at most a closing event. *)
LEMMA StreamGoes ==
  ASSUME StreamInv, NEW c \in Readers,
         UNCHANGED <<stamp, late, cursor, batch, got, lastId>>,
         place[c] # "off", place'[c] # "off",
         wire'[c] = wire[c] \/ \E e \in Ends : wire'[c] = Append(wire[c], e)
  PROVE  Stream(c)'
<1>1. StreamTypeOK /\ Placed(c) /\ Quiet(c) /\ InOrder(c) /\ Complete(c)
  BY DEF StreamInv, Stream
<1>2. /\ Written' = Written /\ late' = late
      /\ \A k, m : (Before(k, m)' <=> Before(k, m)) /\ (UpTo(k, m)' <=> UpTo(k, m))
      /\ \A k, m : AfterCursor(k, m)' <=> AfterCursor(k, m)
  BY DEF Written, Before, UpTo, AfterCursor
<1>3. /\ LogsIn(wire'[c]) = LogsIn(wire[c])
      /\ \A i, j \in DOMAIN wire'[c] :
            i < j /\ wire'[c][i] \in Logs /\ wire'[c][j] \in Logs
               => Before(wire'[c][i], wire'[c][j])
  <2>1. CASE wire'[c] = wire[c]
    BY <1>1, <2>1 DEF InOrder
  <2>2. ASSUME NEW e \in Ends, wire'[c] = Append(wire[c], e)
        PROVE  <1>3!1 /\ <1>3!2
    <3>1. wire[c] \in Seq(Logs \cup Ends) /\ e \in Logs \cup Ends /\ e \notin Logs
      BY <1>1 DEF StreamTypeOK, Ends
    <3> DEFINE S == Logs \cup Ends
               s == wire[c]
    <3>a. s \in Seq(S) /\ e \in S
      BY <3>1
    <3> HIDE DEF S, s
    <3>b. /\ LogsIn(Append(s, e)) = LogsIn(s) \cup ({e} \cap Logs)
          /\ DOMAIN s = 1..Len(s) /\ Len(s) \in Nat
          /\ DOMAIN Append(s, e) = 1..(Len(s) + 1)
          /\ \A i \in DOMAIN s : Append(s, e)[i] = s[i]
          /\ Append(s, e)[Len(s) + 1] = e
      BY <3>a, LogsInAppend
    <3>2. /\ LogsIn(wire'[c]) = LogsIn(wire[c]) \cup ({e} \cap Logs)
          /\ DOMAIN wire[c] = 1..Len(wire[c]) /\ Len(wire[c]) \in Nat
          /\ DOMAIN wire'[c] = 1..(Len(wire[c]) + 1)
          /\ \A i \in DOMAIN wire[c] : wire'[c][i] = wire[c][i]
          /\ wire'[c][Len(wire[c]) + 1] = e
      BY <2>2, <3>b, Zenon DEF s
    <3>3. \A i \in DOMAIN wire'[c] : wire'[c][i] \in Logs => i \in DOMAIN wire[c]
      BY <3>1, <3>2
    <3>4. LogsIn(wire'[c]) = LogsIn(wire[c])
      BY <3>1, <3>2
    <3>5. QED
      BY <1>1, <3>2, <3>3, <3>4 DEF InOrder
  <2>3. QED
    BY <2>1, <2>2
<1>4. Placed(c)' /\ Quiet(c)'
  BY <1>1, <1>2, <1>3 DEF Placed, Quiet
<1>5. InOrder(c)'
  BY <1>1, <1>2, <1>3 DEF InOrder
<1>6. Complete(c)'
  BY <1>1, <1>2, <1>3 DEF Complete
<1>7. QED
  BY <1>4, <1>5, <1>6 DEF Stream

(* With the connection goes all that was on its way. *)
LEMMA StreamCut ==
  ASSUME StreamInv, NEW c \in Readers,
         UNCHANGED <<stamp, late, cursor, got, lastId>>,
         place'[c] = "off", batch'[c] = {}, wire'[c] = <<>>
  PROVE  Stream(c)'
<1>1. StreamTypeOK /\ Placed(c) /\ Quiet(c) /\ InOrder(c) /\ Complete(c)
  BY DEF StreamInv, Stream
<1>2. /\ Written' = Written /\ late' = late
      /\ \A k, m : (Before(k, m)' <=> Before(k, m)) /\ (UpTo(k, m)' <=> UpTo(k, m))
      /\ \A k, m : AfterCursor(k, m)' <=> AfterCursor(k, m)
  BY DEF Written, Before, UpTo, AfterCursor
<1>3. LogsIn(wire'[c]) = {} /\ DOMAIN wire'[c] = {}
  BY LogsInEmpty
<1>4. Placed(c)' /\ Quiet(c)'
  BY <1>1, <1>2, <1>3 DEF Placed, Quiet
<1>5. InOrder(c)'
  BY <1>1, <1>2, <1>3 DEF InOrder
<1>6. Complete(c)'
  BY <1>1, <1>2, <1>3 DEF Complete
<1>7. QED
  BY <1>4, <1>5, <1>6 DEF Stream

(* The first log on the wire comes behind all the client has. *)
LEMMA StreamReceive ==
  ASSUME StreamInv, NEW c \in Readers, Receive(c)
  PROVE  Stream(c)'
<1>1. StreamTypeOK /\ Placed(c) /\ Quiet(c) /\ InOrder(c) /\ Complete(c)
  BY DEF StreamInv, Stream
<1> DEFINE event == Head(wire[c])
<1>2. /\ UNCHANGED <<stamp, late, place, cursor, batch>> /\ wire[c] # <<>>
      /\ wire'[c] = Tail(wire[c])
  BY <1>1 DEF Receive, StreamTypeOK, log, handler
<1>3. /\ Written' = Written /\ late' = late /\ Written \subseteq Logs
      /\ \A k, m : (Before(k, m)' <=> Before(k, m)) /\ (UpTo(k, m)' <=> UpTo(k, m))
      /\ \A k, m : AfterCursor(k, m)' <=> AfterCursor(k, m)
  BY <1>2 DEF Written, Before, UpTo, AfterCursor
<1>4. wire[c] \in Seq(Logs \cup Ends) /\ got[c] \in Seq(Logs)
  BY <1>1 DEF StreamTypeOK
<1>5. /\ event \in Logs \cup Ends /\ event = wire[c][1] /\ 1 \in DOMAIN wire[c]
      /\ \A i \in DOMAIN Tail(wire[c]) :
            i + 1 \in DOMAIN wire[c] /\ Tail(wire[c])[i] = wire[c][i + 1] /\ i \in Nat \ {0}
      /\ LogsIn(wire[c]) = LogsIn(Tail(wire[c])) \cup ({event} \cap Logs)
  BY <1>2, <1>4, LogsInTail
<1>6. Quiet(c)'
  BY <1>1, <1>2 DEF Quiet
<1>7. \A i, j \in DOMAIN wire'[c] :
         i < j /\ wire'[c][i] \in Logs /\ wire'[c][j] \in Logs => Before(wire'[c][i], wire'[c][j])
  <2>1. ASSUME NEW i \in DOMAIN wire'[c], NEW j \in DOMAIN wire'[c], i < j,
               wire'[c][i] \in Logs, wire'[c][j] \in Logs
        PROVE  Before(wire'[c][i], wire'[c][j])
    <3>1. /\ i + 1 \in DOMAIN wire[c] /\ wire'[c][i] = wire[c][i + 1]
          /\ j + 1 \in DOMAIN wire[c] /\ wire'[c][j] = wire[c][j + 1]
          /\ i + 1 < j + 1
      BY <1>2, <1>5, <2>1
    <3>2. QED
      BY <1>1, <2>1, <3>1 DEF InOrder
  <2>2. QED
    BY <2>1
<1>8. CASE event \in Ends
  <2>1. event \notin Logs /\ UNCHANGED <<got, lastId>>
    BY <1>8 DEF Ends, Receive
  <2>2. LogsIn(wire'[c]) = LogsIn(wire[c])
    BY <1>2, <1>5, <2>1
  <2>3. Placed(c)'
    BY <1>1, <1>2, <1>3, <2>1, <2>2 DEF Placed
  <2>4. InOrder(c)'
    BY <1>1, <1>2, <1>3, <1>7, <2>1, <2>2 DEF InOrder
  <2>5. Complete(c)'
    BY <1>1, <1>2, <1>3, <2>1, <2>2 DEF Complete
  <2>6. QED
    BY <1>6, <2>3, <2>4, <2>5 DEF Stream
<1>9. CASE event \in Logs
  <2>1. event \in LogsIn(wire[c]) /\ event \in Written
    BY <1>1, <1>5, <1>9 DEF Placed
  <2>2. AfterCursor(event, lastId[c]) /\ cursor[c] # NoLog /\ UpTo(event, cursor[c])
    BY <1>1, <2>1 DEF InOrder
  <2>3. \A i \in DOMAIN got[c] : got[c][i] \in Logs /\ Before(got[c][i], event)
    <3>1. \A i \in DOMAIN got[c] :
             /\ got[c][i] \in Logs
             /\ lastId[c] # NoLog /\ UpTo(got[c][i], lastId[c]) /\ lastId[c] \in Logs
             /\ Before(lastId[c], event)
      BY <1>1, <1>3, <1>4, <2>2 DEF InOrder, AfterCursor, Placed
    <3>2. QED
      BY <1>1, <1>9, <3>1, Order
  <2>4. event \notin LogsIn(got[c])
    BY <1>1, <1>9, <2>3, Order DEF LogsIn, UpTo
  <2>5. got'[c] = Append(got[c], event) /\ lastId'[c] = event
    <3>1. event \notin Ends
      BY <1>9 DEF Ends
    <3>2. got' = [got EXCEPT ![c] = Shown(@, event)] /\ lastId' = [lastId EXCEPT ![c] = event]
      BY <3>1 DEF Receive
    <3>3. QED
      BY <1>1, <2>4, <3>2 DEF Shown, StreamTypeOK
  <2>6. /\ LogsIn(got'[c]) = LogsIn(got[c]) \cup {event}
        /\ DOMAIN got[c] = 1..Len(got[c]) /\ Len(got[c]) \in Nat
        /\ DOMAIN got'[c] = 1..(Len(got[c]) + 1)
        /\ \A i \in DOMAIN got[c] : got'[c][i] = got[c][i]
        /\ got'[c][Len(got[c]) + 1] = event
    <3>1. LogsIn(Append(got[c], event)) = LogsIn(got[c]) \cup ({event} \cap Logs)
      BY <1>4, <1>9, LogsInAppend
    <3>2. LogsIn(got'[c]) = LogsIn(got[c]) \cup {event}
      BY <1>9, <2>5, <3>1
    <3>3. QED
      BY <1>4, <1>9, <2>5, <3>2, LogsInAppend
  <2>7. /\ LogsIn(wire[c]) = LogsIn(wire'[c]) \cup {event}
        /\ LogsIn(wire'[c]) \subseteq Logs
    BY <1>2, <1>5, <1>9 DEF LogsIn
  <2>8. \A l \in LogsIn(wire'[c]) : Before(event, l)
    <3>1. ASSUME NEW l \in LogsIn(wire'[c])
          PROVE  Before(event, l)
      <4>1. PICK i \in DOMAIN wire'[c] : l = wire'[c][i] /\ l \in Logs
        BY DEF LogsIn
      <4>2. i + 1 \in DOMAIN wire[c] /\ l = wire[c][i + 1] /\ 1 < i + 1
        BY <1>2, <1>5, <4>1
      <4>3. QED
        BY <1>1, <1>5, <1>9, <4>1, <4>2 DEF InOrder
    <3>2. QED
      BY <3>1
  <2>9. Placed(c)'
    BY <1>1, <1>2, <1>3, <2>1, <2>5, <2>6, <2>7 DEF Placed
  <2>10. InOrder(c)'
    <3>1. \A i, j \in DOMAIN got'[c] : i < j => Before(got'[c][i], got'[c][j])
      <4>1. \A i, j \in DOMAIN got[c] : i < j => Before(got[c][i], got[c][j])
        BY <1>1 DEF InOrder
      <4>2. \A i \in DOMAIN got'[c] : i \in DOMAIN got[c] \/ i = Len(got[c]) + 1
        BY <2>6
      <4>3. \A i, j \in DOMAIN got'[c] : i < j => i \in DOMAIN got[c]
        BY <2>6
      <4>4. QED
        BY <2>3, <2>6, <4>1, <4>2, <4>3
    <3>2. \A i \in DOMAIN got'[c] : UpTo(got'[c][i], event)
      BY <1>1, <1>9, <2>3, <2>6, Order
    <3>3. \A l \in LogsIn(wire'[c]) :
             AfterCursor(l, event) /\ cursor[c] # NoLog /\ UpTo(l, cursor[c])
      BY <1>1, <2>7, <2>8 DEF InOrder, AfterCursor
    <3>4. event # NoLog
      BY <1>9
    <3>5. QED
      BY <1>1, <1>2, <1>3, <1>7, <2>2, <2>5, <3>1, <3>2, <3>3, <3>4 DEF InOrder
  <2>11. ASSUME NEW k \in Written \ late, UpTo(k, event)
         PROVE  k \in LogsIn(got'[c])
    <3>1. UpTo(k, cursor[c]) /\ place[c] # "off"
      BY <1>1, <1>2, <1>3, <1>9, <2>2, <2>11, Order DEF Quiet, Placed
    <3>2. k \in LogsIn(got[c]) \cup LogsIn(wire[c])
      BY <1>1, <2>2, <3>1 DEF Complete
    <3>3. k \notin LogsIn(wire'[c])
      BY <2>8, <2>11 DEF UpTo
    <3>4. QED
      BY <2>6, <2>7, <3>2, <3>3
  <2>12. Complete(c)'
    BY <1>1, <1>2, <1>3, <2>5, <2>6, <2>7, <2>11 DEF Complete
  <2>13. QED
    BY <1>6, <2>9, <2>10, <2>12 DEF Stream
<1>10. QED
  BY <1>5, <1>8, <1>9

-----------------------------------------------------------------------------
(* The invariant *)

(* A step of one client leaves the streams of the others alone. *)
LEMMA OthersKept ==
  ASSUME StreamInv, NEW c \in Readers, UNCHANGED log,
         \A d \in Readers \ {c} :
            /\ place'[d] = place[d] /\ cursor'[d] = cursor[d] /\ batch'[d] = batch[d]
            /\ wire'[d] = wire[d] /\ got'[d] = got[d] /\ lastId'[d] = lastId[d],
         Stream(c)'
  PROVE  \A d \in Readers : Stream(d)'
<1>1. ASSUME NEW d \in Readers
      PROVE  Stream(d)'
  <2>1. CASE d = c
    BY <2>1
  <2>2. CASE d # c
    BY <2>2, StreamKept DEF StreamInv
  <2>3. QED
    BY <2>1, <2>2
<1>2. QED
  BY <1>1

(* Initially nothing is written. *)
LEMMA InitHolds == StreamInit => StreamInv
<1> SUFFICES ASSUME StreamInit PROVE StreamInv
  OBVIOUS
<1>1. StreamTypeOK
  BY EmptySeq DEF StreamInit, StreamTypeOK, Written, Connected, TerminalStatuses
<1>2. ASSUME NEW c \in Readers
      PROVE  Stream(c)
  <2>1. /\ place[c] = "off" /\ cursor[c] = NoLog /\ lastId[c] = NoLog /\ batch[c] = {}
        /\ got[c] = <<>> /\ wire[c] = <<>> /\ Written = {}
    BY DEF StreamInit, Written
  <2>2. LogsIn(got[c]) = {} /\ LogsIn(wire[c]) = {} /\ DOMAIN got[c] = {} /\ DOMAIN wire[c] = {}
    BY <2>1, LogsInEmpty
  <2>3. QED
    BY <2>1, <2>2 DEF Stream, Placed, Quiet, InOrder, Complete
<1>3. QED
  BY <1>1, <1>2 DEF StreamInv

(* Every step keeps the types. *)
LEMMA StreamTypeNext == StreamInv /\ [StreamNext]_streamVars => StreamTypeOK'
<1> SUFFICES ASSUME StreamInv, [StreamNext]_streamVars PROVE StreamTypeOK'
  OBVIOUS
<1> USE DEF TerminalStatuses, Ends, Closings, Connected
<1>1. StreamTypeOK
  BY DEF StreamInv
<1>2. ASSUME UNCHANGED log
      PROVE  Written' = Written /\ late' = late /\ stamp' = stamp
  BY <1>2 DEF log, Written
<1>3. CASE UNCHANGED streamVars
  BY <1>1, <1>3 DEF streamVars, log, handler, browser, StreamTypeOK, Written
<1>4. ASSUME NEW l \in Logs, NEW t \in Times, WriteLog(l, t)
      PROVE  StreamTypeOK'
  <2>1. stamp' \in [Logs -> Times \cup {0}]
    BY <1>1, <1>4 DEF WriteLog, StreamTypeOK
  <2>2. Written' = Written \cup {l} /\ l \notin Written
    BY <1>1, <1>4, NewLog
  <2>3. late' \subseteq Written'
    BY <1>1, <1>4, <2>2 DEF WriteLog, StreamTypeOK
  <2>4. batch' \in [Readers -> SUBSET Written']
    BY <1>1, <1>4, <2>2 DEF WriteLog, handler, StreamTypeOK
  <2>5. QED
    BY <1>1, <1>4, <2>1, <2>3, <2>4 DEF WriteLog, handler, browser, StreamTypeOK
<1>5. ASSUME NEW s \in {"running"} \cup TerminalStatuses, SetStatus(s)
      PROVE  StreamTypeOK'
  BY <1>1, <1>2, <1>5 DEF SetStatus, handler, browser, StreamTypeOK
<1>6. ASSUME NEW c \in Readers
      PROVE  /\ Connect(c) => StreamTypeOK'
             /\ Refuse(c) => StreamTypeOK'
             /\ ReadLogs(c) => StreamTypeOK'
             /\ SendLog(c) => StreamTypeOK'
             /\ BatchSent(c) => StreamTypeOK'
             /\ ReadStatus(c) => StreamTypeOK'
             /\ Tick(c) => StreamTypeOK'
             /\ StreamExpires(c) => StreamTypeOK'
             /\ QueryFails(c) => StreamTypeOK'
             /\ ConnectionBreaks(c) => StreamTypeOK'
             /\ Receive(c) => StreamTypeOK'
             /\ StreamEnds(c) => StreamTypeOK'
  <2>1. Connect(c) => StreamTypeOK'
    BY <1>1, <1>2 DEF Connect, Proceed, browser, StreamTypeOK
  <2>0. Refuse(c) => StreamTypeOK'
    <3>1. ASSUME Refuse(c) PROVE ended' \in [Readers -> Closings \cup {NoLog}]
      BY <1>1, <3>1 DEF Refuse, StreamTypeOK
    <3>2. QED
      BY <1>1, <1>2, <3>1 DEF Refuse, handler, StreamTypeOK
  <2>2. ReadLogs(c) => StreamTypeOK'
    <3>1. NextBatch(cursor[c]) \subseteq Written
      BY DEF NextBatch
    <3>2. QED
      BY <1>1, <1>2, <3>1 DEF ReadLogs, Proceed, browser, StreamTypeOK
  <2>3. ASSUME SendLog(c)
        PROVE  StreamTypeOK'
    <3>1. PICK l \in batch[c] :
            /\ wire' = [wire EXCEPT ![c] = Append(@, l)]
            /\ cursor' = [cursor EXCEPT ![c] = l]
            /\ batch' = [batch EXCEPT ![c] = @ \ {l}]
      BY <2>3 DEF SendLog, Send
    <3>2. l \in Logs /\ wire[c] \in Seq(Logs \cup Ends)
      BY <1>1 DEF StreamTypeOK, Written
    <3>3. Append(wire[c], l) \in Seq(Logs \cup Ends)
      BY <3>2, LogsInAppend
    <3>4. wire' \in [Readers -> Seq(Logs \cup Ends)]
      BY <1>1, <3>1, <3>3 DEF StreamTypeOK
    <3>5. batch' \in [Readers -> SUBSET Written] /\ cursor' \in [Readers -> Logs \cup {NoLog}]
      BY <1>1, <3>1, <3>2 DEF StreamTypeOK
    <3>6. \A d \in Readers : batch'[d] # {} => place[d] = "send"
      BY <1>1, <2>3, <3>1 DEF StreamTypeOK, SendLog
    <3>7. QED
      BY <1>1, <1>2, <2>3, <3>4, <3>5, <3>6 DEF SendLog, browser, StreamTypeOK
  <2>4. BatchSent(c) => StreamTypeOK'
    BY <1>1, <1>2 DEF BatchSent, Proceed, browser, StreamTypeOK
  <2>5. \A e \in Ends : Send(c, e) => wire' \in [Readers -> Seq(Logs \cup Ends)]
    <3>1. ASSUME NEW e \in Ends, Send(c, e)
          PROVE  wire' \in [Readers -> Seq(Logs \cup Ends)]
      <4>1. Append(wire[c], e) \in Seq(Logs \cup Ends)
        BY <1>1, LogsInAppend DEF StreamTypeOK
      <4>2. QED
        BY <1>1, <3>1, <4>1 DEF Send, StreamTypeOK
    <3>2. QED
      BY <3>1
  <2>6. ReadStatus(c) => StreamTypeOK'
    <3>1. ReadStatus(c) => wire' \in [Readers -> Seq(Logs \cup Ends)]
      BY <1>1, <2>5 DEF ReadStatus, StreamTypeOK
    <3>2. QED
      BY <1>1, <1>2, <3>1 DEF ReadStatus, Proceed, browser, StreamTypeOK
  <2>7. Tick(c) => StreamTypeOK'
    BY <1>1, <1>2 DEF Tick, Proceed, browser, StreamTypeOK
  <2>8. StreamExpires(c) => StreamTypeOK'
    BY <1>1, <1>2 DEF StreamExpires, Proceed, browser, StreamTypeOK
  <2>9. QueryFails(c) => StreamTypeOK'
    BY <1>1, <1>2, <2>5 DEF QueryFails, Break, Proceed, browser, StreamTypeOK
  <2>10. ConnectionBreaks(c) => StreamTypeOK'
    BY <1>1, <1>2, EmptySeq DEF ConnectionBreaks, Break, Proceed, browser, StreamTypeOK
  <2>11. ASSUME Receive(c)
         PROVE  StreamTypeOK'
    <3>1. /\ Head(wire[c]) \in Logs \cup Ends
          /\ Tail(wire[c]) \in Seq(Logs \cup Ends)
      BY <1>1, <2>11, LogsInTail DEF Receive, StreamTypeOK
    <3>2. wire' \in [Readers -> Seq(Logs \cup Ends)]
      BY <1>1, <2>11, <3>1 DEF Receive, StreamTypeOK
    <3>3. ASSUME NEW l \in Logs
          PROVE  Shown(got[c], l) \in Seq(Logs)
      <4>1. got[c] \in Seq(Logs)
        BY <1>1 DEF StreamTypeOK
      <4>2. Append(got[c], l) \in Seq(Logs)
        BY <4>1, LogsInAppend
      <4>3. QED
        BY <4>1, <4>2 DEF Shown
    <3>4. got' \in [Readers -> Seq(Logs)]
      <4>1. got' = got \/ \E l \in Logs : got' = [got EXCEPT ![c] = Shown(@, l)]
        BY <2>11 DEF Receive
      <4>2. got \in [Readers -> Seq(Logs)]
        BY <1>1 DEF StreamTypeOK
      <4>3. ASSUME NEW l \in Logs, got' = [got EXCEPT ![c] = Shown(@, l)]
            PROVE  got' \in [Readers -> Seq(Logs)]
        <5>1. got' = [got EXCEPT ![c] = Shown(got[c], l)] /\ Shown(got[c], l) \in Seq(Logs)
          BY <3>3, <4>3
        <5>2. QED
          BY <4>2, <5>1
      <4>4. QED
        BY <4>1, <4>2, <4>3
    <3>5. lastId' \in [Readers -> Logs \cup {NoLog}] /\ ended' \in [Readers -> Closings \cup {NoLog}]
      <4>1. lastId' = lastId \/ \E l \in Logs : lastId' = [lastId EXCEPT ![c] = l]
        BY <2>11 DEF Receive
      <4>2. ended' = ended \/ \E e \in Ends : ended' = [ended EXCEPT ![c] = e]
        BY <2>11 DEF Receive
      <4>3. lastId' \in [Readers -> Logs \cup {NoLog}]
        BY <1>1, <4>1 DEF StreamTypeOK
      <4>4. ended' \in [Readers -> Closings \cup {NoLog}]
        BY <1>1, <4>2 DEF StreamTypeOK
      <4>5. QED
        BY <4>3, <4>4
    <3>6. QED
      BY <1>1, <1>2, <2>11, <3>2, <3>4, <3>5 DEF Receive, handler, StreamTypeOK
  <2>12. StreamEnds(c) => StreamTypeOK'
    BY <1>1, <1>2 DEF StreamEnds, Proceed, browser, StreamTypeOK
  <2>13. QED
    BY <2>0, <2>1, <2>2, <2>3, <2>4, <2>6, <2>7, <2>8, <2>9, <2>10, <2>11, <2>12
<1>7. QED
  BY <1>3, <1>4, <1>5, <1>6 DEF StreamNext, HandlerStep, ClientStep

(* Every step keeps every stream. *)
LEMMA StreamsKept == StreamInv /\ [StreamNext]_streamVars => \A c \in Readers : Stream(c)'
<1> SUFFICES ASSUME StreamInv, [StreamNext]_streamVars PROVE \A c \in Readers : Stream(c)'
  OBVIOUS
<1> USE DEF log, handler, browser
<1>1. StreamTypeOK
  BY DEF StreamInv
<1>2. CASE UNCHANGED streamVars
  BY <1>2, StreamKept DEF streamVars, StreamInv
<1>3. ASSUME NEW l \in Logs, NEW t \in Times, WriteLog(l, t)
      PROVE  \A c \in Readers : Stream(c)'
  BY <1>3, StreamWriteLog
<1>4. ASSUME NEW s \in {"running"} \cup TerminalStatuses, SetStatus(s)
      PROVE  \A c \in Readers : Stream(c)'
  BY <1>4, StreamKept DEF SetStatus, StreamInv
<1>5. ASSUME NEW c \in Readers
      PROVE  /\ Connect(c) => \A d \in Readers : Stream(d)'
             /\ Refuse(c) => \A d \in Readers : Stream(d)'
             /\ ReadLogs(c) => \A d \in Readers : Stream(d)'
             /\ SendLog(c) => \A d \in Readers : Stream(d)'
             /\ BatchSent(c) => \A d \in Readers : Stream(d)'
             /\ ReadStatus(c) => \A d \in Readers : Stream(d)'
             /\ Tick(c) => \A d \in Readers : Stream(d)'
             /\ StreamExpires(c) => \A d \in Readers : Stream(d)'
             /\ QueryFails(c) => \A d \in Readers : Stream(d)'
             /\ ConnectionBreaks(c) => \A d \in Readers : Stream(d)'
             /\ Receive(c) => \A d \in Readers : Stream(d)'
             /\ StreamEnds(c) => \A d \in Readers : Stream(d)'
  <2>1. ASSUME Connect(c) PROVE \A d \in Readers : Stream(d)'
    <3>1. Stream(c)'
      BY <2>1, StreamConnect
    <3>2. QED
      BY <1>1, <2>1, <3>1, OthersKept DEF Connect, Proceed, StreamTypeOK
  <2>0. ASSUME Refuse(c) PROVE \A d \in Readers : Stream(d)'
    BY <2>0, StreamKept DEF Refuse, StreamInv
  <2>2. ASSUME ReadLogs(c) PROVE \A d \in Readers : Stream(d)'
    <3>1. Stream(c)'
      BY <2>2, StreamReadLogs
    <3>2. QED
      BY <1>1, <2>2, <3>1, OthersKept DEF ReadLogs, Proceed, StreamTypeOK
  <2>3. ASSUME SendLog(c) PROVE \A d \in Readers : Stream(d)'
    <3>1. Stream(c)'
      BY <2>3, StreamSendLog
    <3>2. QED
      BY <1>1, <2>3, <3>1, OthersKept DEF SendLog, Send, StreamTypeOK
  <2>4. ASSUME BatchSent(c) PROVE \A d \in Readers : Stream(d)'
    <3>1. Stream(c)'
      BY <1>1, <2>4, StreamGoes DEF BatchSent, Proceed, StreamTypeOK
    <3>2. QED
      BY <1>1, <2>4, <3>1, OthersKept DEF BatchSent, Proceed, StreamTypeOK
  <2>5. ASSUME ReadStatus(c) PROVE \A d \in Readers : Stream(d)'
    <3>1. wire'[c] = wire[c] \/ wire'[c] = Append(wire[c], "operation_status")
      BY <1>1, <2>5 DEF ReadStatus, Send, StreamTypeOK
    <3>2. Stream(c)'
      BY <1>1, <2>5, <3>1, StreamGoes DEF ReadStatus, Proceed, Ends, StreamTypeOK
    <3>3. QED
      BY <1>1, <2>5, <3>2, OthersKept DEF ReadStatus, Send, Proceed, StreamTypeOK
  <2>6. ASSUME Tick(c) PROVE \A d \in Readers : Stream(d)'
    <3>1. Stream(c)'
      BY <1>1, <2>6, StreamGoes DEF Tick, Proceed, StreamTypeOK
    <3>2. QED
      BY <1>1, <2>6, <3>1, OthersKept DEF Tick, Proceed, StreamTypeOK
  <2>7. ASSUME StreamExpires(c) PROVE \A d \in Readers : Stream(d)'
    <3>1. Stream(c)'
      BY <1>1, <2>7, StreamGoes DEF StreamExpires, Proceed, StreamTypeOK
    <3>2. QED
      BY <1>1, <2>7, <3>1, OthersKept DEF StreamExpires, Proceed, StreamTypeOK
  <2>8. ASSUME QueryFails(c) PROVE \A d \in Readers : Stream(d)'
    <3>1. wire'[c] = Append(wire[c], "stream_error")
      BY <1>1, <2>8 DEF QueryFails, Send, StreamTypeOK
    <3>2. Stream(c)'
      BY <1>1, <2>8, <3>1, StreamGoes DEF QueryFails, Proceed, Ends, StreamTypeOK
    <3>3. QED
      BY <1>1, <2>8, <3>2, OthersKept DEF QueryFails, Send, Proceed, StreamTypeOK
  <2>9. ASSUME ConnectionBreaks(c) PROVE \A d \in Readers : Stream(d)'
    <3>1. Stream(c)'
      BY <1>1, <2>9, StreamCut DEF ConnectionBreaks, Proceed, StreamTypeOK
    <3>2. QED
      BY <1>1, <2>9, <3>1, OthersKept DEF ConnectionBreaks, Proceed, StreamTypeOK
  <2>10. ASSUME Receive(c) PROVE \A d \in Readers : Stream(d)'
    <3>1. Stream(c)'
      BY <2>10, StreamReceive
    <3>2. QED
      BY <1>1, <2>10, <3>1, OthersKept DEF Receive, StreamTypeOK
  <2>11. ASSUME StreamEnds(c) PROVE \A d \in Readers : Stream(d)'
    <3>1. batch[c] = {}
      BY <1>1, <2>11 DEF StreamEnds, StreamTypeOK
    <3>2. Stream(c)'
      BY <1>1, <2>11, <3>1, StreamCut DEF StreamEnds, Proceed, StreamTypeOK
    <3>3. QED
      BY <1>1, <2>11, <3>2, OthersKept DEF StreamEnds, Proceed, StreamTypeOK
  <2>12. QED
    BY <2>0, <2>1, <2>2, <2>3, <2>4, <2>5, <2>6, <2>7, <2>8, <2>9, <2>10, <2>11
<1>6. QED
  BY <1>2, <1>3, <1>4, <1>5 DEF StreamNext, HandlerStep, ClientStep

(* The inductive invariant holds in every reachable state. *)
THEOREM StreamInvCorrect == StreamSpec => []StreamInv
<1>1. StreamInit => StreamInv
  BY InitHolds
<1>2. StreamInv /\ [StreamNext]_streamVars => StreamInv'
  BY StreamTypeNext, StreamsKept DEF StreamInv
<1>3. QED
  BY <1>1, <1>2, PTL DEF StreamSpec

(* Variables stay in their types, and only a handler that is sending has   *)
(* logs left to send.                                                      *)
THEOREM StreamTypeCorrect == StreamSpec => []StreamTypeOK
<1>1. StreamInv => StreamTypeOK
  BY DEF StreamInv
<1>2. QED
  BY <1>1, StreamInvCorrect, PTL

(* A client shows the logs in their order and skips none that was not      *)
(* written behind another, through every batch, tie and lost connection    *)
(* (NothingSkipped in LogStream).                                          *)
THEOREM NothingSkippedCorrect == StreamSpec => []NothingSkipped
<1>1. StreamInv => NothingSkipped
  BY DEF StreamInv, Stream, InOrder, Complete, UpTo, NothingSkipped
<1>2. QED
  BY <1>1, StreamInvCorrect, PTL
=============================================================================
