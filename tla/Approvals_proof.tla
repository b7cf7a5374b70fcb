-------------------------- MODULE Approvals_proof --------------------------
(* Invariance proofs for Approvals, for any approvals, requests, users and *)
(* control workers.                                                        *)
EXTENDS Approvals, FiniteSetTheorems, TLAPS

USE ActorAssumption, RequestAssumption, UserAssumption, NumberAssumption DEF Actors

(* Rows read and rows stored are consistent. *)
ResultAgrees(r) == r.result <=> r.status = "approved"

RowsAgree ==
    /\ \A a \in Approvals : ResultAgrees(row[a])
    /\ \A p \in Actors, a \in Approvals : ResultAgrees(seen[p][a])

(* What an actor has read or has to do is about rows that exist.           *)
Exists(a) == row[a].status # "none"

WorkExists ==
    /\ \A p \in Actors, a \in Approvals :
          a \in todo[p] \/ seen[p][a].status # "none" => Exists(a)
    /\ \A w \in Workers : \A a \in saved[w] : Exists(a)
    /\ \A p \in Actors : pc[p] = "notifying" => seen[p][on[p]].status # "none"
    /\ \A a \in Approvals : ~Exists(a) =>
          executed[a] = 0 /\ \A u \in Users : decision[a][u] # "rejected"

(* A row about to be expired, rejected, reminded or escalated was pending  *)
(* when it was read.                                                       *)
ReadWasPending ==
    /\ \A p \in Requests :
          pc[p] \in {"expire", "check"} \/ (pc[p] = "decide" /\ Kind[p] # "revoke") =>
              seen[p][on[p]].status = "pending"
    /\ \A w \in Workers : pc[w] = "save" => \A a \in todo[w] : seen[w][a].status = "pending"

(* The lock is held by the approve that works on the row, which is pending.*)
LockHeld ==
    /\ \A a \in Approvals : lock[a] # None =>
          IsPending(a) /\ pc[lock[a]] = "locked" /\ on[lock[a]] = a
    /\ \A p \in Requests : pc[p] = "locked" => Kind[p] = "approve" /\ lock[on[p]] = p

(* An active delegation names its delegator. *)
ActiveIsGranted ==
    \A a \in Approvals, u \in Users : delegation[a][u].active => delegation[a][u].by # None

(* Who is about to decide, to delegate or to be written back was entitled. *)
DecidingEntitled ==
    \A p \in Requests :
        /\ pc[p] \in {"decide", "locked"} /\ Kind[p] # "revoke" => Entitled(Asker[p], on[p])
        /\ pc[p] = "decide" /\ Kind[p] = "revoke" =>
              grant[p] # None /\ Entitled(grant[p], on[p])

(* A revoke neither reads nor checks the approval. *)
RevokesDecide == \A p \in Requests : pc[p] \in {"read", "check"} => Kind[p] # "revoke"

IInv == /\ TypeOK /\ RowsAgree /\ WorkExists /\ ReadWasPending /\ LockHeld
        /\ ActiveIsGranted /\ DecidingEntitled /\ RevokesDecide
        /\ PendingMeansUndecided /\ DecidersWereEntitled /\ QuorumIsExecuted

(* The type invariant holds of every reachable state. *)
LEMMA TypeInit == Init => TypeOK
  BY DEF Init, TypeOK, RequestPC, WorkerPC, Sweeps, Rows, NoRow, Unread, Delegations

(* The parts of TypeOK: the tables, where the actors are, their own data.  *)
RowTypes == /\ row \in [Approvals -> Rows] /\ due \in [Approvals -> BOOLEAN]
            /\ revived \in [Approvals -> BOOLEAN]
DecisionTypes ==
    /\ decision \in [Approvals -> [Users -> {"none", "approved", "rejected"}]]
    /\ delegation \in [Approvals -> [Users -> Delegations]]
    /\ executed \in [Approvals -> Nat]
LockTypes == lock \in [Approvals -> Requests \cup {None}]
PlaceTypes ==
    /\ pc \in [Actors -> RequestPC \cup WorkerPC]
    /\ \A p \in Requests : pc[p] \in RequestPC
    /\ \A w \in Workers : pc[w] \in WorkerPC
    /\ on \in [Actors -> Approvals \cup {None}]
    /\ \A p \in Requests : on[p] = None <=> pc[p] \in {"begin", "notify", "done"}
    /\ \A p \in Actors : pc[p] = "notifying" => on[p] \in todo[p]
    /\ seen \in [Actors -> [Approvals -> Rows]]
    /\ todo \in [Actors -> SUBSET Approvals]
DataTypes == /\ sweep \in [Workers -> Sweeps] /\ grant \in [Requests -> Users \cup {None}]
             /\ saved \in [Workers -> SUBSET Approvals]
FaultTypes == faults \in 0..MaxFaults

(* The type invariant by groups of variables. *)
LEMMA TypeParts ==
    TypeOK <=> RowTypes /\ DecisionTypes /\ LockTypes /\ PlaceTypes /\ DataTypes /\ FaultTypes
  BY DEF TypeOK, RowTypes, DecisionTypes, LockTypes, PlaceTypes, DataTypes, FaultTypes

(* Nothing read is well typed. *)
LEMMA UnreadTyped == /\ Unread \in [Approvals -> Rows] /\ NoRow \in Rows
                     /\ \A a \in Approvals : Unread[a].status = "none"
  BY DEF Unread, NoRow, Rows

(* A row with another status is a row. *)
LEMMA WithStatusTyped ==
    ASSUME NEW r \in Rows, NEW s \in {"none", "pending"} \cup Decided
    PROVE  /\ WithStatus(r, s) \in Rows /\ WithStatus(r, s).status = s
           /\ WithStatus(r, s).result = r.result
  BY DEF WithStatus, Rows

(* Saving rows keeps the table's types. *)
LEMMA SaveAllTyped ==
    ASSUME RowTypes, NEW A \in SUBSET Approvals, NEW rs, \A a \in A : rs[a] \in Rows,
           SaveAll(A, rs)
    PROVE  RowTypes'
  BY DEF RowTypes, SaveAll

(* The same for one row, and what the row becomes. *)
LEMMA SaveTyped ==
    ASSUME RowTypes, NEW a \in Approvals, NEW r \in Rows, Save(a, r)
    PROVE  /\ RowTypes'
           /\ row' = [row EXCEPT ![a] = r]
           /\ revived' = [revived EXCEPT ![a] = @ \/ (row[a].status \in Decided /\ r.status = "pending")]
  <1>1. SaveAll({a}, [b \in {a} |-> r])
    BY DEF Save
  <1>2. \A b \in {a} : [c \in {a} |-> r][b] = r
    OBVIOUS
  <1>3. RowTypes'
    BY <1>1, <1>2, SaveAllTyped
  <1>4. /\ \A b \in Approvals : row'[b] = IF b = a THEN r ELSE row[b]
        /\ \A b \in Approvals : revived'[b] =
              (revived[b] \/ (b = a /\ row[b].status \in Decided /\ r.status = "pending"))
    BY <1>1, <1>2 DEF SaveAll
  <1>5. QED
    BY <1>3, <1>4 DEF RowTypes

(* A request that moves to a place that fits is where it may be. *)
LEMMA RequestPlace ==
    ASSUME PlaceTypes, NEW p \in Requests, NEW label \in RequestPC,
           NEW a \in Approvals \cup {None}, NEW s \in [Approvals -> Rows],
           NEW t \in SUBSET Approvals, Become(p, label, a, s, t),
           a = None <=> label \in {"begin", "notify", "done"},
           label = "notifying" => a \in t
    PROVE  PlaceTypes'
  BY DEF PlaceTypes, Become

(* The same for a worker. *)
LEMMA WorkerPlace ==
    ASSUME PlaceTypes, NEW w \in Workers, NEW label \in WorkerPC,
           NEW a \in Approvals \cup {None}, NEW s \in [Approvals -> Rows],
           NEW t \in SUBSET Approvals, Become(w, label, a, s, t),
           label = "notifying" => a \in t
    PROVE  PlaceTypes'
  BY DEF PlaceTypes, Become

(* A request that answers, and a worker in its next sweep, are well typed. *)
LEMMA AnswerTyped ==
    ASSUME PlaceTypes, DataTypes, NEW p \in Requests, Answer(p)
    PROVE  PlaceTypes' /\ DataTypes'
  <1>1. PlaceTypes'
    BY RequestPlace, UnreadTyped DEF Answer, RequestPC
  <1>2. DataTypes'
    BY DEF Answer, DataTypes
  <1>3. QED
    BY <1>1, <1>2

(* A worker that enters a sweep is well typed. *)
LEMMA EnterSweepTyped ==
    ASSUME PlaceTypes, DataTypes, NEW w \in Workers, NEW s \in Sweeps, EnterSweep(w, s)
    PROVE  PlaceTypes' /\ DataTypes'
  <1>1. PlaceTypes'
    BY WorkerPlace, UnreadTyped DEF EnterSweep, WorkerPC
  <1>2. DataTypes'
    BY DEF EnterSweep, DataTypes
  <1>3. QED
    BY <1>1, <1>2

(* A sweep is followed by a sweep. *)
LEMMA NextSweepTyped == \A s \in Sweeps : NextSweep(s) \in Sweeps
  BY DEF NextSweep, Sweeps

(* An actor that has sent a notification is well typed. *)
LEMMA NotifiedTyped ==
    ASSUME PlaceTypes, DataTypes, NEW p \in Actors, Notified(p)
    PROVE  PlaceTypes' /\ DataTypes'
  <1> DEFINE left == todo[p] \ {on[p]}
  <1>1. left \in SUBSET Approvals
    BY DEF PlaceTypes
  <1>2. CASE Become(p, "notify", None, Unread, left) /\ UNCHANGED <<sweep, saved, grant>>
    <2>1. PlaceTypes'
      BY <1>1, <1>2, RequestPlace, WorkerPlace, UnreadTyped DEF RequestPC, WorkerPC
    <2>2. QED
      BY <1>2, <2>1 DEF DataTypes
  <1>3. CASE p \in Requests /\ Answer(p)
    BY <1>3, AnswerTyped
  <1>4. CASE p \in Workers /\ EnterSweep(p, NextSweep(sweep[p]))
    BY <1>4, EnterSweepTyped, NextSweepTyped DEF DataTypes
  <1>5. QED
    BY <1>2, <1>3, <1>4 DEF Notified

(* Every step keeps the types. *)
LEMMA TypeNext == TypeOK /\ [Next]_vars => TypeOK'
<1> SUFFICES ASSUME TypeOK, [Next]_vars PROVE TypeOK'
  OBVIOUS
<1> USE UnreadTyped
<1>b. RowTypes /\ DecisionTypes /\ LockTypes /\ PlaceTypes /\ DataTypes /\ FaultTypes
  BY TypeParts
<1> USE <1>b
<1>c. /\ UNCHANGED rows => RowTypes'
      /\ UNCHANGED decisions => DecisionTypes'
      /\ UNCHANGED lock => LockTypes'
      /\ UNCHANGED <<sweep, saved, grant>> => DataTypes'
      /\ UNCHANGED faults => FaultTypes'
      /\ Fault => FaultTypes'
  BY DEF rows, decisions, RowTypes, DecisionTypes, LockTypes, DataTypes, FaultTypes, Fault
<1>f. RowTypes' /\ DecisionTypes' /\ LockTypes' /\ PlaceTypes' /\ DataTypes' /\ FaultTypes'
      => TypeOK'
  BY DEF TypeOK, RowTypes, DecisionTypes, LockTypes, PlaceTypes, DataTypes, FaultTypes
<1>d. ASSUME NEW a \in Approvals PROVE /\ row[a] \in Rows
                                       /\ [Unread EXCEPT ![a] = row[a]] \in [Approvals -> Rows]
  BY DEF RowTypes
<1>e. ASSUME NEW p \in Requests, pc[p] \notin {"begin", "notify", "done"}
      PROVE  on[p] \in Approvals /\ seen[p][on[p]] \in Rows
  BY <1>e DEF PlaceTypes
<1>1. ASSUME NEW p \in Requests, NEW a \in Approvals, Create(p, a) PROVE TypeOK'
  <2>1. WithStatus(NoRow, "pending") \in Rows
    BY WithStatusTyped
  <2>2. RowTypes'
    BY <1>1, <2>1, SaveTyped DEF Create
  <2>3. PlaceTypes'
    BY SMTT(30), <1>1, RequestPlace DEF Create, RequestPC
  <2>4. QED
    BY <1>1, <1>c, <1>f, <2>2, <2>3 DEF Create
<1>2. ASSUME NEW p \in Requests, NEW a \in Approvals, Begin(p, a) PROVE TypeOK'
  <2>1. PlaceTypes'
    BY <1>2, <1>d, RequestPlace DEF Begin, RequestPC
  <2>2. QED
    BY <1>2, <1>c, <1>f, <2>1 DEF Begin
<1>3. ASSUME NEW p \in Requests, NEW a \in Approvals, RevokeRead(p, a) PROVE TypeOK'
  <2>1. PlaceTypes'
    BY <1>3, RequestPlace DEF RevokeRead, RequestPC
  <2>2. delegation[a][Target[p]].by \in Users \cup {None}
    BY DEF DecisionTypes, Delegations
  <2>3. DataTypes'
    BY <1>3, <2>2 DEF RevokeRead, DataTypes
  <2>4. QED
    BY <1>3, <1>c, <1>f, <2>1, <2>3 DEF RevokeRead
<1>4. ASSUME NEW a \in Approvals, Lapse(a) PROVE TypeOK'
  <2>1. RowTypes'
    BY <1>4 DEF Lapse, RowTypes
  <2>2. PlaceTypes' /\ DataTypes'
    BY <1>4 DEF Lapse, actors, PlaceTypes, DataTypes
  <2>3. QED
    BY <1>4, <1>c, <1>f, <2>1, <2>2 DEF Lapse
<1>5. ASSUME NEW p \in Requests, ExpireSave(p) PROVE TypeOK'
  <2>1. WithStatus(seen[p][on[p]], "expired") \in Rows /\ on[p] \in Approvals
    BY <1>5, <1>e, WithStatusTyped DEF ExpireSave, Decided
  <2>2. RowTypes'
    BY <1>5, <2>1, SaveTyped DEF ExpireSave
  <2>3. PlaceTypes'
    BY <1>5, <2>1, RequestPlace DEF ExpireSave, RequestPC
  <2>4. QED
    BY <1>5, <1>c, <1>f, <2>2, <2>3 DEF ExpireSave
<1>6. ASSUME NEW p \in Requests, Read(p) PROVE TypeOK'
  <2>1. CASE Answer(p)
    BY <1>6, <1>c, <1>f, <2>1, AnswerTyped DEF Read
  <2>2. CASE /\ Become(p, "check", on[p], [Unread EXCEPT ![on[p]] = row[on[p]]], {})
             /\ UNCHANGED <<sweep, saved, grant>>
    <3>1. on[p] \in Approvals
      BY <1>6, <1>e DEF Read
    <3>2. PlaceTypes'
      BY <2>2, <1>d, <3>1, RequestPlace DEF RequestPC
    <3>3. QED
      BY <1>6, <1>c, <1>f, <2>2, <3>2 DEF Read
  <2>3. QED
    BY <1>6, <2>1, <2>2 DEF Read
<1>7. ASSUME NEW p \in Requests, Check(p) PROVE TypeOK'
  <2>1. CASE Answer(p)
    BY <1>7, <1>c, <1>f, <2>1, AnswerTyped DEF Check
  <2>2. CASE Goto(p, "decide") /\ UNCHANGED <<sweep, saved, grant>>
    <3>1. on[p] \in Approvals /\ seen[p] \in [Approvals -> Rows] /\ todo[p] \in SUBSET Approvals
      BY <1>7, <1>e DEF Check, PlaceTypes
    <3>2. PlaceTypes'
      BY <2>2, <3>1, RequestPlace DEF RequestPC, Goto
    <3>3. QED
      BY <1>7, <1>c, <1>f, <2>2, <3>2 DEF Check
  <2>3. QED
    BY <1>7, <2>1, <2>2 DEF Check
<1>8. ASSUME NEW p \in Requests, ApproveLock(p) PROVE TypeOK'
  <2>1. CASE Answer(p) /\ UNCHANGED lock
    BY <1>8, <1>c, <1>f, <2>1, AnswerTyped DEF ApproveLock
  <2>2. CASE /\ lock' = [lock EXCEPT ![on[p]] = p]
             /\ Goto(p, "locked") /\ UNCHANGED <<sweep, saved, grant>>
    <3>1. on[p] \in Approvals /\ seen[p] \in [Approvals -> Rows] /\ todo[p] \in SUBSET Approvals
      BY <1>8, <1>e DEF ApproveLock, PlaceTypes
    <3>2. PlaceTypes'
      BY <2>2, <3>1, RequestPlace DEF RequestPC, Goto
    <3>3. LockTypes'
      BY <2>2, <3>1 DEF LockTypes
    <3>4. QED
      BY <1>8, <1>c, <1>f, <2>2, <3>2, <3>3 DEF ApproveLock
  <2>3. QED
    BY <1>8, <2>1, <2>2 DEF ApproveLock
<1>9. ASSUME NEW p \in Requests, ApproveCommit(p) PROVE TypeOK'
  <2>1. on[p] \in Approvals
    BY <1>9, <1>e DEF ApproveCommit
  <2>2. LockTypes' /\ FaultTypes'
    BY <1>9, <1>c, <1>f, <2>1 DEF ApproveCommit, LockTypes
  <2>3. decision' \in [Approvals -> [Users -> {"none", "approved", "rejected"}]]
    BY <1>9, <2>1 DEF ApproveCommit, Decide, DecisionTypes
  <2>4. delegation' \in [Approvals -> [Users -> Delegations]]
    BY <1>9 DEF ApproveCommit, DecisionTypes
  <2>5. CASE Answer(p) /\ UNCHANGED <<rows, executed>>
    <3>1. DecisionTypes'
      BY <2>3, <2>4, <2>5 DEF DecisionTypes
    <3>2. QED
      BY <2>2, <2>5, <3>1, <1>c, <1>f, AnswerTyped
  <2>6. CASE /\ executed' = [executed EXCEPT ![on[p]] = @ + 1]
             /\ row' = [row EXCEPT ![on[p]] = [status |-> "approved", result |-> TRUE]]
             /\ revived' = [revived EXCEPT ![on[p]] = FALSE]
             /\ Become(p, "notify", None, Unread, {on[p]})
             /\ UNCHANGED <<due, sweep, saved, grant>>
    <3>1. DecisionTypes'
      BY <2>1, <2>3, <2>4, <2>6 DEF DecisionTypes
    <3>2. [status |-> "approved", result |-> TRUE] \in Rows
      BY DEF Rows, Decided
    <3>3. RowTypes'
      BY <2>1, <2>6, <3>2 DEF RowTypes
    <3>4. PlaceTypes'
      BY <2>1, <2>6, RequestPlace DEF RequestPC
    <3>5. QED
      BY <2>2, <2>6, <3>1, <3>3, <3>4, <1>c, <1>f
  <2>7. QED
    BY <1>9, <2>5, <2>6 DEF ApproveCommit
<1>10. ASSUME NEW p \in Requests, RejectCommit(p) PROVE TypeOK'
  <2>1. WithStatus(seen[p][on[p]], "rejected") \in Rows /\ on[p] \in Approvals
    BY <1>10, <1>e, WithStatusTyped DEF RejectCommit, Decided
  <2>2. RowTypes'
    BY <1>10, <2>1, SaveTyped DEF RejectCommit
  <2>3. PlaceTypes'
    BY <1>10, <2>1, RequestPlace DEF RejectCommit, RequestPC
  <2>4. DecisionTypes'
    BY <1>10, <2>1 DEF RejectCommit, Decide, DecisionTypes
  <2>5. QED
    BY <1>10, <1>c, <1>f, <2>2, <2>3, <2>4 DEF RejectCommit
<1>11. ASSUME NEW p \in Requests, RemindSave(p) PROVE TypeOK'
  <2>1. seen[p][on[p]] \in Rows /\ on[p] \in Approvals
    BY <1>11, <1>e DEF RemindSave
  <2>2. RowTypes'
    BY <1>11, <2>1, SaveTyped DEF RemindSave
  <2>3. PlaceTypes'
    BY <1>11, <2>1, RequestPlace DEF RemindSave, RequestPC
  <2>4. QED
    BY <1>11, <1>c, <1>f, <2>2, <2>3 DEF RemindSave
<1>12. ASSUME NEW p \in Requests, Delegate(p) PROVE TypeOK'
  <2>1. on[p] \in Approvals /\ [by |-> Asker[p], active |-> TRUE] \in Delegations
    BY <1>12, <1>e DEF Delegate, Delegations
  <2>2. DecisionTypes'
    BY <1>12, <2>1 DEF Delegate, DecisionTypes
  <2>3. QED
    BY <1>12, <1>c, <1>f, <2>2, AnswerTyped DEF Delegate
<1>13. ASSUME NEW p \in Requests, RevokeSave(p) PROVE TypeOK'
  <2>1. on[p] \in Approvals /\ [by |-> grant[p], active |-> FALSE] \in Delegations
    BY <1>13, <1>e DEF RevokeSave, Delegations, DataTypes
  <2>2. DecisionTypes'
    BY <1>13, <2>1 DEF RevokeSave, DecisionTypes
  <2>3. QED
    BY <1>13, <1>c, <1>f, <2>2, AnswerTyped DEF RevokeSave
<1>14. ASSUME NEW p \in Requests, RequestFails(p) PROVE TypeOK'
  <2>1. LockTypes'
    BY <1>14 DEF RequestFails, LockTypes
  <2>2. QED
    BY <1>14, <1>c, <1>f, <2>1, AnswerTyped DEF RequestFails
<1>15. ASSUME NEW p \in Actors, NotifyRead(p) PROVE TypeOK'
  <2>1. PICK a \in todo[p] : Become(p, "notifying", a, [Unread EXCEPT ![a] = row[a]], todo[p])
    BY <1>15 DEF NotifyRead
  <2>2. a \in Approvals /\ todo[p] \in SUBSET Approvals
    BY DEF PlaceTypes
  <2>3. PlaceTypes'
    BY <1>d, <2>1, <2>2, RequestPlace, WorkerPlace DEF RequestPC, WorkerPC
  <2>4. QED
    BY <1>15, <1>c, <1>f, <2>3 DEF NotifyRead
<1>16. ASSUME NEW p \in Actors, NotifySave(p) PROVE TypeOK'
  <2>1. on[p] \in Approvals /\ seen[p][on[p]] \in Rows
    BY <1>16 DEF NotifySave, PlaceTypes
  <2>2. RowTypes'
    BY <1>16, <2>1, SaveTyped DEF NotifySave
  <2>3. QED
    BY <1>16, <1>c, <1>f, <2>2, NotifiedTyped DEF NotifySave
<1>17. ASSUME NEW p \in Actors, NotifyFails(p) PROVE TypeOK'
  BY <1>17, <1>c, <1>f, NotifiedTyped DEF NotifyFails
<1>18. ASSUME NEW w \in Workers, SweepRead(w) PROVE TypeOK'
  <2>1. PICK A \in SUBSET Pending :
           \/ Become(w, "save", None, row, A) /\ UNCHANGED <<sweep, saved, grant>>
           \/ EnterSweep(w, NextSweep(sweep[w]))
    BY <1>18 DEF SweepRead
  <2>2. A \in SUBSET Approvals
    BY DEF Pending
  <2>3. CASE Become(w, "save", None, row, A) /\ UNCHANGED <<sweep, saved, grant>>
    <3>1. PlaceTypes'
      BY <2>2, <2>3, WorkerPlace DEF WorkerPC, RowTypes
    <3>2. QED
      BY <1>18, <1>c, <1>f, <2>3, <3>1 DEF SweepRead
  <2>4. CASE EnterSweep(w, NextSweep(sweep[w]))
    <3>1. NextSweep(sweep[w]) \in Sweeps
      BY NextSweepTyped DEF DataTypes
    <3>2. QED
      BY <1>18, <1>c, <1>f, <2>4, <3>1, EnterSweepTyped DEF SweepRead
  <2>5. QED
    BY <2>1, <2>3, <2>4
<1>19. ASSUME NEW w \in Workers, NEW a \in Approvals, ExpireOne(w, a) PROVE TypeOK'
  <2>1. seen[w] \in [Approvals -> Rows] /\ todo[w] \in SUBSET Approvals /\ saved[w] \in SUBSET Approvals
    BY DEF PlaceTypes, DataTypes
  <2>2. WithStatus(seen[w][a], "expired") \in Rows
    BY <2>1, WithStatusTyped DEF Decided
  <2>3. RowTypes'
    BY <1>19, <2>2, SaveTyped DEF ExpireOne
  <2>4. PlaceTypes'
    BY <1>19, <2>1, WorkerPlace DEF ExpireOne, WorkerPC
  <2>5. DataTypes'
    BY <1>19, <2>1 DEF ExpireOne, DataTypes
  <2>6. QED
    BY <1>19, <1>c, <1>f, <2>3, <2>4, <2>5 DEF ExpireOne
<1>20. ASSUME NEW w \in Workers, NoticeSave(w) PROVE TypeOK'
  <2>1. seen[w] \in [Approvals -> Rows] /\ todo[w] \in SUBSET Approvals
    BY DEF PlaceTypes
  <2>2. RowTypes'
    BY <1>20, <2>1, SaveAllTyped DEF NoticeSave
  <2>3. PlaceTypes'
    BY <1>20, <2>1, WorkerPlace DEF NoticeSave, WorkerPC
  <2>4. QED
    BY <1>20, <1>c, <1>f, <2>2, <2>3 DEF NoticeSave
<1>21. ASSUME NEW w \in Workers, SweepFails(w) PROVE TypeOK'
  <2>1. PICK s \in {NextSweep(sweep[w]), "expire"} : EnterSweep(w, s)
    BY <1>21 DEF SweepFails
  <2>2. s \in Sweeps
    BY NextSweepTyped DEF DataTypes, Sweeps
  <2>3. QED
    BY <1>21, <1>c, <1>f, <2>1, <2>2, EnterSweepTyped DEF SweepFails
<1>22. CASE UNCHANGED vars
  <2>1. PlaceTypes' /\ DataTypes'
    BY <1>22 DEF vars, actors, PlaceTypes, DataTypes
  <2>2. QED
    BY <1>22, <1>c, <1>f, <2>1 DEF vars
<1>23. QED
  BY <1>1, <1>2, <1>3, <1>4, <1>5, <1>6, <1>7, <1>8, <1>9, <1>10, <1>11, <1>12,
     <1>13, <1>14, <1>15, <1>16, <1>17, <1>18, <1>19, <1>20, <1>21, <1>22
     DEF Next, RequestStep, WorkerStep

(* TypeOK is an invariant of the approvals. *)
THEOREM TypeCorrect == Spec => []TypeOK
  BY TypeInit, TypeNext, PTL DEF Spec

-----------------------------------------------------------------------------
(* What the moves and the saves do, pointwise *)

(* Only the actor that moves changes its place, and this is its new place. *)
LEMMA BecomeAt ==
    ASSUME PlaceTypes, NEW p \in Actors, NEW label, NEW a, NEW s, NEW t, Become(p, label, a, s, t)
    PROVE  /\ pc'[p] = label /\ on'[p] = a /\ seen'[p] = s /\ todo'[p] = t
           /\ \A q \in Actors : q # p =>
                 pc'[q] = pc[q] /\ on'[q] = on[q] /\ seen'[q] = seen[q] /\ todo'[q] = todo[q]
  BY DEF PlaceTypes, Become

(* A request that answers is done and has forgotten what it read. *)
LEMMA AnswerAt ==
    ASSUME PlaceTypes, DataTypes, NEW p \in Requests, Answer(p)
    PROVE  /\ pc'[p] = "done" /\ on'[p] = None /\ seen'[p] = Unread /\ todo'[p] = {}
           /\ \A q \in Actors : q # p =>
                 pc'[q] = pc[q] /\ on'[q] = on[q] /\ seen'[q] = seen[q] /\ todo'[q] = todo[q]
           /\ \A q \in Requests : q # p => grant'[q] = grant[q]
           /\ saved' = saved
  BY BecomeAt DEF Answer, DataTypes

(* A worker in its next sweep has forgotten what it read. *)
LEMMA EnterSweepAt ==
    ASSUME PlaceTypes, DataTypes, NEW w \in Workers, NEW s, EnterSweep(w, s)
    PROVE  /\ pc'[w] = "sweep" /\ on'[w] = None /\ seen'[w] = Unread /\ todo'[w] = {}
           /\ \A q \in Actors : q # w =>
                 pc'[q] = pc[q] /\ on'[q] = on[q] /\ seen'[q] = seen[q] /\ todo'[q] = todo[q]
           /\ grant' = grant
           /\ \A v \in Workers : saved'[v] \subseteq saved[v]
  BY BecomeAt DEF EnterSweep, DataTypes

(* After a notification there is one row less to do. *)
LEMMA NotifiedAt ==
    ASSUME PlaceTypes, DataTypes, NEW p \in Actors, Notified(p)
    PROVE  /\ pc'[p] \in {"notify", "done", "sweep"} /\ seen'[p] = Unread
           /\ todo'[p] \subseteq todo[p]
           /\ \A q \in Actors : q # p =>
                 pc'[q] = pc[q] /\ on'[q] = on[q] /\ seen'[q] = seen[q] /\ todo'[q] = todo[q]
           /\ \A q \in Requests : q # p => grant'[q] = grant[q]
           /\ \A v \in Workers : saved'[v] \subseteq saved[v]
  <1>1. CASE Become(p, "notify", None, Unread, todo[p] \ {on[p]}) /\ UNCHANGED <<sweep, saved, grant>>
    BY <1>1, BecomeAt
  <1>2. CASE p \in Requests /\ Answer(p)
    BY <1>2, AnswerAt
  <1>3. CASE p \in Workers /\ EnterSweep(p, NextSweep(sweep[p]))
    BY <1>3, EnterSweepAt
  <1>4. QED
    BY <1>1, <1>2, <1>3 DEF Notified

(* A save replaces the row; it revives a decided one that it makes pending.*)
LEMMA SaveAt ==
    ASSUME RowTypes, NEW a \in Approvals, NEW r, Save(a, r)
    PROVE  /\ row'[a] = r /\ \A b \in Approvals : b # a => row'[b] = row[b]
           /\ revived'[a] <=> revived[a] \/ (row[a].status \in Decided /\ r.status = "pending")
           /\ \A b \in Approvals : b # a => revived'[b] = revived[b]
  <1>1. \A b \in {a} : [c \in {a} |-> r][b] = r
    OBVIOUS
  <1>2. SaveAll({a}, [c \in {a} |-> r])
    BY DEF Save
  <1>3. QED
    BY <1>1, <1>2 DEF SaveAll, RowTypes

(* Nothing read is no row. *)
LEMMA UnreadAt == \A a \in Approvals : Unread[a] = NoRow /\ NoRow.status = "none" /\ ~NoRow.result
  BY DEF Unread, NoRow

(* Reading one row, nothing else is read. *)
LEMMA ReadAt ==
    ASSUME NEW a \in Approvals, NEW r
    PROVE  /\ [Unread EXCEPT ![a] = r][a] = r
           /\ \A b \in Approvals : b # a => [Unread EXCEPT ![a] = r][b] = NoRow
  BY DEF Unread

(* What TypeOK says of a single row, actor or user. *)
LEMMA TypeFacts ==
    ASSUME TypeOK
    PROVE  /\ \A a \in Approvals : row[a] \in Rows
           /\ \A p \in Actors : /\ on[p] \in Approvals \cup {None} /\ todo[p] \subseteq Approvals
                                /\ \A a \in Approvals : seen[p][a] \in Rows
           /\ \A p \in Requests : /\ pc[p] \in RequestPC
                                  /\ on[p] = None <=> pc[p] \in {"begin", "notify", "done"}
                                  /\ Asker[p] \in Users /\ Target[p] \in Users
           /\ \A w \in Workers : pc[w] \in WorkerPC /\ saved[w] \subseteq Approvals
           /\ \A p \in Actors : pc[p] = "notifying" => on[p] \in todo[p]
           /\ \A a \in Approvals : lock[a] \in Requests \cup {None}
  BY DEF TypeOK

-----------------------------------------------------------------------------
(* What a step may do to a row: nothing, save one that is not locked, or    *)
(* approve one that is.                                                     *)

Kept(a) == row'[a] = row[a] /\ (revived'[a] <=> revived[a])

Saved(a) ==
    /\ Free(a) /\ row'[a].status # "none" /\ ResultAgrees(row'[a])
    /\ revived[a] => revived'[a]
    /\ row'[a].status = "pending" /\ row[a].status \in Decided => revived'[a]

Approved(a) ==
    /\ ~Free(a) /\ row'[a].status = "approved" /\ ResultAgrees(row'[a])

PlainRowStep == \A a \in Approvals : Kept(a) \/ Saved(a)
RowStep == \A a \in Approvals : Kept(a) \/ Saved(a) \/ Approved(a)

(* The invariant gives its parts. *)
LEMMA Parts ==
    ASSUME IInv
    PROVE  /\ TypeOK /\ RowTypes /\ DecisionTypes /\ LockTypes /\ PlaceTypes /\ DataTypes
           /\ RowsAgree /\ WorkExists /\ ReadWasPending /\ LockHeld
           /\ ActiveIsGranted /\ DecidingEntitled /\ RevokesDecide
           /\ PendingMeansUndecided /\ DecidersWereEntitled /\ QuorumIsExecuted
  BY TypeParts DEF IInv

(* A save of a row that agrees and exists, not while the row is locked.    *)
LEMMA SaveIsRowStep ==
    ASSUME RowTypes, NEW a \in Approvals, NEW r, ResultAgrees(r), r.status # "none",
           Free(a), Save(a, r)
    PROVE  PlainRowStep
  BY SaveAt DEF PlainRowStep, Kept, Saved

(* The row a request is about to write back, and its approval.             *)
LEMMA ReadRow ==
    ASSUME IInv, NEW p \in Requests,
           pc[p] = "expire" \/ (pc[p] = "decide" /\ Kind[p] # "revoke")
    PROVE  /\ on[p] \in Approvals /\ seen[p][on[p]] \in Rows
           /\ seen[p][on[p]].status = "pending" /\ ~seen[p][on[p]].result
           /\ Exists(on[p])
  <1>1. on[p] \in Approvals /\ seen[p][on[p]] \in Rows
    BY Parts, TypeFacts
  <1>2. seen[p][on[p]].status = "pending"
    BY Parts DEF ReadWasPending
  <1>3. ResultAgrees(seen[p][on[p]]) /\ Exists(on[p])
    BY <1>1, <1>2, Parts DEF RowsAgree, WorkExists
  <1>4. QED
    BY <1>1, <1>2, <1>3 DEF ResultAgrees

(* The rows a worker is about to write back. *)
LEMMA SweptRow ==
    ASSUME IInv, NEW w \in Workers, pc[w] = "save", NEW a \in todo[w]
    PROVE  /\ a \in Approvals /\ seen[w][a] \in Rows
           /\ seen[w][a].status = "pending" /\ ~seen[w][a].result
           /\ Exists(a)
  <1>1. a \in Approvals /\ seen[w][a] \in Rows
    BY Parts, TypeFacts
  <1>2. seen[w][a].status = "pending" /\ ResultAgrees(seen[w][a]) /\ Exists(a)
    BY <1>1, Parts DEF ReadWasPending, RowsAgree, WorkExists
  <1>3. QED
    BY <1>1, <1>2 DEF ResultAgrees

(* A pending row given another status still agrees, unless it is approved. *)
LEMMA WithStatusAgrees ==
    ASSUME NEW r \in Rows, ~r.result, NEW s \in {"pending", "rejected", "expired"}
    PROVE  WithStatus(r, s).status = s /\ ResultAgrees(WithStatus(r, s))
  BY WithStatusTyped DEF ResultAgrees, Decided

(* Only the commit of an approve approves. *)
LEMMA EveryRowStep ==
    ASSUME IInv, [Next]_vars
    PROVE  RowStep /\ (PlainRowStep \/ \E p \in Requests : ApproveCommit(p))
<1> USE Parts
<1>1. ASSUME UNCHANGED <<row, revived>> PROVE PlainRowStep
  BY <1>1 DEF PlainRowStep, Kept
<1>2. ASSUME NEW p \in Requests, NEW a \in Approvals, Create(p, a) PROVE PlainRowStep
  <2>1. NoRow \in Rows /\ ~NoRow.result
    BY UnreadTyped DEF NoRow
  <2>2. Free(a)
    BY <1>2 DEF LockHeld, IsPending, Free, Create, NoRow
  <2>3. QED
    BY <1>2, <2>1, <2>2, WithStatusAgrees, SaveIsRowStep DEF Create
<1>3. ASSUME NEW p \in Requests, ExpireSave(p) \/ RejectCommit(p) \/ RemindSave(p) PROVE PlainRowStep
  <2>1. /\ on[p] \in Approvals /\ seen[p][on[p]] \in Rows /\ ~seen[p][on[p]].result
        /\ seen[p][on[p]].status = "pending" /\ ResultAgrees(seen[p][on[p]])
    BY <1>3, ReadRow DEF ExpireSave, RejectCommit, RemindSave, ResultAgrees
  <2>2. PICK r \in {seen[p][on[p]], WithStatus(seen[p][on[p]], "expired"),
                    WithStatus(seen[p][on[p]], "rejected")} :
           Free(on[p]) /\ Save(on[p], r)
    BY <1>3 DEF ExpireSave, RejectCommit, RemindSave
  <2>3. ResultAgrees(r) /\ r.status # "none"
    BY <2>1, WithStatusAgrees
  <2>4. QED
    BY <2>1, <2>2, <2>3, SaveIsRowStep
<1>4. ASSUME NEW p \in Requests, ApproveCommit(p) PROVE RowStep
  <2>1. on[p] \in Approvals /\ lock[on[p]] = p
    BY <1>4, TypeFacts DEF ApproveCommit, LockHeld
  <2>2. ~Free(on[p])
    BY <2>1 DEF Free
  <2>3. CASE /\ row' = [row EXCEPT ![on[p]] = [status |-> "approved", result |-> TRUE]]
             /\ revived' = [revived EXCEPT ![on[p]] = FALSE]
    <3>1. row'[on[p]] = [status |-> "approved", result |-> TRUE]
      BY <2>1, <2>3 DEF RowTypes
    <3>2. Approved(on[p])
      BY <2>2, <3>1 DEF Approved, ResultAgrees
    <3>3. \A a \in Approvals : a # on[p] => Kept(a)
      BY <2>1, <2>3 DEF RowTypes, Kept
    <3>4. QED
      BY <3>2, <3>3 DEF RowStep
  <2>4. QED
    BY <1>4, <1>1, <2>3 DEF ApproveCommit, rows, RowStep, PlainRowStep
<1>5. ASSUME NEW p \in Actors, NotifySave(p) PROVE PlainRowStep
  <2>1. on[p] \in Approvals
    BY <1>5, TypeFacts DEF NotifySave
  <2>2. ResultAgrees(seen[p][on[p]]) /\ seen[p][on[p]].status # "none"
    BY <1>5, <2>1 DEF NotifySave, RowsAgree, WorkExists
  <2>3. QED
    BY <1>5, <2>1, <2>2, SaveIsRowStep DEF NotifySave
<1>6. ASSUME NEW w \in Workers, NEW a \in Approvals, ExpireOne(w, a) PROVE PlainRowStep
  BY <1>6, SweptRow, WithStatusAgrees, SaveIsRowStep DEF ExpireOne
<1>7. ASSUME NEW w \in Workers, NoticeSave(w) PROVE PlainRowStep
  <2>1. SUFFICES ASSUME NEW a \in Approvals PROVE Kept(a) \/ Saved(a)
    BY DEF PlainRowStep
  <2>2. SaveAll(todo[w], seen[w])
    BY <1>7 DEF NoticeSave
  <2>3. CASE a \in todo[w]
    <3>1. seen[w][a].status = "pending" /\ ResultAgrees(seen[w][a])
      BY <1>7, <2>3, SweptRow DEF NoticeSave, ResultAgrees
    <3>2. row'[a] = seen[w][a]
      BY <2>2, <2>3 DEF SaveAll
    <3>3. revived'[a] <=> (revived[a] \/ (row[a].status \in Decided /\ seen[w][a].status = "pending"))
      BY <2>2, <2>3 DEF SaveAll
    <3>4. Free(a)
      BY <1>7, <2>3 DEF NoticeSave
    <3>5. QED
      BY <3>1, <3>2, <3>3, <3>4 DEF Saved
  <2>4. CASE a \notin todo[w]
    <3>1. row'[a] = row[a]
      BY <2>2, <2>4 DEF SaveAll
    <3>2. revived'[a] <=> revived[a]
      BY <2>2, <2>4 DEF SaveAll
    <3>3. QED
      BY <3>1, <3>2 DEF Kept
  <2>5. QED
    BY <2>3, <2>4
<1>8. PlainRowStep => RowStep
  BY DEF RowStep, PlainRowStep
<1>9. QED
  BY <1>8, <1>1, <1>2, <1>3, <1>4, <1>5, <1>6, <1>7
     DEF Next, RequestStep, WorkerStep, vars, rows, Begin, RevokeRead, Lapse, Read, Check,
         ApproveLock, Delegate, RevokeSave, RequestFails, NotifyRead, NotifyFails, SweepRead,
         SweepFails

-----------------------------------------------------------------------------
(* What a step may do to the place of an actor *)

SamePlace(q) ==
    pc'[q] = pc[q] /\ on'[q] = on[q] /\ seen'[q] = seen[q] /\ todo'[q] = todo[q]

(* It has read what it had read, or a row as it is; it has work on rows    *)
(* that exist; it goes to a save only with pending rows.                   *)
Reads(p) == \A a \in Approvals : seen'[p][a] \in {seen[p][a], row[a], NoRow}
WorksOn(p) == \A a \in todo'[p] : Exists(a) \/ Exists(a)'
Notifies(p) == pc'[p] = "notifying" => seen'[p][on'[p]].status # "none"
Saves(p) ==
    /\ p \in Requests /\ (pc'[p] \in {"expire", "check"} \/ (pc'[p] = "decide" /\ Kind[p] # "revoke"))
          => seen'[p][on'[p]].status = "pending"
    /\ p \in Workers /\ pc'[p] = "save" => \A a \in todo'[p] : seen'[p][a].status = "pending"

Move(p) ==
    /\ \A q \in Actors : q # p => SamePlace(q)
    /\ Reads(p) /\ WorksOn(p) /\ Notifies(p) /\ Saves(p)
    /\ \A w \in Workers : \A a \in saved'[w] : Exists(a)

Still == /\ \A q \in Actors : SamePlace(q)
         /\ saved' = saved

(* A move that reads nothing, keeps to work on existing rows and does not  *)
(* go to a save.                                                           *)
LEMMA PlainMove ==
    ASSUME IInv, NEW p \in Actors, NEW label \in {"read", "locked", "notify", "done", "sweep"},
           pc'[p] = label, seen'[p] = Unread \/ seen'[p] = seen[p],
           WorksOn(p), \A q \in Actors : q # p => SamePlace(q),
           \A w \in Workers : saved'[w] \subseteq saved[w]
    PROVE  Move(p)
  <1>1. Reads(p)
    BY UnreadAt DEF Reads
  <1>2. Notifies(p) /\ Saves(p)
    BY DEF Notifies, Saves
  <1>3. \A w \in Workers : \A a \in saved'[w] : Exists(a)
    BY Parts DEF WorkExists
  <1>4. QED
    BY <1>1, <1>2, <1>3 DEF Move

(* Every step is the move of one actor or leaves all of them in place. *)
LEMMA EveryMove ==
    ASSUME IInv, [Next]_vars
    PROVE  Still \/ \E p \in Actors : Move(p)
<1> USE Parts DEF SamePlace
<1>a. \A w \in Workers : \A a \in saved[w] : Exists(a)
  BY DEF WorkExists
<1>1. ASSUME NEW p \in Requests, Answer(p) PROVE Move(p)
  BY <1>1, AnswerAt, PlainMove DEF WorksOn
<1>2. ASSUME NEW p \in Requests, NEW a \in Approvals, Create(p, a) PROVE Move(p)
  <2>1. row'[a].status = "pending"
    BY <1>2, SaveAt, UnreadTyped, WithStatusTyped DEF Create
  <2>2. WorksOn(p)
    BY <1>2, <2>1, BecomeAt DEF Create, WorksOn, Exists
  <2>3. QED
    BY <1>2, <2>2, BecomeAt, PlainMove DEF Create
<1>3. ASSUME NEW p \in Requests, NEW a \in Approvals, Begin(p, a) PROVE Move(p)
  <2>1. CASE Become(p, "read", a, Unread, {})
    BY <1>3, <2>1, BecomeAt, PlainMove DEF Begin, WorksOn
  <2>2. CASE IsLapsed(a) /\ Become(p, "expire", a, [Unread EXCEPT ![a] = row[a]], {})
    <3>1. /\ pc'[p] = "expire" /\ on'[p] = a /\ todo'[p] = {}
          /\ seen'[p] = [Unread EXCEPT ![a] = row[a]]
      BY <2>2, BecomeAt
    <3>5. seen'[p][a] = row[a] /\ \A b \in Approvals : b # a => seen'[p][b] = NoRow
      BY <3>1 DEF Unread
    <3>2. Reads(p) /\ WorksOn(p) /\ Notifies(p)
      BY <3>1, <3>5 DEF Reads, WorksOn, Notifies
    <3>3. Saves(p)
      BY <2>2, <3>1, <3>5 DEF Saves, IsLapsed, IsPending
    <3>4. QED
      BY <1>3, <1>a, <2>2, <3>2, <3>3, BecomeAt DEF Begin, Move
  <2>3. QED
    BY <1>3, <2>1, <2>2 DEF Begin
<1>4. ASSUME NEW p \in Requests, NEW a \in Approvals, RevokeRead(p, a) PROVE Move(p)
  <2>1. pc'[p] = "decide" /\ seen'[p] = Unread /\ todo'[p] = {}
    BY <1>4, BecomeAt DEF RevokeRead
  <2>2. Reads(p) /\ WorksOn(p) /\ Notifies(p) /\ Saves(p)
    BY <1>4, <2>1, UnreadAt DEF Reads, WorksOn, Notifies, Saves, RevokeRead
  <2>3. QED
    BY <1>4, <1>a, <2>2, BecomeAt DEF RevokeRead, Move
<1>5. ASSUME NEW p \in Requests, ExpireSave(p) \/ RejectCommit(p) \/ RemindSave(p) PROVE Move(p)
  <2>1. Exists(on[p])
    BY <1>5, ReadRow DEF ExpireSave, RejectCommit, RemindSave
  <2>2. Become(p, "notify", None, Unread, {on[p]}) /\ saved' = saved
    BY <1>5 DEF ExpireSave, RejectCommit, RemindSave
  <2>3. WorksOn(p)
    BY <2>1, <2>2, BecomeAt DEF WorksOn
  <2>4. QED
    BY <2>2, <2>3, BecomeAt, PlainMove
<1>6. ASSUME NEW p \in Requests, Read(p) PROVE Move(p)
  <2>1. CASE /\ IsPending(on[p])
             /\ Become(p, "check", on[p], [Unread EXCEPT ![on[p]] = row[on[p]]], {})
             /\ saved' = saved
    <3>1. on[p] \in Approvals
      BY <1>6, TypeFacts DEF Read
    <3>2. /\ pc'[p] = "check" /\ on'[p] = on[p] /\ todo'[p] = {}
          /\ seen'[p] = [Unread EXCEPT ![on[p]] = row[on[p]]]
      BY <2>1, BecomeAt
    <3>6. seen'[p][on[p]] = row[on[p]] /\ \A b \in Approvals : b # on[p] => seen'[p][b] = NoRow
      BY <3>1, <3>2 DEF Unread
    <3>3. Reads(p) /\ WorksOn(p) /\ Notifies(p)
      BY <3>2, <3>6 DEF Reads, WorksOn, Notifies
    <3>4. Saves(p)
      BY <2>1, <3>2, <3>6 DEF Saves, IsPending
    <3>5. QED
      BY <1>a, <2>1, <3>3, <3>4, BecomeAt DEF Move
  <2>2. QED
    BY <1>1, <1>6, <2>1 DEF Read
<1>7. ASSUME NEW p \in Requests, Check(p) PROVE Move(p)
  <2>1. CASE Become(p, "decide", on[p], seen[p], todo[p]) /\ saved' = saved
    <3>1. /\ pc'[p] = "decide" /\ on'[p] = on[p] /\ seen'[p] = seen[p] /\ todo'[p] = todo[p]
      BY <2>1, BecomeAt
    <3>2. Reads(p) /\ Notifies(p)
      BY <3>1 DEF Reads, Notifies
    <3>3. Saves(p)
      BY <1>7, <3>1 DEF Saves, ReadWasPending, Check
    <3>4. WorksOn(p)
      BY <3>1, TypeFacts DEF WorksOn, WorkExists
    <3>5. QED
      BY <1>a, <2>1, <3>2, <3>3, <3>4, BecomeAt DEF Move
  <2>2. QED
    BY <1>1, <1>7, <2>1 DEF Check, Goto
<1>8. ASSUME NEW p \in Requests, ApproveLock(p) PROVE Move(p)
  <2>1. CASE Become(p, "locked", on[p], seen[p], todo[p]) /\ saved' = saved
    <3>1. WorksOn(p)
      BY <2>1, BecomeAt, TypeFacts DEF WorksOn, WorkExists
    <3>2. QED
      BY <2>1, <3>1, BecomeAt, PlainMove
  <2>2. QED
    BY <1>1, <1>8, <2>1 DEF ApproveLock, Goto
<1>9. ASSUME NEW p \in Requests, ApproveCommit(p) PROVE Move(p)
  <2>1. CASE Become(p, "notify", None, Unread, {on[p]}) /\ saved' = saved
    <3>1. Exists(on[p])
      BY <1>9, TypeFacts DEF ApproveCommit, LockHeld, IsPending, Exists
    <3>2. WorksOn(p)
      BY <2>1, <3>1, BecomeAt DEF WorksOn
    <3>3. QED
      BY <2>1, <3>2, BecomeAt, PlainMove
  <2>2. QED
    BY <1>1, <1>9, <2>1 DEF ApproveCommit
<1>10. ASSUME NEW p \in Requests, Delegate(p) \/ RevokeSave(p) \/ RequestFails(p) PROVE Move(p)
  BY <1>1, <1>10 DEF Delegate, RevokeSave, RequestFails
<1>11. ASSUME NEW p \in Actors, NotifyRead(p) PROVE Move(p)
  <2>1. PICK a \in todo[p] : Become(p, "notifying", a, [Unread EXCEPT ![a] = row[a]], todo[p])
    BY <1>11 DEF NotifyRead
  <2>2. a \in Approvals /\ todo[p] \subseteq Approvals
    BY TypeFacts
  <2>3. \A b \in todo[p] : Exists(b)
    BY <2>2 DEF WorkExists
  <2>4. /\ pc'[p] = "notifying" /\ on'[p] = a /\ todo'[p] = todo[p]
        /\ seen'[p] = [Unread EXCEPT ![a] = row[a]]
    BY <2>1, BecomeAt
  <2>8. seen'[p][a] = row[a] /\ \A b \in Approvals : b # a => seen'[p][b] = NoRow
    BY <2>2, <2>4 DEF Unread
  <2>5. Reads(p) /\ WorksOn(p) /\ Saves(p)
    BY <2>2, <2>3, <2>4, <2>8 DEF Reads, WorksOn, Saves
  <2>6. Notifies(p)
    BY <2>2, <2>3, <2>4, <2>8 DEF Notifies, Exists
  <2>7. QED
    BY <1>11, <1>a, <2>1, <2>5, <2>6, BecomeAt DEF NotifyRead, Move
<1>12. ASSUME NEW p \in Actors, NotifySave(p) \/ NotifyFails(p) PROVE Move(p)
  <2>1. Notified(p)
    BY <1>12 DEF NotifySave, NotifyFails
  <2>2. WorksOn(p)
    BY <2>1, NotifiedAt, TypeFacts DEF WorksOn, WorkExists
  <2>3. QED
    BY <2>1, <2>2, NotifiedAt, PlainMove
<1>13. ASSUME NEW w \in Workers, NEW s, EnterSweep(w, s) PROVE Move(w)
  BY <1>13, EnterSweepAt, PlainMove DEF WorksOn
<1>14. ASSUME NEW w \in Workers, SweepRead(w) PROVE Move(w)
  <2>1. PICK A \in SUBSET Pending :
           \/ Become(w, "save", None, row, A) /\ saved' = saved
           \/ EnterSweep(w, NextSweep(sweep[w]))
    BY <1>14 DEF SweepRead
  <2>2. CASE Become(w, "save", None, row, A) /\ saved' = saved
    <3>1. pc'[w] = "save" /\ seen'[w] = row /\ todo'[w] = A
      BY <2>2, BecomeAt
    <3>2. Reads(w) /\ WorksOn(w) /\ Notifies(w) /\ Saves(w)
      BY <3>1 DEF Reads, WorksOn, Notifies, Saves, Pending, IsPending, Exists
    <3>3. QED
      BY <1>a, <2>2, <3>2, BecomeAt DEF Move
  <2>3. QED
    BY <1>13, <2>1, <2>2
<1>15. ASSUME NEW w \in Workers, NEW a \in Approvals, ExpireOne(w, a) PROVE Move(w)
  <2>1. Exists(a) /\ \A b \in todo[w] : Exists(b) /\ seen[w][b].status = "pending"
    BY <1>15, SweptRow DEF ExpireOne
  <2>2. \A v \in Workers : \A b \in saved'[v] : Exists(b)
    BY <1>15, <1>a, <2>1 DEF ExpireOne, DataTypes
  <2>3. CASE Become(w, "save", None, seen[w], todo[w] \ {a})
    <3>1. pc'[w] = "save" /\ seen'[w] = seen[w] /\ todo'[w] = todo[w] \ {a}
      BY <2>3, BecomeAt
    <3>2. Reads(w) /\ WorksOn(w) /\ Notifies(w) /\ Saves(w)
      BY <2>1, <3>1 DEF Reads, WorksOn, Notifies, Saves
    <3>3. QED
      BY <2>2, <2>3, <3>2, BecomeAt DEF Move
  <2>4. CASE Become(w, "notify", None, Unread, saved[w] \cup {a})
    <3>1. pc'[w] = "notify" /\ seen'[w] = Unread /\ todo'[w] = saved[w] \cup {a}
      BY <2>4, BecomeAt
    <3>2. Reads(w) /\ WorksOn(w) /\ Notifies(w) /\ Saves(w)
      BY <1>a, <2>1, <3>1, UnreadAt DEF Reads, WorksOn, Notifies, Saves
    <3>3. QED
      BY <2>2, <2>4, <3>2, BecomeAt DEF Move
  <2>5. QED
    BY <1>15, <2>3, <2>4 DEF ExpireOne
<1>16. ASSUME NEW w \in Workers, NoticeSave(w) PROVE Move(w)
  <2>1. WorksOn(w)
    BY <1>16, SweptRow, BecomeAt DEF NoticeSave, WorksOn
  <2>2. QED
    BY <1>16, <2>1, BecomeAt, PlainMove DEF NoticeSave
<1>17. ASSUME NEW w \in Workers, SweepFails(w) PROVE Move(w)
  BY <1>13, <1>17 DEF SweepFails
<1>18. CASE UNCHANGED actors
  BY <1>18 DEF actors, Still
<1>19. QED
  BY <1>2, <1>3, <1>4, <1>5, <1>6, <1>7, <1>8, <1>9, <1>10, <1>11, <1>12, <1>14, <1>15,
     <1>16, <1>17, <1>18
     DEF Next, RequestStep, WorkerStep, vars, Lapse

-----------------------------------------------------------------------------
(* What a step may do to decisions, delegations and executions *)

DecisionStep ==
    /\ \A a \in Approvals : executed'[a] = executed[a] \/ Approved(a)
    /\ \A a \in Approvals, u \in Users :
          \/ decision'[a][u] = decision[a][u]
          \/ /\ Entitled(u, a)
             /\ \/ decision'[a][u] = "approved"
                \/ decision'[a][u] = "rejected" /\ row'[a].status = "rejected"
    /\ \A a \in Approvals, u \in Users :
          \/ delegation'[a][u] = delegation[a][u]
          \/ delegation'[a][u].by # None /\ Entitled(delegation'[a][u].by, a)

(* The step of one decision, with or without its execution. *)
LEMMA DecideAt ==
    ASSUME DecisionTypes, NEW p \in Requests, on[p] \in Approvals, NEW d, Decide(p, d)
    PROVE  /\ decision'[on[p]][Asker[p]] = d
           /\ \A a \in Approvals, u \in Users :
                 a # on[p] \/ u # Asker[p] => decision'[a][u] = decision[a][u]
  BY DEF DecisionTypes, Decide

(* Every step records decisions of entitled users and executes only when   *)
(* it approves.                                                            *)
LEMMA EveryDecisionStep ==
    ASSUME IInv, [Next]_vars
    PROVE  DecisionStep
<1> USE Parts
<1>1. CASE UNCHANGED decisions
  BY <1>1 DEF decisions, DecisionStep
<1>2. ASSUME NEW p \in Requests, ApproveCommit(p) PROVE DecisionStep
  <2>1. on[p] \in Approvals /\ lock[on[p]] = p /\ Entitled(Asker[p], on[p])
    BY <1>2, TypeFacts DEF ApproveCommit, LockHeld, DecidingEntitled
  <2>2. /\ decision'[on[p]][Asker[p]] = "approved" /\ delegation' = delegation
        /\ \A a \in Approvals, u \in Users :
              a # on[p] \/ u # Asker[p] => decision'[a][u] = decision[a][u]
    BY <1>2, <2>1, DecideAt DEF ApproveCommit
  <2>3. \A a \in Approvals : executed'[a] = executed[a] \/ Approved(a)
    <3>1. CASE /\ executed' = [executed EXCEPT ![on[p]] = @ + 1]
               /\ row' = [row EXCEPT ![on[p]] = [status |-> "approved", result |-> TRUE]]
      <4>1. row'[on[p]] = [status |-> "approved", result |-> TRUE]
        BY <2>1, <3>1 DEF RowTypes
      <4>2. Approved(on[p])
        BY <2>1, <4>1 DEF Approved, Free, ResultAgrees
      <4>3. \A a \in Approvals : a # on[p] => executed'[a] = executed[a]
        BY <2>1, <3>1 DEF DecisionTypes
      <4>4. QED
        BY <4>2, <4>3
    <3>2. QED
      BY <1>2, <3>1 DEF ApproveCommit
  <2>4. QED
    BY <2>1, <2>2, <2>3 DEF DecisionStep
<1>3. ASSUME NEW p \in Requests, RejectCommit(p) PROVE DecisionStep
  <2>1. /\ on[p] \in Approvals /\ Entitled(Asker[p], on[p])
        /\ seen[p][on[p]] \in Rows /\ ~seen[p][on[p]].result
    BY <1>3, ReadRow DEF RejectCommit, DecidingEntitled
  <2>2. row'[on[p]].status = "rejected"
    BY <1>3, <2>1, SaveAt, WithStatusAgrees DEF RejectCommit
  <2>3. /\ decision'[on[p]][Asker[p]] = "rejected"
        /\ delegation' = delegation /\ executed' = executed
        /\ \A a \in Approvals, u \in Users :
              a # on[p] \/ u # Asker[p] => decision'[a][u] = decision[a][u]
    BY <1>3, <2>1, DecideAt DEF RejectCommit
  <2>4. QED
    BY <2>1, <2>2, <2>3 DEF DecisionStep
<1>4. ASSUME NEW p \in Requests, NEW b \in Users, NEW active, on[p] \in Approvals,
             Entitled(b, on[p]), UNCHANGED <<decision, executed>>,
             delegation' = [delegation EXCEPT ![on[p]][Target[p]] = [by |-> b, active |-> active]]
      PROVE  DecisionStep
  <2>1. delegation'[on[p]][Target[p]].by = b /\ b # None
    BY <1>4 DEF DecisionTypes
  <2>2. \A a \in Approvals, u \in Users :
           a # on[p] \/ u # Target[p] => delegation'[a][u] = delegation[a][u]
    BY <1>4 DEF DecisionTypes
  <2>3. QED
    BY <1>4, <2>1, <2>2 DEF DecisionStep
<1>5. ASSUME NEW p \in Requests, Delegate(p) PROVE DecisionStep
  <2>1. Entitled(Asker[p], on[p]) /\ on[p] \in Approvals
    BY <1>5, ReadRow DEF Delegate, DecidingEntitled
  <2>2. QED
    BY <1>4, <1>5, <2>1 DEF Delegate
<1>6. ASSUME NEW p \in Requests, RevokeSave(p) PROVE DecisionStep
  <2>1. /\ Entitled(grant[p], on[p]) /\ grant[p] \in Users
        /\ on[p] \in Approvals
    BY <1>6, TypeFacts DEF RevokeSave, DecidingEntitled, DataTypes
  <2>2. QED
    BY <1>4, <1>6, <2>1 DEF RevokeSave
<1>7. QED
  BY <1>1, <1>2, <1>3, <1>5, <1>6
     DEF Next, RequestStep, WorkerStep, vars, Create, Begin, RevokeRead, Lapse, ExpireSave, Read,
         Check, ApproveLock, RemindSave, RequestFails, NotifyRead, NotifySave, NotifyFails,
         SweepRead, ExpireOne, NoticeSave, SweepFails

(* The approvals of a row can only grow by a commit, which executes the    *)
(* operation when it finds enough of them.                                 *)
QuorumStep ==
    \A a \in Approvals :
        \/ /\ ApprovedBy(decision'[a]) \subseteq ApprovedBy(decision[a])
           /\ executed'[a] = executed[a]
        \/ ~(Cardinality(ApprovedBy(decision'[a])) >= Required[a])
        \/ executed'[a] > 0

(* Every step counts the approvals it adds. *)
LEMMA EveryQuorumStep ==
    ASSUME IInv, [Next]_vars
    PROVE  QuorumStep
<1> USE Parts
<1>1. CASE UNCHANGED <<decision, executed>>
  BY <1>1 DEF QuorumStep
<1>2. ASSUME NEW p \in Requests, ApproveCommit(p) PROVE QuorumStep
  <2>1. on[p] \in Approvals
    BY <1>2, TypeFacts DEF ApproveCommit
  <2>2. \A a \in Approvals : a # on[p] => decision'[a] = decision[a] /\ executed'[a] = executed[a]
    BY <1>2, <2>1 DEF ApproveCommit, Decide, DecisionTypes
  <2>3. ~Quorum(p) \/ executed'[on[p]] = executed[on[p]] + 1
    BY <1>2, <2>1 DEF ApproveCommit, DecisionTypes
  <2>4. executed[on[p]] \in Nat
    BY <2>1 DEF DecisionTypes
  <2>5. ~(Cardinality(ApprovedBy(decision'[on[p]])) >= Required[on[p]]) \/ executed'[on[p]] > 0
    BY <2>3, <2>4 DEF Quorum
  <2>6. QED
    BY <2>2, <2>5 DEF QuorumStep
<1>3. ASSUME NEW p \in Requests, RejectCommit(p) PROVE QuorumStep
  <2>1. on[p] \in Approvals
    BY <1>3, TypeFacts DEF RejectCommit
  <2>2. /\ decision'[on[p]][Asker[p]] = "rejected" /\ executed' = executed
        /\ \A a \in Approvals, u \in Users :
              a # on[p] \/ u # Asker[p] => decision'[a][u] = decision[a][u]
    BY <1>3, <2>1, DecideAt DEF RejectCommit
  <2>3. \A a \in Approvals, u \in Users : decision'[a][u] = "approved" => decision[a][u] = "approved"
    BY <2>2
  <2>4. QED
    BY <2>2, <2>3 DEF QuorumStep, ApprovedBy
<1>4. QED
  BY <1>1, <1>2, <1>3
     DEF Next, RequestStep, WorkerStep, vars, decisions, Create, Begin, RevokeRead, Lapse,
         ExpireSave, Read, Check, ApproveLock, RemindSave, Delegate, RevokeSave, RequestFails,
         NotifyRead, NotifySave, NotifyFails, SweepRead, ExpireOne, NoticeSave, SweepFails

-----------------------------------------------------------------------------
(* The parts of the invariant *)

(* Every step keeps status and result of a row, read or stored, in step. *)
LEMMA RowsAgreeNext == IInv /\ [Next]_vars => RowsAgree'
<1> SUFFICES ASSUME IInv, [Next]_vars PROVE RowsAgree'
  OBVIOUS
<1> USE Parts
<1>1. \A a \in Approvals : ResultAgrees(row[a])'
  BY EveryRowStep DEF RowStep, Kept, Saved, Approved, RowsAgree, ResultAgrees
<1>2. ASSUME NEW p \in Actors, NEW a \in Approvals PROVE ResultAgrees(seen[p][a])'
  <2>1. ResultAgrees(seen[p][a]) /\ ResultAgrees(row[a]) /\ ResultAgrees(NoRow)
    BY DEF RowsAgree, ResultAgrees, NoRow
  <2>2. seen'[p][a] \in {seen[p][a], row[a], NoRow}
    BY EveryMove DEF Still, Move, SamePlace, Reads
  <2>3. QED
    BY <2>1, <2>2 DEF ResultAgrees
<1>3. QED
  BY <1>1, <1>2 DEF RowsAgree

(* Rows are never deleted, so what an actor works on stays there. *)
LEMMA WorkExistsNext == IInv /\ [Next]_vars => WorkExists'
<1> SUFFICES ASSUME IInv, [Next]_vars PROVE WorkExists'
  OBVIOUS
<1> USE Parts
<1>1. \A a \in Approvals : Exists(a) => Exists(a)'
  BY EveryRowStep DEF RowStep, Kept, Saved, Approved, Exists
<1>2. ASSUME NEW p \in Actors, NEW a \in Approvals,
             a \in todo'[p] \/ seen'[p][a].status # "none"
      PROVE  Exists(a)'
  <2>1. CASE a \in todo'[p]
    BY <1>1, <2>1, EveryMove DEF Still, Move, SamePlace, WorksOn, WorkExists
  <2>2. CASE seen'[p][a].status # "none"
    <3>1. seen'[p][a] \in {seen[p][a], row[a], NoRow}
      BY EveryMove DEF Still, Move, SamePlace, Reads
    <3>2. seen[p][a].status # "none" \/ row[a].status # "none"
      BY <2>2, <3>1, UnreadAt
    <3>3. QED
      BY <1>1, <3>2 DEF WorkExists, Exists
  <2>3. QED
    BY <1>2, <2>1, <2>2
<1>3. ASSUME NEW w \in Workers, NEW a \in saved'[w] PROVE Exists(a)'
  <2>1. Exists(a)
    BY EveryMove DEF Still, Move, WorkExists
  <2>2. a \in Approvals
    BY TypeNext, <2>1 DEF IInv, TypeOK
  <2>3. QED
    BY <1>1, <2>1, <2>2
<1>4. ASSUME NEW p \in Actors, pc'[p] = "notifying" PROVE seen'[p][on'[p]].status # "none"
  BY <1>4, EveryMove DEF Still, Move, SamePlace, Notifies, WorkExists
<1>5. ASSUME NEW a \in Approvals, ~Exists(a)'
      PROVE  executed'[a] = 0 /\ \A u \in Users : decision'[a][u] # "rejected"
  <2>1. ~Exists(a) /\ ~Approved(a) /\ row'[a].status # "rejected"
    BY <1>1, <1>5 DEF Exists, Approved
  <2>2. executed[a] = 0 /\ \A u \in Users : decision[a][u] # "rejected"
    BY <2>1 DEF WorkExists
  <2>3. QED
    BY <2>1, <2>2, EveryDecisionStep DEF DecisionStep
<1>6. QED
  BY <1>2, <1>3, <1>4, <1>5 DEF WorkExists, Exists

(* An actor goes to a save only with rows it read as pending. *)
LEMMA ReadWasPendingNext == IInv /\ [Next]_vars => ReadWasPending'
<1> SUFFICES ASSUME IInv, [Next]_vars PROVE ReadWasPending'
  OBVIOUS
<1> USE Parts
<1>1. ASSUME NEW p \in Requests,
             pc'[p] \in {"expire", "check"} \/ (pc'[p] = "decide" /\ Kind[p] # "revoke")
      PROVE  seen'[p][on'[p]].status = "pending"
  BY <1>1, EveryMove DEF Still, Move, SamePlace, Saves, ReadWasPending
<1>2. ASSUME NEW w \in Workers, pc'[w] = "save", NEW a \in todo'[w]
      PROVE  seen'[w][a].status = "pending"
  BY <1>2, EveryMove DEF Still, Move, SamePlace, Saves, ReadWasPending
<1>3. QED
  BY <1>1, <1>2 DEF ReadWasPending

(* A decision leaves the row undecided only in the eyes of a stale save.   *)
LEMMA PendingMeansUndecidedNext == IInv /\ [Next]_vars => PendingMeansUndecided'
<1> SUFFICES ASSUME IInv, [Next]_vars, NEW a \in Approvals, IsPending(a)', ~revived'[a]
    PROVE  executed'[a] = 0 /\ \A u \in Users : decision'[a][u] # "rejected"
  BY DEF PendingMeansUndecided, IsPending
<1> USE Parts
<1>1. ~Approved(a) /\ row'[a].status = "pending"
  BY DEF Approved, IsPending
<1>2. ~revived[a] /\ row[a].status \in {"none", "pending"}
  BY <1>1, EveryRowStep, TypeFacts DEF RowStep, Kept, Saved, Rows, Decided
<1>3. executed[a] = 0 /\ \A u \in Users : decision[a][u] # "rejected"
  BY <1>2 DEF PendingMeansUndecided, IsPending, WorkExists, Exists
<1>4. QED
  BY <1>1, <1>3, EveryDecisionStep DEF DecisionStep

(* Who is the last of the required approvers executes the operation.       *)
LEMMA QuorumIsExecutedNext == IInv /\ [Next]_vars => QuorumIsExecuted'
<1> SUFFICES ASSUME IInv, [Next]_vars, NEW a \in Approvals,
                    Cardinality(ApprovedBy(decision'[a])) >= Required[a]
    PROVE  executed'[a] > 0 /\ (row'[a].status = "pending" => revived'[a])
  BY DEF QuorumIsExecuted, IsPending, ApprovedBy
<1> USE Parts
<1>1. executed'[a] > 0
  <2>1. CASE /\ ApprovedBy(decision'[a]) \subseteq ApprovedBy(decision[a])
             /\ executed'[a] = executed[a]
    <3>1. IsFiniteSet(ApprovedBy(decision[a]))
      BY FS_Subset DEF ApprovedBy
    <3>2. /\ IsFiniteSet(ApprovedBy(decision'[a]))
          /\ Cardinality(ApprovedBy(decision'[a])) <= Cardinality(ApprovedBy(decision[a]))
      BY ONLY <2>1, <3>1, FS_Subset
    <3>3. /\ Cardinality(ApprovedBy(decision'[a])) \in Nat
          /\ Cardinality(ApprovedBy(decision[a])) \in Nat /\ Required[a] \in Nat
      BY <3>1, <3>2, FS_CardinalityType
    <3>4. Cardinality(ApprovedBy(decision[a])) >= Required[a]
      BY <3>2, <3>3
    <3>5. QED
      BY <2>1, <3>4 DEF QuorumIsExecuted
  <2>2. QED
    BY <2>1, EveryQuorumStep DEF QuorumStep
<1>2. executed'[a] # 0
  BY <1>1
<1>3. row'[a].status = "pending" => revived'[a]
  BY <1>2, PendingMeansUndecidedNext DEF PendingMeansUndecided, IsPending
<1>4. QED
  BY <1>1, <1>3

(* Delegations are never forgotten, so who was entitled stays so. *)
LEMMA DecidersWereEntitledNext == IInv /\ [Next]_vars => DecidersWereEntitled'
<1> SUFFICES ASSUME IInv, [Next]_vars, NEW a \in Approvals, NEW u \in Users
    PROVE  /\ decision'[a][u] # "none" => Entitled(u, a)'
           /\ delegation'[a][u].by # None => Entitled(delegation[a][u].by, a)'
  BY DEF DecidersWereEntitled
<1> USE Parts
<1>1. \A v \in Users : delegation[a][v].by # None => delegation'[a][v].by # None
  BY EveryDecisionStep DEF DecisionStep
<1>2. \A v \in Users : Entitled(v, a) => Entitled(v, a)'
  BY <1>1 DEF Entitled
<1>3. decision'[a][u] # "none" => Entitled(u, a)'
  BY <1>2, EveryDecisionStep DEF DecisionStep, DecidersWereEntitled
<1>4. ASSUME delegation'[a][u].by # None PROVE Entitled(delegation[a][u].by, a)'
  <2>1. Entitled(delegation'[a][u].by, a)
    BY <1>4, EveryDecisionStep DEF DecisionStep, DecidersWereEntitled
  <2>2. delegation'[a][u].by \in Users
    BY <1>4, TypeNext DEF TypeOK, Delegations
  <2>3. QED
    BY <1>2, <2>1, <2>2 DEF Entitled
<1>5. QED
  BY <1>3, <1>4

(* A delegation is written with the one who gave it. *)
LEMMA ActiveIsGrantedNext == IInv /\ [Next]_vars => ActiveIsGranted'
  BY Parts, EveryDecisionStep DEF DecisionStep, ActiveIsGranted

(* Only the transaction of an approve comes to its lock or leaves it, and  *)
(* only a check and a revoke come to a decision.                           *)
LocksKept ==
    \A q \in Requests : pc[q] = "locked" \/ pc'[q] = "locked" => pc'[q] = pc[q] /\ on'[q] = on[q]

DecidesKept ==
    \A q \in Requests : pc'[q] \in {"decide", "locked"} =>
        /\ pc[q] \in {"decide", "locked"} /\ (pc'[q] = "decide" => pc[q] = "decide")
        /\ on'[q] = on[q] /\ grant'[q] = grant[q]

ReadsKept == \A q \in Requests :
    pc'[q] \in {"read", "check"} => pc[q] \in {"read", "check"} \/ Kind[q] # "revoke"

(* Who comes to a lock or to a decision, and by which action. *)
LEMMA EveryPlaceStep ==
    ASSUME IInv, [Next]_vars
    PROVE  /\ \/ LocksKept /\ lock' = lock
              \/ \E p \in Requests : ApproveLock(p) \/ ApproveCommit(p) \/ RequestFails(p)
           /\ \/ DecidesKept
              \/ \E p \in Requests : Check(p) \/ \E a \in Approvals : RevokeRead(p, a)
<1> USE Parts DEF LocksKept, DecidesKept
<1>1. ASSUME NEW p \in Requests, NEW a \in Approvals, Create(p, a) \/ Begin(p, a)
      PROVE  LocksKept /\ DecidesKept
  BY <1>1, BecomeAt DEF Create, Begin
<1>2. ASSUME NEW p \in Requests, NEW a \in Approvals, RevokeRead(p, a) PROVE LocksKept
  BY <1>2, BecomeAt DEF RevokeRead
<1>3. ASSUME NEW p \in Requests, ExpireSave(p) \/ RejectCommit(p) \/ RemindSave(p)
      PROVE  LocksKept /\ DecidesKept
  BY <1>3, BecomeAt DEF ExpireSave, RejectCommit, RemindSave
<1>4. ASSUME NEW p \in Requests, Read(p) PROVE LocksKept /\ DecidesKept
  BY <1>4, BecomeAt, AnswerAt DEF Read
<1>5. ASSUME NEW p \in Requests, Check(p) PROVE LocksKept
  BY <1>5, BecomeAt, AnswerAt DEF Check, Goto
<1>6. ASSUME NEW p \in Requests, ApproveLock(p) PROVE DecidesKept
  BY <1>6, BecomeAt, AnswerAt DEF ApproveLock, Goto
<1>7. ASSUME NEW p \in Requests, ApproveCommit(p) PROVE DecidesKept
  BY <1>7, BecomeAt, AnswerAt DEF ApproveCommit
<1>8. ASSUME NEW p \in Requests, Delegate(p) \/ RevokeSave(p) PROVE LocksKept /\ DecidesKept
  BY <1>8, AnswerAt DEF Delegate, RevokeSave
<1>9. ASSUME NEW p \in Requests, RequestFails(p) PROVE DecidesKept
  BY <1>9, AnswerAt DEF RequestFails
<1>10. ASSUME NEW p \in Actors, NotifyRead(p) PROVE LocksKept /\ DecidesKept
  BY <1>10, BecomeAt DEF NotifyRead
<1>11. ASSUME NEW p \in Actors, NotifySave(p) \/ NotifyFails(p) PROVE LocksKept /\ DecidesKept
  BY <1>11, NotifiedAt DEF NotifySave, NotifyFails
<1>12. ASSUME NEW w \in Workers, SweepRead(w) \/ NoticeSave(w) \/ SweepFails(w)
       PROVE  LocksKept /\ DecidesKept
  BY <1>12, BecomeAt, EnterSweepAt DEF SweepRead, NoticeSave, SweepFails
<1>13. ASSUME NEW w \in Workers, NEW a \in Approvals, ExpireOne(w, a)
       PROVE  LocksKept /\ DecidesKept
  BY <1>13, BecomeAt DEF ExpireOne
<1>14. ASSUME UNCHANGED actors PROVE LocksKept /\ DecidesKept
  BY <1>14 DEF actors
<1>15. lock' = lock \/ \E p \in Requests : ApproveLock(p) \/ ApproveCommit(p) \/ RequestFails(p)
  BY DEF Next, RequestStep, WorkerStep, vars, Create, Begin, RevokeRead, Lapse, ExpireSave, Read,
         Check, RejectCommit, RemindSave, Delegate, RevokeSave, NotifyRead, NotifySave,
         NotifyFails, SweepRead, ExpireOne, NoticeSave, SweepFails
<1>16. QED
  BY <1>1, <1>2, <1>3, <1>4, <1>5, <1>6, <1>7, <1>8, <1>9, <1>10, <1>11, <1>12, <1>13, <1>14,
     <1>15 DEF Next, RequestStep, WorkerStep, vars, Lapse

(* Only the approve that holds the lock releases it or writes the row.     *)
LEMMA LockHeldNext == IInv /\ [Next]_vars => LockHeld'
<1> SUFFICES ASSUME IInv, [Next]_vars PROVE LockHeld'
  OBVIOUS
<1> USE Parts, TypeFacts
<1>1. CASE LocksKept /\ lock' = lock
  <2>1. ASSUME NEW p \in Requests, pc'[p] = "locked" PROVE Kind[p] = "approve" /\ lock'[on'[p]] = p
    BY <1>1, <2>1 DEF LocksKept, LockHeld
  <2>2. ASSUME NEW a \in Approvals, lock'[a] # None
        PROVE  row'[a] = row[a] /\ pc'[lock'[a]] = "locked" /\ on'[lock'[a]] = a
    <3>1. ASSUME NEW p \in Requests, ApproveCommit(p) PROVE FALSE
      <4>1. pc[p] = "locked" /\ pc'[p] # "locked"
        BY <3>1, BecomeAt, AnswerAt DEF ApproveCommit
      <4>2. QED
        BY <1>1, <4>1 DEF LocksKept
    <3>2. row'[a] = row[a]
      BY <1>1, <2>2, <3>1, EveryRowStep DEF PlainRowStep, Kept, Saved, Free
    <3>3. QED
      BY <1>1, <2>2, <3>2 DEF LocksKept, LockHeld
  <2>3. QED
    BY <1>1, <2>1, <2>2 DEF LockHeld, IsPending
<1>2. ASSUME NEW p \in Requests, ApproveLock(p) PROVE LockHeld'
  <2>1. on[p] \in Approvals /\ row' = row
    BY <1>2 DEF ApproveLock, rows
  <2>2. CASE Answer(p) /\ UNCHANGED lock
    BY <1>2, <2>1, <2>2, AnswerAt DEF LockHeld, IsPending, ApproveLock
  <2>3. CASE /\ IsPending(on[p]) /\ lock' = [lock EXCEPT ![on[p]] = p]
             /\ Goto(p, "locked")
    <3>1. /\ pc'[p] = "locked" /\ on'[p] = on[p]
          /\ \A q \in Requests : q # p => pc'[q] = pc[q] /\ on'[q] = on[q]
      BY <2>3, BecomeAt DEF Goto
    <3>2. lock'[on[p]] = p /\ \A a \in Approvals : a # on[p] => lock'[a] = lock[a]
      BY <2>1, <2>3 DEF LockTypes
    <3>3. \A a \in Approvals : lock[a] # p /\ lock[on[p]] = None
      BY <1>2 DEF ApproveLock, LockHeld, Free
    <3>4. \A q \in Requests : pc'[q] = "locked" => Kind[q] = "approve" /\ lock'[on'[q]] = q
      BY <1>2, <3>1, <3>2, <3>3 DEF LockHeld, ApproveLock
    <3>5. ASSUME NEW a \in Approvals, lock'[a] # None
          PROVE  row[a].status = "pending" /\ pc'[lock'[a]] = "locked" /\ on'[lock'[a]] = a
      BY <2>3, <3>1, <3>2, <3>3, <3>5 DEF LockHeld, IsPending
    <3>6. QED
      BY <2>1, <3>4, <3>5 DEF LockHeld, IsPending
  <2>4. QED
    BY <1>2, <2>2, <2>3 DEF ApproveLock
<1>3. ASSUME NEW p \in Requests, ApproveCommit(p) PROVE LockHeld'
  <2>1. on[p] \in Approvals /\ lock[on[p]] = p
    BY <1>3 DEF ApproveCommit, LockHeld
  <2>2. lock'[on[p]] = None /\ \A a \in Approvals : a # on[p] => lock'[a] = lock[a]
    BY <1>3, <2>1 DEF ApproveCommit, LockTypes
  <2>3. \A a \in Approvals : a # on[p] => row'[a] = row[a]
    BY <1>3, <2>1 DEF ApproveCommit, rows, RowTypes
  <2>4. /\ pc'[p] # "locked"
        /\ \A q \in Requests : q # p => pc'[q] = pc[q] /\ on'[q] = on[q]
    BY <1>3, BecomeAt, AnswerAt DEF ApproveCommit
  <2>5. \A q \in Requests : pc'[q] = "locked" => Kind[q] = "approve" /\ lock'[on'[q]] = q
    BY <2>1, <2>2, <2>4 DEF LockHeld
  <2>6. ASSUME NEW a \in Approvals, lock'[a] # None
        PROVE  row'[a].status = "pending" /\ pc'[lock'[a]] = "locked" /\ on'[lock'[a]] = a
    BY <2>1, <2>2, <2>3, <2>4, <2>6 DEF LockHeld, IsPending
  <2>7. QED
    BY <2>5, <2>6 DEF LockHeld, IsPending
<1>4. ASSUME NEW p \in Requests, RequestFails(p) PROVE LockHeld'
  <2>1. /\ row' = row /\ pc'[p] = "done"
        /\ \A q \in Requests : q # p => pc'[q] = pc[q] /\ on'[q] = on[q]
    BY <1>4, AnswerAt DEF RequestFails, rows
  <2>2. \A a \in Approvals : lock'[a] = IF lock[a] = p THEN None ELSE lock[a]
    BY <1>4 DEF RequestFails
  <2>3. \A q \in Requests : pc'[q] = "locked" => Kind[q] = "approve" /\ lock'[on'[q]] = q
    BY <2>1, <2>2 DEF LockHeld
  <2>4. ASSUME NEW a \in Approvals, lock'[a] # None
        PROVE  row[a].status = "pending" /\ pc'[lock'[a]] = "locked" /\ on'[lock'[a]] = a
    BY <2>1, <2>2, <2>4 DEF LockHeld, IsPending
  <2>5. QED
    BY <2>1, <2>3, <2>4 DEF LockHeld, IsPending
<1>5. QED
  BY <1>1, <1>2, <1>3, <1>4, EveryPlaceStep

(* The check lets pass who is entitled, and nobody loses that later. *)
LEMMA DecidingEntitledNext == IInv /\ [Next]_vars => DecidingEntitled'
<1> SUFFICES ASSUME IInv, [Next]_vars PROVE DecidingEntitled'
  OBVIOUS
<1> USE Parts, TypeFacts
<1>1. ASSUME NEW a \in Approvals, NEW u, Entitled(u, a), u \in Users PROVE Entitled(u, a)'
  BY <1>1, EveryDecisionStep DEF DecisionStep, Entitled
<1>2. CASE DecidesKept
  <2>1. ASSUME NEW q \in Requests, pc'[q] \in {"decide", "locked"}, Kind[q] # "revoke"
        PROVE  Entitled(Asker[q], on[q])'
    <3>1. on'[q] = on[q] /\ Entitled(Asker[q], on[q]) /\ on[q] \in Approvals
      BY <1>2, <2>1 DEF DecidesKept, DecidingEntitled
    <3>2. QED
      BY <1>1, <3>1 DEF Entitled
  <2>2. ASSUME NEW q \in Requests, pc'[q] = "decide", Kind[q] = "revoke"
        PROVE  grant'[q] # None /\ Entitled(grant[q], on[q])'
    <3>1. /\ on'[q] = on[q] /\ grant'[q] = grant[q] /\ grant[q] # None
          /\ Entitled(grant[q], on[q]) /\ on[q] \in Approvals
      BY <1>2, <2>2 DEF DecidesKept, DecidingEntitled
    <3>2. grant[q] \in Users
      BY <3>1 DEF DataTypes
    <3>3. QED
      BY <1>1, <3>1, <3>2 DEF Entitled
  <2>3. QED
    BY <2>1, <2>2 DEF DecidingEntitled
<1>3. ASSUME NEW p \in Requests, Check(p) PROVE DecidingEntitled'
  <2>1. /\ on[p] \in Approvals /\ grant'[p] \in {grant[p], None} /\ delegation' = delegation
        /\ pc[p] = "check"
    BY <1>3, AnswerAt DEF Check, Answer, DataTypes, decisions
  <2>2. \A q \in Requests : q # p => pc'[q] = pc[q] /\ on'[q] = on[q] /\ grant'[q] = grant[q]
    BY <1>3, BecomeAt, AnswerAt DEF Check, Goto
  <2>3. CASE pc'[p] = "done"
    BY <2>1, <2>2, <2>3 DEF DecidingEntitled, Entitled
  <2>4. CASE CanDecide(Asker[p], on[p]) /\ Goto(p, "decide")
    <3>1. on'[p] = on[p] /\ Entitled(Asker[p], on[p])
      BY <2>1, <2>4, BecomeAt DEF Goto, CanDecide, Entitled, ActiveIsGranted
    <3>2. Kind[p] # "revoke"
      BY <2>1 DEF RevokesDecide
    <3>3. QED
      BY <2>1, <2>2, <3>1, <3>2 DEF DecidingEntitled, Entitled
  <2>5. QED
    BY <1>3, <2>3, <2>4, AnswerAt DEF Check
<1>4. ASSUME NEW p \in Requests, NEW a \in Approvals, RevokeRead(p, a) PROVE DecidingEntitled'
  <2>1. /\ pc'[p] = "decide" /\ on'[p] = a /\ grant'[p] = delegation[a][Target[p]].by
        /\ delegation' = delegation /\ Kind[p] = "revoke"
        /\ \A q \in Requests : q # p => pc'[q] = pc[q] /\ on'[q] = on[q] /\ grant'[q] = grant[q]
    BY <1>4, BecomeAt DEF RevokeRead, DataTypes, decisions
  <2>2. grant'[p] # None /\ Entitled(grant'[p], a)
    BY <1>4, <2>1 DEF RevokeRead, ActiveIsGranted, DecidersWereEntitled
  <2>3. QED
    BY <2>1, <2>2 DEF DecidingEntitled, Entitled
<1>5. QED
  BY <1>2, <1>3, <1>4, EveryPlaceStep


(* No action but Begin comes to read, and none but Read to the check.      *)
LEMMA RevokesDecideNext == IInv /\ [Next]_vars => RevokesDecide'
<1> SUFFICES ASSUME IInv, [Next]_vars PROVE ReadsKept
  BY Parts DEF RevokesDecide, ReadsKept
<1> USE Parts DEF ReadsKept
<1>1. ASSUME NEW p \in Requests, NEW a \in Approvals,
             Create(p, a) \/ Begin(p, a) \/ RevokeRead(p, a)
      PROVE  ReadsKept
  BY <1>1, BecomeAt DEF Create, Begin, RevokeRead
<1>2. ASSUME NEW p \in Requests, ExpireSave(p) \/ RejectCommit(p) \/ RemindSave(p)
      PROVE  ReadsKept
  BY <1>2, BecomeAt DEF ExpireSave, RejectCommit, RemindSave
<1>3. ASSUME NEW p \in Requests, Read(p) \/ Check(p) \/ ApproveLock(p) \/ ApproveCommit(p)
      PROVE  ReadsKept
  BY <1>3, BecomeAt, AnswerAt DEF Read, Check, ApproveLock, ApproveCommit, Goto
<1>4. ASSUME NEW p \in Requests, Delegate(p) \/ RevokeSave(p) \/ RequestFails(p)
      PROVE  ReadsKept
  BY <1>4, AnswerAt DEF Delegate, RevokeSave, RequestFails
<1>5. ASSUME NEW p \in Actors, NotifyRead(p) PROVE ReadsKept
  BY <1>5, BecomeAt DEF NotifyRead
<1>6. ASSUME NEW p \in Actors, NotifySave(p) \/ NotifyFails(p) PROVE ReadsKept
  BY <1>6, NotifiedAt DEF NotifySave, NotifyFails
<1>7. ASSUME NEW w \in Workers, SweepRead(w) \/ NoticeSave(w) \/ SweepFails(w)
      PROVE  ReadsKept
  BY <1>7, BecomeAt, EnterSweepAt DEF SweepRead, NoticeSave, SweepFails
<1>8. ASSUME NEW w \in Workers, NEW a \in Approvals, ExpireOne(w, a) PROVE ReadsKept
  BY <1>8, BecomeAt DEF ExpireOne
<1>9. ASSUME UNCHANGED actors PROVE ReadsKept
  BY <1>9 DEF actors
<1>10. QED
  BY <1>1, <1>2, <1>3, <1>4, <1>5, <1>6, <1>7, <1>8, <1>9
     DEF Next, RequestStep, WorkerStep, vars, Lapse

-----------------------------------------------------------------------------
(* The invariant and what follows from it *)

(* The invariant holds initially. *)
LEMMA InvInit == Init => IInv
<1> SUFFICES ASSUME Init PROVE IInv
  OBVIOUS
<1>1. TypeOK
  BY TypeInit
<1>2. RowsAgree /\ WorkExists
  BY UnreadAt DEF Init, RowsAgree, WorkExists, ResultAgrees, Exists
<1>3. ReadWasPending /\ LockHeld /\ RevokesDecide
  BY DEF Init, ReadWasPending, LockHeld, RevokesDecide
<1>4. ActiveIsGranted /\ DecidingEntitled /\ DecidersWereEntitled
  BY DEF Init, ActiveIsGranted, DecidingEntitled, DecidersWereEntitled
<1>5. PendingMeansUndecided
  BY DEF Init, PendingMeansUndecided
<1>6. QuorumIsExecuted
  <2>1. ASSUME NEW a \in Approvals PROVE ~(Cardinality(ApprovedBy(decision[a])) >= Required[a])
    <3>1. ApprovedBy(decision[a]) = {}
      BY DEF Init, ApprovedBy
    <3>2. Cardinality(ApprovedBy(decision[a])) = 0
      BY <3>1, FS_EmptySet
    <3>3. Required[a] \in Nat \ {0}
      OBVIOUS
    <3>4. QED
      BY <3>2, <3>3
  <2>2. QED
    BY <2>1 DEF QuorumIsExecuted
<1>7. QED
  BY <1>1, <1>2, <1>3, <1>4, <1>5, <1>6 DEF IInv

(* Every step keeps it. *)
LEMMA InvNext == IInv /\ [Next]_vars => IInv'
  BY TypeNext, RowsAgreeNext, WorkExistsNext, ReadWasPendingNext, LockHeldNext,
     ActiveIsGrantedNext, DecidingEntitledNext, RevokesDecideNext, PendingMeansUndecidedNext,
     DecidersWereEntitledNext, QuorumIsExecutedNext DEF IInv

(* The inductive invariant holds in every reachable state. *)
THEOREM InvCorrect == Spec => []IInv
  BY InvInit, InvNext, PTL DEF Spec

(* No stale save splits the status of a row from the result it was given.  *)
THEOREM ApprovedHoldsItsResultCorrect == Spec => []ApprovedHoldsItsResult
<1>1. IInv => ApprovedHoldsItsResult
  BY DEF IInv, RowsAgree, ResultAgrees, ApprovedHoldsItsResult
<1>2. QED
  BY <1>1, InvCorrect, PTL

(* A pending approval was neither executed nor rejected, unless a stale    *)
(* save made it pending again.                                             *)
THEOREM PendingMeansUndecidedCorrect == Spec => []PendingMeansUndecided
<1>1. IInv => PendingMeansUndecided
  BY DEF IInv
<1>2. QED
  BY <1>1, InvCorrect, PTL

(* Nobody decides or delegates who was not entitled to. *)
THEOREM DecidersWereEntitledCorrect == Spec => []DecidersWereEntitled
<1>1. IInv => DecidersWereEntitled
  BY DEF IInv
<1>2. QED
  BY <1>1, InvCorrect, PTL

(* A row that an approve has locked is written by that approve only. *)
THEOREM LockedRowIsKeptCorrect == Spec => LockedRowIsKept
<1>1. IInv /\ [Next]_vars =>
         [\A a \in Approvals :
             lock[a] # None /\ row'[a] # row[a] => row'[a].status = "approved"]_vars
  BY EveryRowStep DEF RowStep, Kept, Saved, Approved, Free
<1>2. QED
  BY <1>1, InvCorrect, PTL DEF Spec, LockedRowIsKept

(* What is executed was pending, under the lock, and neither executed nor  *)
(* rejected before, unless a stale save made it pending again.             *)
THEOREM ExecutesUndecidedCorrect == Spec => ExecutesUndecided
<1>1. ASSUME IInv, [Next]_vars, NEW a \in Approvals, executed'[a] # executed[a]
      PROVE  /\ IsPending(a)
             /\ revived[a] \/ (executed[a] = 0 /\ \A u \in Users : decision[a][u] # "rejected")
  <2>1. lock[a] # None
    BY <1>1, EveryDecisionStep DEF DecisionStep, Approved, Free
  <2>2. IsPending(a)
    BY <1>1, <2>1, Parts DEF LockHeld
  <2>3. QED
    BY <1>1, <2>2, Parts DEF PendingMeansUndecided
<1>2. IInv /\ [Next]_vars =>
         [\A a \in Approvals : executed'[a] # executed[a] =>
             /\ IsPending(a)
             /\ revived[a] \/ (executed[a] = 0 /\ \A u \in Users : decision[a][u] # "rejected")]_vars
  BY <1>1
<1>3. QED
  BY <1>2, InvCorrect, PTL DEF Spec, ExecutesUndecided

(* However many approvers commit at once, the one that completes the       *)
(* quorum enqueues the operation.                                          *)
THEOREM QuorumIsExecutedCorrect == Spec => []QuorumIsExecuted
<1>1. IInv => QuorumIsExecuted
  BY DEF IInv
<1>2. QED
  BY <1>1, InvCorrect, PTL
=============================================================================
