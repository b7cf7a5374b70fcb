----------------------------- MODULE Approvals -----------------------------
(***************************************************************************)
(* Operation approvals: HTTP requests that ask for one, approve, reject,   *)
(* remind, delegate and revoke, and the sweeps of the control workers that *)
(* expire, escalate and remind.  Approving enqueues the operation in the   *)
(* same transaction.                                                       *)
(*                                                                         *)
(* Only an approve locks the row (FOR UPDATE) and reads it again.  All the *)
(* others read it without a lock, look at what they read, and later save   *)
(* the whole row as they read it with their change in it (GORM's Save), so *)
(* a row is a value that is read (seen) and written back.  A transaction   *)
(* is one step from its first write on: its writes are seen at the commit. *)
(***************************************************************************)
EXTENDS Integers, FiniteSets

CONSTANTS
    Approvals,  \* rows of operation_approvals
    Requests,   \* HTTP requests, each made once
    Workers,    \* control workers, which sweep for ever
    Users,
    Approvers,  \* users with one of the required roles
    Admins,     \* users who may revoke any delegation
    None,
    Kind,       \* [Requests -> Kinds]
    Asker,      \* [Requests -> Users]: currentUser
    Target,     \* [Requests -> Users]: whom a delegation is for
    Required,   \* [Approvals -> Nat]: required_approval_count
    Subject,    \* [Approvals -> the resource and action it asks for]
    MaxFaults   \* bound on failing statements and dying processes

Kinds == {"create", "approve", "reject", "remind", "delegate", "revoke"}
Sweeps == {"expire", "escalate", "remind"}

ASSUME ActorAssumption ==
    /\ Requests \cap Workers = {}
    /\ None \notin Approvals \cup Requests \cup Users
ASSUME RequestAssumption ==
    /\ Kind \in [Requests -> Kinds]
    /\ Asker \in [Requests -> Users] /\ Target \in [Requests -> Users]
    /\ \A p \in Requests : Kind[p] = "delegate" => Target[p] # Asker[p]  \* else refused
ASSUME UserAssumption ==
    IsFiniteSet(Users) /\ Approvers \subseteq Users /\ Admins \subseteq Users
ASSUME NumberAssumption == Required \in [Approvals -> Nat \ {0}] /\ MaxFaults \in Nat

VARIABLES
    row,         \* operation_approvals: status, and whether it holds its approval_result
    due,         \* expires_at has passed
    decision,    \* operation_approval_decisions, one per approval and user
    delegation,  \* operation_approval_delegations, one per approval and delegate
    executed,    \* how often the approved operation was enqueued
    revived,     \* history: since then a decided row was saved as pending
    lock,        \* the approve request that has the row locked
    pc,          \* where each request and worker is
    sweep,       \* the sweep a worker is in
    on,          \* the approval an actor works on
    seen,        \* the rows as the actor read them
    grant,       \* the delegator a revoke request read
    todo,        \* the rows it has still to save, then to notify about
    saved,       \* what an expiry sweep has saved so far
    faults

decisions == <<decision, delegation, executed>>
rows == <<row, due, revived>>
actors == <<pc, sweep, on, seen, grant, todo, saved>>
vars == <<rows, decisions, lock, actors, faults>>

Actors == Requests \cup Workers
Decided == {"approved", "rejected", "expired"}
Rows == [status : {"none", "pending"} \cup Decided, result : BOOLEAN]
NoRow == [status |-> "none", result |-> FALSE]
Unread == [a \in Approvals |-> NoRow]
Delegations == [by : Users \cup {None}, active : BOOLEAN]
RequestPC == {"begin", "expire", "read", "check", "decide", "locked",
              "notify", "notifying", "done"}
WorkerPC == {"sweep", "save", "notify", "notifying"}

TypeOK ==
    /\ row \in [Approvals -> Rows]
    /\ due \in [Approvals -> BOOLEAN]
    /\ decision \in [Approvals -> [Users -> {"none", "approved", "rejected"}]]
    /\ delegation \in [Approvals -> [Users -> Delegations]]
    /\ executed \in [Approvals -> Nat]
    /\ revived \in [Approvals -> BOOLEAN]
    /\ lock \in [Approvals -> Requests \cup {None}]
    /\ pc \in [Actors -> RequestPC \cup WorkerPC]
    /\ \A p \in Requests : pc[p] \in RequestPC
    /\ \A w \in Workers : pc[w] \in WorkerPC
    /\ sweep \in [Workers -> Sweeps]
    /\ on \in [Actors -> Approvals \cup {None}]
    /\ \A p \in Requests : on[p] = None <=> pc[p] \in {"begin", "notify", "done"}
    /\ \A p \in Actors : pc[p] = "notifying" => on[p] \in todo[p]
    /\ seen \in [Actors -> [Approvals -> Rows]]
    /\ grant \in [Requests -> Users \cup {None}]
    /\ todo \in [Actors -> SUBSET Approvals]
    /\ saved \in [Workers -> SUBSET Approvals]
    /\ faults \in 0..MaxFaults

Init ==
    /\ row = Unread
    /\ due = [a \in Approvals |-> FALSE]
    /\ decision = [a \in Approvals |-> [u \in Users |-> "none"]]
    /\ delegation = [a \in Approvals |-> [u \in Users |-> [by |-> None, active |-> FALSE]]]
    /\ executed = [a \in Approvals |-> 0]
    /\ revived = [a \in Approvals |-> FALSE]
    /\ lock = [a \in Approvals |-> None]
    /\ pc = [p \in Actors |-> IF p \in Requests THEN "begin" ELSE "sweep"]
    /\ sweep = [w \in Workers |-> "expire"]
    /\ on = [p \in Actors |-> None]
    /\ seen = [p \in Actors |-> Unread]
    /\ grant = [p \in Requests |-> None]
    /\ todo = [p \in Actors |-> {}]
    /\ saved = [w \in Workers |-> {}]
    /\ faults = 0

-----------------------------------------------------------------------------
(* How an actor moves on, and how a row is written *)

Fault == faults < MaxFaults /\ faults' = faults + 1

Free(a) == lock[a] = None

(* The actor goes to label, works on a, has read s and has t to do. *)
Become(p, label, a, s, t) ==
    /\ pc' = [pc EXCEPT ![p] = label]
    /\ on' = [on EXCEPT ![p] = a]
    /\ seen' = [seen EXCEPT ![p] = s]
    /\ todo' = [todo EXCEPT ![p] = t]

Goto(p, label) == Become(p, label, on[p], seen[p], todo[p])

NextSweep(s) == CASE s = "expire" -> "escalate"
                  [] s = "escalate" -> "remind"
                  [] s = "remind" -> "expire"

(* A request answers. *)
Answer(p) ==
    /\ Become(p, "done", None, Unread, {})
    /\ grant' = [grant EXCEPT ![p] = None]
    /\ UNCHANGED <<sweep, saved>>

(* A worker goes to sweep s. *)
EnterSweep(w, s) ==
    /\ Become(w, "sweep", None, Unread, {})
    /\ sweep' = [sweep EXCEPT ![w] = s]
    /\ saved' = [saved EXCEPT ![w] = {}]
    /\ UNCHANGED grant

(* The whole rows of A are saved as rs, whatever the table holds by now. *)
SaveAll(A, rs) ==
    /\ row' = [a \in Approvals |-> IF a \in A THEN rs[a] ELSE row[a]]
    /\ revived' = [a \in Approvals |->
           revived[a] \/ (a \in A /\ row[a].status \in Decided /\ rs[a].status = "pending")]
    /\ UNCHANGED due

Save(a, r) == SaveAll({a}, [b \in {a} |-> r])

WithStatus(r, status) == [r EXCEPT !.status = status]
IsPending(a) == row[a].status = "pending"
IsLapsed(a) == IsPending(a) /\ due[a]

-----------------------------------------------------------------------------
(* Notifying: read the row, then save it with the notification's outcome *)

(* One notification less to send; with none left the request answers, and  *)
(* the worker goes to its next sweep.                                      *)
Notified(p) ==
    LET left == todo[p] \ {on[p]} IN
    \/ left # {} /\ Become(p, "notify", None, Unread, left) /\ UNCHANGED <<sweep, saved, grant>>
    \/ left = {} /\ p \in Requests /\ Answer(p)
    \/ left = {} /\ p \in Workers /\ EnterSweep(p, NextSweep(sweep[p]))

NotifyRead(p) ==
    /\ pc[p] = "notify"
    /\ \E a \in todo[p] : Become(p, "notifying", a, [Unread EXCEPT ![a] = row[a]], todo[p])
    /\ UNCHANGED <<rows, decisions, lock, sweep, saved, grant, faults>>

NotifySave(p) ==
    /\ pc[p] = "notifying" /\ Free(on[p])
    /\ Save(on[p], seen[p][on[p]])
    /\ Notified(p)
    /\ UNCHANGED <<decisions, lock, faults>>

(* The error of a notification is dropped. *)
NotifyFails(p) ==
    /\ pc[p] = "notifying" /\ Fault
    /\ Notified(p)
    /\ UNCHANGED <<rows, decisions, lock>>

-----------------------------------------------------------------------------
(* Requests.  Every decision first expires the approval if it has lapsed,  *)
(* then reads it, then looks whether the user may decide.                  *)

Create(p, a) ==
    /\ Kind[p] = "create" /\ pc[p] = "begin" /\ row[a] = NoRow
    /\ Save(a, WithStatus(NoRow, "pending"))
    /\ Become(p, "notify", None, Unread, {a})
    /\ UNCHANGED <<decisions, lock, sweep, saved, grant, faults>>

(* The time of expires_at comes. *)
Lapse(a) ==
    /\ row[a] # NoRow /\ ~due[a]
    /\ due' = [due EXCEPT ![a] = TRUE]
    /\ UNCHANGED <<row, revived, decisions, lock, actors, faults>>

(* expireOperationApprovalByIDGorm reads the approval. *)
Begin(p, a) ==
    /\ Kind[p] \notin {"create", "revoke"} /\ pc[p] = "begin" /\ row[a] # NoRow
    /\ \/ IsLapsed(a) /\ Become(p, "expire", a, [Unread EXCEPT ![a] = row[a]], {})
       \/ ~IsLapsed(a) /\ Become(p, "read", a, Unread, {})
    /\ UNCHANGED <<rows, decisions, lock, sweep, saved, grant, faults>>

ExpireSave(p) ==
    /\ pc[p] = "expire" /\ Free(on[p])
    /\ Save(on[p], WithStatus(seen[p][on[p]], "expired"))
    /\ Become(p, "notify", None, Unread, {on[p]})
    /\ UNCHANGED <<decisions, lock, sweep, saved, grant, faults>>

Read(p) ==
    /\ pc[p] = "read"
    /\ \/ /\ IsPending(on[p])
          /\ Become(p, "check", on[p], [Unread EXCEPT ![on[p]] = row[on[p]]], {})
          /\ UNCHANGED <<sweep, saved, grant>>
       \/ ~IsPending(on[p]) /\ Answer(p)
    /\ UNCHANGED <<rows, decisions, lock, faults>>

(* Mutant: the role of the user is not looked at. *)
CanDecideAnyone(u, a) == TRUE

CanDecide(u, a) == u \in Approvers \/ delegation[a][u].active

Check(p) ==
    /\ pc[p] = "check"
    /\ \/ /\ CanDecide(Asker[p], on[p])
          /\ Goto(p, "decide") /\ UNCHANGED <<sweep, saved, grant>>
       \/ ~CanDecide(Asker[p], on[p]) /\ Answer(p)
    /\ UNCHANGED <<rows, decisions, lock, faults>>

(* Mutant: the status is not looked at again under the lock. *)
ApproveLockUnchecked(p) ==
    /\ Kind[p] = "approve" /\ pc[p] = "decide" /\ Free(on[p])
    /\ lock' = [lock EXCEPT ![on[p]] = p]
    /\ Goto(p, "locked") /\ UNCHANGED <<sweep, saved, grant>>
    /\ UNCHANGED <<rows, decisions, faults>>

(* The transaction of an approve locks the row and reads it once more. *)
ApproveLock(p) ==
    /\ Kind[p] = "approve" /\ pc[p] = "decide" /\ Free(on[p])
    /\ \/ /\ IsPending(on[p])
          /\ lock' = [lock EXCEPT ![on[p]] = p]
          /\ Goto(p, "locked") /\ UNCHANGED <<sweep, saved, grant>>
       \/ ~IsPending(on[p]) /\ Answer(p) /\ UNCHANGED lock
    /\ UNCHANGED <<rows, decisions, faults>>

Decide(p, d) == decision' = [decision EXCEPT ![on[p]][Asker[p]] = d]
ApprovedBy(d) == {u \in Users : d[u] = "approved"}

(* Mutant: the approvals are counted before this one is recorded. *)
QuorumBefore(p) == Cardinality(ApprovedBy(decision[on[p]])) >= Required[on[p]]

(* The approvals are counted with the one just recorded. *)
Quorum(p) == Cardinality(ApprovedBy(decision'[on[p]])) >= Required[on[p]]

(* It records the decision and counts; with the required number the        *)
(* operation is enqueued and the row, read under the lock, approved.       *)
ApproveCommit(p) ==
    /\ Kind[p] = "approve" /\ pc[p] = "locked"
    /\ Decide(p, "approved")
    /\ lock' = [lock EXCEPT ![on[p]] = None]
    /\ \/ /\ ~Quorum(p)
          /\ Answer(p)
          /\ UNCHANGED <<rows, executed>>
       \/ /\ Quorum(p)
          /\ executed' = [executed EXCEPT ![on[p]] = @ + 1]
          /\ row' = [row EXCEPT ![on[p]] = [status |-> "approved", result |-> TRUE]]
          /\ revived' = [revived EXCEPT ![on[p]] = FALSE]
          /\ Become(p, "notify", None, Unread, {on[p]})
          /\ UNCHANGED <<due, sweep, saved, grant>>
    /\ UNCHANGED <<delegation, faults>>

(* A reject neither locks the row nor reads it again. *)
RejectCommit(p) ==
    /\ Kind[p] = "reject" /\ pc[p] = "decide" /\ Free(on[p])
    /\ Decide(p, "rejected")
    /\ Save(on[p], WithStatus(seen[p][on[p]], "rejected"))
    /\ Become(p, "notify", None, Unread, {on[p]})
    /\ UNCHANGED <<delegation, executed, lock, sweep, saved, grant, faults>>

RemindSave(p) ==
    /\ Kind[p] = "remind" /\ pc[p] = "decide" /\ Free(on[p])
    /\ Save(on[p], seen[p][on[p]])
    /\ Become(p, "notify", None, Unread, {on[p]})
    /\ UNCHANGED <<decisions, lock, sweep, saved, grant, faults>>

Delegate(p) ==
    /\ Kind[p] = "delegate" /\ pc[p] = "decide"
    /\ delegation' = [delegation EXCEPT ![on[p]][Target[p]] = [by |-> Asker[p], active |-> TRUE]]
    /\ Answer(p)
    /\ UNCHANGED <<rows, decision, executed, lock, faults>>

(* A revoke reads the delegation, whatever the status of the approval. *)
RevokeRead(p, a) ==
    LET d == delegation[a][Target[p]] IN
    /\ Kind[p] = "revoke" /\ pc[p] = "begin" /\ d.active
    /\ Asker[p] \in Admins \cup Approvers \cup {d.by}
    /\ Become(p, "decide", a, Unread, {})
    /\ grant' = [grant EXCEPT ![p] = d.by]
    /\ UNCHANGED <<rows, decisions, lock, sweep, saved, faults>>

RevokeSave(p) ==
    /\ Kind[p] = "revoke" /\ pc[p] = "decide"
    /\ delegation' = [delegation EXCEPT ![on[p]][Target[p]] = [by |-> grant[p], active |-> FALSE]]
    /\ Answer(p)
    /\ UNCHANGED <<rows, decision, executed, lock, faults>>

(* A statement of the request fails, the execution of the operation        *)
(* included, or its process dies: an open transaction is rolled back.      *)
RequestFails(p) ==
    /\ pc[p] \notin {"begin", "done"} /\ Fault
    /\ lock' = [a \in Approvals |-> IF lock[a] = p THEN None ELSE lock[a]]
    /\ Answer(p)
    /\ UNCHANGED <<rows, decisions>>

RequestStep(p) ==
    \/ ExpireSave(p) \/ Read(p) \/ Check(p) \/ ApproveLock(p) \/ ApproveCommit(p)
    \/ RejectCommit(p) \/ RemindSave(p) \/ Delegate(p) \/ RevokeSave(p)
    \/ NotifyRead(p) \/ NotifySave(p)

-----------------------------------------------------------------------------
(* The sweeps of processOne *)

Lapsed == {a \in Approvals : IsLapsed(a)}
Pending == {a \in Approvals : IsPending(a)}

(* The sweep reads the pending rows and picks those that are due, by their *)
(* expiry or by the clocks of escalations and reminders, which are not     *)
(* modelled: any subset.                                                   *)
SweepRead(w) ==
    /\ pc[w] = "sweep"
    /\ \E A \in SUBSET Pending :
          /\ sweep[w] = "expire" => A = Lapsed
          /\ \/ /\ A # {}
                /\ Become(w, "save", None, row, A) /\ UNCHANGED <<sweep, saved, grant>>
             \/ A = {} /\ EnterSweep(w, NextSweep(sweep[w]))
    /\ UNCHANGED <<rows, decisions, lock, faults>>

(* The expiry sweep saves one row after another, each in a transaction of  *)
(* its own, and notifies about all of them in the end.                     *)
ExpireOne(w, a) ==
    /\ sweep[w] = "expire" /\ pc[w] = "save" /\ a \in todo[w] /\ Free(a)
    /\ Save(a, WithStatus(seen[w][a], "expired"))
    /\ \/ /\ todo[w] # {a}
          /\ Become(w, "save", None, seen[w], todo[w] \ {a})
          /\ saved' = [saved EXCEPT ![w] = @ \cup {a}]
       \/ /\ todo[w] = {a}
          /\ Become(w, "notify", None, Unread, saved[w] \cup {a})
          /\ saved' = [saved EXCEPT ![w] = {}]
    /\ UNCHANGED <<decisions, lock, sweep, grant, faults>>

(* Escalations and reminders are counted in one transaction. *)
NoticeSave(w) ==
    /\ sweep[w] # "expire" /\ pc[w] = "save" /\ \A a \in todo[w] : Free(a)
    /\ SaveAll(todo[w], seen[w])
    /\ Become(w, "notify", None, Unread, todo[w])
    /\ UNCHANGED <<decisions, lock, sweep, saved, grant, faults>>

(* The next sweep follows a failed one; a worker that dies comes back in   *)
(* the first.                                                              *)
SweepFails(w) ==
    /\ pc[w] # "sweep" /\ Fault
    /\ \E s \in {NextSweep(sweep[w]), "expire"} : EnterSweep(w, s)
    /\ UNCHANGED <<rows, decisions, lock>>

WorkerStep(w) ==
    \/ SweepRead(w) \/ \E a \in Approvals : ExpireOne(w, a)
    \/ NoticeSave(w) \/ NotifyRead(w) \/ NotifySave(w)

-----------------------------------------------------------------------------

Next ==
    \/ \E p \in Requests, a \in Approvals : Create(p, a) \/ Begin(p, a) \/ RevokeRead(p, a)
    \/ \E a \in Approvals : Lapse(a)
    \/ \E p \in Requests : RequestStep(p) \/ RequestFails(p)
    \/ \E w \in Workers : WorkerStep(w) \/ SweepFails(w)
    \/ \E p \in Actors : NotifyFails(p)

Spec == Init /\ [][Next]_vars

-----------------------------------------------------------------------------
(* Properties *)

(* Only an approved row holds the result of its operation and every        *)
(* approved row does: no stale save splits the status from the result that *)
(* approveOperationApproval wrote with it.                                 *)
ApprovedHoldsItsResult ==
    \A a \in Approvals : row[a].result <=> row[a].status = "approved"

(* A pending approval has no enqueued operation and no rejection, unless a *)
(* stale save revived it: there is no other way back to pending.           *)
PendingMeansUndecided ==
    \A a \in Approvals : IsPending(a) =>
        revived[a] \/ (executed[a] = 0 /\ \A u \in Users : decision[a][u] # "rejected")

(* Every recorded decision and every delegation comes from a user who has  *)
(* an approver's role or was once delegated the approval.                  *)
Entitled(u, a) == u \in Approvers \/ delegation[a][u].by # None

DecidersWereEntitled ==
    \A a \in Approvals, u \in Users :
        /\ decision[a][u] # "none" => Entitled(u, a)
        /\ delegation[a][u].by # None => Entitled(delegation[a][u].by, a)

(* No approval is left with all the approvals it needs and no operation:   *)
(* whoever of several approvers is the last finds the others counted and   *)
(* enqueues it, and it is pending again only by a stale save.              *)
QuorumIsExecuted ==
    \A a \in Approvals : Cardinality(ApprovedBy(decision[a])) >= Required[a] =>
        executed[a] > 0 /\ (IsPending(a) => revived[a])

(* An operation is enqueued for a pending approval only, which nobody      *)
(* rejected and which was not executed before, unless a stale save revived *)
(* it since.                                                               *)
ExecutesUndecided ==
    [][\A a \in Approvals : executed'[a] # executed[a] =>
          /\ IsPending(a)
          /\ revived[a] \/ (executed[a] = 0 /\ \A u \in Users : decision[a][u] # "rejected")]_vars

(* While an approve has the row locked it can only become approved: what   *)
(* the approve read under the lock is still true when it commits.          *)
LockedRowIsKept ==
    [][\A a \in Approvals : lock[a] # None /\ row'[a] # row[a] => row'[a].status = "approved"]_vars

=============================================================================
