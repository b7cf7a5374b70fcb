---------------------------- MODULE ReviewLedger ----------------------------
(***************************************************************************)
(* The ledger of one approved provider review and its live execution.  An  *)
(* approved review has three attempts that depend on each other: create    *)
(* the review branch, commit the starter files, open the review request.   *)
(* An operator claims an attempt and records its result by hand, or lets a *)
(* gateway execute the claimed first one, which makes all three calls at   *)
(* GitHub and records the answer; a branch it leaves behind is flagged,    *)
(* and a cleanup request deletes it.                                       *)
(*                                                                         *)
(* A claim and a result by hand are one transaction under FOR UPDATE, one  *)
(* step here.  An execution and a cleanup are not: they hold a lock that   *)
(* lives in the gateway's memory (a sync.Map), read the attempt, call, and *)
(* record in a transaction that reads it again.  A second gateway, a       *)
(* restart or a client that disconnects knows nothing of that lock.        *)
(*                                                                         *)
(* The module covers a ledger until it is recorded again: an approval that *)
(* is approved a second time writes the attempts anew (ReviewEvidence).    *)
(***************************************************************************)
EXTENDS Integers

CONSTANTS
    Gateways,   \* gateway processes
    Handlers,   \* goroutines that serve a live execution or a live cleanup
    Home,       \* [Handlers -> Gateways]: the process a handler runs in
    None,
    MaxFaults   \* bound on crashes and abandoned requests

ASSUME HandlerAssumption ==
    Home \in [Handlers -> Gateways] /\ None \notin Handlers \cup Gateways
ASSUME FaultAssumption == MaxFaults \in Nat

VARIABLES
    attempt,   \* provider_review_attempts of the approval, by operation_name
    provider,  \* GitHub: the branch, the starter files on it, its open review
    lock,      \* providerReviewLiveExecutionLocks of each gateway
    pc,        \* where each handler is
    made,      \* the handler has had the answer that it created the branch
    out,       \* reviewBranchExecutionResult
    faults,
    recorder,  \* history: the gateway whose live execution was recorded
    blind      \* history: the ways an existing branch got out of sight

ledger == <<attempt, recorder>>
handler == <<pc, made, out>>
vars == <<ledger, provider, lock, handler, faults, blind>>

Branch == "create_branch_ref"
Ops == {Branch, "commit_starter_files", "open_review_request"}
Predecessor == [o \in Ops |-> CASE o = Branch -> "none"
                                [] o = "commit_starter_files" -> Branch
                                [] o = "open_review_request" -> "commit_starter_files"]

Settled == {"completed", "failed"}
Dependencies == {"independent", "waiting_for_dependency",
                 "dependency_satisfied", "dependency_failed"}
Attempts == [status : {"planned", "running"} \cup Settled, dependency : Dependencies,
             armed : BOOLEAN,    \* provider_api_mutation is enabled
             called : BOOLEAN,   \* provider_api_call_made, external_call_made
             required : BOOLEAN, cleaned : BOOLEAN]  \* cleanup_required, cleanup_succeeded
Results == [ok : BOOLEAN, called : BOOLEAN, required : BOOLEAN, cleaned : BOOLEAN]
NoResult == [ok |-> FALSE, called |-> FALSE, required |-> FALSE, cleaned |-> FALSE]
Nothing == [branch |-> FALSE, files |-> FALSE, review |-> FALSE]

Calls == {"base", "create", "files", "review", "delete", "record"}
Labels == {"idle", "input", "arm"} \cup Calls \cup {"clean_input", "clean", "clean_record"}

TypeOK ==
    /\ attempt \in [Ops -> Attempts]
    /\ provider \in [branch : BOOLEAN, files : BOOLEAN, review : BOOLEAN]
    /\ lock \in [Gateways -> Handlers \cup {None}]
    /\ pc \in [Handlers -> Labels]
    /\ made \in [Handlers -> BOOLEAN]
    /\ out \in [Handlers -> Results]
    /\ faults \in 0..MaxFaults
    /\ recorder \in Gateways \cup {None}
    /\ blind \subseteq {"answer lost", "unrecorded", "unreachable"}

(* The approve records the ledger. *)
Init ==
    /\ attempt = [o \in Ops |->
          [status |-> "planned",
           dependency |-> IF o = Branch THEN "independent" ELSE "waiting_for_dependency",
           armed |-> FALSE, called |-> FALSE, required |-> FALSE, cleaned |-> FALSE]]
    /\ provider = Nothing
    /\ lock = [g \in Gateways |-> None]
    /\ pc = [h \in Handlers |-> "idle"]
    /\ made = [h \in Handlers |-> FALSE]
    /\ out = [h \in Handlers |-> NoResult]
    /\ faults = 0 /\ recorder = None /\ blind = {}

-----------------------------------------------------------------------------
(* Claims and results by hand *)

Ready(o) == attempt[o].dependency \in {"independent", "dependency_satisfied"}

Claim(o) ==
    /\ attempt[o].status = "planned" /\ Ready(o) /\ ~attempt[o].armed
    /\ attempt' = [attempt EXCEPT ![o].status = "running"]
    /\ UNCHANGED <<provider, lock, handler, faults, recorder, blind>>

StatusFor(result) == CASE result = "success" -> "completed"
                       [] result = "retryable" -> "planned"
                       [] result = "failed" -> "failed"

(* What becomes of o's dependency when its predecessor has this status. *)
PassOn(o, status) ==
    IF attempt[o].dependency = "waiting_for_dependency" /\ status \in Settled
    THEN IF status = "completed" THEN "dependency_satisfied" ELSE "dependency_failed"
    ELSE attempt[o].dependency

Recordable(o) == attempt[o].status = "running" /\ ~attempt[o].armed

LocalResult(o, result) ==
    /\ Recordable(o)
    /\ attempt' = [p \in Ops |->
          CASE p = o -> [attempt[o] EXCEPT !.status = StatusFor(result)]
            [] Predecessor[p] = o /\ ~attempt[p].armed ->
                  [attempt[p] EXCEPT !.dependency = PassOn(p, StatusFor(result))]
            [] OTHER -> attempt[p]]
    /\ UNCHANGED <<provider, lock, handler, faults, recorder, blind>>

-----------------------------------------------------------------------------
(* The lock of a gateway, and how a handler moves on and ends *)

Goto(h, label) == pc' = [pc EXCEPT ![h] = label] /\ UNCHANGED made

Answer(h, ok, called, required, cleaned) ==
    out' = [out EXCEPT ![h] =
        [ok |-> ok, called |-> called, required |-> required, cleaned |-> cleaned]]

Acquire(h) == lock[Home[h]] = None /\ lock' = [lock EXCEPT ![Home[h]] = h]

(* Mutant: a handler returns without its deferred unlock. *)
EndLocked(h) ==
    /\ UNCHANGED lock
    /\ pc' = [pc EXCEPT ![h] = "idle"]
    /\ made' = [made EXCEPT ![h] = FALSE]
    /\ out' = [out EXCEPT ![h] = NoResult]

End(h) ==
    /\ lock' = [lock EXCEPT ![Home[h]] = None]
    /\ pc' = [pc EXCEPT ![h] = "idle"]
    /\ made' = [made EXCEPT ![h] = FALSE]
    /\ out' = [out EXCEPT ![h] = NoResult]

(* History: the handlers end, and what they had made is not recorded. *)
Unrecorded(hs) ==
    blind' = IF \E h \in hs : made[h] THEN blind \cup {"unrecorded"} ELSE blind

(* An answer "the request is blocked", or an error before the first call. *)
Refuse(h) ==
    /\ pc[h] \in {"input", "arm", "clean_input"}
    /\ End(h)
    /\ UNCHANGED <<ledger, provider, faults, blind>>

-----------------------------------------------------------------------------
(* A live execution: read, arm, call GitHub, record *)

(* Of the attempts only the first can pass ReadInput; the locks of the others *)
(* are taken for nothing.  Who finds the lock taken is answered "conflict".   *)
BeginExecution(h) ==
    /\ pc[h] = "idle" /\ Acquire(h)
    /\ Goto(h, "input")
    /\ UNCHANGED <<ledger, provider, out, faults, blind>>

ReadInput(h) ==
    /\ pc[h] = "input"
    /\ attempt[Branch].status = "running" /\ Ready(Branch) /\ ~attempt[Branch].called
    /\ Goto(h, "arm")
    /\ UNCHANGED <<ledger, provider, lock, out, faults, blind>>

Arm(h) ==
    /\ pc[h] = "arm" /\ attempt[Branch].status = "running"
    /\ attempt' = [attempt EXCEPT ![Branch].armed = TRUE]
    /\ Goto(h, "base")
    /\ UNCHANGED <<provider, lock, out, faults, recorder, blind>>

(* Its failure may also be that of the checks before the first call. *)
ReadBase(h) ==
    /\ pc[h] = "base"
    /\ \/ Goto(h, "create") /\ UNCHANGED out
       \/ \E called \in BOOLEAN :
             Goto(h, "record") /\ Answer(h, FALSE, called, FALSE, FALSE)
    /\ UNCHANGED <<ledger, provider, lock, faults, blind>>

(* GitHub refuses a branch that exists.  Nothing is deleted after a failure, *)
(* whether or not the branch was created and its answer lost.                *)
CreateBranch(h) ==
    /\ pc[h] = "create"
    /\ \/ /\ ~provider.branch
          /\ provider' = [provider EXCEPT !.branch = TRUE]
          /\ pc' = [pc EXCEPT ![h] = "files"]
          /\ made' = [made EXCEPT ![h] = TRUE]
          /\ UNCHANGED <<out, faults, blind>>
       \/ /\ Goto(h, "record") /\ Answer(h, FALSE, TRUE, FALSE, FALSE)
          /\ UNCHANGED <<provider, faults, blind>>
       \/ /\ ~provider.branch /\ faults < MaxFaults
          /\ provider' = [provider EXCEPT !.branch = TRUE]
          /\ faults' = faults + 1
          /\ blind' = blind \cup {"answer lost"}
          /\ Goto(h, "record") /\ Answer(h, FALSE, TRUE, FALSE, FALSE)
    /\ UNCHANGED <<ledger, lock>>

(* What a call that failed may have done all the same. *)
Partly(part) ==
    IF provider.branch THEN {provider, [provider EXCEPT ![part] = TRUE]} ELSE {provider}

(* Mutant: a failure is recorded and the branch left where it is. *)
CommitFilesNoCleanup(h) ==
    /\ pc[h] = "files"
    /\ \/ /\ provider.branch /\ provider' = [provider EXCEPT !.files = TRUE]
          /\ Goto(h, "review") /\ UNCHANGED out
       \/ /\ provider' \in Partly("files")
          /\ Goto(h, "record") /\ Answer(h, FALSE, TRUE, FALSE, FALSE)
    /\ UNCHANGED <<ledger, lock, faults, blind>>

(* One PUT per file: all are there, or one failed. *)
CommitFiles(h) ==
    /\ pc[h] = "files"
    /\ \/ /\ provider.branch /\ provider' = [provider EXCEPT !.files = TRUE]
          /\ Goto(h, "review")
       \/ provider' \in Partly("files") /\ Goto(h, "delete")
    /\ UNCHANGED <<ledger, lock, out, faults, blind>>

OpenReview(h) ==
    /\ pc[h] = "review"
    /\ \/ /\ provider.branch /\ ~provider.review
          /\ provider' = [provider EXCEPT !.review = TRUE]
          /\ Goto(h, "record") /\ Answer(h, TRUE, TRUE, FALSE, FALSE)
       \/ provider' \in Partly("review") /\ Goto(h, "delete") /\ UNCHANGED out
    /\ UNCHANGED <<ledger, lock, faults, blind>>

(* Deleting the branch closes its review.  GitHub refuses to delete what is *)
(* not there; a failure may have had its effect.                            *)
Deletes(ok) ==
    \/ ok /\ provider.branch /\ provider' = Nothing
    \/ ~ok /\ provider' \in {provider, Nothing}

DeleteBranch(h) ==
    /\ pc[h] = "delete"
    /\ \E ok \in BOOLEAN :
          /\ Deletes(ok)
          /\ Answer(h, FALSE, TRUE, ~ok, ok)
          /\ made' = [made EXCEPT ![h] = ~ok]
    /\ pc' = [pc EXCEPT ![h] = "record"]
    /\ UNCHANGED <<ledger, lock, faults, blind>>

(* The attempt o with the result r of the execution; the attempts after a *)
(* completed one are completed too, those after a failed one are told.    *)
WithResult(o, r) ==
    [attempt[o] EXCEPT !.status = IF r.ok THEN "completed" ELSE "failed",
                       !.armed = TRUE, !.called = r.called,
                       !.required = r.required, !.cleaned = r.cleaned]

(* Mutant: the attempts that wait for a failed one are not told. *)
DependentSilent(o, r) ==
    IF r.ok /\ attempt[o].status \notin Settled
    THEN [WithResult(o, r) EXCEPT !.dependency = "dependency_satisfied"] ELSE attempt[o]

Dependent(o, r) ==
    IF r.ok
    THEN IF attempt[o].status \in Settled THEN attempt[o]
         ELSE [WithResult(o, r) EXCEPT !.dependency = "dependency_satisfied"]
    ELSE IF Predecessor[o] = Branch
         THEN [attempt[o] EXCEPT !.dependency = PassOn(o, "failed")] ELSE attempt[o]

(* Mutant: the result is saved whatever has become of the attempt. *)
RecordAnyway(h) ==
    /\ pc[h] = "record"
    /\ attempt' = [o \in Ops |->
          IF o = Branch THEN WithResult(o, out[h]) ELSE Dependent(o, out[h])]
    /\ recorder' = Home[h]
    /\ End(h)
    /\ UNCHANGED <<provider, faults, blind>>

Record(h) ==
    /\ pc[h] = "record" /\ attempt[Branch].status = "running"
    /\ attempt' = [o \in Ops |->
          IF o = Branch THEN WithResult(o, out[h]) ELSE Dependent(o, out[h])]
    /\ recorder' = Home[h]
    /\ End(h)
    /\ UNCHANGED <<provider, faults, blind>>

(* The transaction finds no running attempt: the answer is 500. *)
RecordRefused(h) ==
    /\ pc[h] = "record" /\ attempt[Branch].status # "running"
    /\ Unrecorded({h})
    /\ End(h)
    /\ UNCHANGED <<ledger, provider, faults>>

-----------------------------------------------------------------------------
(* A live cleanup: read, delete the branch, record *)

BeginCleanup(h) ==
    /\ pc[h] = "idle" /\ Acquire(h)
    /\ Goto(h, "clean_input")
    /\ UNCHANGED <<ledger, provider, out, faults, blind>>

NeedsCleanup == attempt[Branch].status = "failed" /\ attempt[Branch].required

ReadCleanup(h) ==
    /\ pc[h] = "clean_input" /\ NeedsCleanup
    /\ Goto(h, "clean")
    /\ UNCHANGED <<ledger, provider, lock, out, faults, blind>>

(* The result is set to "required" only when the DELETE itself fails, not   *)
(* when a check before it does: the host is resolved there.                 *)
Cleanup(h) ==
    /\ pc[h] = "clean"
    /\ \/ /\ \E ok \in BOOLEAN : Deletes(ok) /\ Answer(h, ok, TRUE, ~ok, ok)
          /\ UNCHANGED <<faults, blind>>
       \/ /\ faults < MaxFaults /\ faults' = faults + 1
          /\ blind' = blind \cup {"unreachable"}
          /\ Answer(h, FALSE, FALSE, FALSE, FALSE)
          /\ UNCHANGED provider
    /\ Goto(h, "clean_record")
    /\ UNCHANGED <<ledger, lock>>

RecordCleanup(h) ==
    /\ pc[h] = "clean_record"
    /\ IF NeedsCleanup
       THEN attempt' = [attempt EXCEPT ![Branch].required = out[h].required,
                                       ![Branch].cleaned = out[h].cleaned]
       ELSE UNCHANGED attempt
    /\ End(h)
    /\ UNCHANGED <<provider, faults, recorder, blind>>

-----------------------------------------------------------------------------
(* The client disconnects, or a statement fails after the calls: the request's *)
(* context fails all that is left to do.                                       *)
Abandon(h) ==
    /\ faults < MaxFaults /\ pc[h] \in Calls \cup {"clean", "clean_record"}
    /\ faults' = faults + 1
    /\ Unrecorded({h})
    /\ End(h)
    /\ UNCHANGED <<ledger, provider>>

(* The gateway dies and starts again without its locks. *)
Crash(g) ==
    /\ faults < MaxFaults /\ lock[g] # None
    /\ faults' = faults + 1
    /\ Unrecorded({h \in Handlers : Home[h] = g})
    /\ lock' = [lock EXCEPT ![g] = None]
    /\ pc' = [h \in Handlers |-> IF Home[h] = g THEN "idle" ELSE pc[h]]
    /\ made' = [h \in Handlers |-> Home[h] # g /\ made[h]]
    /\ out' = [h \in Handlers |-> IF Home[h] = g THEN NoResult ELSE out[h]]
    /\ UNCHANGED <<ledger, provider>>

ByHand == \E o \in Ops :
    Claim(o) \/ \E result \in {"success", "retryable", "failed"} : LocalResult(o, result)

Execution(h) ==
    \/ ReadInput(h) \/ Arm(h) \/ ReadBase(h) \/ CreateBranch(h) \/ CommitFiles(h)
    \/ OpenReview(h) \/ DeleteBranch(h) \/ Record(h) \/ RecordRefused(h)

HandlerStep(h) ==
    Refuse(h) \/ Execution(h) \/ ReadCleanup(h) \/ Cleanup(h) \/ RecordCleanup(h)

Next ==
    \/ ByHand
    \/ \E h \in Handlers : BeginExecution(h) \/ BeginCleanup(h) \/ HandlerStep(h) \/ Abandon(h)
    \/ \E g \in Gateways : Crash(g)

Spec == Init /\ [][Next]_vars

(* Every call has the client's timeout of 15 seconds. *)
FairSpec == Spec /\ \A h \in Handlers : WF_vars(HandlerStep(h))

-----------------------------------------------------------------------------
(* Properties *)

(* An attempt waits while the one before it may still change, and knows how *)
(* that one ended once it has, whoever recorded it.                         *)
DependencyAgreement ==
    \A o \in Ops \ {Branch} :
        LET before == attempt[Predecessor[o]].status IN
        attempt[o].dependency = CASE before = "completed" -> "dependency_satisfied"
                                  [] before = "failed" -> "dependency_failed"
                                  [] OTHER -> "waiting_for_dependency"

(* Attempts complete in the order of their operations. *)
InOrder ==
    \A o \in Ops \ {Branch} :
        attempt[o].status \in Settled \cup {"running"} => attempt[Predecessor[o]].status = "completed"

(* What a live execution comes back to record is still running, whatever is *)
(* recorded by hand meanwhile: unless another gateway's execution, which    *)
(* the lock in memory cannot keep out, was recorded first.                  *)
AnswerFindsAttempt ==
    \A h \in Handlers :
        pc[h] \in Calls => attempt[Branch].status = "running" \/ recorder \notin {None, Home[h]}

(* A review the ledger shows as executed is open at GitHub, on a branch with *)
(* the files: no other execution and no late cleanup has taken it away.      *)
CompletedIsOpen ==
    attempt[Branch].status = "completed" /\ attempt[Branch].called =>
        provider = [branch |-> TRUE, files |-> TRUE, review |-> TRUE]

(* The branch of a failed execution is deleted or flagged for cleanup.  The  *)
(* exceptions are all there are: an answer that was lost, an execution whose *)
(* result was not recorded, a cleanup that did not reach GitHub, and one     *)
(* that another gateway is still making.                                     *)
BranchIsFlagged ==
    attempt[Branch].status = "failed" /\ provider.branch =>
        attempt[Branch].required \/ blind # {} \/ \E h \in Handlers : made[h]

(* A completed or failed attempt stays so. *)
SettledStays ==
    [][\A o \in Ops : attempt[o].status \in Settled => attempt'[o].status = attempt[o].status]_vars

(* However an execution or a cleanup ends, the attempt is not locked for ever. *)
LocksAreReleased == \A g \in Gateways, h \in Handlers : lock[g] = h ~> lock[g] # h

=============================================================================
