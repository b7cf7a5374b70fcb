--------------------------- MODULE ReviewEvidence ---------------------------
(***************************************************************************)
(* The evidence an approved provider review needs before its first attempt *)
(* may be executed live.  Operators record status snapshots on the asset   *)
(* of an attempt, one kind per request: each endpoint reads the attempt    *)
(* and the ledger, derives one plan of the execution that is to come, and  *)
(* writes a row if the plan is sound and the attempt is the one the ledger *)
(* would execute next.  When all required kinds have a row, the review of  *)
(* the attempt can be recorded; when all attempts are reviewed, the arming *)
(* of the approval; and a live execution asks for both.  Meanwhile         *)
(* attempts are claimed and settled by hand (module ReviewLedger) and the  *)
(* nightly cleanup deletes rows older than the retention period.           *)
(*                                                                         *)
(* A recording is two steps: it reads the state, then writes the row, and  *)
(* nothing holds the state still in between.                               *)
(***************************************************************************)
EXTENDS Integers, Sequences

CONSTANTS
    Recorders,    \* requests that record evidence
    None,
    Recorded,     \* facts the ledger's summaries carry about each operation
    Required,     \* the kinds of evidence the review of an attempt asks for
    ReadyToArm,   \* the approved payload holds a plan that is ready to arm
    KeepLatest,   \* keep_latest_per_asset
    BatchSize,    \* batch_size
    MaxPeriods,   \* bound on the retention periods that pass
    MaxRevivals,  \* bound on the stale saves that revive the approval
    MaxRows       \* bound on the rows of an asset

Branch == "create_branch_ref"
Commit == "commit_starter_files"
Open == "open_review_request"
Ops == {Branch, Commit, Open}
Before == [o \in Ops |-> CASE o = Branch -> {} [] o = Commit -> {Branch}
                           [] o = Open -> {Branch, Commit}]
Approval == "operation_approval"
Assets == Ops \cup {Approval}

(* What a request_summary and the response_diagnostics say of an operation. *)
Facts == {"endpoint",      \* its endpoint is the provider's for this operation
          "builder", "handler", "idempotency", "diagnostics"}

AttemptStatuses == {"planned", "running", "completed", "failed"}

(* What the review asks for, all of it. *)
RequiredEvidence == {
    "planned", "activation_blocked", "credential_contract_ready",
    "request_envelope_contract_ready", "idempotency_metadata_ready",
    "request_validation_metadata_ready", "request_materialization_contract_ready",
    "branch_policy_metadata_ready", "runtime_contract_ready",
    "adapter_rehearsal_contract_ready", "adapter_blueprint_contract_ready",
    "live_adapter_contract_metadata_ready", "invocation_contract_ready",
    "execution_lock_metadata_ready", "send_blocked", "transport_metadata_ready",
    "retry_backoff_metadata_ready", "response_metadata_ready",
    "result_recording_metadata_ready", "provider_call_boundary_metadata_ready",
    "transaction_metadata_ready"}

Reviewed == "live_execution_review_ready"
Guarded == "live_execution_guard_ready"
Armed == "mutation_arming_review_ready"

Rows == RequiredEvidence \cup AttemptStatuses \cup {Reviewed, Guarded, Armed}
    \cup {"activation_metadata_ready", "send_metadata_ready", "response_blocked",
          "adapter_rehearsal_ready"}

ASSUME RecorderAssumption == None \notin Recorders
ASSUME FactAssumption == Recorded \subseteq Facts
ASSUME RequiredAssumption == "planned" \in Required /\ Required \subseteq RequiredEvidence
ASSUME ConfigAssumption ==
    ReadyToArm \in BOOLEAN /\ KeepLatest \in BOOLEAN /\ BatchSize \in Nat \ {0}
ASSUME BoundAssumption ==
    MaxPeriods \in Nat /\ MaxRows \in Nat /\ MaxRevivals \in Nat

VARIABLES
    attempt,   \* provider_review_attempts: the status of each operation
    approval,  \* status of the operation approval
    revivals,
    rewritten, \* history: the ledger was recorded again
    assets,    \* assets: those of the attempts and of the approval that exist
    rows,      \* asset_status_snapshots of each asset, oldest first
    expired,   \* how many of them are older than the cutoff
    pending,   \* what a recorder has decided to write, and on which asset
    periods,
    cleaning   \* a cleanup is under way

standing == <<approval, revivals, rewritten>>
ledger == <<attempt, standing>>
evidence == <<rows, expired>>
retention == <<periods, cleaning>>
evidenceVars == <<ledger, assets, rows, expired, pending, periods, cleaning>>

EvidenceTypeOK ==
    /\ attempt \in [Ops -> AttemptStatuses]
    /\ approval \in {"approved", "pending"}
    /\ revivals \in 0..MaxRevivals /\ rewritten \in BOOLEAN
    /\ assets \subseteq Assets
    /\ rows \in [Assets -> Seq(Rows)]
    /\ expired \in [Assets -> Nat]
    /\ \A x \in Assets : expired[x] <= Len(rows[x]) /\ Len(rows[x]) <= MaxRows
    /\ pending \in [Recorders -> {None} \cup [asset : Assets, status : Rows]]
    /\ periods \in 0..MaxPeriods /\ cleaning \in BOOLEAN

(* The approval was just approved and its ledger recorded. *)
EvidenceInit ==
    /\ attempt = [o \in Ops |-> "planned"]
    /\ approval = "approved" /\ revivals = 0 /\ rewritten = FALSE
    /\ assets = {}
    /\ rows = [x \in Assets |-> <<>>]
    /\ expired = [x \in Assets |-> 0]
    /\ pending = [r \in Recorders |-> None]
    /\ periods = 0 /\ cleaning = FALSE

-----------------------------------------------------------------------------
(* The ledger and the plans derived from it *)

(* dependency_status: a function of the statuses (ReviewLedger). *)
Ready(o) == \A p \in Before[o] : attempt[p] = "completed"

(* Mutant: whatever is planned may be next. *)
CandidateUnordered(o) == attempt[o] = "planned"

(* The execution candidate: the first attempt that is planned and ready. *)
Candidate(o) == attempt[o] = "planned" /\ Ready(o)

ClaimPlan(o) == Candidate(o) /\ Recorded = Facts

RequestPlan == {"endpoint", "builder"} \subseteq Recorded
ResponsePlan == {"endpoint", "handler"} \subseteq Recorded
ResultPlan == ResponsePlan
TransportPlan == "endpoint" \in Recorded
CredentialPlan == "endpoint" \in Recorded
RuntimePlan == "endpoint" \in Recorded
LiveAdapterPlan == "endpoint" \in Recorded
RetryBackoffPlan == TransportPlan
BranchPolicyPlan == RequestPlan
EnvelopePlan == RequestPlan /\ BranchPolicyPlan /\ CredentialPlan /\ TransportPlan

(* Not written yet: what these plans hold is false for every operation. *)
RequestMaterialized == FALSE
CredentialBound == FALSE
RuntimeReady == FALSE
ResponseRecorded == FALSE

TransactionPlan(o) == ClaimPlan(o) /\ ResponsePlan
BoundaryPlan(o) == ClaimPlan(o) /\ ResponsePlan
LockPlan(o) == ClaimPlan(o) /\ TransactionPlan(o)
DispatchPlan(o) == ClaimPlan(o)

SendPlan == "endpoint" \in Recorded
SendReady == RequestMaterialized /\ CredentialBound /\ RuntimeReady /\ TransportPlan
ActivationPlan == "endpoint" \in Recorded
ActivationReady(o) ==
    /\ ClaimPlan(o) /\ LockPlan(o) /\ TransactionPlan(o)
    /\ SendReady /\ ResponseRecorded
InvocationPlan == "endpoint" \in Recorded

(* A rehearsal is ready when every subplan of the dispatch is. *)
RehearsalReady(o) ==
    /\ DispatchPlan(o) /\ BranchPolicyPlan /\ TransportPlan /\ TransactionPlan(o)
    /\ RequestMaterialized /\ CredentialBound /\ RuntimeReady /\ ResponseRecorded

-----------------------------------------------------------------------------
(* Reading and writing evidence *)

Observed(x, status) == \E i \in 1..Len(rows[x]) : rows[x][i] = status

(* A recorder found that this row is to be written.  An asset that does not *)
(* exist, a plan that is not sound or a dry run writes nothing.             *)
Decide(r, x, status) ==
    /\ pending[r] = None
    /\ x \in assets
    /\ pending' = [pending EXCEPT ![r] = [asset |-> x, status |-> status]]
    /\ UNCHANGED <<ledger, assets, evidence, retention>>

Newest(x, status) == rows[x] # <<>> /\ rows[x][Len(rows[x])] = status

(* A row that equals the newest one of its asset, payload and all, is not    *)
(* written again; only an attempt's own snapshot may differ in the payload,  *)
(* which says whether it was ever claimed.                                   *)
Write(r) ==
    /\ pending[r] # None
    /\ LET x == pending[r].asset
           status == pending[r].status
       IN  \/ Newest(x, status) /\ UNCHANGED rows
           \/ /\ ~Newest(x, status) \/ status \in AttemptStatuses
              /\ Len(rows[x]) < MaxRows
              /\ rows' = [rows EXCEPT ![x] = Append(@, status)]
    /\ pending' = [pending EXCEPT ![r] = None]
    /\ UNCHANGED <<ledger, assets, expired, retention>>

(* The request fails or its gateway stops before it writes. *)
Abandon(r) ==
    /\ pending[r] # None
    /\ pending' = [pending EXCEPT ![r] = None]
    /\ UNCHANGED <<ledger, assets, evidence, retention>>

(* One for each kind: what is derived from the ledger, and the status that *)
(* is written.                                                              *)
AttemptEvidence(r, o) == Decide(r, o, attempt[o])

ActivationEvidence(r, o) ==
    /\ Candidate(o) /\ ActivationPlan
    /\ Decide(r, o, IF ActivationReady(o) /\ BoundaryPlan(o)
                    THEN "activation_metadata_ready" ELSE "activation_blocked")

CredentialEvidence(r, o) ==
    Candidate(o) /\ CredentialPlan /\ Decide(r, o, "credential_contract_ready")

RequestEnvelopeEvidence(r, o) ==
    Candidate(o) /\ EnvelopePlan /\ Decide(r, o, "request_envelope_contract_ready")

IdempotencyEvidence(r, o) ==
    /\ Candidate(o) /\ "idempotency" \in Recorded
    /\ Decide(r, o, "idempotency_metadata_ready")

RequestValidationEvidence(r, o) ==
    /\ Candidate(o) /\ DispatchPlan(o) /\ ClaimPlan(o)
    /\ Decide(r, o, "request_validation_metadata_ready")

RequestMaterializationEvidence(r, o) ==
    Candidate(o) /\ RequestPlan /\ Decide(r, o, "request_materialization_contract_ready")

BranchPolicyEvidence(r, o) ==
    Candidate(o) /\ BranchPolicyPlan /\ Decide(r, o, "branch_policy_metadata_ready")

RuntimeEvidence(r, o) ==
    Candidate(o) /\ RuntimePlan /\ Decide(r, o, "runtime_contract_ready")

AdapterRehearsalEvidence(r, o) ==
    /\ Candidate(o)
    /\ Decide(r, o, IF RehearsalReady(o)
                    THEN "adapter_rehearsal_ready" ELSE "adapter_rehearsal_contract_ready")

AdapterBlueprintEvidence(r, o) ==
    /\ Candidate(o)
    /\ InvocationPlan /\ ActivationPlan /\ LiveAdapterPlan /\ SendPlan /\ RetryBackoffPlan
    /\ Decide(r, o, "adapter_blueprint_contract_ready")

LiveAdapterContractEvidence(r, o) ==
    Candidate(o) /\ LiveAdapterPlan /\ Decide(r, o, "live_adapter_contract_metadata_ready")

InvocationEvidence(r, o) ==
    Candidate(o) /\ InvocationPlan /\ Decide(r, o, "invocation_contract_ready")

ExecutionLockEvidence(r, o) ==
    Candidate(o) /\ LockPlan(o) /\ Decide(r, o, "execution_lock_metadata_ready")

SendEvidence(r, o) ==
    /\ Candidate(o) /\ SendPlan /\ TransportPlan /\ RetryBackoffPlan
    /\ Decide(r, o, IF SendReady THEN "send_metadata_ready" ELSE "send_blocked")

TransportEvidence(r, o) ==
    Candidate(o) /\ TransportPlan /\ Decide(r, o, "transport_metadata_ready")

RetryBackoffEvidence(r, o) ==
    /\ Candidate(o) /\ SendPlan /\ RetryBackoffPlan
    /\ Decide(r, o, "retry_backoff_metadata_ready")

ResponseEvidence(r, o) ==
    /\ Candidate(o) /\ ResponsePlan
    /\ Decide(r, o, IF ResultPlan /\ TransactionPlan(o) /\ BoundaryPlan(o)
                    THEN "response_metadata_ready" ELSE "response_blocked")

ResultRecordingEvidence(r, o) ==
    /\ Candidate(o) /\ ResponsePlan /\ ResultPlan
    /\ Decide(r, o, "result_recording_metadata_ready")

ProviderCallBoundaryEvidence(r, o) ==
    Candidate(o) /\ BoundaryPlan(o) /\ Decide(r, o, "provider_call_boundary_metadata_ready")

TransactionEvidence(r, o) ==
    /\ Candidate(o) /\ TransactionPlan(o) /\ BoundaryPlan(o)
    /\ Decide(r, o, "transaction_metadata_ready")

(* The endpoints: each asks first whether the approval is still approved. *)
Approved == approval = "approved"

RecordAttempt(r, o) == Approved /\ AttemptEvidence(r, o)
RecordActivation(r, o) == Approved /\ ActivationEvidence(r, o)
RecordCredential(r, o) == Approved /\ CredentialEvidence(r, o)
RecordRequestEnvelope(r, o) == Approved /\ RequestEnvelopeEvidence(r, o)
RecordIdempotency(r, o) == Approved /\ IdempotencyEvidence(r, o)
RecordRequestValidation(r, o) == Approved /\ RequestValidationEvidence(r, o)
RecordRequestMaterialization(r, o) == Approved /\ RequestMaterializationEvidence(r, o)
RecordBranchPolicy(r, o) == Approved /\ BranchPolicyEvidence(r, o)
RecordRuntime(r, o) == Approved /\ RuntimeEvidence(r, o)
RecordAdapterRehearsal(r, o) == Approved /\ AdapterRehearsalEvidence(r, o)
RecordAdapterBlueprint(r, o) == Approved /\ AdapterBlueprintEvidence(r, o)
RecordLiveAdapterContract(r, o) == Approved /\ LiveAdapterContractEvidence(r, o)
RecordInvocation(r, o) == Approved /\ InvocationEvidence(r, o)
RecordExecutionLock(r, o) == Approved /\ ExecutionLockEvidence(r, o)
RecordSend(r, o) == Approved /\ SendEvidence(r, o)
RecordTransport(r, o) == Approved /\ TransportEvidence(r, o)
RecordRetryBackoff(r, o) == Approved /\ RetryBackoffEvidence(r, o)
RecordResponse(r, o) == Approved /\ ResponseEvidence(r, o)
RecordResultRecording(r, o) == Approved /\ ResultRecordingEvidence(r, o)
RecordProviderCallBoundary(r, o) == Approved /\ ProviderCallBoundaryEvidence(r, o)
RecordTransaction(r, o) == Approved /\ TransactionEvidence(r, o)

RecordEvidence(r, o) ==
    \/ RecordAttempt(r, o) \/ RecordActivation(r, o) \/ RecordCredential(r, o)
    \/ RecordRequestEnvelope(r, o) \/ RecordIdempotency(r, o)
    \/ RecordRequestValidation(r, o) \/ RecordRequestMaterialization(r, o)
    \/ RecordBranchPolicy(r, o) \/ RecordRuntime(r, o)
    \/ RecordAdapterRehearsal(r, o) \/ RecordAdapterBlueprint(r, o)
    \/ RecordLiveAdapterContract(r, o) \/ RecordInvocation(r, o)
    \/ RecordExecutionLock(r, o) \/ RecordSend(r, o) \/ RecordTransport(r, o)
    \/ RecordRetryBackoff(r, o) \/ RecordResponse(r, o) \/ RecordResultRecording(r, o)
    \/ RecordProviderCallBoundary(r, o) \/ RecordTransaction(r, o)

-----------------------------------------------------------------------------
(* The review of an attempt, the arming of the approval, the guard *)

ReviewEvidenceOf(r, o) ==
    /\ Candidate(o)
    /\ \A status \in Required : Observed(o, status)
    /\ Decide(r, o, Reviewed)

RecordReview(r, o) == Approved /\ ReviewEvidenceOf(r, o)

(* The same, for whichever attempt the ledger would execute next. *)
RecordCurrentReview(r) ==
    Approved /\ \E o \in Ops : Candidate(o) /\ ReviewEvidenceOf(r, o)

MayArm ==
    Approved /\ ReadyToArm /\ \A o \in Ops : o \in assets /\ Observed(o, Reviewed)

RecordArming(r) == MayArm /\ Decide(r, Approval, Armed)

GuardEvidence(r, o) ==
    /\ attempt[o] = "running"
    /\ Observed(o, Reviewed) /\ Observed(Approval, Armed)
    /\ Decide(r, o, Guarded)

RecordGuard(r, o) == Approved /\ GuardEvidence(r, o)

(* Mutant: a live execution of any operation is let through. *)
MayExecuteAny(o) ==
    /\ Approved /\ attempt[o] = "running" /\ Ready(o)
    /\ Observed(o, Reviewed) /\ Observed(Approval, Armed)

(* What a request for a live execution must find. *)
MayExecute(o) ==
    /\ Approved /\ o = Branch
    /\ attempt[o] = "running" /\ Ready(o)
    /\ Observed(o, Reviewed) /\ Observed(Approval, Armed)

-----------------------------------------------------------------------------
(* The ledger, the approval and the assets move on *)

Claim(o) ==
    /\ Approved /\ Candidate(o) /\ ClaimPlan(o)
    /\ attempt' = [attempt EXCEPT ![o] = "running"]
    /\ UNCHANGED <<standing, assets, evidence, pending, retention>>

LocalResult(o) ==
    /\ Approved /\ attempt[o] = "running"
    /\ \E status \in {"completed", "planned", "failed"} :
          attempt' = [attempt EXCEPT ![o] = status]
    /\ UNCHANGED <<standing, assets, evidence, pending, retention>>

(* A stale save (module Approvals) writes an earlier status over "approved". *)
StaleSave ==
    /\ revivals < MaxRevivals /\ revivals' = revivals + 1
    /\ Approved /\ approval' = "pending"
    /\ UNCHANGED <<attempt, rewritten, assets, evidence, pending, retention>>

(* The revived approval is approved again, which records the ledger again: *)
(* every attempt is planned once more, whatever it was.                    *)
ApproveAgain ==
    /\ approval = "pending" /\ approval' = "approved"
    /\ attempt' = [o \in Ops |-> "planned"]
    /\ rewritten' = TRUE
    /\ UNCHANGED <<revivals, assets, evidence, pending, retention>>

(* No code makes an asset of these types, sync-assets does not either: the  *)
(* rows the endpoints ask for are put there by hand or by another release.  *)
AssetsAppear ==
    /\ assets # Assets /\ assets' = Assets
    /\ UNCHANGED <<ledger, evidence, pending, retention>>

-----------------------------------------------------------------------------
(* Retention *)

(* A retention period passes with nothing recorded: a day at least, and no  *)
(* cleanup, which has its cutoff from its start, takes that long.           *)
PassPeriod ==
    /\ ~cleaning
    /\ periods < MaxPeriods
    /\ periods' = periods + 1
    /\ expired' = [x \in Assets |-> Len(rows[x])]
    /\ UNCHANGED <<ledger, assets, rows, pending, cleaning>>

(* How many rows of an asset a cleanup deletes: those with a newer one. *)
Expendable(x) ==
    IF KeepLatest /\ expired[x] = Len(rows[x]) /\ expired[x] > 0
    THEN expired[x] - 1 ELSE expired[x]

Sum(v) == v[Branch] + v[Commit] + v[Open] + v[Approval]

(* All of these rows, or the oldest of them that fill a batch, from whichever *)
(* assets they are.                                                           *)
Fill(all) ==
    IF Sum(all) <= BatchSize THEN {all}
    ELSE {v \in [Assets -> 0..BatchSize] :
             Sum(v) = BatchSize /\ \A x \in Assets : v[x] <= all[x]}

(* Mutant: the limit is applied before the newest row of an asset is spared. *)
BatchesLimitedFirst ==
    {[x \in Assets |-> IF v[x] > Expendable(x) THEN Expendable(x) ELSE v[x]] : v \in Fill(expired)}

(* What one DELETE may take. *)
Batches == Fill([x \in Assets |-> Expendable(x)])

Delete(v) ==
    /\ rows' = [x \in Assets |-> SubSeq(rows[x], v[x] + 1, Len(rows[x]))]
    /\ expired' = [x \in Assets |-> expired[x] - v[x]]
    /\ UNCHANGED <<ledger, assets, pending, periods>>

(* A cleanup deletes batch after batch until one is not full. *)
StartCleanup ==
    /\ ~cleaning /\ cleaning' = TRUE
    /\ UNCHANGED <<ledger, assets, evidence, pending, periods>>

DeleteBatch ==
    cleaning /\ \E v \in Batches : Delete(v) /\ cleaning' = (Sum(v) = BatchSize)

(* A DELETE fails, or the scheduler stops. *)
CleanupFails ==
    /\ cleaning /\ cleaning' = FALSE
    /\ UNCHANGED <<ledger, assets, evidence, pending, periods>>

Cleanup == StartCleanup \/ DeleteBatch \/ CleanupFails

-----------------------------------------------------------------------------
Record(r) ==
    \/ \E o \in Ops : RecordEvidence(r, o) \/ RecordReview(r, o) \/ RecordGuard(r, o)
    \/ RecordCurrentReview(r) \/ RecordArming(r)

EvidenceNext ==
    \/ \E r \in Recorders : Record(r) \/ Write(r) \/ Abandon(r)
    \/ \E o \in Ops : Claim(o) \/ LocalResult(o)
    \/ StaleSave \/ ApproveAgain \/ AssetsAppear \/ PassPeriod \/ Cleanup

EvidenceSpec == EvidenceInit /\ [][EvidenceNext]_evidenceVars

(* The scheduler runs a cleanup every day, and not every DELETE fails. *)
EvidenceFairSpec ==
    EvidenceSpec /\ WF_evidenceVars(StartCleanup) /\ SF_evidenceVars(DeleteBatch)

-----------------------------------------------------------------------------
(* Properties *)

(* An attempt is reviewed only when all the attempts before it are done: what *)
(* a recorder decided before the ledger moved on is still true of the order,  *)
(* until a stale save lets the ledger be recorded again.                      *)
ReviewedInOrder ==
    \A o \in Ops : Observed(o, Reviewed) => Ready(o) \/ rewritten

(* Nobody can execute live: the arming waits for the review of all three      *)
(* attempts, the review of the last for the completion of the first, and a    *)
(* live execution accepts only a first attempt that is not completed.  What a *)
(* guard finds ready to be executed is therefore never the first attempt.     *)
(* Only a ledger that was recorded again opens a way: the first attempt is    *)
(* then planned anew and the evidence of its first life still counts.         *)
NobodyMayExecute ==
    ~rewritten =>
        \A o \in Ops : ~MayExecute(o) /\ (Observed(o, Guarded) => o = Open)

(* What the plan of a live test says (scripts/provider-review-live-test-plan.sh, *)
(* steps 5 and 6): with the current attempt of an approved request claimed and   *)
(* its live-readiness evidence recorded, the arming evidence can be recorded,    *)
(* and the live review executed.  The code does not: see NobodyMayExecute.       *)
LiveTestPlanArms ==
    (/\ Approved /\ ReadyToArm /\ assets = Assets
     /\ attempt[Branch] = "running" /\ Observed(Branch, Reviewed)) =>
        MayArm \/ MayExecute(Branch)

(* What has expired and is not the newest of its asset does not stay, however *)
(* many rows there are to a batch, which of them are kept and how often a     *)
(* cleanup fails; and each cleanup ends.                                      *)
CleanupCatchesUp ==
    /\ \A x \in Assets : []<>(\/ expired[x] = 0
                              \/ KeepLatest /\ expired[x] = 1 /\ Len(rows[x]) = 1)
    /\ []<>~cleaning
=============================================================================
