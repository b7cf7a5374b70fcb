# Verification of the ASSOPS control plane

ASSOPS is an operations control plane: a gateway serves an HTTP API, control
workers and remote node workers execute queued operations, and a PostgreSQL
database is the only state they share. This directory holds TLA+ models of the
parts where several of these processes meet, TLC configurations that check the
models on small instances, and TLAPS proofs for instances of any size.

Source paths below are relative to `src/backend/internal/app/` unless they say
otherwise.

## 1. Inventory

| Component | State it keeps | Operations | What is hard | What makes it correct |
|---|---|---|---|---|
| Work queue (`worker_part01`-`07`, `worker_part15`-`16`, `http_part51`, `91`, `119`, `120`) | `operation_runs`, `worker_jobs`, the tools' run rows, `worker_nodes` | enqueue, claim (control worker, node), execute, record, finish, 30 minute sweep, cancel | several claimers, cancel against a running job, late answers, crashes, lost answers, lock order | rows agree, one executor per job, canceled work is not started, everything settles |
| Operation approvals (`http_part52`-`57`, `75`-`80`) | `operation_approvals`, decisions, delegations | request, approve, reject, expire, remind, escalate, delegate | whole-row saves of stale reads by sweeps, approvers and reminders; approval executes its operation in the same transaction | enough distinct, entitled approvers; nothing executed against a decision |
| Repo sync runs and Git webhooks (`http_part21`-`38`, `40`, `worker_part03`-`04`, `git_adapter*`) | `repo_sync_runs`, `repo_sync_assets`, `git_remotes`, webhook events | receive, replay, start, push, record, edit an asset | duplicate deliveries, two workers on one target, run and asset written by four writers | a delivery starts few runs, records are not ahead of the target |
| Repo tag runs (`http_part21`, `40`-`44`, `worker_part04`, `14`) | `repo_tag_runs`, `github_action_runs` | tag, look up, refresh Actions, webhook | follow-ups enqueued after the record, lookups that put a run back to running, rows deleted and inserted by two at once | a tag shown was there, follow-ups exist, runs settle |
| Operation log stream (`http_part90`-`91`) | client cursor | tick, resume, close | logs written behind the cursor, equal timestamps | no log skipped or repeated |
| Provider review attempts (`http_part57`-`90`, `provider_review_*`) | the three attempts of a review, execution locks in the gateway's memory | claim, record a result by hand, execute live, clean up live | locks that another gateway or a restart does not know; a crash between call and record | attempts agree and complete in order; what is recorded is what is at the provider |
| Provider review evidence (`provider_review_*_snapshot`, `http_part57`-`60`, `snapshot_cleanup`) | status snapshots of the attempts' assets | record a kind of evidence, review, guard, arm; nightly cleanup | the ledger moves between read and write; snapshots expire; the ledger is recorded again | attempts reviewed in order, no live execution without evidence |
| Review branch executor (`review_branch_executor_part01`-`02`) | the branch, files and review at GitHub | execute, clean up | failure between two provider calls, lost answers | a branch is completed, deleted or flagged |
| Asset graph (`asset_sync_service_part01`-`02`, `http_part12`-`15`) | `assets`, relations, status snapshots | sync statement by statement or inside a transaction, heartbeat, manual relations, deletion | two syncs at once, stale reads of the sources, pruning | an undisturbed sync repairs the projection, manual relations stay |
| Argo (`http_part103`-`113`, `argo_adapter*`, `worker_part15`) | connections, apps, deployment targets, deployment records and rollback points | sync, status roll-up, orphan cleanup | connections share targets; syncs of two connections overlap statement by statement | apps keep their targets, a sync mirrors its server |
| Pod access (`worker_part08`-`09`, `kubernetes_*`) | reviewed Kubernetes environments, restart and log operations | restart a deployment, read logs | two restarts of one deployment, kept apart by a scan without a lock | restarts of one deployment do not overlap |
| Agent tasks (`http_part91`-`101`, `agent_*_snapshot`) | tasks, plans, tool calls, runtimes, audit snapshots | plan, approve, execute, record, audit | the task's status is derived by several transactions; executions overlap | an active task has an operation, plans execute in order |
| Config repositories and project versions (`http_part12`, `45`-`48`, `git_adapter_part04`, `worker_part01`) | config repository head, version pin, refresh operations, validation snapshots | commit, refresh, pin, rerun, validate | unlocked dedupe, pushes of others, a validation that must follow the last refresh | a recorded commit is in the history, what was refreshed is recorded |
| Scheduler, snapshot cleanup (`scheduler.go`, `snapshot_cleanup.go`) | snapshot rows | daily prune in batches | batches that are not full, the newest row kept | old rows go |
| Backup tool (`../../cmd/assops-tool/main_part09`-`12`) | lock directory, backup files | lock, back up, prune, restore rehearsal | - | - |
| Policy and roles (`policy.go`) | none | decide | none: pure | documented matrix |
| Login, CRUD of projects, remotes, accounts, credentials (`http_part01`-`12`, `38`-`39`, `102`-`103`) | their tables | single-row reads and writes | little | constraints of the schema |
| Web UI, Helm chart, scripts | none shared | - | - | - |

How they interact: HTTP handlers call each other only through the database. A
handler that starts work inserts an operation, a job and, for most tools, a run
row in one transaction; workers find them by polling. Every transaction runs at
READ COMMITTED, rows are locked only where the code says so (`FOR UPDATE`,
`SKIP LOCKED`), and GORM's `Save` writes **every** column of the row it was
given while `Updates` writes the listed ones. That difference, together with
reads that do not lock, is where most of the hazards in `PROJECT.json` come
from.

## 2. Modules, runs and proofs

| Section | Module | About | Run | Theorems |
|---|---|---|---|---|
| 3 | `WorkQueue` | the queue, its workers, nodes, sweep and cancel; implements `OperationLifecycle` | `work_queue` | `WorkQueue_proof`, with the refinement |
| 4 | `Approvals` | approvals with statement-level reads and saves | `approvals` | `Approvals_proof` |
| 5 | `LogStream` | SSE cursor, batches, closing, reconnecting | `log_stream_read` | `WorkQueue_proof`, second part |
| 6 | `ReviewLedger` | the attempts of a review, live execution and cleanup, the executor's calls | `review_ledger_live` | `ReviewLedger_proof` |
| 7 | `ReviewEvidence` | the evidence, review and arming before a live execution; the cleanup | `review_evidence`, `review_evidence_live_test` | `AssetGraph_proof`, second part |
| 8 | `RepoSync` | deliveries, replays, sync runs, assets | `repo_sync` | `RepoSync_proof` |
| 9 | `RepoTags` | tag runs, follow-ups, lookups, Actions rows | `repo_tags` | `ReviewLedger_proof`, second part |
| 10 | `AgentTasks` | plans, executions, runtimes, audit snapshots | `agent_tasks` | `AgentTasks_proof` |
| 11 | `ConfigVersions` | config commits, version refreshes and validations | `config_versions` | `ConfigVersions_proof` |
| 12 | `AssetGraph` | canonical asset syncs, heartbeats, manual relations | `asset_graph` | `AssetGraph_proof` |
| 13 | `ArgoTargets`, composed with `PodAccess` | Argo syncs that share targets; pod restarts and logs beside them | `argo_pods` | `PodAccess_proof`, for both |

All runs pass but `review_evidence_live_test`, which finds what a script of the
repository says of the program violated (section 7).

Each `MC...` module extends one of these with model values, symmetry and the
constraints named below; a `.cfg` only gives constants their values. A run uses
two or three actors and one or two rows per table: every hazard listed needs at
most two actors on one row and one more row to be confused with. Where the
product of everything is out of TLC's reach an `ACTION_CONSTRAINT` leaves out
combinations that touch disjoint rows; the sections say which, and the theorems
do not depend on them.

Every module is its own specification of the job life cycle its rows depend on,
reduced from `WorkQueue`: `queued`, claimed by one worker, `running`, finished by
id; a cancel takes a queued job or leaves a running one to its worker
(`stopping`); a crash leaves it running; the sweep fails it, and the late worker
still writes.

### How a proof module is laid out

It `EXTENDS` its module and `TLAPS`; three of them also hold, in a second part,
the theorems of a neighbour: `WorkQueue_proof` those of `LogStream`, by which
clients follow the operations of the queue, `AssetGraph_proof` those of
`ReviewEvidence`, whose rows are snapshots on assets, and `ReviewLedger_proof`
those of `RepoTags`, which like it records what GitHub was asked to do. So that
both fit, these neighbours name their specifications `StreamSpec`, `EvidenceSpec`
and `TagSpec`, their invariants `StreamInv`, `EvidenceInv` and `TagInv`, and so
on; they share no variable with the first part. `IInv` is the inductive invariant,
a conjunction of named parts, each with a comment; lemmas say what the operators
return and what each action does to each part; `InvCorrect` is `Spec => []IInv`,
and the theorems for the properties of the runs follow from it. `IInv` of every
proof module was checked with TLC on the run's instance before it was proved.
Theorems are for any constants that satisfy the named assumptions of the modules,
which only give numbers, finite sets and values that are distinct from each other;
TLC evaluates them in every run.

No theorem states liveness (`EveryOperationSettles`, `LogsArrive`,
`StreamsClose`, `LocksAreReleased`, `CleanupCatchesUp`): TLAPS does not reach
`ENABLED`. All other properties of the runs are stated by a theorem.

## 3. The work queue: `WorkQueue`, `OperationLifecycle`

### State and actions

Each operation has exactly one job (`enqueueOperationGorm`), so every table is a
function of the operation.

| Variable | Code |
|---|---|
| `op`, `job`, `run` | `operation_runs.status`, `worker_jobs.status`, the status of the tool's own row (`repo_sync_runs`, `agent_tool_calls`, ...) |
| `born`, `aged`, `assigned` | `created_at`, `started_at < now - 30 min`, `assigned_worker_node_id` |
| `pc`, `cur` | where `processOne` or `claimAndRun` is, and its local job |
| `held` | job rows locked by an open transaction of that actor |
| `creq`, `cseen` | the operation row a cancel request has locked; whether it read the job as queued |
| `posts` | `/complete` and `/fail` requests in flight |

A transaction is split only where it can wait or be overtaken. A claim is
`ClaimLock` (the job row, `SKIP LOCKED`) then `ClaimCommit` (it waits for the
operation row); the sweep is `RecoverLock`/`RecoverCommit`; a cancel is
`CancelLock` (operation row, `FOR UPDATE`, then an *unlocked* read of the job)
and `CancelCommit` (it waits for the job row only if it is going to save it).
The adapter runs outside any transaction (`AdapterReturn`); recording its result
(`RecordSuccess`, `RecordFailure`) uses connections of its own, so an error may
leave the run row written; `MarkFinished` then writes job and operation by id.
Nodes claim by locking every queued job, execute, and post once. Faults, at most
`MaxFaults` of them: `Crash`, `ClaimAbort`, `RecoverAbort`, `MarkFinishedAbort`,
`CancelAbort`, a lost claim answer, `PostLost`, a failing record. PostgreSQL
breaks the claim/cancel lock cycle (`DeadlockAbort`), which is not counted as a
fault because the code causes it.

`Tool` says how a tool keeps its run row: `direct` (written by operation id,
`repo.sync`, `ssh.exec`), `guarded` (only while active, `agent.execute`), `none`.

`OperationLifecycle` is the promise to a client: a status and the right to run
(token), given out once. `ImplementsLifecycle` maps `status` to `op` and `token`
to who may still report (`Token`).

### Run

`work_queue`: 2 workers, one of which may hang in its adapter, 1 node, a repo sync
that any of them may take, a command that only the node may, 1 client that cancels,
2 faults. It shows that the rows agree, that there is one executor, that no run row
is left active, the refinement, and that everything servable settles.

Two workers are enough for every claim race, since a third could only repeat
what one of the two does on the same rows; two operations let a transaction hold
a row another one needs while a different one is free; two faults allow a
failure during the recovery of the first. The proofs below do not depend on
these bounds; they also cover the guarded run rows, which `AgentTasks` models with
their table. Time is one bit per job, `aged`: the only clock the code reads is
the 30 minute cutoff.

### Fairness

Weak fairness of the worker and node loops (`Run` never returns before its
context ends, and logs errors), of time, and of posts that are not lost; none for
a worker in `MayHang` that is inside its adapter, because git commands have no
deadline. Strong fairness only for a transaction that waits for a row lock:
PostgreSQL queues the waiters. No fairness for enqueue, cancel or faults.
Operations that no registered node can serve are excluded (`Servable`).

### Findings

A terminal status is not final: a cancel of a running job marks the operation
canceled and leaves the job running; the worker's outcome then overwrites it
(`markWorkerOperationFinished` writes by id, whatever the status is). The log
stream of the operation closes on canceled (`operationStreamTerminal`,
`http_part91.go:54`; `http_part31_test.go:152`), so its reader keeps a status
that is no longer true. The theorems `CompletedIsFinalHolds` and
`FailedChangesOnlyByLateAnswerHolds` say what does hold.

### Proofs: `WorkQueue_proof`

Assumptions: those named in `WorkQueue` (the tool kinds, disjoint actors,
`RemoteAssumption`: a remote job keeps no run row). The invariants speak of the
tables; they are inductive only with what the open transactions know, so `IInv`
adds: `HeldRows` (what a transaction has locked still has the status it was
selected by), `HeldOnce`, `CancelRows` (while a cancel holds the operation its
unlocked read of the job stays true, because nobody can commit a claim without
that row), `InHandRunning`, `Untouched`, `NoRunRow` and `OutcomeRecorded`. There
is one lemma per action, one step per conjunct the action can disturb. `NoOrphans`
shows that the sweep's second scan never finds anything. The action properties
follow from `OpChanges`, which lists every way a status can change and the state
it changes in.

`ImplementsLifecycleHolds` proves the refinement: the initial state maps to the
initial state of `OperationLifecycle`, and every action of the queue to one of
its steps or to a stutter. A claim of a control worker or a node is the one step
that takes the token; where the token is follows from `InHand` and the status of
the job, and the invariant allows one executor at most, so a crash, a roll-back or
a lost answer maps to losing the token and never to two of them.

## 4. Approvals: `Approvals`

### State and actions

A row of `operation_approvals` is modelled by the two things written to it that
must stay together: its status and whether it holds the result of its approval
(`operation_run_id`, `approval_result`). The requests are HTTP requests of a
fixed kind, user and delegate (`Kind`, `Asker`, `Target`), made at most once
each; the workers run the three sweeps of `processOne` for ever.

| Variable | Code |
|---|---|
| `row`, `due` | `operation_approvals.status` and result columns; `expires_at <= now` |
| `decision`, `delegation` | `operation_approval_decisions`, `operation_approval_delegations`, one row per approval and user |
| `executed` | how many operations `executeApprovedOperation` enqueued for the approval |
| `lock` | the approve whose transaction holds the row (`FOR UPDATE`) |
| `pc`, `sweep`, `on`, `todo`, `saved` | where a handler or a sweep is, and the rows it still has to treat |
| `seen` | the rows as the handler read them, which is what `Save` writes back |
| `grant` | the delegation a revoke has read |
| `revived` | history: a decided row was saved as pending and not approved since |

Every decision starts with `expireOperationApprovalByIDGorm` (`Begin`,
`ExpireSave`), reads the row (`Read`), looks at the user's role or delegation
(`Check`) and then writes. `ApproveLock` takes the row `FOR UPDATE` and looks at
its status again; `ApproveCommit` records the decision, counts and, with the
required number, executes the operation and saves the row. `RejectCommit` and
`RemindSave` write the row they read before `Check`. A transaction is one step
from its first write to its commit: what it wrote is not visible before the
commit, it reads nothing afterwards that another transaction could change
except what it has locked, and a failing statement in between is
`RequestFails`, which leaves nothing behind. Two saves of one row cannot
deadlock, so that waiting is only for the row of an approve (`Free`).

`dispatchApprovalNotification` runs after the commit: it reads the row again,
calls the webhook and saves the whole row (`NotifyRead`, `NotifySave`); its
error is dropped (`NotifyFails`). The expiry sweep saves row by row
(`ExpireOne`), escalations and reminders save all their rows in one transaction
(`NoticeSave`); whether one is due is decided by clocks of its own, so the model
takes any subset of the pending rows. A sweep that fails is followed by the
next; a worker that dies starts with the first (`SweepFails`).

Abstracted: the wording and the webhook of notifications, the reason texts, the
kind of the operation, who may see an approval (`requireApprovalRead`), and the
rules an approval is created from, which only give `Required`. A delegation to
oneself is refused by the handler, which `RequestAssumption` states.

### Run

`approvals`: one approval that needs two approvers, one worker in its sweeps, one
fault, and one of two stories (`OneStory`): two approves and a reject decide, or
a delegate decides while the delegation is granted and revoked and the delegator
reminds (`RemindsApart`). Every stale save takes one actor that reads and one
that commits in between, so one approval shows them; that the sweeps hold several
rows is covered by the proofs, which are for any number of approvals and requests.

### Findings

- An approval may execute more than once. A notification, a reject, a reminder
  or a sweep reads the row, an approve commits, and the save of the stale row
  makes it pending again, without the result; the next approve executes the
  operation again. The expiry sweep saves in the same way, so an executed
  approval may also become expired. `ExecutesUndecided` says what remains true:
  without a save that revives a row nothing is executed twice or against a
  rejection.
- Approvers of one approval cannot miss each other: whoever is the last of a quorum
  finds the others counted, because `ApproveLock` waits for their commits and the
  count is read after it (`QuorumIsExecuted`).
- Two pending approvals of one request may exist: handlers translate a violation
  of `idx_operation_approvals_pending_once`, an index no code creates.

### Proofs: `Approvals_proof`

`IInv` adds to `TypeOK` and the properties: `RowsAgree` (a status and its result
agree in the table *and in everything an actor has read*, which is why no stale
save can split them), `WorkExists`, `ReadWasPending` (what will be saved was
pending when it was read), `LockHeld` (a lock belongs to the approve that works
on the row, and the row is pending while it is held), `ActiveIsGranted`,
`DecidingEntitled` and `RevokesDecide` (what `Check` or a revoke found is true
until the write, because a delegation row is never deleted). For
`QuorumIsExecuted` they are not enough step by step: `EveryQuorumStep` says what
a step does to the number of decisions, to the operations executed and to the
status together. Instead of one
proof per action and conjunct, four lemmas say what any step may do to a row
(`EveryRowStep`), to the place of an actor (`EveryMove`, `EveryPlaceStep`) and
to decisions (`EveryDecisionStep`); each conjunct follows from these. Besides the
properties of the run this proves `ApprovedHoldsItsResult`,
`PendingMeansUndecided` and the action property `LockedRowIsKept`.

## 5. The operation log stream: `LogStream`

### State and actions

A gateway answers a stream request with server-sent events
(`http_part90.go:129-267`, `http_part91.go:11-62`); the reader is the browser's
`EventSource`, opened in `../../../web/src/app/App.jsx:99-120`.

| Variable | Code |
|---|---|
| `stamp`, `Rank` | `operation_logs.created_at`, and the order of the random ids |
| `status` | `operation_runs.status` |
| `place`, `cursor`, `batch`, `full` | where the handler's loop is, `operationLogCursor`, the rows of its last query not yet sent, whether they were as many as the limit |
| `wire` | events flushed by the handler and not yet received |
| `got`, `lastId`, `ended` | the lines the page shows, the last event id, what made it give up: an event or a refused request |
| `late` | history: logs written behind others that were read already |

One tick is `ReadLogs` (a query), `SendLog` for each row, `BatchSent`, and
`ReadStatus` (a second query, so logs and status may change in between). The
writers take `created_at` from their own clocks, so `WriteLog` may put a log
behind others that were read already; such logs are `late`, and the properties
except them, because an ordered cursor cannot see them. `ConnectionBreaks` loses
what is in flight; `Connect` comes back with `Last-Event-ID`. Any of these
requests may instead be answered before the stream starts (`Refuse`,
`http_part90.go:116-131`): the operation is gone or its query fails, the user may
no longer read it, the connection cannot stream. That answer is not a 200, and
an `EventSource` does not come back from it; the page only says "disconnected".
Inside the stream a failing query sends `stream_error`, on which the page closes
for good; the five minute limit (`StreamExpires`) makes it come back.

Abstracted: heartbeats, the text of events, authentication, the user leaving the
page, and cursors in query parameters, which the web client does not use.

### Run and fairness

`log_stream_read`: 3 logs, 2 instants, batches of 2, 1 fault; order, nothing
skipped or shown twice, logs arrive and streams close, unless the client was
sent an error or refused. Streams touch nothing
shared, so one client is enough; three logs in batches of two give a full batch
followed by another one with equal instants within and across them; one fault
makes two connections, and a third would only repeat the second. Deadlock is not
checked: once everything is written and the stream closed nothing is left to do.

Weak fairness of the handler's loop (its ticker fires while the request lives)
and of the browser, which asks again by itself until it is closed or refused; it
is not assumed that it is let in, so the liveness properties name the refusal
among the ways a client gives up. A refusal is not bounded, since it is the last
thing a client meets. Broken connections and
failing queries are bounded by `MaxBreaks`: with endless ones no stream would
end. No fairness of writers or of the operation.

### Finding

The logs are read before the status, so a log written between the two reads of a
tick, followed by the terminal status, is never sent, although
`TestOperationLogStreamShouldCloseOnlyAfterDrainingBatch`
(`http_part31_test.go:170-175`) says that the stream closes only when drained.

One failing query ends a client's stream for good, with an event when it fails
inside the stream and without one when it fails on a reconnection (`Refuse`).

### Proofs: the second part of `WorkQueue_proof`

`NothingSkipped` is about what the page shows; it is inductive only together
with the whole way a log takes. `StreamInv` reads that way as one chain: the lines
shown, the events on the wire, the batch not yet sent, and behind the batch
everything the cursor has not passed. `InOrder` says that the chain ascends
strictly, so nothing is shown twice or out of order; `Complete` says that a log
that is not late and is before some point of the chain is in it; `Placed` and
`Quiet` say where cursor, last id and the parts of the chain are in each phase,
which is what a reconnection relies on when it drops wire and batch and starts
again at the last id. The assumption `LogAssumption` gives ids a total order and
keeps them apart from the names of the other events.

Only model-checked: `LogsArrive`, `StreamsClose`.

## 6. The provider review ledger: `ReviewLedger`

### State and actions

Approving a provider review writes three attempts, each waiting for the one
before it: create the review branch, commit the starter files, open the review
request. The module follows the attempts of one approval, and its branch.

| Variable | Code |
|---|---|
| `attempt` | `provider_review_attempts` by `operation_name`: `status`, `dependency_status`, `provider_api_mutation` (`armed`), `provider_api_call_made` and `external_call_made` (`called`), `cleanup_required`, `cleanup_succeeded` |
| `provider` | GitHub: whether the branch exists, has the files, has an open review |
| `lock` | `providerReviewLiveExecutionLocks`, one `sync.Map` per gateway process |
| `pc`, `out` | where a handler is, its `reviewBranchExecutionResult` |
| `made` | the handler was told that it created the branch, and has not deleted it |
| `recorder`, `blind` | histories: the gateway whose live result was recorded; how an existing branch got out of sight |

`Claim` and `LocalResult` are one transaction under `FOR UPDATE`, hence one
step. `claimed_at` is set by a claim and cleared by a retryable result, so it is
there while the attempt runs. GORM leaves zero values out of a condition made
of a struct: `ProviderAPICallMade: false` selects nothing, and `Recordable` and
`Arm` have only the conditions that reach the database.

A live execution is `BeginExecution` (the lock), `ReadInput` (an unlocked read
and its checks), `Arm` (a conditional update), the calls `ReadBase`,
`CreateBranch`, `CommitFiles`, `OpenReview`, after a failure `DeleteBranch`, and
`Record` or `RecordRefused`. Each call is a step of its own, because another
gateway may call between two. A cleanup is `BeginCleanup`, `ReadCleanup`,
`Cleanup`, `RecordCleanup`. The approval's evidence (section 7), the
configuration, remotes and tokens can stop either before its calls; that is
`Refuse`, always possible.

Faults, at most `MaxFaults`: GitHub's answer to the creation is lost; the client
disconnects, which cancels the context of the remaining calls and of the
recording (`Abandon`); the gateway dies (`Crash`); the host of a cleanup does not
resolve. Refusals and errors of GitHub are not counted.

External, and modelled by what the code relies on: GitHub refuses to create a
branch that exists and to delete one that does not; deleting a branch closes its
review; a call that fails may have had its effect.

Abstracted: the PUT of each file (one step for all), the diagnostics columns,
locks of the second and third attempt (taken for nothing: `ReadInput` accepts
only the first). The module covers a ledger until it is recorded again, which
section 7 models.

### Run and fairness

`review_ledger_live`: 2 gateways, 2 handlers in one and 1 in the other, 3 faults.
Two handlers of one gateway meet at its lock, the third passes it by; the ledger
and the branch are single. Three faults let an execution, its repetition and a
cleanup each fail once.

Weak fairness of a handler's next step: every call has the client's timeout of
15 seconds (`git_adapter_part11.go:206`), a failing statement is `Refuse` or
`Abandon`. None for requests, faults, claims and results by hand.

`BranchIsFlagged` excepts what `blind` names (a lost answer, an execution whose
result was not recorded, a cleanup that did not reach GitHub): nothing in the
code finds such a branch again. The point of the property is that there is no
other way, whoever races whom. `AnswerFindsAttempt` excepts an execution of
another gateway that was recorded first; then the second answer is refused and
its call, if any, lost.

### Finding

`Cleanup` sets `CleanupRequired` only when the DELETE fails. If it returns
before, because the API host does not resolve
(`review_branch_executor_part01.go:152`), the flag is cleared while the branch
exists, and later cleanups are refused. The test of a failing cleanup
(`review_branch_executor_part02_test.go:109`) asks for the flag, but tries only a
DELETE that is answered with 500.

### Proofs: `ReviewLedger_proof`

Assumptions: `Home` gives every handler a gateway, and `None` is neither. `IInv`
has a part for each question, and each part is preserved on the strength of
those before it: `Locks` (a handler under way has its gateway's lock), `Ledger`
(dependencies, order and arming of the attempts by themselves), `UnderWay` (what
a handler between two steps may rely on: its attempt is armed, and running unless
another gateway was first), `AtProvider` (while the attempt runs the branch has
one owner, because GitHub creates it once), `Accounted` (a branch that exists is
some handler's, shown in the ledger, or out of sight in a named way; a cleanup
takes the flag away only when there is nothing left). From these follow all
invariants of the run, `AnswerFindsAttempt`, `CompletedIsOpen` and
`SettledStays`, for any number of gateways, handlers and faults.

Only model-checked: `LocksAreReleased`.

## 7. Evidence for a live execution: `ReviewEvidence`

### State and actions

Before a live execution the gateway wants evidence: snapshots on the assets of
the attempts and of the approval, recorded by one request each, in three shapes
(of the attempt, of a plan, of what blocks). Then an attempt is *reviewed*, the
approval *guarded*, and *armed*.

| Variable | Code |
|---|---|
| `attempt`, `approval` | `provider_review_attempts.status` by operation; `operation_approvals.status` |
| `revivals`, `rewritten` | stale saves that made the approval pending again (section 4); history: the ledger was recorded again |
| `assets` | the assets of attempts and approval that exist (external: no code in the repository inserts them with these types, so they appear at any time) |
| `rows`, `expired` | `asset_status_snapshots` of each asset, oldest first, and how many are older than the cutoff |
| `pending` | what a recorder decided to write, and on which asset |
| `periods` | retention periods that passed, at most `MaxPeriods` |
| `cleaning` | whether a cleanup is between two of its batches |

`Record` is everything a recording handler reads and decides; `Write` is its
insert, and between them the ledger may move on (`Claim`, `LocalResult`).
`ApproveAgain` is a second approval after a `StaleSave`: it writes the attempts
anew while the evidence of their first life stays. A cleanup starts
(`StartCleanup`), deletes batch after batch (`DeleteBatch`) until one is not
full, and may fail at any of them (`CleanupFails`). No retention period, which is
a day at least, passes during one. The reads of one recording are taken as one
step.

### Run and fairness

`review_evidence`: one recorder, one retention period, one stale save; `OneByOne`
lets an operator follow the agenda in order, claim an attempt before or after it,
and write between two batches what was decided before. Six rows of an asset
(`MaxRows`) are enough for the agenda, a review, a guard and an arming. The code
deletes in batches of 1000; here a batch is two rows, so that a cleanup takes
several, the last may be full or not, and the kept rows of three assets are more
than a batch: a limit applied before the newest rows are spared would delete
nothing, for ever, and that is the mutant of `CleanupCatchesUp`. Fairness: weak
for `StartCleanup`, because the scheduler starts a cleanup every day, and strong
for `DeleteBatch`: any DELETE may fail, but not every one.

### Finding

`NobodyMayExecute`: no sequence of requests ever satisfies a live execution. The
arming waits for the review of all three attempts; the second and third are
reviewed only when the first is completed; a live execution accepts only a first
attempt that is not completed. Only a ledger that was recorded again, by way of
the stale saves of section 4, opens it.

The repository says otherwise. The plan that
`scripts/provider-review-live-test-plan.sh` prints for a live test lists (lines
100-101): "5. Approve the provider-review execution request, claim the current
attempt, record live-readiness evidence, and record mutation-arming evidence."
and "6. Use Approval audit `Execute live review` once, then verify the sanitized
ledger". The run `review_evidence_live_test` states that sequence as
`LiveTestPlanArms` (with the current attempt claimed and its live-readiness
evidence recorded, the arming can be) and finds it violated after ten steps: the
arming is refused, because `providerReviewMutationArmingSnapshotPayload` wants the
review of all three attempts (`liveReadinessObserved == attemptCount`).

### Proofs: the second part of `AssetGraph_proof`

`ReviewedInOrder` and `NobodyMayExecute` are proved for any recorders and any
bounds. `EvidenceInv` says that every row *tells* something of the ledger
(`Tells`): a review, that the attempts before its own are completed; the arming,
that those before the last are; a guard, that it is of the last attempt. It says
so of the rows that were written (`WrittenTells`) and of what a recorder decided
and has not written yet (`PendingTells`), and that is the argument: what a
recorder read may be stale when it writes, but the facts a row tells are about
attempts that are completed, which no step undoes except `ApproveAgain`; and
deleting rows takes facts away and adds none. No live execution follows: the
guard of the first attempt is never ready. Only model-checked:
`CleanupCatchesUp`, a liveness property.

## 8. Repo syncs: `RepoSync`

### State and actions

| Variable | Code |
|---|---|
| `pushed`, `mirror` | versions of the source and of each target |
| `latest`, `remote` | `git_remotes.latest_sha` and `last_sync_status` of a target |
| `asset` | `repo_sync_assets`: exists, enabled, archived, triggered by webhook, status |
| `jobs` | worker jobs with their `repo_sync_runs`, in order |
| `seen` | deliveries with a verified webhook event |
| `request`, `worker` | where a handler or a worker is, with what it has read |
| `manual` | jobs operators started, at most `MaxManual` |

A webhook is the lookup of an earlier event of the delivery, the selection of the
assets and the transaction that enqueues (`Serve`); for a delivery without an id
(`NoId`, `http_part36.go:72`) there is no lookup. Replays, asset edits and
manual runs are handlers too. A worker claims, marks the run running, pushes,
and records run, asset and target in transactions of their own, each of which
may fail, be late or never come (`Work`). `CancelJob` and `TimeOut` are the
cancel and the sweep of section 3. A push brings the target what the source has
when it fetches, so `due` tells the push a job was started for.

Not modelled: the statuses that Actions and label refreshes write to
`git_remotes`, and who may edit an asset. An update may edit an asset that was
archived after its look; nothing it writes starts a run.

### Run

`repo_sync`: 1 target, 2 handlers, 2 workers, two pushes, whose deliveries come
with an id and without one, and one manual job;
workers start when the edits are over and at most two jobs are left
(`EditsFirst`, `FewJobs`), because no step of a worker reads what an edit
writes. Two handlers can both miss each other's event, which is the bound
`DeliveryStartsFewRuns` states; two workers can record in either order.

### Findings

- The check for an earlier delivery takes no lock and no unique index backs it,
  so a delivery repeated at once starts a run per request; assets are selected
  without a lock. A delivery whose handling failed counts as a duplicate until
  somebody replays it. A delivery without an id starts runs as often as it comes,
  so `DeliveryStartsFewRuns` speaks of those that have one.
- When workers record out of order `latest_sha` stays at the older of two SHAs;
  an asset's `last_sync_status` may be of an older run than its newest.
- A refresh whose job is swept leaves `git_remotes.last_sync_status` at
  `running`; a canceled queued job leaves its run row queued.
- GORM's `default:true` makes `enabled: false` have no effect when an asset is
  created.

### Proofs: `RepoSync_proof`

Assumptions: `BoundAssumption`, and `ActorAssumption`, that there are finitely
many targets, handlers and workers; the order in which the jobs of a delivery are
inserted and the counts of `DeliveryStartsFewRuns` need it. The properties speak
of tables only; `IInv` joins to them what is under way:

- `FewRuns` counts the requests that may still start runs of a delivery with the
  runs it has. A request with an id comes in only before the delivery is recorded, the
  first one to commit records it, and each one that commits is one less under
  way and one run more of a target. `DeliveryStartsFewRuns` follows.
- `Carried` says what a worker has fetched is as new as its job asks for and,
  once pushed, no newer than the target, whose version never falls
  (`MirrorGrows`); it needs `DuesAreReal`, that jobs are only asked for pushes
  that happened. It gives `RecordsAreTrue`, which is inductive with it.
- `StatusesKept` strengthens `StatusesHaveARun`: the refresh behind a target
  shown as running has no worker that has recorded and only has to finish
  (`Written`), so finishing one never takes it away. A job that waits is
  nobody's (`WorkersAtWork`), so a claim starts from a fresh one.

The lemmas say what enqueueing does to the sequence of jobs (`Enqueued`,
`EachOnce`: one new job for each of the targets, whatever the order) and that
every other step rewrites at most one of them (`Rewritten`).

## 9. Tag runs: `RepoTags`

### State and actions

| Variable | Code |
|---|---|
| `tagged`, `wasTagged` | the remote has, and ever had, the tag |
| `run` | `repo_tag_runs.status` |
| `ops` | operations with their jobs: `tag`, `lookup`, `refresh`, in order |
| `rows` | rows of the workflow run in `github_action_runs`; there are always ids that nobody uses |
| `mixed`, `lone` | histories: writers of rows overlapped; the worker whose refresh nobody disturbed |
| `records` | snapshots recorded, in order |
| `request`, `worker`, `manual`, `hooks` | where requests (`Callers`) and workers are; lookups asked for, webhooks received |

The module fixes one remote at GitHub; for others the code enqueues no refresh of
Actions (`worker_part04.go` 128-130). A tag operation pushes, records that its run
is completed, enqueues a lookup and a refresh in another transaction, and
finishes. A lookup marks the run running before it asks, even when it was
completed, and marks it by what it found. A refresh replaces the rows of the
workflow run by a DELETE and INSERTs, statement by statement; a webhook updates or
inserts them. A snapshot reads the run row only; the pages look at the newest
lookup and refresh.

### Run

`repo_tags`: 1 run, 1 caller, 2 workers, one manual lookup, one webhook and one
snapshot; four operations (`FewOps`), one canceled (`FewCancels`). Others tag or
delete the tag between jobs (`ElsewhereAtRest`), webhooks come while refreshes
run (`HooksByRefreshes`), snapshots at the end (`RecordedLast`): each pair of
these touches different rows.

### Findings

- The check that no lookup or refresh is under way is not locked, so two run at
  once; webhook events applied out of order overwrite a newer status.
- Two writers of rows leave a workflow run with two rows, until a refresh that
  nobody disturbs.
- No code makes an asset of type `repo_tag_run`, although the refusal of the
  snapshot handler says to run `db sync-assets`; the model records only where
  the asset is there.

### Proofs: the second part of `ReviewLedger_proof`

For any runs, and any finitely many callers and workers, of which no one is
both; the bounds are numbers. The invariants of the run do not hold by
themselves from step to step; `TagInv` adds what the code relies on between two
of its transactions:

- `Carried`: a run that shows running has a tag or lookup operation whose job runs
  *and* whose workers, if any, have not written an outcome yet. Without the second
  half that operation could be one that `Finish` is about to end. A claim keeps
  it, for by `Claimed` no worker has an operation that waits. This gives
  `RunningHasAJob`.
- `Followed`: what `FollowedUp` says also of a tag operation that is about to be
  finished, because the follow-ups and the end of the operation are written in
  different transactions.
- `Seen`: as long as the remote never had the tag, no run is completed, no
  operation or worker has found it, no worker is about to record a push, and no
  snapshot tells of it, written or not. The pages' choice among lookups does not
  matter then, which gives `ShownTagWasThere`.
- `Apart`: as long as no writers of rows overlapped, there is at most one row, and
  the one writer there may be has read all there is; the same is true of a refresh
  that nobody disturbed (`lone`), which is why it ends `mixed`. This gives
  `OneRowUnlessMixed`.

Each action has a lemma, and what actions of a kind have in common is proved
once: `RequestKeeps`, `WorkerKeeps`, `MarkedKeeps`, and a lemma for each part
(`KeepsClaimed`, `KeepsCarried`, `KeepsFollowed`, `KeepsApart`) that says what an
action must leave alone. Nothing of `RepoTags` is only model-checked.

## 10. Agent tasks: `AgentTasks`

### State and actions

| Variable | Code |
|---|---|
| `plans`, `task` | `agent_plans.status` in order of creation, `agent_tasks.status` |
| `ops` | `agent.execute` operations with job and tool calls, and the plan of each |
| `runtimes` | the AI runtime of the project and the global one |
| `asset`, `rows` | whether the task has an asset, its audit snapshots in order |
| `lock` | the request that holds the row of the task |
| `request`, `worker` | where a handler or a worker is, with what it has read |

Approving takes the newest plan without a lock and without the id of the plan
the user saw; executing locks the task row, reads the newest approved plan,
enqueues and writes calls and task. A worker marks calls and task running,
executes, and records them one after the other. The calls of an execution always
share one status, as every statement of the code writes all of them. Recorders
(`compare`, `insert`) read the newest operation and the newest snapshot, decide,
and insert. The lookups of runtime, asset and newest row are one step.

### Run

`agent_tasks`: 2 handlers, 2 workers, two plans, two executions, two rows, and a
window of two where the code reads the newest 100. `SetUpFirst` puts asset and
runtime before the first plan, `RecordingApart` and `RecordingCounts` record when
a row could be written at all, `FewCancels` cancels one execution. Two executions
suffice for every overlap; the theorems are for any number.

### Findings

- A plan generated between the user's look and the approval is approved unseen.
- The task's status is that of whichever execution wrote last. A canceled queued
  execution leaves calls and task queued for ever, and its evidence active until
  it leaves the newest 100 rows.
- An operation may be completed with its calls failed (swept, then a late
  finish) and failed with its calls completed.
- A project runtime that is not verified hides a verified global one; recorders
  take no lock, so a row may be repeated; no code makes assets of type
  `agent_task`.

### Proofs: `AgentTasks_proof`

Assumptions: `BoundAssumption`, `WindowAssumption` (the window is not empty) and
`HandlersAssumption` (`None` is no handler). `PlansInOrder` needs that the plan
the holder of the task's lock has read is still the newest approved one it may
enqueue: plans are appended, never taken back, and only the holder enqueues. The
invariants of calls and task need the order in which a worker writes: calls
before the task, both before the operation is finished, so that a sweep or a
crash between two writes leaves an operation that still accounts for the task.
`ArmedWasExecuted` needs what a recorder has read to be backed until it inserts;
completed calls stay completed (`OutcomeStays`), and a verified runtime stays
verified. The five properties of the run are theorems.

## 11. Config repositories and project versions: `ConfigVersions`

### State and actions

| Variable | Code |
|---|---|
| `config`, `sole`, `history`, `connections` | the repository's role, whether its remote is the only `local_bare`, the commits of its branch, the project's Argo connections |
| `latest`, `pin` | `git_remotes.latest_sha`, `config_commit_sha` in the version's manifest |
| `ops` | commit, head refresh and version refresh operations with their jobs |
| `rows`, `reviews` | snapshots on the version's asset, and on the repository's |
| `lost` | history: a worker stopped after an operation, before it recorded |
| `request`, `worker`, `reader` | where a handler, a worker or a validation is, with what it has read |

A commit worker fetches, builds a tree, pushes and records; a push that is not a
fast-forward fails, so a commit is never dropped. Head refreshes are deduplicated
under a lock on the repository row; version refreshes and reruns by an unlocked
read (`Found`) of the newest five active operations of their types, of which those
of the version are picked afterwards (`http_part12.go:196-224`). Operations of
other versions, remotes and connections are therefore in `ops` too, as the kinds of
`Elsewhere`; workers finish them and nothing else comes of them. `LookBack` is the
five. After a refresh finishes its worker validates the
version: it reads remotes, then operations, then inserts (`Validate`), as a
handler may at any time.

Not modelled: `latest_sha` supplied by the user when a remote is created, and
branches other than the version's.

### Run

`config_versions`: 2 handlers, 2 workers, one connection, three operations (four
where one hides another), one push of somebody else, `LookBack` = 1; the branch
starts empty or with a commit of somebody else. With `LookBack` = 1 one refresh of
something else hides the refreshes of the version before it, and a request after
it finds nothing: three refreshes of the version are then under way for two
handlers, which `RefreshOncePerRequest` allows only on two sides of a hiding one.
Edits come when they matter (`EditsMatter`, `ConnectedFirst`), operations of one
kind at a time (`OneSort`, `OneStory`), recordings when they could write
(`RecordingCounts`), one stop (`FewStops`). The windows of 20 and 50 rows filter
before they limit and are wider than the bound, so nothing leaves them.

### Findings

- Two version refreshes, or a rerun and a refresh, may run at once, one for each
  request served together.
- A request for a refresh looks at the newest five active operations of the three
  types over all versions and projects and filters by version afterwards
  (`http_part12.go:19`, `:201-214`). Five newer ones of anything else, a head refresh
  of a config repository among them, hide a refresh that is under way, and a single
  request enqueues a second one; the same holds of reruns.
- One failed or canceled refresh among the newest 50 keeps the automatic
  recording from happening. A rerun that found nothing to refresh completes, and
  the background state says `recorded` though no snapshot was written
  (`http_part46.go:69`). A worker that stops between finish and validation loses
  the record.
- A validation reads remotes before operations, so of two overlapping ones the
  staler may be recorded last; `latest_sha` may go back when workers record out
  of order.
- A failing log write rolls `latest_sha` back although the commit was pushed;
  the dispatch log of a claim makes `operation_log_count` positive before the
  adapter wrote anything; a config commit has no deduplication.

### Proofs: `ConfigVersions_proof`

For any handlers, workers, operations, pushes and connections. The assumptions
say that the handlers are finitely many and none of them a worker, that a request
looks at one operation at least, and that the bounds are numbers. The parts of `IInv`:

- `Branched`: a branch has no commit twice; commits of operations are of
  operations that were claimed and whose worker is past its push. With it a push
  that builds on a tip builds on all of the branch (`UpTo`), so `Push` never
  drops a commit, and `Landed` (what is recorded, or about to be, is on the
  branch) is kept. This gives `RecordedShaIsInHistory`.
- `HeadAlone` and `RefsCounted` count the requests that are about to enqueue with
  the refreshes under way: at most one for heads, by the lock; for versions, from
  every refresh under way on, at most one per handler among those nothing hides
  from it. A handler counts until enough refreshes of other things have come after
  that one (`Asking`); one that looks and finds nothing knows that they have
  (`FoundUnlessPassed`), and what hides never goes away (`HidesMore`).
  `RefreshOncePerRequest` follows.
- `Told`: when all refreshes of the version completed, a row tells so, or a
  worker is on its way to write one with the right count, unless a worker
  stopped. It needs `JobsFollow` and `WorkersApart`, for only the worker of the
  refresh that ends last may be the one to tell (`CountIsRight`: what it counts
  is what there is). `CompletedRefreshIsRecorded` follows.

## 12. The asset graph: `AssetGraph`

### State and actions

| Variable | Code |
|---|---|
| `source`, `status` | a row of a source table: not yet there, live, gone; the status it shows |
| `asset`, `shown` | the id of its asset, the status of the asset and of its newest snapshot |
| `derived`, `manual` | the keys of the relations that are derived, and that a user made |
| `sync`, `request` | where a sync or a handler is, with what it has read and still has to write |
| `alone`, `overlapped` | histories: syncs nothing has disturbed since they began; sources deleted while somebody knew of them |

A sync reads all source tables (a read that fails looks like an empty table),
upserts an asset and a snapshot per source, upserts the derived relations, loads
the relations there are and deletes each one that is not wanted by its id. A full
sync runs statement by statement; one inside a handler's transaction reads first
and writes in its commit. A handler adds or removes a manual relation or changes
or deletes a source. `Heartbeat` is a worker node's: it calls
`syncCanonicalAssetSpecs(ctx, db, assets, nil)`, and the `nil` is one empty list of
relations, not the absence of one, so each heartbeat prunes every derived relation.

In a handler's transaction the prune selects the relations and then deletes each
by its id; the model takes the two as one step. Of what another transaction may do
in between, only that a relation is made manual matters, and that window is the
one full syncs have, where the model does split it. Not modelled: the other source
tables (they differ in columns) and the deletion of a project.

### Run

`asset_graph`: 2 sources, 2 syncs, 1 handler, one change of status
(`FewChanges`). Two syncs overlap in every order; two sources let one be pruned
for the other.

### Findings

- Each heartbeat of a node removes the derived relations until the next full sync;
  so does a read of a source table that fails, for its sources.
- A sync never deletes an asset: one that a stale sync writes for a source that
  was deleted meanwhile stays for ever (`GhostNeedsOverlap` says that only
  overlap makes one).
- A manual relation may dangle, becomes derived when a sync derives the same key,
  and is deleted by a prune that loaded it before it was made manual.

### Proofs: `AssetGraph_proof`

Assumption: `StatusAssumption`. `UndisturbedSyncRepairs` is about the end of a
sync; the invariant carries it through every statement. `Repairs(y)` says, for
each stage of a sync that is alone, what it has repaired and what it has still to
do, `AloneIsAlone` that nobody else is in a stage that could spoil it,
`SyncsTidy` what may be in the lists of a sync, `DeletesOther` that a loaded
relation that will be deleted is not a wanted one, `KeysApart` that a key is
derived or manual and not both, and `Forgotten` that nobody knows of a source
that went without being noticed, from which `GhostNeedsOverlap` follows. The
action properties `UndisturbedSyncRepairs` and `ManualStays` are theorems too.

## 13. Argo and pods: `ArgoTargets`, `PodAccess`

### State and actions

| Variable | Code |
|---|---|
| `connection` | `argo_connections.last_sync_status` |
| `app`, `target`, `deployed` | `argo_apps`, `deployment_targets`, `deployment_records` with the target of the app's rollback point |
| `ops` | `argo.apps.sync` operations with their jobs |
| `worker`, `request` | where a worker or a handler is; a worker's listing and transaction |
| `cut`, `resaved` | histories: targets deleted with a connection or by overlapping syncs; connections whose status an update wrote back |
| `kube`, `pods`, `pod` | reviewed Kubernetes environments, approvals and operations on pods, where a worker is with one |
| `restarts`, `evidence` | places restarted; targets with a recorded log audit |

`Fetch` takes any listing of the server. The recording is one READ COMMITTED
transaction in the stages `drop`, `look`, `put`, `gather`, `commit`: what it has
written is an overlay on the tables, which is also the set of its row and key
locks, and every other statement sees the tables as last committed. Any
stage may fail, which undoes all. `PodAccess` adds the pod operations to the same
workers: a restart looks for another running operation of its target's place
before it calls (`look`, `load`, `call`, `finish`). The ids of targets are never
given twice.

Abstracted: the content of an app, of which a `Report` keeps one of three statuses
and whether there is a revision or an image to roll back to (`pinned`; the
revision does not change); one deployment and one pod per target; names of apps
(unique in a project). A condition on an empty column is left out by the code:
`Matches` does so for a cluster without a name. It would do the same for an empty
namespace (`worker_part15.go` 148), so that an app without one could take any target
of its environment and erase its namespace; applications of Argo CD always name
their destination's namespace, and `Scope` assumes it.

### Run

`argo_pods`: 2 connections, 3 apps of one scope (two share a cluster's target, one
has no label), three targets, three syncs, two workers, one handler, two pod
operations. Connections come first (`ConnectedFirst`), one report is odd: out of
sync, or unknown and without a revision (`OneOddReport`); there is one failure,
cancel, crash, update or deletion (`OneEvent`), the last two syncs overlap
(`OverlapLast`, `LastJobCounts`), pods come after the syncs (`PodsLast`). Two
connections sharing a target, and a second sync of one of them, is every conflict
of two transactions on one row.

### Findings

- The owner of a shared target flips with each sync. An orphan cleanup deletes a
  target another connection's sync has begun to use; its app dangles until that
  connection syncs again.
- An app without a cluster label takes the first target of its namespace and
  unnames its cluster; where an unnamed row exists and a labelled one sorts
  first, every later sync fails on `deployment_targets_project_scope_key`.
- Two syncs of one connection may overlap (the check is not locked, a version
  refresh does not check, a recovered job still runs). The second's DELETE does
  not see the first's new rows and its INSERT then violates the key.
- A sync that commits after its connection was deleted leaves apps and targets of
  none. Deleting a connection drops the rollback points of other connections'
  apps on a target it owned, and leaves those apps dangling.
- An app that lost its revision and images keeps the rollback point it had, on the
  target it was on then. `UndisturbedSyncMirrors` claims one on the app's own
  target only for an app that has something to roll back to.
- `updateArgoConnection` saves a stale whole row, which may show `running` for
  ever.
- Restarts are kept apart only by the status shown before the scan: two that are
  claimed at once both fail, or the first does; one canceled while running is
  not counted; a restart may have happened although its operation failed (lost
  answer). The disabled path of logs only audits.

### Proofs: `PodAccess_proof`

Assumptions: `MapAssumption`, `BoundAssumption`, `NoneAssumption`,
`PodAssumption`: finite sets, no number of connections, apps, workers or targets.
The module proves properties of both parts. `Agree` says that every place that
names a target (a table, an overlay, a loaded row, the list of a stage) agrees on
its scope and, as far as it is named, on its cluster, `IdsAgree` that ids are
never given twice, from which `AppHasItsTarget` follows; `LostIsCut` that a target
which an app or a transaction still names and which is not there was cut.
`AloneSees` carries what a recording that is alone has read and written from stage
to stage (`RolledUpSums`: the roll-up is in sync if all are, out of sync if one
is, and unknown otherwise), up to `UndisturbedSyncMirrors`; `JobRows` and
`RunningIsWorkedOn` relate connections and jobs for `RunningHasASync`;
`LookedApart` says what a restart that has looked may rely on, for
`RestartsApart`. `SyncsCorrect` is the composition: every behaviour of `PodAccess`
is one of `ArgoTargets`, so its theorems hold there as well.

The proof found a case the bounded run does not reach: a sync of one connection
that goes on after another one overlapped it may roll up a row whose connection
a third sync has taken over. That the rows a recording wrote carry its own
connection holds only for a recording that is alone, and the invariant says so.

## 14. Not modelled

- Backup tool and its restore rehearsal: a sequential program with one lock
  directory; its behaviour is that of the file system and of `pg_dump`.
- Policy and role checks: pure functions of one row with
  tests of their own; the models take their outcome as a nondeterministic refusal.
- Login, sessions, CRUD of projects, accounts, remotes and credentials: single-row
  reads and writes, correct by the constraints of the schema. The web UI (except
  the log stream's reader), charts and scripts keep no shared state.
- The rollback execution gate: it reads what section 13 models and always refuses
  to execute. Webhook connections' CRUD and alert thresholds: single-row.
- Within the queue: result payloads, operation logs, canonical asset sync (it can
  only fail the transaction it runs in), metrics, and the optional Cloudflare
  publish, which no consumer in the repository reads.
- Clocks: every cutoff is a bit that time may set. Failures of PostgreSQL are
  those of single statements and transactions, not of the server.
