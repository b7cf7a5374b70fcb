--------------------------- MODULE RepoSync_proof ---------------------------
(***************************************************************************)
(* Theorems about RepoSync for any numbers of targets, handlers, workers,  *)
(* pushes and jobs.                                                        *)
(*                                                                         *)
(* The properties speak of the tables; IInv joins to them what requests    *)
(* and workers under way know: a delivery reports a push that happened     *)
(* (DuesAreReal), a worker has a version that is as new as its job asks    *)
(* for (Carried), and requests that may still start runs of a delivery     *)
(* count with the runs it started (FewRuns).                               *)
(***************************************************************************)
EXTENDS RepoSync, SequenceTheorems, FiniteSetTheorems, TLAPS

USE BoundAssumption, ActorAssumption

(* A job that a worker has does not wait any more.                         *)
WorkersAtWork ==
    \A w \in Workers : worker[w] # Idle => jobs[worker[w].job].job # "queued"

(* What deliveries report, and what jobs were started for, was pushed.     *)
DuesAreReal ==
    /\ \A d \in seen : d <= pushed
    /\ \A h \in Handlers : request[h].pc \in {"select", "write"} => request[h].delivery <= pushed
    /\ \A i \in DOMAIN jobs : jobs[i].due <= pushed

(* A worker pushes what is as new as its job asks for, and records what    *)
(* the target has.                                                         *)
HasVersion(w) ==
    LET j == jobs[worker[w].job] IN
    /\ worker[w].stage = "push" => Syncs(worker[w].job) /\ j.due <= worker[w].version
    /\ worker[w].stage = "record" /\ worker[w].ok =>
          /\ worker[w].version <= mirror[j.target]
          /\ Syncs(worker[w].job) => j.due <= mirror[j.target]

Carried == \A w \in Workers : worker[w] # Idle => HasVersion(w)

(* The status an asset shows is that of one of its runs.                   *)
AssetShowsRun(t) ==
    asset[t].status # "never" => \E i \in LinkedRuns(t) : jobs[i].run = asset[t].status

(* Behind a target shown as running is a refresh whose worker, if it still *)
(* has one, has yet to record.                                             *)
Written(i) == \E w \in Workers : At(w, "finish") /\ worker[w].job = i

RefreshBehind(t) ==
    remote[t] = "running" =>
        \E i \in DOMAIN jobs : /\ ~Syncs(i) /\ jobs[i].target = t
                               /\ jobs[i].job \in {"running", "failed"} /\ ~Written(i)

StatusesKept == \A t \in Targets : AssetShowsRun(t) /\ RefreshBehind(t)

(* The requests that may still start runs of delivery d.                   *)
InFlight(d) ==
    {h \in Handlers : /\ request[h].pc \in {"select", "write"}
                      /\ request[h].delivery = d /\ ~request[h].replay}

FewRuns ==
    \A d \in Deliveries \ NoId, t \in Targets :
        /\ d \notin seen => RunsOf(d, t) = {}
        /\ Cardinality(RunsOf(d, t)) + Cardinality(InFlight(d)) <= Cardinality(Handlers)

IInv ==
    /\ TypeOK
    /\ WorkersAtWork
    /\ DuesAreReal
    /\ Carried
    /\ RecordsAreTrue
    /\ StatusesKept
    /\ FewRuns

-----------------------------------------------------------------------------
(* The jobs *)

(* Jobs are numbered from one. *)
LEMMA Numbered ==
  ASSUME TypeOK
  PROVE  /\ DOMAIN jobs = 1..Len(jobs) /\ Len(jobs) \in Nat
         /\ \A i \in DOMAIN jobs : jobs[i] \in Jobs
  BY LenProperties, ElementOfSeq DEF TypeOK

(* What a worker carries with it. *)
LEMMA OfWorkers ==
  ASSUME TypeOK, NEW w \in Workers, worker[w] # Idle
  PROVE  /\ worker[w] \in Stages
         /\ worker[w].job \in DOMAIN jobs /\ worker[w].version \in Versions
         /\ worker[w].ok \in BOOLEAN
<1>1. worker[w] \in Stages
  BY DEF TypeOK
<1>2. QED
  BY <1>1, Numbered DEF Stages

(* What a request carries with it. *)
LEMMA OfRequests ==
  ASSUME TypeOK, NEW h \in Handlers
  PROVE  /\ request[h].pc \in {"select", "write"} =>
               request[h].delivery \in Deliveries /\ request[h].replay \in BOOLEAN
         /\ request[h].pc = "write" => request[h].chosen \subseteq Targets
         /\ request[h].pc = "update" => request[h].target \in Targets
         /\ request[h] = Idle <=> request[h].pc = "idle"
<1>1. request[h] \in Requests
  BY DEF TypeOK
<1>2. QED
  BY <1>1 DEF Requests, Idle

(* Job i becomes j, which is for the same. *)
Becomes(i, j) ==
    /\ j \in Jobs
    /\ j.kind = jobs[i].kind /\ j.target = jobs[i].target
    /\ j.linked = jobs[i].linked /\ j.due = jobs[i].due
    /\ j.job # "queued" \/ j.job = jobs[i].job
    /\ jobs' = [jobs EXCEPT ![i] = j]

(* After a step of one job the others are as they were. *)
LEMMA Stepped ==
  ASSUME TypeOK, NEW i \in DOMAIN jobs, NEW j, Becomes(i, j)
  PROVE  /\ jobs' \in Seq(Jobs) /\ Len(jobs') = Len(jobs) /\ DOMAIN jobs' = DOMAIN jobs
         /\ \A k \in DOMAIN jobs : jobs'[k] = IF k = i THEN j ELSE jobs[k]
<1>1. jobs \in Seq(Jobs) /\ DOMAIN jobs = 1..Len(jobs) /\ j \in Jobs
  BY Numbered DEF TypeOK, Becomes
<1>2. jobs' \in Seq(Jobs) /\ Len(jobs') = Len(jobs)
  BY <1>1, ExceptSeq DEF Becomes
<1>3. QED
  BY <1>1, <1>2, ExceptSeq, LenProperties DEF Becomes

(* There are new jobs, which wait; those there were are as they were. *)
Grown ==
    /\ jobs' \in Seq(Jobs) /\ Len(jobs) <= Len(jobs')
    /\ \A i \in DOMAIN jobs : jobs'[i] = jobs[i]
    /\ \A i \in DOMAIN jobs' \ DOMAIN jobs :
          jobs'[i].due <= pushed /\ jobs'[i].job = "queued" /\ jobs'[i].run = "queued"

(* The old ones are among them. *)
LEMMA GrownDomain ==
  ASSUME TypeOK, Grown
  PROVE  DOMAIN jobs \subseteq DOMAIN jobs' /\ Len(jobs') \in Nat /\ DOMAIN jobs' = 1..Len(jobs')
  BY Numbered, LenProperties DEF Grown

(* A new job of a request is well typed. *)
LEMMA NewJobs ==
  ASSUME NEW kind \in {"delivery", "manual", "refresh"}, NEW t \in Targets,
         NEW linked \in BOOLEAN, NEW due \in Versions
  PROVE  NewJob(kind, t, linked, due) \in Jobs
  BY DEF NewJob, Jobs, Active, Outcomes

(* One more job. *)
LEMMA Appended ==
  ASSUME TypeOK, NEW kind \in {"manual", "refresh"}, NEW t \in Targets, NEW due \in Versions,
         due <= pushed, jobs' = Append(jobs, NewJob(kind, t, FALSE, due))
  PROVE  /\ Grown
         /\ \A i \in DOMAIN jobs' \ DOMAIN jobs : jobs'[i].kind # "delivery"
<1> DEFINE j == NewJob(kind, t, FALSE, due)
<1>1. jobs \in Seq(Jobs) /\ DOMAIN jobs = 1..Len(jobs) /\ Len(jobs) \in Nat /\ j \in Jobs
  BY Numbered, NewJobs DEF TypeOK
<1>4. j.due = due /\ j.job = "queued" /\ j.run = "queued" /\ j.kind = kind
  BY DEF NewJob
<1>7. jobs' = Append(jobs, j)
  OBVIOUS
<1> HIDE DEF j
<1>2. /\ jobs' \in Seq(Jobs) /\ Len(jobs') = Len(jobs) + 1
      /\ \A i \in 1..Len(jobs) : jobs'[i] = jobs[i]
      /\ jobs'[Len(jobs) + 1] = j
  <2>1. /\ Append(jobs, j) \in Seq(Jobs) /\ Len(Append(jobs, j)) = Len(jobs) + 1
        /\ \A i \in 1..Len(jobs) : Append(jobs, j)[i] = jobs[i]
        /\ Append(jobs, j)[Len(jobs) + 1] = j
    BY <1>1, AppendProperties
  <2>2. QED
    BY <1>7, <2>1
<1>3. DOMAIN jobs' = 1..(Len(jobs) + 1)
  BY <1>2, LenProperties
<1>5. \A i \in DOMAIN jobs' \ DOMAIN jobs : jobs'[i] = j
  <2>1. \A i \in DOMAIN jobs' \ DOMAIN jobs : i = Len(jobs) + 1
    BY <1>1, <1>3
  <2>2. QED
    BY <1>2, <2>1
<1>6. Grown
  <2>5. \A n, m \in Nat : m = n + 1 => n <= m
    OBVIOUS
  <2>6. Len(jobs') \in Nat
    BY <1>2, LenProperties
  <2>1. jobs' \in Seq(Jobs) /\ Len(jobs) <= Len(jobs')
    BY <1>1, <1>2, <2>5, <2>6
  <2>2. \A i \in DOMAIN jobs : jobs'[i] = jobs[i]
    BY <1>1, <1>2
  <2>3. \A i \in DOMAIN jobs' \ DOMAIN jobs :
           jobs'[i].due <= pushed /\ jobs'[i].job = "queued" /\ jobs'[i].run = "queued"
    BY <1>4, <1>5
  <2>4. QED
    BY <2>1, <2>2, <2>3 DEF Grown
<1>8. QED
  BY <1>4, <1>5, <1>6

(* An order of the targets takes each of them once. *)
LEMMA EachOnce ==
  ASSUME NEW targets \in SUBSET Targets, NEW s \in Orders(targets)
  PROVE  /\ Cardinality(targets) \in Nat /\ DOMAIN s = 1..Cardinality(targets)
         /\ \A n \in DOMAIN s : s[n] \in targets
         /\ \A n, m \in DOMAIN s : s[n] = s[m] => n = m
         /\ \A t \in targets : \E n \in DOMAIN s : s[n] = t
<1> DEFINE N == 1..Cardinality(targets)
<1>1. IsFiniteSet(targets) /\ Cardinality(targets) \in Nat
  BY FS_Subset, FS_CardinalityType
<1>2. IsFiniteSet(N) /\ Cardinality(N) = Cardinality(targets)
  BY <1>1, FS_Interval
<1>3. s \in [N -> targets] /\ \A n, m \in N : s[n] = s[m] => n = m
  BY DEF Orders
<1>4. s \in Injection(N, targets)
  BY <1>3 DEF Injection, IsInjective
<1>5. s \in Surjection(N, targets)
  BY <1>1, <1>2, <1>4, FS_Injection
<1>6. QED
  BY <1>1, <1>3, <1>5 DEF Surjection

(* One more run for each of the targets. *)
LEMMA Enqueued ==
  ASSUME TypeOK, NEW kind \in {"delivery", "manual"}, NEW targets \in SUBSET Targets,
         NEW due \in Versions, due <= pushed, EnqueueRuns(kind, targets, due)
  PROVE  /\ Grown
         /\ \A i \in DOMAIN jobs' \ DOMAIN jobs :
               jobs'[i].kind = kind /\ jobs'[i].due = due
         /\ \A i, k \in DOMAIN jobs' \ DOMAIN jobs : jobs'[i].target = jobs'[k].target => i = k
         /\ \A t \in targets : \E i \in DOMAIN jobs' \ DOMAIN jobs :
               jobs'[i].target = t /\ jobs'[i].linked
<1>1. PICK s \in Orders(targets) :
         jobs' = jobs \o [i \in DOMAIN s |-> NewJob(kind, s[i], TRUE, due)]
  BY DEF EnqueueRuns
<1> DEFINE C == Cardinality(targets)
           more == [i \in DOMAIN s |-> NewJob(kind, s[i], TRUE, due)]
<1>2. jobs \in Seq(Jobs) /\ DOMAIN jobs = 1..Len(jobs) /\ Len(jobs) \in Nat
  BY Numbered DEF TypeOK
<1>3. /\ C \in Nat /\ DOMAIN s = 1..C
      /\ \A n \in 1..C : s[n] \in targets
      /\ \A n, m \in 1..C : s[n] = s[m] => n = m
      /\ \A t \in targets : \E n \in 1..C : s[n] = t
  BY EachOnce
<1>4. \A n \in 1..C : NewJob(kind, s[n], TRUE, due) \in Jobs
  BY <1>3, NewJobs
<1>5. more \in Seq(Jobs) /\ Len(more) = C /\ \A n \in 1..C : more[n] = NewJob(kind, s[n], TRUE, due)
  <2>1. more \in [1..C -> Jobs]
    BY <1>3, <1>4
  <2>2. \A n \in 1..C : more[n] = NewJob(kind, s[n], TRUE, due)
    BY <1>3
  <2> HIDE DEF more, C
  <2>3. more \in Seq(Jobs)
    BY <1>3, <2>1, SeqDef
  <2>4. Len(more) \in Nat /\ DOMAIN more = 1..Len(more)
    BY <2>3, LenProperties
  <2>5. DOMAIN more = 1..C
    BY <2>1
  <2>6. \A n \in Int : n \in 1..C <=> n \in 1..Len(more)
    BY <2>4, <2>5
  <2>7. (C >= 1 => C <= Len(more)) /\ (Len(more) >= 1 => Len(more) <= C)
    BY <1>3, <2>4, <2>6
  <2>8. Len(more) = C
    <3>1. \A n, m \in Nat : (n >= 1 => n <= m) /\ (m >= 1 => m <= n) => m = n
      OBVIOUS
    <3>2. C \in Nat /\ Len(more) \in Nat
      BY <1>3, <2>4
    <3>3. QED
      BY <2>7, <3>1, <3>2
  <2>9. QED
    BY <2>2, <2>3, <2>8
<1> HIDE DEF more, C
<1>6. /\ jobs' \in Seq(Jobs) /\ Len(jobs') = Len(jobs) + C
      /\ \A i \in 1..(Len(jobs) + C) :
            jobs'[i] = IF i <= Len(jobs) THEN jobs[i] ELSE more[i - Len(jobs)]
  <2>1. jobs' = jobs \o more
    BY <1>1 DEF more
  <2>2. jobs \in Seq(Jobs) /\ more \in Seq(Jobs) /\ Len(more) = C
    BY <1>2, <1>5
  <2>3. /\ jobs \o more \in Seq(Jobs) /\ Len(jobs \o more) = Len(jobs) + Len(more)
        /\ \A i \in 1..(Len(jobs) + Len(more)) :
              (jobs \o more)[i] = IF i <= Len(jobs) THEN jobs[i] ELSE more[i - Len(jobs)]
    BY <2>2, ConcatProperties
  <2>4. QED
    BY <2>1, <2>2, <2>3
<1>7. DOMAIN jobs' = 1..(Len(jobs) + C)
  BY <1>6, LenProperties
<1>8. \A i \in DOMAIN jobs' \ DOMAIN jobs :
         i - Len(jobs) \in 1..C /\ jobs'[i] = NewJob(kind, s[i - Len(jobs)], TRUE, due)
  <2> TAKE i \in DOMAIN jobs' \ DOMAIN jobs
  <2>1. i \in Int /\ i > Len(jobs) /\ i <= Len(jobs) + C
    BY <1>2, <1>3, <1>7
  <2>2. jobs'[i] = more[i - Len(jobs)] /\ i - Len(jobs) \in 1..C
    BY <1>2, <1>3, <1>6, <1>7, <2>1
  <2>3. QED
    BY <1>5, <2>2
<1>9. Grown
  BY <1>2, <1>3, <1>6, <1>8 DEF Grown, NewJob
<1>10. \A i \in DOMAIN jobs' \ DOMAIN jobs : jobs'[i].kind = kind /\ jobs'[i].due = due
  BY <1>8 DEF NewJob
<1>11. \A i, k \in DOMAIN jobs' \ DOMAIN jobs : jobs'[i].target = jobs'[k].target => i = k
  <2> TAKE i, k \in DOMAIN jobs' \ DOMAIN jobs
  <2>1. jobs'[i].target = s[i - Len(jobs)] /\ jobs'[k].target = s[k - Len(jobs)]
    BY <1>8 DEF NewJob
  <2>2. i \in Int /\ k \in Int
    BY <1>2, <1>3, <1>7
  <2>3. i - Len(jobs) \in 1..C /\ k - Len(jobs) \in 1..C
    BY <1>8
  <2>4. s[i - Len(jobs)] = s[k - Len(jobs)] => i - Len(jobs) = k - Len(jobs)
    BY <1>3, <2>3
  <2>5. QED
    BY <1>2, <2>1, <2>2, <2>4
<1>12. \A t \in targets : \E i \in DOMAIN jobs' \ DOMAIN jobs : jobs'[i].target = t /\ jobs'[i].linked
  <2> TAKE t \in targets
  <2>1. PICK n \in 1..C : s[n] = t
    BY <1>3
  <2>2. Len(jobs) + n \in DOMAIN jobs' \ DOMAIN jobs /\ (Len(jobs) + n) - Len(jobs) = n
    BY <1>2, <1>3, <1>7
  <2>3. jobs'[Len(jobs) + n] = NewJob(kind, t, TRUE, due)
    BY <1>8, <2>1, <2>2
  <2>4. QED
    BY <2>2, <2>3 DEF NewJob
<1>13. QED
  BY <1>9, <1>10, <1>11, <1>12

-----------------------------------------------------------------------------
(* What each step does to a job *)

(* Job i becomes one with this status and this status of its run.          *)
Rewrites(i, job, run) == \E j : Becomes(i, j) /\ j.job = job /\ j.run = run

(* A cancel leaves the run as it is. *)
LEMMA CancelStep ==
  ASSUME TypeOK, NEW i \in DOMAIN jobs, CancelJob(i)
  PROVE  Rewrites(i, "canceled", jobs[i].run) /\ jobs[i].job = "queued"
<1> DEFINE j == [jobs[i] EXCEPT !.job = "canceled"]
<1>1. jobs[i] \in Jobs
  BY Numbered
<1>2. j \in Jobs /\ Becomes(i, j) /\ j.job = "canceled" /\ j.run = jobs[i].run
  BY <1>1 DEF CancelJob, Becomes, Jobs, Active, Outcomes
<1>3. QED
  BY <1>2 DEF Rewrites, CancelJob

RunningRun(i) == IF Syncs(i) THEN "running" ELSE jobs[i].run

(* A claim starts the run. *)
LEMMA ClaimStep ==
  ASSUME TypeOK, NEW w \in Workers, NEW i \in DOMAIN jobs, Claim(w, i)
  PROVE  Rewrites(i, "running", RunningRun(i)) /\ jobs[i].job = "queued"
<1> DEFINE j == [[jobs[i] EXCEPT !.job = "running"] EXCEPT !.run = RunningRun(i)]
<1>1. jobs[i] \in Jobs
  BY Numbered
<1>2. j \in Jobs /\ j.job = "running" /\ j.run = RunningRun(i)
      /\ j.kind = jobs[i].kind /\ j.target = jobs[i].target
      /\ j.linked = jobs[i].linked /\ j.due = jobs[i].due
  BY <1>1 DEF RunningRun, Jobs, Active, Outcomes
<1>3. jobs' = [jobs EXCEPT ![i] = j]
  BY <1>1 DEF Claim, RunningRun, Jobs
<1>4. QED
  BY <1>2, <1>3 DEF Rewrites, Becomes, Claim

RecordedRun(w) == IF Syncs(worker[w].job) THEN Outcome(w) ELSE jobs[worker[w].job].run

(* Recording a result leaves the job as it is. *)
LEMMA RecordStep ==
  ASSUME TypeOK, NEW w \in Workers, worker[w] # Idle, RecordRows(w)
  PROVE  Rewrites(worker[w].job, jobs[worker[w].job].job, RecordedRun(w))
<1> DEFINE i == worker[w].job
           j == [jobs[i] EXCEPT !.run = RecordedRun(w)]
<1>1. i \in DOMAIN jobs /\ jobs[i] \in Jobs
  BY OfWorkers, Numbered
<1>2. j \in Jobs /\ j.job = jobs[i].job /\ j.run = RecordedRun(w)
      /\ j.kind = jobs[i].kind /\ j.target = jobs[i].target
      /\ j.linked = jobs[i].linked /\ j.due = jobs[i].due
  BY <1>1 DEF RecordedRun, Outcome, Jobs, Active, Outcomes
<1>3. jobs' = [jobs EXCEPT ![i] = j]
  BY <1>1 DEF RecordRows, RecordedRun, Jobs
<1>4. QED
  BY <1>2, <1>3 DEF Rewrites, Becomes

(* Finishing a job leaves the run as it is. *)
LEMMA FinishStep ==
  ASSUME TypeOK, NEW w \in Workers, Finish(w)
  PROVE  Rewrites(worker[w].job, Outcome(w), jobs[worker[w].job].run)
<1> DEFINE i == worker[w].job
           j == [jobs[i] EXCEPT !.job = Outcome(w)]
<1>1. i \in DOMAIN jobs /\ jobs[i] \in Jobs
  BY OfWorkers, Numbered DEF Finish, At
<1>2. j \in Jobs /\ j.job = Outcome(w) /\ j.job # "queued" /\ j.run = jobs[i].run
      /\ j.kind = jobs[i].kind /\ j.target = jobs[i].target
      /\ j.linked = jobs[i].linked /\ j.due = jobs[i].due
  BY <1>1 DEF Outcome, Jobs, Active, Outcomes
<1>3. jobs' = [jobs EXCEPT ![i] = j]
  BY <1>1 DEF Finish
<1>4. QED
  BY <1>2, <1>3 DEF Rewrites, Becomes

StillActive(i) == Syncs(i) /\ jobs[i].run \in Active
SweptRun(i) == IF StillActive(i) THEN "failed" ELSE jobs[i].run

(* The sweep fails a run that is still active. *)
LEMMA TimeOutStep ==
  ASSUME TypeOK, NEW i \in DOMAIN jobs, TimeOut(i)
  PROVE  Rewrites(i, "failed", SweptRun(i))
<1> DEFINE j == [[jobs[i] EXCEPT !.job = "failed"] EXCEPT !.run = SweptRun(i)]
<1>1. jobs[i] \in Jobs
  BY Numbered
<1>2. j \in Jobs /\ j.job = "failed" /\ j.run = SweptRun(i)
      /\ j.kind = jobs[i].kind /\ j.target = jobs[i].target
      /\ j.linked = jobs[i].linked /\ j.due = jobs[i].due
  BY <1>1 DEF SweptRun, Jobs, Active, Outcomes
<1>3. jobs' = [jobs EXCEPT ![i] = j]
  BY <1>1 DEF TimeOut, SweptRun, StillActive, Jobs
<1>4. QED
  BY <1>2, <1>3 DEF Rewrites, Becomes

(* A job that is rewritten is for the same as before. *)
LEMMA Rewritten ==
  ASSUME TypeOK, NEW i \in DOMAIN jobs, NEW job, NEW run, Rewrites(i, job, run)
  PROVE  /\ jobs' \in Seq(Jobs) /\ Len(jobs') = Len(jobs) /\ DOMAIN jobs' = DOMAIN jobs
         /\ \A k \in DOMAIN jobs :
               /\ jobs'[k].kind = jobs[k].kind /\ jobs'[k].target = jobs[k].target
               /\ jobs'[k].linked = jobs[k].linked /\ jobs'[k].due = jobs[k].due
               /\ jobs'[k].job = IF k = i THEN job ELSE jobs[k].job
               /\ jobs'[k].run = IF k = i THEN run ELSE jobs[k].run
         /\ job # "queued" \/ job = jobs[i].job
<1>1. PICK j : Becomes(i, j) /\ j.job = job /\ j.run = run
  BY DEF Rewrites
<1>2. /\ jobs' \in Seq(Jobs) /\ Len(jobs') = Len(jobs) /\ DOMAIN jobs' = DOMAIN jobs
      /\ \A k \in DOMAIN jobs : jobs'[k] = IF k = i THEN j ELSE jobs[k]
  BY <1>1, Stepped
<1>3. QED
  BY <1>1, <1>2 DEF Becomes

-----------------------------------------------------------------------------
(* Steps that write no job *)

Deliver(h) == \E d \in Deliveries : Receive(h, d) \/ Replay(h, d)
EditAsset(t) == CreateAsset(t) \/ ArchiveAsset(t) \/ RestoreAsset(t)
Quiet(h) ==
    \/ Deliver(h) \/ SelectAssets(h) \/ StartFails(h) \/ DropRequest(h)
    \/ \E t \in Targets : BeginUpdate(h, t)
    \/ EndUpdate(h)

AssetRows == [exists : BOOLEAN, enabled : BOOLEAN, archived : BOOLEAN,
              hooked : BOOLEAN, status : AssetStatuses]

(* Two switches of an asset are set, and nothing else. *)
LEMMA Switched ==
  ASSUME NEW row \in AssetRows, NEW enabled \in BOOLEAN, NEW flag \in BOOLEAN
  PROVE  LET hooks == [row EXCEPT !.enabled = enabled, !.hooked = flag]
             archives == [row EXCEPT !.enabled = enabled, !.archived = flag]
         IN  hooks \in AssetRows /\ archives \in AssetRows
             /\ hooks.status = row.status /\ archives.status = row.status
<1>1. [[row EXCEPT !.enabled = enabled] EXCEPT !.hooked = flag] \in AssetRows
  BY DEF AssetRows
<1>2. [[row EXCEPT !.enabled = enabled] EXCEPT !.archived = flag] \in AssetRows
  BY DEF AssetRows
<1>3. [row EXCEPT !.enabled = enabled, !.hooked = flag]
        = [[row EXCEPT !.enabled = enabled] EXCEPT !.hooked = flag]
  BY DEF AssetRows
<1>4. [row EXCEPT !.enabled = enabled, !.archived = flag]
        = [[row EXCEPT !.enabled = enabled] EXCEPT !.archived = flag]
  BY DEF AssetRows
<1>5. [row EXCEPT !.enabled = enabled, !.hooked = flag].status = row.status
  BY DEF AssetRows
<1>6. [row EXCEPT !.enabled = enabled, !.archived = flag].status = row.status
  BY DEF AssetRows
<1>7. QED
  BY <1>1, <1>2, <1>3, <1>4, <1>5, <1>6

(* Requests and edits that start nothing leave the rows of jobs, and every *)
(* status that is shown.                                                   *)
LEMMA QuietStep ==
  ASSUME TypeOK,
         Push \/ (\E t \in Targets : EditAsset(t)) \/ (\E h \in Handlers : Quiet(h))
  PROVE  /\ UNCHANGED <<mirror, latest, remote, jobs, worker>>
         /\ pushed' \in Versions /\ pushed <= pushed'
         /\ manual' \in 0..MaxManual
         /\ asset' \in [Targets -> AssetRows]
         /\ \A t \in Targets : asset'[t].status \in {"never", asset[t].status}
<1>1. CASE Push
  BY <1>1 DEF Push, TypeOK, records, Versions, AssetRows
<1>2. ASSUME NEW t \in Targets, NEW row \in AssetRows, Edit(t, row),
             row.status \in {"never", asset[t].status}
      PROVE  /\ UNCHANGED <<mirror, latest, remote, jobs, worker, pushed, manual>>
             /\ asset' \in [Targets -> AssetRows]
             /\ \A u \in Targets : asset'[u].status \in {"never", asset[u].status}
  BY <1>2 DEF Edit, Others, repository, records, TypeOK, AssetRows
<1>3. ASSUME NEW t \in Targets, EditAsset(t)
      PROVE  \E row \in AssetRows : Edit(t, row) /\ row.status \in {"never", asset[t].status}
  <2>1. asset[t] \in AssetRows
    BY DEF TypeOK, AssetRows
  <2>2. CASE CreateAsset(t)
    <3> DEFINE fresh == [[NoAsset EXCEPT !.exists = TRUE] EXCEPT !.enabled = TRUE]
    <3>1. PICK hooked \in BOOLEAN : Edit(t, [NoAsset EXCEPT !.exists = TRUE, !.enabled = TRUE, !.hooked = hooked])
      BY <2>2 DEF CreateAsset
    <3>2. NoAsset \in AssetRows /\ NoAsset.status = "never"
      BY DEF NoAsset, AssetRows, AssetStatuses
    <3>3. fresh \in AssetRows /\ fresh.status = "never"
      BY <3>2 DEF AssetRows
    <3>4. [NoAsset EXCEPT !.exists = TRUE, !.enabled = TRUE, !.hooked = hooked] = [fresh EXCEPT !.hooked = hooked]
      BY <3>2 DEF AssetRows
    <3> HIDE DEF fresh
    <3>5. [fresh EXCEPT !.hooked = hooked] \in AssetRows /\ [fresh EXCEPT !.hooked = hooked].status = "never"
      BY <3>3 DEF AssetRows
    <3>6. QED
      BY <3>1, <3>4, <3>5
  <2>3. CASE ArchiveAsset(t)
    BY <2>1, <2>3, Switched DEF ArchiveAsset
  <2>4. CASE RestoreAsset(t)
    BY <2>1, <2>4, Switched DEF RestoreAsset
  <2>5. QED
    BY <1>3, <2>2, <2>3, <2>4 DEF EditAsset
<1>4. ASSUME NEW h \in Handlers, EndUpdate(h)
      PROVE  \E t \in Targets : \E row \in AssetRows : Edit(t, row) /\ row.status \in {"never", asset[t].status}
  <2>1. request[h].target \in Targets
    BY <1>4, OfRequests DEF EndUpdate
  <2>2. asset[request[h].target] \in AssetRows
    BY <2>1 DEF TypeOK, AssetRows
  <2>3. PICK enabled \in BOOLEAN, hooked \in BOOLEAN :
           Edit(request[h].target, [asset[request[h].target] EXCEPT !.enabled = enabled, !.hooked = hooked])
    BY <1>4 DEF EndUpdate
  <2>4. LET row == [asset[request[h].target] EXCEPT !.enabled = enabled, !.hooked = hooked]
        IN  row \in AssetRows /\ row.status = asset[request[h].target].status
    BY <2>2, Switched
  <2>5. QED
    BY <2>1, <2>3, <2>4
<1>5. ASSUME NEW h \in Handlers, Quiet(h), ~EndUpdate(h)
      PROVE  UNCHANGED <<mirror, latest, remote, jobs, worker, pushed, asset>> /\ manual' \in 0..MaxManual
  <2>1. manual \in 0..MaxManual
    BY DEF TypeOK
  <2>2. CASE Deliver(h)
    BY <2>1, <2>2 DEF Deliver, Receive, Replay, Manual, Others, repository, records
  <2>3. CASE SelectAssets(h) \/ StartFails(h) \/ DropRequest(h)
    BY <2>1, <2>3 DEF SelectAssets, StartFails, DropRequest, Others, repository, records
  <2>4. CASE \E t \in Targets : BeginUpdate(h, t)
    BY <2>1, <2>4 DEF BeginUpdate, Others, repository, records
  <2>5. QED
    BY <1>5, <2>2, <2>3, <2>4 DEF Quiet
<1>6. pushed \in Versions /\ pushed <= pushed /\ manual \in 0..MaxManual /\ asset \in [Targets -> AssetRows]
  BY DEF TypeOK, Versions, AssetRows
<1>7. CASE \E t \in Targets : EditAsset(t)
  BY <1>2, <1>3, <1>6, <1>7
<1>8. CASE \E h \in Handlers : Quiet(h)
  BY <1>2, <1>4, <1>5, <1>6, <1>8
<1>9. QED
  BY <1>1, <1>7, <1>8

-----------------------------------------------------------------------------
(* Steps that enqueue *)

Asks(t) == RunAsset(t) \/ RerunAsset(t) \/ SyncRepository(t) \/ RefreshRefs(t)

(* A request that starts jobs writes nothing else, and an asset shows what *)
(* it showed or waits for a new run.                                       *)
ShownOrQueued(t) ==
    \/ asset'[t].status = asset[t].status
    \/ asset'[t].status = "queued" /\ \E i \in DOMAIN jobs' \ DOMAIN jobs :
          jobs'[i].target = t /\ jobs'[i].linked

(* The same of runs started for some of the targets. *)
LEMMA EnqueuedAssets ==
  ASSUME TypeOK, NEW kind \in {"delivery", "manual"}, NEW targets \in SUBSET Targets,
         NEW due \in Versions, due <= pushed, EnqueueRuns(kind, targets, due)
  PROVE  /\ asset' \in [Targets -> AssetRows]
         /\ \A t \in Targets : ShownOrQueued(t)
<1>1. /\ \A t \in targets : \E i \in DOMAIN jobs' \ DOMAIN jobs :
               jobs'[i].target = t /\ jobs'[i].linked
      /\ asset' = [t \in Targets |->
               IF t \in targets THEN [asset[t] EXCEPT !.status = "queued"] ELSE asset[t]]
  <2>1. \A t \in targets : \E i \in DOMAIN jobs' \ DOMAIN jobs : jobs'[i].target = t /\ jobs'[i].linked
    BY Enqueued
  <2>2. QED
    BY <2>1 DEF EnqueueRuns
<1>2. \A t \in Targets : asset[t] \in AssetRows /\ [asset[t] EXCEPT !.status = "queued"] \in AssetRows
                         /\ [asset[t] EXCEPT !.status = "queued"].status = "queued"
  BY DEF TypeOK, AssetRows, AssetStatuses, Active
<1>3. asset' \in [Targets -> AssetRows]
  BY <1>1, <1>2
<1>4. QED
  BY <1>1, <1>2, <1>3 DEF ShownOrQueued

(* A request that starts jobs writes nothing else. *)
LEMMA EnqueueStep ==
  ASSUME TypeOK, DuesAreReal,
         (\E t \in Targets : Asks(t)) \/ (\E h \in Handlers : StartRuns(h))
  PROVE  /\ Grown
         /\ UNCHANGED <<pushed, mirror, latest, remote, worker>>
         /\ manual' \in 0..MaxManual
         /\ asset' \in [Targets -> AssetRows]
         /\ \A t \in Targets : ShownOrQueued(t)
<1>1. ASSUME NEW t \in Targets, RunAsset(t) \/ RerunAsset(t)
      PROVE  EnqueueRuns("manual", {t}, pushed) /\ Manual
             /\ UNCHANGED <<pushed, mirror, latest, remote, worker>>
  BY <1>1 DEF RunAsset, RerunAsset, repository, records
<1>2. ASSUME NEW t \in Targets, SyncRepository(t) \/ RefreshRefs(t)
      PROVE  /\ \E kind \in {"manual", "refresh"}, due \in {0, pushed} :
                   jobs' = Append(jobs, NewJob(kind, t, FALSE, due))
             /\ Manual /\ UNCHANGED <<pushed, mirror, latest, remote, worker, asset>>
  BY <1>2 DEF SyncRepository, RefreshRefs, repository, records
<1>3. ASSUME NEW h \in Handlers, StartRuns(h)
      PROVE  /\ request[h].chosen \in SUBSET Targets
             /\ request[h].delivery \in Versions /\ request[h].delivery <= pushed
             /\ \E kind \in {"delivery", "manual"} :
                   EnqueueRuns(kind, request[h].chosen, request[h].delivery)
             /\ UNCHANGED <<pushed, mirror, latest, remote, worker, manual>>
  <2>1. request[h].pc = "write"
    BY <1>3 DEF StartRuns
  <2>2. request[h].chosen \in SUBSET Targets /\ request[h].delivery \in Deliveries /\ request[h].delivery <= pushed
    BY <2>1, OfRequests DEF DuesAreReal
  <2>3. EnqueueRuns("delivery", request[h].chosen, request[h].delivery)
        \/ EnqueueRuns("manual", request[h].chosen, request[h].delivery)
    BY <1>3 DEF StartRuns
  <2>4. UNCHANGED <<pushed, mirror, latest, remote, worker, manual>>
    BY <1>3 DEF StartRuns, Others, repository, records
  <2>5. QED
    BY <2>2, <2>3, <2>4 DEF Deliveries, Versions
<1>4. pushed \in Versions /\ 0 \in Versions /\ 0 <= pushed /\ pushed <= pushed
      /\ manual \in 0..MaxManual /\ asset \in [Targets -> AssetRows]
  BY DEF TypeOK, Versions, AssetRows
<1>5. Manual => manual' \in 0..MaxManual
  BY <1>4 DEF Manual
<1>6. ASSUME NEW t \in Targets, RunAsset(t) \/ RerunAsset(t)
      PROVE  Grown /\ asset' \in [Targets -> AssetRows] /\ \A u \in Targets : ShownOrQueued(u)
  <2>1. EnqueueRuns("manual", {t}, pushed) /\ {t} \in SUBSET Targets
    BY <1>1, <1>6
  <2>2. Grown
    BY <1>4, <2>1, Enqueued
  <2>3. QED
    BY <1>4, <2>1, <2>2, EnqueuedAssets
<1>7. ASSUME NEW t \in Targets, SyncRepository(t) \/ RefreshRefs(t)
      PROVE  Grown
  BY <1>2, <1>4, <1>7, Appended
<1>8. ASSUME NEW h \in Handlers, StartRuns(h)
      PROVE  Grown /\ asset' \in [Targets -> AssetRows] /\ \A u \in Targets : ShownOrQueued(u)
  <2>1. PICK kind \in {"delivery", "manual"} : EnqueueRuns(kind, request[h].chosen, request[h].delivery)
    BY <1>3, <1>8
  <2>2. request[h].chosen \in SUBSET Targets /\ request[h].delivery \in Versions /\ request[h].delivery <= pushed
    BY <1>3, <1>8
  <2>3. Grown
    BY <2>1, <2>2, Enqueued
  <2>4. QED
    BY <2>1, <2>2, <2>3, EnqueuedAssets
<1>9. CASE \E t \in Targets : RunAsset(t) \/ RerunAsset(t)
  BY <1>1, <1>5, <1>6, <1>9
<1>10. CASE \E t \in Targets : SyncRepository(t) \/ RefreshRefs(t)
  BY <1>2, <1>4, <1>5, <1>7, <1>10 DEF ShownOrQueued
<1>11. CASE \E h \in Handlers : StartRuns(h)
  BY <1>3, <1>4, <1>8, <1>11
<1>12. QED
  BY <1>9, <1>10, <1>11 DEF Asks

-----------------------------------------------------------------------------
(* Steps of the workers, of cancels and of the sweep *)

WorkerOnly(w) == Fetch(w) \/ PushTarget(w) \/ CommandFails(w) \/ Crash(w)
Records(w) == Record(w) \/ RecordThenFail(w)

(* The actions, in the groups that are treated alike. *)
LEMMA Groups ==
  ASSUME Next
  PROVE  \/ Push \/ (\E t \in Targets : EditAsset(t)) \/ (\E h \in Handlers : Quiet(h))
         \/ (\E t \in Targets : Asks(t)) \/ (\E h \in Handlers : StartRuns(h))
         \/ \E w \in Workers : \/ \E i \in DOMAIN jobs : Claim(w, i)
                               \/ WorkerOnly(w) \/ Records(w) \/ Finish(w)
         \/ \E i \in DOMAIN jobs : CancelJob(i) \/ TimeOut(i)
<1>1. ASSUME NEW t \in Targets, Operator(t)
      PROVE  EditAsset(t) \/ Asks(t)
  BY <1>1 DEF Operator, EditAsset, Asks
<1>2. ASSUME NEW h \in Handlers, Serve(h)
      PROVE  Quiet(h) \/ StartRuns(h)
  BY <1>2 DEF Serve, Quiet, Deliver
<1>3. ASSUME NEW w \in Workers, Work(w)
      PROVE  \/ \E i \in DOMAIN jobs : Claim(w, i)
             \/ WorkerOnly(w) \/ Records(w) \/ Finish(w)
  BY <1>3 DEF Work, WorkerOnly, Records
<1>4. QED
  BY <1>1, <1>2, <1>3 DEF Next

(* What is true of the jobs after any step. *)
KeepsJobs ==
    /\ jobs' \in Seq(Jobs) /\ Len(jobs') \in Nat /\ Len(jobs) <= Len(jobs')
    /\ \A k \in DOMAIN jobs :
          /\ k \in DOMAIN jobs'
          /\ jobs'[k].kind = jobs[k].kind /\ jobs'[k].target = jobs[k].target
          /\ jobs'[k].linked = jobs[k].linked /\ jobs'[k].due = jobs[k].due
          /\ jobs'[k].job # "queued" \/ jobs'[k].job = jobs[k].job

(* A job that is rewritten, and new ones, keep the others. *)
LEMMA RewrittenKeeps ==
  ASSUME TypeOK, NEW i \in DOMAIN jobs, NEW job, NEW run, Rewrites(i, job, run)
  PROVE  KeepsJobs
  BY Rewritten, Numbered DEF KeepsJobs

(* Every step keeps what a job is for. *)
LEMMA JobsKept ==
  ASSUME TypeOK, DuesAreReal, Next
  PROVE  KeepsJobs
<1>1. ASSUME UNCHANGED jobs
      PROVE  KeepsJobs
  BY <1>1, Numbered DEF KeepsJobs, TypeOK
<1>2. ASSUME Grown
      PROVE  KeepsJobs
  BY <1>2, Numbered, GrownDomain DEF KeepsJobs, Grown
<1>3. CASE Push \/ (\E t \in Targets : EditAsset(t)) \/ (\E h \in Handlers : Quiet(h))
  BY <1>1, <1>3, QuietStep
<1>4. CASE (\E t \in Targets : Asks(t)) \/ (\E h \in Handlers : StartRuns(h))
  BY <1>2, <1>4, EnqueueStep
<1>5. ASSUME NEW w \in Workers, NEW i \in DOMAIN jobs, Claim(w, i)
      PROVE  KeepsJobs
  BY <1>5, ClaimStep, RewrittenKeeps
<1>6. ASSUME NEW w \in Workers, WorkerOnly(w)
      PROVE  KeepsJobs
  BY <1>1, <1>6 DEF WorkerOnly, Fetch, PushTarget, CommandFails, Crash, AdapterStep
<1>7. ASSUME NEW w \in Workers, Records(w)
      PROVE  KeepsJobs
  <2>1. worker[w] # Idle /\ RecordRows(w)
    BY <1>7 DEF Records, Record, RecordThenFail, RecordRows, At
  <2>2. QED
    BY <2>1, RecordStep, RewrittenKeeps, OfWorkers
<1>8. ASSUME NEW w \in Workers, Finish(w)
      PROVE  KeepsJobs
  <2>1. worker[w] # Idle
    BY <1>8 DEF Finish, At
  <2>2. QED
    BY <1>8, <2>1, FinishStep, RewrittenKeeps, OfWorkers
<1>9. ASSUME NEW i \in DOMAIN jobs, CancelJob(i) \/ TimeOut(i)
      PROVE  KeepsJobs
  BY <1>9, CancelStep, TimeOutStep, RewrittenKeeps
<1>10. QED
  BY <1>3, <1>4, <1>5, <1>6, <1>7, <1>8, <1>9, Groups

-----------------------------------------------------------------------------
(* Types *)

(* The empty tables are well typed. *)
LEMMA InitTypes ==
  ASSUME Init
  PROVE  TypeOK
<1>1. 0 \in Versions /\ 0 \in 0..MaxManual
  BY DEF Versions
<1>2. NoAsset \in AssetRows
  BY DEF NoAsset, AssetRows, AssetStatuses
<1>3. jobs \in Seq(Jobs)
  BY EmptySeq DEF Init
<1>4. QED
  BY <1>1, <1>2, <1>3 DEF Init, TypeOK, AssetRows, Requests, AssetStatuses

(* Only the steps of a handler move requests and record deliveries. *)
LEMMA Requesting ==
  ASSUME Next
  PROVE  UNCHANGED <<request, seen>> \/ \E h \in Handlers : Serve(h)
<1>1. ASSUME NEW t \in Targets, Operator(t)
      PROVE  UNCHANGED <<request, seen>>
  BY <1>1 DEF Operator, RunAsset, RerunAsset, SyncRepository, RefreshRefs, CreateAsset,
              ArchiveAsset, RestoreAsset, Edit
<1>2. ASSUME NEW w \in Workers, Work(w)
      PROVE  UNCHANGED <<request, seen>>
  BY <1>2 DEF Work, Claim, Fetch, PushTarget, CommandFails, Record, RecordThenFail, RecordRows,
              Finish, Crash, AdapterStep
<1>3. ASSUME NEW i \in DOMAIN jobs, CancelJob(i) \/ TimeOut(i)
      PROVE  UNCHANGED <<request, seen>>
  BY <1>3 DEF CancelJob, TimeOut
<1>4. QED
  BY <1>1, <1>2, <1>3 DEF Next, Push

(* Requests stay well typed. *)
LEMMA RequestTypes ==
  ASSUME TypeOK, NEW h \in Handlers, Serve(h)
  PROVE  request' \in [Handlers -> Requests] /\ seen' \subseteq Deliveries
<1>1. request \in [Handlers -> Requests] /\ seen \subseteq Deliveries
  BY DEF TypeOK
<1>2. Idle \in Requests
  BY DEF Requests
<1>3. ASSUME NEW d \in Deliveries, Receive(h, d) \/ Replay(h, d)
      PROVE  request' \in [Handlers -> Requests] /\ seen' = seen
  <2>1. [pc |-> "select", delivery |-> d, replay |-> FALSE] \in Requests
        /\ [pc |-> "select", delivery |-> d, replay |-> TRUE] \in Requests
    BY DEF Requests
  <2>2. QED
    BY <1>1, <1>3, <2>1 DEF Receive, Replay, Goto
<1>4. ASSUME SelectAssets(h)
      PROVE  request' \in [Handlers -> Requests] /\ seen' = seen
  <2>1. request[h].delivery \in Deliveries /\ request[h].replay \in BOOLEAN
    BY <1>4, OfRequests DEF SelectAssets
  <2>2. [pc |-> "write", delivery |-> request[h].delivery,
         replay |-> request[h].replay, chosen |-> {t \in Targets : Listens(t)}] \in Requests
    BY <2>1 DEF Requests
  <2>3. QED
    BY <1>1, <1>4, <2>2 DEF SelectAssets, Goto
<1>5. ASSUME StartRuns(h) \/ StartFails(h)
      PROVE  request' \in [Handlers -> Requests] /\ seen' \subseteq Deliveries
  <2>1. request[h].delivery \in Deliveries
    BY <1>5, OfRequests DEF StartRuns, StartFails
  <2>2. QED
    BY <1>1, <1>2, <1>5, <2>1 DEF StartRuns, StartFails, Goto, Recorded
<1>6. ASSUME DropRequest(h) \/ EndUpdate(h)
      PROVE  request' \in [Handlers -> Requests] /\ seen' = seen
  <2>1. seen' = seen /\ Goto(h, Idle)
    BY <1>6 DEF DropRequest, EndUpdate, Edit
  <2>2. QED
    BY <1>1, <1>2, <2>1 DEF Goto
<1>7. ASSUME NEW t \in Targets, BeginUpdate(h, t)
      PROVE  request' \in [Handlers -> Requests] /\ seen' = seen
  <2>1. [pc |-> "update", target |-> t] \in Requests
    BY DEF Requests
  <2>2. QED
    BY <1>1, <1>7, <2>1 DEF BeginUpdate, Goto
<1>8. QED
  BY <1>1, <1>3, <1>4, <1>5, <1>6, <1>7 DEF Serve

(* A worker moves on, to a job that is there, or rests. *)
LEMMA WorkerTypes ==
  ASSUME TypeOK, KeepsJobs, NEW w \in Workers, NEW x \in Stages \cup {Idle},
         worker' = worker \/ worker' = [worker EXCEPT ![w] = x]
  PROVE  worker' \in [Workers -> Stages' \cup {Idle}]
<1>1. Stages \subseteq Stages'
  BY Numbered DEF Stages, KeepsJobs
<1>2. worker \in [Workers -> Stages \cup {Idle}]
  BY DEF TypeOK
<1>3. QED
  BY <1>1, <1>2

(* Where a worker goes. *)
LEMMA WorkerMoves ==
  ASSUME TypeOK, NEW w \in Workers,
         (\E i \in DOMAIN jobs : Claim(w, i)) \/ WorkerOnly(w) \/ Records(w) \/ Finish(w)
  PROVE  \E x \in Stages \cup {Idle} : worker' = [worker EXCEPT ![w] = x]
<1>2. 0 \in Versions /\ pushed \in Versions /\ mirror \in [Targets -> Versions]
  BY DEF TypeOK, Versions
<1>3. ASSUME NEW i \in DOMAIN jobs, Claim(w, i)
      PROVE  \E x \in Stages : worker' = [worker EXCEPT ![w] = x]
  <2>1. [stage |-> "fetch", job |-> i, version |-> 0, ok |-> TRUE] \in Stages
    BY <1>2, Numbered DEF Stages
  <2>2. QED
    BY <1>3, <2>1 DEF Claim
<1>4. ASSUME worker[w] # Idle, NEW stage \in {"push", "record", "finish"}, NEW v \in Versions, NEW ok \in BOOLEAN,
             Step(w, stage, v, ok)
      PROVE  \E x \in Stages : worker' = [worker EXCEPT ![w] = x]
  <2>1. [stage |-> stage, job |-> worker[w].job, version |-> v, ok |-> ok] \in Stages
    BY <1>4, OfWorkers, Numbered DEF Stages
  <2>2. QED
    BY <1>4, <2>1 DEF Step
<1>5. CASE Fetch(w)
  <2>1. worker[w] # Idle /\ worker[w].job \in DOMAIN jobs
    BY <1>5, OfWorkers DEF Fetch, At
  <2>2. jobs[worker[w].job].target \in Targets
    BY <2>1, Numbered DEF Jobs
  <2>3. QED
    BY <1>2, <1>4, <1>5, <2>1, <2>2 DEF Fetch
<1>6. CASE PushTarget(w)
  <2>1. worker[w] # Idle /\ worker[w].version \in Versions
    BY <1>6, OfWorkers DEF PushTarget, At
  <2>2. QED
    BY <1>4, <1>6, <2>1 DEF PushTarget
<1>7. CASE CommandFails(w)
  BY <1>2, <1>4, <1>7 DEF CommandFails, At
<1>8. CASE Crash(w) \/ Finish(w)
  BY <1>8 DEF Crash, Finish, Rest
<1>9. CASE Records(w)
  <2>1. worker[w] # Idle /\ worker[w].ok \in BOOLEAN
    BY <1>9, OfWorkers DEF Records, Record, RecordThenFail, RecordRows, At
  <2>2. QED
    BY <1>2, <1>4, <1>9, <2>1 DEF Records, Record, RecordThenFail
<1>10. QED
  BY <1>3, <1>5, <1>6, <1>7, <1>8, <1>9 DEF WorkerOnly

(* The status reported is shown by the asset the run reports to. *)
LEMMA Reported ==
  ASSUME TypeOK, NEW i \in DOMAIN jobs, NEW status \in Active \cup Outcomes, Report(i, status)
  PROVE  /\ asset' \in [Targets -> AssetRows]
         /\ \A t \in Targets : asset'[t].status =
               IF Syncs(i) /\ jobs[i].linked /\ t = jobs[i].target THEN status ELSE asset[t].status
<1>1. asset \in [Targets -> AssetRows] /\ jobs[i].target \in Targets
  BY Numbered DEF TypeOK, AssetRows, Jobs
<1>2. status \in AssetStatuses
  BY DEF AssetStatuses
<1>3. CASE Syncs(i) /\ jobs[i].linked
  <2>1. asset' = [asset EXCEPT ![jobs[i].target].status = status]
    BY <1>3 DEF Report
  <2>2. asset[jobs[i].target] \in AssetRows
    BY <1>1
  <2>3. [asset[jobs[i].target] EXCEPT !.status = status] \in AssetRows
        /\ [asset[jobs[i].target] EXCEPT !.status = status].status = status
    BY <1>2, <2>2 DEF AssetRows
  <2>4. asset' = [asset EXCEPT ![jobs[i].target] = [asset[jobs[i].target] EXCEPT !.status = status]]
    BY <2>1
  <2>5. QED
    BY <1>1, <1>3, <2>3, <2>4
<1>4. CASE ~(Syncs(i) /\ jobs[i].linked)
  <2>1. asset' = asset
    BY <1>4 DEF Report
  <2>2. QED
    BY <1>1, <1>4, <2>1
<1>5. QED
  BY <1>3, <1>4

Statuses == {"never", "running"} \cup Outcomes

(* What the worker, a cancel and the sweep leave in the other tables. *)
LEMMA RowTypes ==
  ASSUME TypeOK,
         \/ \E w \in Workers : \/ \E i \in DOMAIN jobs : Claim(w, i)
                               \/ WorkerOnly(w) \/ Records(w) \/ Finish(w)
         \/ \E i \in DOMAIN jobs : CancelJob(i) \/ TimeOut(i)
  PROVE  /\ pushed' = pushed /\ manual' = manual
         /\ mirror' \in [Targets -> Versions] /\ latest' \in [Targets -> Versions]
         /\ remote' \in [Targets -> Statuses] /\ asset' \in [Targets -> AssetRows]
<1>1. /\ mirror \in [Targets -> Versions] /\ latest \in [Targets -> Versions]
      /\ remote \in [Targets -> Statuses] /\ asset \in [Targets -> AssetRows]
  BY DEF TypeOK, Statuses, AssetRows
<1>2. ASSUME NEW w \in Workers, NEW i \in DOMAIN jobs, Claim(w, i)
      PROVE  /\ UNCHANGED <<pushed, manual, mirror, latest>>
             /\ remote' \in [Targets -> Statuses] /\ asset' \in [Targets -> AssetRows]
  <2>1. asset' \in [Targets -> AssetRows]
    <3>1. Report(i, "running") /\ "running" \in Active \cup Outcomes
      BY <1>2 DEF Claim, Active
    <3>2. QED
      BY <3>1, Reported
  <2>2. QED
    BY <1>1, <1>2, <2>1 DEF Claim, repository, Statuses
<1>3. ASSUME NEW w \in Workers, WorkerOnly(w)
      PROVE  UNCHANGED <<pushed, manual, latest, remote, asset>> /\ mirror' \in [Targets -> Versions]
  <2>1. CASE Fetch(w) \/ CommandFails(w) \/ Crash(w)
    BY <1>1, <2>1 DEF Fetch, CommandFails, Crash, AdapterStep, repository, records
  <2>2. CASE PushTarget(w)
    <3>1. worker[w].version \in Versions
      BY <2>2, OfWorkers DEF PushTarget, At
    <3>2. QED
      BY <1>1, <2>2, <3>1 DEF PushTarget, AdapterStep, records
  <2>3. QED
    BY <1>3, <2>1, <2>2 DEF WorkerOnly
<1>4. ASSUME NEW w \in Workers, Records(w)
      PROVE  /\ UNCHANGED <<pushed, manual, mirror>> /\ latest' \in [Targets -> Versions]
             /\ remote' \in [Targets -> Statuses] /\ asset' \in [Targets -> AssetRows]
  <2>1. RecordRows(w) /\ worker[w] # Idle
    BY <1>4 DEF Records, Record, RecordThenFail, RecordRows, At
  <2>2. worker[w].version \in Versions /\ worker[w].job \in DOMAIN jobs
    BY <2>1, OfWorkers
  <2>3. Outcome(w) \in Outcomes
    BY DEF Outcome, Outcomes
  <2>4. asset' \in [Targets -> AssetRows]
    <3>1. Report(worker[w].job, Outcome(w)) /\ Outcome(w) \in Active \cup Outcomes
      BY <2>1, <2>3 DEF RecordRows
    <3>2. QED
      BY <2>2, <3>1, Reported
  <2>5. QED
    BY <1>1, <2>1, <2>2, <2>3, <2>4 DEF RecordRows, repository, Statuses
<1>5. ASSUME NEW w \in Workers, Finish(w)
      PROVE  UNCHANGED <<pushed, manual, mirror, latest, remote, asset>>
  BY <1>5 DEF Finish, repository, records
<1>6. ASSUME NEW i \in DOMAIN jobs, CancelJob(i)
      PROVE  UNCHANGED <<pushed, manual, mirror, latest, remote, asset>>
  BY <1>6 DEF CancelJob, repository, records
<1>7. ASSUME NEW i \in DOMAIN jobs, TimeOut(i)
      PROVE  /\ UNCHANGED <<pushed, manual, mirror, latest>>
             /\ remote' \in [Targets -> Statuses] /\ asset' \in [Targets -> AssetRows]
  <2>1. asset' \in [Targets -> AssetRows]
    <3>1. Report(i, "failed") => asset' \in [Targets -> AssetRows]
      <4>1. "failed" \in Active \cup Outcomes
        BY DEF Outcomes
      <4>2. QED
        BY <4>1, Reported
    <3>2. QED
      BY <1>1, <1>7, <3>1 DEF TimeOut
  <2>2. QED
    BY <1>1, <1>7, <2>1 DEF TimeOut, repository, Statuses, Outcomes
<1>8. QED
  BY <1>1, <1>2, <1>3, <1>4, <1>5, <1>6, <1>7

(* Every step keeps the types. *)
LEMMA TypesKept ==
  ASSUME TypeOK, DuesAreReal, Next
  PROVE  TypeOK'
<1>1. KeepsJobs
  BY JobsKept
<1>2. request' \in [Handlers -> Requests] /\ seen' \subseteq Deliveries
  BY Requesting, RequestTypes DEF TypeOK
<1>3. worker' = worker => worker' \in [Workers -> Stages' \cup {Idle}]
  <2>1. Stages \subseteq Stages'
    BY <1>1, Numbered DEF Stages, KeepsJobs
  <2>2. QED
    BY <2>1 DEF TypeOK
<1>4. /\ pushed \in Versions /\ mirror \in [Targets -> Versions] /\ latest \in [Targets -> Versions]
      /\ remote \in [Targets -> Statuses] /\ asset \in [Targets -> AssetRows] /\ manual \in 0..MaxManual
  BY DEF TypeOK, Statuses, AssetRows
<1>5. /\ pushed' \in Versions /\ mirror' \in [Targets -> Versions] /\ latest' \in [Targets -> Versions]
      /\ remote' \in [Targets -> Statuses] /\ asset' \in [Targets -> AssetRows] /\ manual' \in 0..MaxManual
      /\ worker' \in [Workers -> Stages' \cup {Idle}]
  <2>1. CASE Push \/ (\E t \in Targets : EditAsset(t)) \/ (\E h \in Handlers : Quiet(h))
    BY <1>3, <1>4, <2>1, QuietStep
  <2>2. CASE (\E t \in Targets : Asks(t)) \/ (\E h \in Handlers : StartRuns(h))
    BY <1>3, <1>4, <2>2, EnqueueStep
  <2>3. CASE \E w \in Workers : \/ \E i \in DOMAIN jobs : Claim(w, i)
                                \/ WorkerOnly(w) \/ Records(w) \/ Finish(w)
    <3>1. worker' \in [Workers -> Stages' \cup {Idle}]
      BY <1>1, <2>3, WorkerMoves, WorkerTypes
    <3>2. QED
      BY <1>4, <2>3, <3>1, RowTypes
  <2>4. CASE \E i \in DOMAIN jobs : CancelJob(i) \/ TimeOut(i)
    <3>1. worker' = worker
      BY <2>4 DEF CancelJob, TimeOut
    <3>2. QED
      BY <1>3, <1>4, <2>4, <3>1, RowTypes
  <2>5. QED
    BY <2>1, <2>2, <2>3, <2>4, Groups
<1>6. QED
  BY <1>1, <1>2, <1>5 DEF TypeOK, KeepsJobs, Statuses, AssetRows

-----------------------------------------------------------------------------
(* Workers and what they carry *)

(* A worker keeps its job until it rests. *)
LEMMA SameJob ==
  ASSUME TypeOK, NEW w \in Workers, WorkerOnly(w) \/ Records(w) \/ Finish(w)
  PROVE  /\ worker[w] # Idle
         /\ worker'[w] = Idle \/ worker'[w].job = worker[w].job
         /\ \A v \in Workers : v # w => worker'[v] = worker[v]
<1>1. worker \in [Workers -> Stages \cup {Idle}]
  BY DEF TypeOK
<1>2. ASSUME NEW stage, NEW version, NEW ok, Step(w, stage, version, ok)
      PROVE  worker'[w].job = worker[w].job /\ \A v \in Workers : v # w => worker'[v] = worker[v]
  BY <1>1, <1>2 DEF Step
<1>3. CASE Fetch(w)
  BY <1>2, <1>3 DEF Fetch, At
<1>4. CASE PushTarget(w) \/ CommandFails(w)
  BY <1>2, <1>4 DEF PushTarget, CommandFails, At
<1>5. CASE Records(w)
  <2>1. worker[w] # Idle
    BY <1>5 DEF Records, Record, RecordThenFail, RecordRows, At
  <2>2. Step(w, "finish", 0, worker[w].ok) \/ Step(w, "record", 0, FALSE)
    BY <1>5 DEF Records, Record, RecordThenFail
  <2>3. QED
    BY <1>2, <2>1, <2>2
<1>6. CASE Crash(w) \/ Finish(w)
  BY <1>1, <1>6 DEF Crash, Finish, At, Rest
<1>7. QED
  BY <1>3, <1>4, <1>5, <1>6 DEF WorkerOnly

(* Steps of nobody leave the workers where they are. *)
LEMMA WorkersRest ==
  ASSUME TypeOK, DuesAreReal,
         \/ Push \/ (\E t \in Targets : EditAsset(t)) \/ (\E h \in Handlers : Quiet(h))
         \/ (\E t \in Targets : Asks(t)) \/ (\E h \in Handlers : StartRuns(h))
         \/ \E i \in DOMAIN jobs : CancelJob(i) \/ TimeOut(i)
  PROVE  worker' = worker
<1>1. CASE \E i \in DOMAIN jobs : CancelJob(i) \/ TimeOut(i)
  BY <1>1 DEF CancelJob, TimeOut
<1>2. QED
  BY <1>1, QuietStep, EnqueueStep

(* No step puts a job a worker has back in the queue. *)
LEMMA WorkersAtWorkKept ==
  ASSUME TypeOK, WorkersAtWork, DuesAreReal, Next
  PROVE  WorkersAtWork'
<1>1. KeepsJobs
  BY JobsKept
<1>2. ASSUME NEW v \in Workers, worker[v] # Idle
      PROVE  jobs'[worker[v].job].job # "queued"
  BY <1>1, <1>2, OfWorkers DEF WorkersAtWork, KeepsJobs
<1>3. ASSUME NEW w \in Workers, NEW i \in DOMAIN jobs, Claim(w, i)
      PROVE  WorkersAtWork'
  <2>1. worker'[w].job = i /\ \A v \in Workers : v # w => worker'[v] = worker[v]
    BY <1>3 DEF Claim, TypeOK
  <2>2. jobs'[i].job = "running"
    BY <1>3, ClaimStep, Rewritten
  <2>3. QED
    BY <1>2, <2>1, <2>2 DEF WorkersAtWork
<1>4. ASSUME NEW w \in Workers, WorkerOnly(w) \/ Records(w) \/ Finish(w)
      PROVE  WorkersAtWork'
  BY <1>2, <1>4, SameJob DEF WorkersAtWork
<1>5. ASSUME worker' = worker
      PROVE  WorkersAtWork'
  BY <1>2, <1>5 DEF WorkersAtWork
<1>6. QED
  BY <1>3, <1>4, <1>5, WorkersRest, Groups

(* Workers, cancels and the sweep write to jobs, and make none. *)
LEMMA SameDomain ==
  ASSUME TypeOK,
         \/ \E w \in Workers : \/ \E i \in DOMAIN jobs : Claim(w, i)
                               \/ WorkerOnly(w) \/ Records(w) \/ Finish(w)
         \/ \E i \in DOMAIN jobs : CancelJob(i) \/ TimeOut(i)
  PROVE  DOMAIN jobs' = DOMAIN jobs
<1>1. ASSUME NEW w \in Workers, NEW i \in DOMAIN jobs, Claim(w, i)
      PROVE  DOMAIN jobs' = DOMAIN jobs
  BY <1>1, ClaimStep, Rewritten
<1>2. ASSUME NEW w \in Workers, WorkerOnly(w)
      PROVE  DOMAIN jobs' = DOMAIN jobs
  BY <1>2 DEF WorkerOnly, Fetch, PushTarget, CommandFails, Crash, AdapterStep
<1>3. ASSUME NEW w \in Workers, Records(w) \/ Finish(w)
      PROVE  DOMAIN jobs' = DOMAIN jobs
  BY <1>3, SameJob, RecordStep, FinishStep, Rewritten, OfWorkers DEF Records, Record, RecordThenFail
<1>4. ASSUME NEW i \in DOMAIN jobs, CancelJob(i) \/ TimeOut(i)
      PROVE  DOMAIN jobs' = DOMAIN jobs
  BY <1>4, CancelStep, TimeOutStep, Rewritten
<1>5. QED
  BY <1>1, <1>2, <1>3, <1>4

(* Every step speaks of pushes that happened. *)
LEMMA DuesKept ==
  ASSUME TypeOK, DuesAreReal, Next
  PROVE  DuesAreReal'
<1>1. KeepsJobs /\ TypeOK'
  BY JobsKept, TypesKept
<1>2. pushed \in Int /\ pushed' \in Int /\ pushed <= pushed'
  <2>1. pushed \in Int /\ pushed' \in Int
    BY <1>1 DEF TypeOK, Versions
  <2>2. pushed <= pushed'
    BY <2>1, QuietStep, EnqueueStep, RowTypes, Groups
  <2>3. QED
    BY <2>1, <2>2
<1>3. \A d \in Deliveries : d \in Int
  BY DEF Deliveries
<1>4. ASSUME NEW h \in Handlers, Serve(h)
      PROVE  /\ \A d \in seen' : d <= pushed
             /\ \A g \in Handlers : request'[g].pc \in {"select", "write"} => request'[g].delivery <= pushed
  <2>1. request \in [Handlers -> Requests]
    BY DEF TypeOK
  <2>2. \A d \in seen : d <= pushed
    BY DEF DuesAreReal
  <2>3. \A g \in Handlers : request[g].pc \in {"select", "write"} => request[g].delivery <= pushed
    BY DEF DuesAreReal
  <2>4. CASE \E d \in Deliveries : Receive(h, d) \/ Replay(h, d)
    BY <2>1, <2>2, <2>3, <2>4 DEF Receive, Replay, Goto
  <2>5. CASE SelectAssets(h)
    BY <2>1, <2>2, <2>3, <2>5 DEF SelectAssets, Goto
  <2>6. CASE StartRuns(h) \/ StartFails(h)
    BY <2>1, <2>2, <2>3, <2>6 DEF StartRuns, StartFails, Goto, Recorded, Idle
  <2>7. CASE DropRequest(h) \/ EndUpdate(h)
    <3>1. Goto(h, Idle) /\ seen' = seen
      BY <2>7 DEF DropRequest, EndUpdate, Edit
    <3>2. QED
      BY <2>1, <2>2, <2>3, <3>1 DEF Goto, Idle
  <2>8. CASE \E t \in Targets : BeginUpdate(h, t)
    BY <2>1, <2>2, <2>3, <2>8 DEF BeginUpdate, Goto
  <2>9. QED
    BY <1>4, <2>4, <2>5, <2>6, <2>7, <2>8 DEF Serve
<1>5. /\ \A d \in seen' : d <= pushed'
      /\ \A h \in Handlers : request'[h].pc \in {"select", "write"} => request'[h].delivery <= pushed'
  <2>1. /\ \A d \in seen' : d <= pushed
        /\ \A g \in Handlers : request'[g].pc \in {"select", "write"} => request'[g].delivery <= pushed
    BY <1>4, Requesting DEF DuesAreReal
  <2>2. \A d \in seen' : d \in Int
    BY <1>1, <1>3 DEF TypeOK
  <2>3. \A g \in Handlers : request'[g].pc \in {"select", "write"} => request'[g].delivery \in Int
    BY <1>1, <1>3 DEF TypeOK, Requests, Idle
  <2>4. QED
    BY <1>2, <2>1, <2>2, <2>3
<1>6. \A i \in DOMAIN jobs' : jobs'[i].due <= pushed'
  <2>1. \A i \in DOMAIN jobs' : jobs'[i].due <= pushed
    <3>1. ASSUME NEW i \in DOMAIN jobs
          PROVE  jobs'[i].due <= pushed
      BY <1>1 DEF KeepsJobs, DuesAreReal
    <3>2. CASE Grown
      BY <3>1, <3>2 DEF Grown
    <3>3. CASE DOMAIN jobs' = DOMAIN jobs
      BY <3>1, <3>3
    <3>4. Grown \/ DOMAIN jobs' = DOMAIN jobs
      BY QuietStep, EnqueueStep, SameDomain, Groups
    <3>5. QED
      BY <3>2, <3>3, <3>4
  <2>2. \A i \in DOMAIN jobs' : jobs'[i].due \in Int
    <3>1. \A i \in DOMAIN jobs' : jobs'[i] \in Jobs
      BY <1>1, ElementOfSeq, LenProperties DEF TypeOK
    <3>2. QED
      BY <3>1 DEF Jobs, Versions
  <2>3. QED
    BY <1>2, <2>1, <2>2
<1>7. QED
  BY <1>5, <1>6 DEF DuesAreReal

-----------------------------------------------------------------------------
(* RecordsAreTrue *)

(* A target never goes back. *)
LEMMA MirrorGrows ==
  ASSUME TypeOK, DuesAreReal, Next
  PROVE  \A t \in Targets : mirror[t] \in Int /\ mirror'[t] \in Int /\ mirror[t] <= mirror'[t]
<1>1. \A t \in Targets : mirror[t] \in Int /\ mirror'[t] \in Int
  BY TypesKept DEF TypeOK, Versions
<1>2. ASSUME NEW w \in Workers, PushTarget(w)
      PROVE  \A t \in Targets : mirror[t] <= mirror'[t]
  BY <1>1, <1>2 DEF PushTarget, TypeOK
<1>3. ASSUME mirror' = mirror
      PROVE  \A t \in Targets : mirror[t] <= mirror'[t]
  BY <1>1, <1>3
<1>4. ASSUME NEW w \in Workers, (\E i \in DOMAIN jobs : Claim(w, i)) \/ Records(w) \/ Finish(w)
      PROVE  mirror' = mirror
  BY <1>4 DEF Claim, Records, Record, RecordThenFail, RecordRows, Finish, repository
<1>5. ASSUME NEW w \in Workers, Fetch(w) \/ CommandFails(w) \/ Crash(w)
      PROVE  mirror' = mirror
  BY <1>5 DEF Fetch, CommandFails, Crash, AdapterStep, repository
<1>6. ASSUME NEW i \in DOMAIN jobs, CancelJob(i) \/ TimeOut(i)
      PROVE  mirror' = mirror
  BY <1>6 DEF CancelJob, TimeOut, repository
<1>7. QED
  BY <1>1, <1>2, <1>3, <1>4, <1>5, <1>6, QuietStep, EnqueueStep, Groups DEF WorkerOnly

(* What a worker has stays good while others work. *)
LEMMA VersionStays ==
  ASSUME TypeOK, DuesAreReal, Next, NEW v \in Workers, worker[v] # Idle,
         worker'[v] = worker[v], HasVersion(v)
  PROVE  HasVersion(v)'
<1> DEFINE k == worker[v].job
<1>1. k \in DOMAIN jobs /\ worker[v].version \in Int /\ jobs[k].target \in Targets /\ jobs[k].due \in Int
  <2>1. k \in DOMAIN jobs /\ worker[v].version \in Versions
    BY OfWorkers
  <2>2. QED
    BY <2>1, Numbered DEF Jobs, Versions
<1>2. jobs'[k].kind = jobs[k].kind /\ jobs'[k].target = jobs[k].target /\ jobs'[k].due = jobs[k].due
  BY <1>1, JobsKept DEF KeepsJobs
<1>3. LET t == jobs[k].target IN mirror[t] \in Int /\ mirror'[t] \in Int /\ mirror[t] <= mirror'[t]
  BY <1>1, MirrorGrows
<1>4. QED
  BY <1>1, <1>2, <1>3 DEF HasVersion, Syncs

(* Workers keep, and get, what is as new as their job asks for. *)
LEMMA CarriedKept ==
  ASSUME TypeOK, DuesAreReal, Carried, Next
  PROVE  Carried'
<1>1. ASSUME NEW v \in Workers, worker[v] # Idle, worker'[v] = worker[v]
      PROVE  HasVersion(v)'
  BY <1>1, VersionStays DEF Carried
<1>2. ASSUME worker' = worker
      PROVE  Carried'
  BY <1>1, <1>2 DEF Carried
<1>3. ASSUME NEW w \in Workers, worker'[w] = Idle \/ HasVersion(w)',
             \A v \in Workers : v # w => worker'[v] = worker[v]
      PROVE  Carried'
  BY <1>1, <1>3 DEF Carried
<1>4. ASSUME NEW w \in Workers, NEW i \in DOMAIN jobs, Claim(w, i)
      PROVE  Carried'
  <2>1. worker'[w].stage = "fetch" /\ \A v \in Workers : v # w => worker'[v] = worker[v]
    BY <1>4 DEF Claim, TypeOK
  <2>2. QED
    BY <1>3, <2>1 DEF HasVersion
<1>5. ASSUME NEW w \in Workers, WorkerOnly(w)
      PROVE  Carried'
  <2>1. worker[w] # Idle /\ \A v \in Workers : v # w => worker'[v] = worker[v]
    BY <1>5, SameJob
  <2> DEFINE k == worker[w].job
             t == jobs[k].target
  <2>2. k \in DOMAIN jobs /\ worker[w].version \in Int /\ t \in Targets
        /\ jobs[k].due \in Int /\ jobs[k].due <= pushed /\ pushed \in Int
    <3>1. k \in DOMAIN jobs /\ worker[w].version \in Versions /\ pushed \in Versions
      BY <2>1, OfWorkers DEF TypeOK
    <3>2. QED
      BY <3>1, Numbered DEF Jobs, Versions, DuesAreReal
  <2>3. mirror \in [Targets -> Versions] /\ \A u \in Targets : mirror[u] \in Int
    BY DEF TypeOK, Versions
  <2>4. CASE Crash(w)
    <3>1. worker'[w] = Idle
      BY <2>4 DEF Crash, Rest, TypeOK
    <3>2. QED
      BY <1>3, <2>1, <3>1
  <2>5. CASE CommandFails(w)
    <3>1. worker'[w].stage = "record" /\ worker'[w].ok = FALSE
      BY <2>5 DEF CommandFails, Step, TypeOK
    <3>2. QED
      BY <1>3, <2>1, <3>1 DEF HasVersion
  <2>6. CASE Fetch(w)
    <3>1. jobs' = jobs /\ mirror' = mirror
      BY <2>6 DEF Fetch, AdapterStep
    <3>2. CASE Syncs(k)
      <4>1. worker'[w].stage = "push" /\ worker'[w].job = k /\ worker'[w].version = pushed
        BY <2>6, <3>2 DEF Fetch, Step, TypeOK
      <4>2. HasVersion(w)'
        BY <2>2, <3>1, <3>2, <4>1 DEF HasVersion, Syncs
      <4>3. QED
        BY <1>3, <2>1, <4>2
    <3>3. CASE ~Syncs(k)
      <4>1. worker'[w].stage = "record" /\ worker'[w].job = k /\ worker'[w].version = mirror[t]
        BY <2>6, <3>3 DEF Fetch, Step, TypeOK
      <4>2. HasVersion(w)'
        BY <2>2, <2>3, <3>1, <3>3, <4>1 DEF HasVersion, Syncs
      <4>3. QED
        BY <1>3, <2>1, <4>2
    <3>4. QED
      BY <3>2, <3>3
  <2>7. CASE PushTarget(w)
    <3>1. jobs' = jobs /\ mirror'[t] = worker[w].version
      BY <2>2, <2>3, <2>7 DEF PushTarget, AdapterStep
    <3>2. Syncs(k) /\ jobs[k].due <= worker[w].version
      BY <2>1, <2>7 DEF Carried, HasVersion, PushTarget, At
    <3>3. worker'[w].stage = "record" /\ worker'[w].job = k /\ worker'[w].version = worker[w].version
      BY <2>7 DEF PushTarget, Step, TypeOK
    <3>4. HasVersion(w)'
      BY <2>2, <3>1, <3>2, <3>3 DEF HasVersion, Syncs
    <3>5. QED
      BY <1>3, <2>1, <3>4
  <2>8. QED
    BY <1>5, <2>4, <2>5, <2>6, <2>7 DEF WorkerOnly
<1>6. ASSUME NEW w \in Workers, Records(w) \/ Finish(w)
      PROVE  Carried'
  <2>1. worker[w] # Idle /\ \A v \in Workers : v # w => worker'[v] = worker[v]
    BY <1>6, SameJob
  <2>2. worker'[w] = Idle \/ worker'[w].stage = "finish"
        \/ (worker'[w].stage = "record" /\ worker'[w].ok = FALSE)
    BY <1>6 DEF Records, Record, RecordThenFail, Finish, Step, Rest, TypeOK
  <2>3. QED
    BY <1>3, <2>1, <2>2 DEF HasVersion
<1>7. QED
  BY <1>2, <1>4, <1>5, <1>6, WorkersRest, Groups

(* What is recorded stays true, and only what a worker has is recorded. *)
LEMMA RecordsKept ==
  ASSUME TypeOK, DuesAreReal, Carried, RecordsAreTrue, Next
  PROVE  RecordsAreTrue'
<1>1. \A t \in Targets : mirror[t] \in Int /\ mirror'[t] \in Int /\ mirror[t] <= mirror'[t]
  BY MirrorGrows
<1>2. \A t \in Targets : latest[t] \in Int /\ latest[t] <= mirror[t]
  BY DEF TypeOK, Versions, RecordsAreTrue
<1>3. KeepsJobs
  BY JobsKept
<1>4. \A k \in DOMAIN jobs : jobs[k].due \in Int /\ jobs[k].target \in Targets
  BY Numbered DEF Jobs, Versions
<1> DEFINE Truly(k) == jobs'[k].kind # "refresh" /\ jobs'[k].run = "completed" => jobs'[k].due <= mirror'[jobs'[k].target]
<1>5. ASSUME NEW k \in DOMAIN jobs, jobs'[k].run = jobs[k].run
      PROVE  Truly(k)
  <2>1. jobs'[k].kind = jobs[k].kind /\ jobs'[k].target = jobs[k].target /\ jobs'[k].due = jobs[k].due
    BY <1>3 DEF KeepsJobs
  <2>2. jobs[k].kind # "refresh" /\ jobs[k].run = "completed" => jobs[k].due <= mirror[jobs[k].target]
    BY <1>4 DEF RecordsAreTrue, Syncs
  <2>3. QED
    BY <1>1, <1>4, <1>5, <2>1, <2>2
<1>6. ASSUME latest' = latest, \A k \in DOMAIN jobs' : Truly(k)
      PROVE  RecordsAreTrue'
  BY <1>1, <1>2, <1>6 DEF RecordsAreTrue, Syncs
<1>7. ASSUME jobs' = jobs, latest' = latest
      PROVE  RecordsAreTrue'
  BY <1>5, <1>6, <1>7
<1>8. ASSUME Grown, latest' = latest
      PROVE  RecordsAreTrue'
  BY <1>5, <1>6, <1>8 DEF Grown
<1>9. ASSUME NEW i \in DOMAIN jobs, NEW job, NEW run, Rewrites(i, job, run), latest' = latest,
             run # "completed" \/ run = jobs[i].run
      PROVE  RecordsAreTrue'
  BY <1>5, <1>6, <1>9, Rewritten
<1>10. ASSUME NEW w \in Workers, Records(w)
       PROVE  RecordsAreTrue'
  <2>1. RecordRows(w) /\ worker[w] # Idle
    BY <1>10 DEF Records, Record, RecordThenFail, RecordRows, At
  <2> DEFINE k == worker[w].job
             t == jobs[k].target
  <2>2. k \in DOMAIN jobs /\ t \in Targets
    BY <1>4, <2>1, OfWorkers
  <2>3. worker[w].ok => worker[w].version <= mirror[t] /\ (Syncs(k) => jobs[k].due <= mirror[t])
    BY <2>1 DEF Carried, HasVersion, RecordRows, At
  <2>4. mirror' = mirror
    BY <2>1 DEF RecordRows, repository
  <2>5. Rewrites(k, jobs[k].job, RecordedRun(w))
    BY <2>1, RecordStep
  <2>6. jobs'[k].run = RecordedRun(w) /\ DOMAIN jobs' = DOMAIN jobs
        /\ \A j \in DOMAIN jobs : j # k => jobs'[j].run = jobs[j].run
    BY <2>2, <2>5, Rewritten
  <2>7. jobs'[k].kind = jobs[k].kind /\ jobs'[k].target = t /\ jobs'[k].due = jobs[k].due
    BY <1>3, <2>2 DEF KeepsJobs
  <2>8. Truly(k)
    <3>1. CASE ~Syncs(k)
      BY <2>7, <3>1 DEF Syncs
    <3>2. CASE Syncs(k) /\ worker[w].ok
      BY <2>3, <2>4, <2>7, <3>2
    <3>3. CASE Syncs(k) /\ ~worker[w].ok
      BY <2>6, <3>3 DEF RecordedRun, Outcome
    <3>4. QED
      BY <3>1, <3>2, <3>3
  <2>9. \A j \in DOMAIN jobs' : Truly(j)
    BY <1>5, <2>6, <2>8
  <2>10. \A u \in Targets : latest'[u] <= mirror'[u]
    <3>1. latest' = [latest EXCEPT ![t] = IF worker[w].ok THEN worker[w].version ELSE @]
      BY <2>1 DEF RecordRows
    <3>2. QED
      BY <1>2, <2>2, <2>3, <2>4, <3>1 DEF TypeOK
  <2>11. QED
    BY <2>9, <2>10 DEF RecordsAreTrue, Syncs
<1>11. ASSUME NEW w \in Workers, NEW i \in DOMAIN jobs, Claim(w, i)
       PROVE  RecordsAreTrue'
  <2>1. Rewrites(i, "running", RunningRun(i)) /\ latest' = latest
    BY <1>11, ClaimStep DEF Claim
  <2>2. RunningRun(i) # "completed" \/ RunningRun(i) = jobs[i].run
    BY DEF RunningRun
  <2>3. QED
    BY <1>9, <2>1, <2>2
<1>12. ASSUME NEW w \in Workers, WorkerOnly(w)
       PROVE  jobs' = jobs /\ latest' = latest
  BY <1>12 DEF WorkerOnly, Fetch, PushTarget, CommandFails, Crash, AdapterStep, records
<1>13. ASSUME NEW w \in Workers, Finish(w)
       PROVE  RecordsAreTrue'
  <2>1. worker[w].job \in DOMAIN jobs
    BY <1>13, OfWorkers DEF Finish, At
  <2>2. Rewrites(worker[w].job, Outcome(w), jobs[worker[w].job].run) /\ latest' = latest
    BY <1>13, FinishStep DEF Finish, records
  <2>3. QED
    BY <1>9, <2>1, <2>2
<1>14. ASSUME NEW i \in DOMAIN jobs, CancelJob(i) \/ TimeOut(i)
       PROVE  RecordsAreTrue'
  <2>1. latest' = latest
    BY <1>14 DEF CancelJob, TimeOut, records
  <2>2. SweptRun(i) # "completed" \/ SweptRun(i) = jobs[i].run
    BY DEF SweptRun
  <2>3. QED
    BY <1>9, <1>14, <2>1, <2>2, CancelStep, TimeOutStep
<1>15. QED
  BY <1>7, <1>8, <1>10, <1>11, <1>12, <1>13, <1>14, QuietStep, EnqueueStep, Groups

-----------------------------------------------------------------------------
(* StatusesHaveARun *)

(* An asset that shows what it did, or nothing, still shows a run as long  *)
(* as linked runs keep their status.                                       *)
LEMMA StillShown ==
  ASSUME TypeOK, KeepsJobs, NEW t \in Targets, AssetShowsRun(t),
         asset'[t].status \in {"never", asset[t].status},
         \A k \in LinkedRuns(t) : jobs'[k].run = jobs[k].run
  PROVE  AssetShowsRun(t)'
<1>1. SUFFICES ASSUME asset'[t].status # "never"
               PROVE  \E k \in LinkedRuns(t)' : jobs'[k].run = asset'[t].status
  BY DEF AssetShowsRun
<1>2. PICK k \in LinkedRuns(t) : jobs[k].run = asset[t].status
  BY <1>1 DEF AssetShowsRun
<1>3. k \in LinkedRuns(t)'
  BY <1>2 DEF LinkedRuns, KeepsJobs
<1>4. QED
  BY <1>1, <1>2, <1>3

(* A run and its asset are written together. *)
LEMMA ReportedTogether ==
  ASSUME TypeOK, StatusesKept, NEW i \in DOMAIN jobs, NEW job, NEW run, Rewrites(i, job, run),
         \/ Report(i, run) /\ run \in Active \cup Outcomes /\ Syncs(i)
         \/ asset' = asset /\ (run = jobs[i].run \/ ~jobs[i].linked)
  PROVE  \A t \in Targets : AssetShowsRun(t)'
<1>1. KeepsJobs
  BY RewrittenKeeps
<1>2. \A k \in DOMAIN jobs : k # i => jobs'[k].run = jobs[k].run
  BY Rewritten
<1>3. jobs'[i].run = run
  BY Rewritten
<1> TAKE t \in Targets
<1>4. AssetShowsRun(t)
  BY DEF StatusesKept
<1>5. CASE asset' = asset /\ (run = jobs[i].run \/ ~jobs[i].linked)
  <2>1. \A k \in LinkedRuns(t) : jobs'[k].run = jobs[k].run
    BY <1>2, <1>3, <1>5 DEF LinkedRuns
  <2>2. QED
    BY <1>1, <1>4, <1>5, <2>1, StillShown
<1>6. CASE Report(i, run) /\ run \in Active \cup Outcomes /\ Syncs(i)
  <2>1. asset'[t].status = IF jobs[i].linked /\ t = jobs[i].target THEN run ELSE asset[t].status
    BY <1>6, Reported
  <2>2. CASE jobs[i].linked /\ t = jobs[i].target
    <3>1. i \in LinkedRuns(t)'
      BY <1>1, <2>2 DEF LinkedRuns, KeepsJobs
    <3>2. QED
      BY <1>3, <2>1, <2>2, <3>1 DEF AssetShowsRun
  <2>3. CASE ~(jobs[i].linked /\ t = jobs[i].target)
    <3>1. \A k \in LinkedRuns(t) : jobs'[k].run = jobs[k].run
      BY <1>2, <2>3 DEF LinkedRuns
    <3>2. QED
      BY <1>1, <1>4, <2>1, <2>3, <3>1, StillShown
  <2>4. QED
    BY <2>2, <2>3
<1>7. QED
  BY <1>5, <1>6

(* After every step an asset shows the status of one of its runs. *)
LEMMA AssetsShowRuns ==
  ASSUME TypeOK, DuesAreReal, StatusesKept, Next
  PROVE  \A t \in Targets : AssetShowsRun(t)'
<1>1. KeepsJobs
  BY JobsKept
<1>2. \A t \in Targets : AssetShowsRun(t)
  BY DEF StatusesKept
<1>3. ASSUME jobs' = jobs, \A t \in Targets : asset'[t].status \in {"never", asset[t].status}
      PROVE  \A t \in Targets : AssetShowsRun(t)'
  BY <1>1, <1>2, <1>3, StillShown
<1>4. CASE Push \/ (\E t \in Targets : EditAsset(t)) \/ (\E h \in Handlers : Quiet(h))
  BY <1>3, <1>4, QuietStep
<1>5. CASE (\E t \in Targets : Asks(t)) \/ (\E h \in Handlers : StartRuns(h))
  <2>1. Grown /\ \A t \in Targets : ShownOrQueued(t)
    BY <1>5, EnqueueStep
  <2> TAKE t \in Targets
  <2>2. CASE asset'[t].status = asset[t].status
    <3>1. \A k \in LinkedRuns(t) : jobs'[k].run = jobs[k].run
      BY <2>1 DEF Grown, LinkedRuns
    <3>2. QED
      BY <1>1, <1>2, <2>2, <3>1, StillShown
  <2>3. CASE asset'[t].status = "queued" /\ \E i \in DOMAIN jobs' \ DOMAIN jobs :
                jobs'[i].target = t /\ jobs'[i].linked
    <3>1. PICK i \in DOMAIN jobs' \ DOMAIN jobs : jobs'[i].target = t /\ jobs'[i].linked
      BY <2>3
    <3>2. i \in LinkedRuns(t)' /\ jobs'[i].run = "queued"
      BY <2>1, <3>1 DEF LinkedRuns, Grown
    <3>3. QED
      BY <2>3, <3>2 DEF AssetShowsRun
  <2>4. QED
    BY <2>1, <2>2, <2>3 DEF ShownOrQueued
<1>6. ASSUME NEW w \in Workers, NEW i \in DOMAIN jobs, Claim(w, i)
      PROVE  \A t \in Targets : AssetShowsRun(t)'
  <2>1. Rewrites(i, "running", RunningRun(i)) /\ Report(i, "running")
    BY <1>6, ClaimStep DEF Claim
  <2>2. CASE Syncs(i)
    <3>1. RunningRun(i) = "running" /\ RunningRun(i) \in Active \cup Outcomes
      BY <2>2 DEF RunningRun, Active
    <3>2. QED
      BY <2>1, <2>2, <3>1, ReportedTogether
  <2>3. CASE ~Syncs(i)
    <3>1. RunningRun(i) = jobs[i].run /\ asset' = asset
      BY <2>1, <2>3 DEF RunningRun, Report
    <3>2. QED
      BY <2>1, <3>1, ReportedTogether
  <2>4. QED
    BY <2>2, <2>3
<1>7. ASSUME NEW w \in Workers, WorkerOnly(w)
      PROVE  jobs' = jobs /\ asset' = asset
  BY <1>7 DEF WorkerOnly, Fetch, PushTarget, CommandFails, Crash, AdapterStep
<1>8. ASSUME NEW w \in Workers, Records(w)
      PROVE  \A t \in Targets : AssetShowsRun(t)'
  <2> DEFINE i == worker[w].job
  <2>1. RecordRows(w) /\ worker[w] # Idle
    BY <1>8 DEF Records, Record, RecordThenFail, RecordRows, At
  <2>2. i \in DOMAIN jobs /\ Rewrites(i, jobs[i].job, RecordedRun(w)) /\ Report(i, Outcome(w))
    BY <2>1, RecordStep, OfWorkers DEF RecordRows
  <2>3. CASE Syncs(i)
    <3>1. RecordedRun(w) = Outcome(w) /\ Outcome(w) \in Active \cup Outcomes
      BY <2>3 DEF RecordedRun, Outcome, Outcomes
    <3>2. QED
      BY <2>2, <2>3, <3>1, ReportedTogether
  <2>4. CASE ~Syncs(i)
    <3>1. RecordedRun(w) = jobs[i].run /\ asset' = asset
      BY <2>2, <2>4 DEF RecordedRun, Report
    <3>2. QED
      BY <2>2, <3>1, ReportedTogether
  <2>5. QED
    BY <2>3, <2>4
<1>9. ASSUME NEW w \in Workers, Finish(w)
      PROVE  \A t \in Targets : AssetShowsRun(t)'
  <2>1. worker[w].job \in DOMAIN jobs
    BY <1>9, OfWorkers DEF Finish, At
  <2>2. Rewrites(worker[w].job, Outcome(w), jobs[worker[w].job].run) /\ asset' = asset
    BY <1>9, FinishStep DEF Finish
  <2>3. QED
    BY <2>1, <2>2, ReportedTogether
<1>10. ASSUME NEW i \in DOMAIN jobs, CancelJob(i)
       PROVE  \A t \in Targets : AssetShowsRun(t)'
  <2>1. Rewrites(i, "canceled", jobs[i].run) /\ asset' = asset
    BY <1>10, CancelStep DEF CancelJob
  <2>2. QED
    BY <2>1, ReportedTogether
<1>11. ASSUME NEW i \in DOMAIN jobs, TimeOut(i)
       PROVE  \A t \in Targets : AssetShowsRun(t)'
  <2>1. Rewrites(i, "failed", SweptRun(i))
    BY <1>11, TimeOutStep
  <2>2. CASE StillActive(i)
    <3>1. SweptRun(i) = "failed" /\ "failed" \in Active \cup Outcomes /\ Syncs(i)
      BY <2>2 DEF SweptRun, StillActive, Outcomes
    <3>2. Report(i, "failed")
      BY <1>11, <2>2 DEF TimeOut, StillActive
    <3>3. QED
      BY <2>1, <3>1, <3>2, ReportedTogether
  <2>3. CASE ~StillActive(i)
    <3>1. SweptRun(i) = jobs[i].run /\ asset' = asset
      BY <1>11, <2>3 DEF SweptRun, TimeOut, StillActive
    <3>2. QED
      BY <2>1, <3>1, ReportedTogether
  <2>4. QED
    BY <2>2, <2>3
<1>12. QED
  BY <1>3, <1>4, <1>5, <1>6, <1>7, <1>8, <1>9, <1>10, <1>11, Groups

(* The refresh behind a target stays as long as its row is not written and *)
(* no worker has just recorded it.                                         *)
Behind(i, t) ==
    /\ i \in DOMAIN jobs /\ ~Syncs(i) /\ jobs[i].target = t
    /\ jobs[i].job \in {"running", "failed"} /\ ~Written(i)

(* It is behind the target after a step that leaves it so. *)
LEMMA StillBehind ==
  ASSUME TypeOK, KeepsJobs, NEW i, NEW t \in Targets, Behind(i, t),
         jobs'[i].job \in {"running", "failed"},
         \A w \in Workers : worker'[w] = worker[w] \/ ~At(w, "finish")' \/ worker'[w].job # i
  PROVE  Behind(i, t)'
<1>1. i \in DOMAIN jobs' /\ jobs'[i].kind = jobs[i].kind /\ jobs'[i].target = t
  BY DEF KeepsJobs, Behind
<1>2. \A w \in Workers : ~(At(w, "finish")' /\ worker'[w].job = i)
  BY DEF Behind, Written, At
<1>3. ~Written(i)'
  BY <1>2 DEF Written
<1>4. QED
  BY <1>1, <1>3 DEF Behind, Syncs

(* After every step a target shown as running has a refresh behind it. *)
LEMMA RefreshesBehind ==
  ASSUME TypeOK, WorkersAtWork, DuesAreReal, StatusesKept, Next
  PROVE  \A t \in Targets : RefreshBehind(t)'
<1>1. KeepsJobs
  BY JobsKept
<1> SUFFICES ASSUME NEW t \in Targets, remote'[t] = "running"
             PROVE  \E i : Behind(i, t)'
  BY DEF RefreshBehind, Behind
<1>2. remote[t] = "running" => \E i : Behind(i, t)
  BY DEF StatusesKept, RefreshBehind, Behind
<1>3. ASSUME remote' = remote, worker' = worker, \A i \in DOMAIN jobs : jobs'[i].job = jobs[i].job
      PROVE  \E i : Behind(i, t)'
  <2>1. PICK i : Behind(i, t)
    BY <1>2, <1>3
  <2>2. Behind(i, t)'
    BY <1>1, <1>3, <2>1, StillBehind DEF Behind
  <2>3. QED
    BY <2>2
<1>4. CASE Push \/ (\E u \in Targets : EditAsset(u)) \/ (\E h \in Handlers : Quiet(h))
  BY <1>3, <1>4, QuietStep
<1>5. CASE (\E u \in Targets : Asks(u)) \/ (\E h \in Handlers : StartRuns(h))
  BY <1>3, <1>5, EnqueueStep DEF Grown
<1>6. ASSUME NEW w \in Workers, NEW i \in DOMAIN jobs, Claim(w, i)
      PROVE  \E k : Behind(k, t)'
  <2>1. Rewrites(i, "running", RunningRun(i)) /\ jobs[i].job = "queued"
    BY <1>6, ClaimStep
  <2>2. jobs'[i].job = "running" /\ \A k \in DOMAIN jobs : k # i => jobs'[k].job = jobs[k].job
    BY <2>1, Rewritten
  <2>3. ~At(w, "finish")' /\ \A v \in Workers : v # w => worker'[v] = worker[v]
    BY <1>6 DEF Claim, At, TypeOK
  <2>4. CASE ~Syncs(i) /\ jobs[i].target = t
    <3>1. \A v \in Workers : worker[v] # Idle => worker[v].job # i
      BY <2>1 DEF WorkersAtWork
    <3>2. \A v \in Workers : ~(At(v, "finish")' /\ worker'[v].job = i)
      BY <2>3, <3>1 DEF At
    <3>3. ~Written(i)'
      BY <3>2 DEF Written
    <3>4. i \in DOMAIN jobs' /\ jobs'[i].kind = jobs[i].kind /\ jobs'[i].target = t
      BY <1>1, <2>4 DEF KeepsJobs
    <3>5. Behind(i, t)'
      BY <2>2, <2>4, <3>3, <3>4 DEF Behind, Syncs
    <3>6. QED
      BY <3>5
  <2>5. CASE ~(~Syncs(i) /\ jobs[i].target = t)
    <3>1. remote[t] = "running"
      BY <1>6, <2>5 DEF Claim, TypeOK
    <3>2. PICK k : Behind(k, t)
      BY <1>2, <3>1
    <3>3. k # i /\ jobs'[k].job \in {"running", "failed"}
      BY <2>1, <2>2, <3>2 DEF Behind
    <3>4. Behind(k, t)'
      BY <1>1, <2>3, <3>2, <3>3, StillBehind
    <3>5. QED
      BY <3>4
  <2>6. QED
    BY <2>4, <2>5
<1>7. ASSUME NEW w \in Workers, WorkerOnly(w)
      PROVE  \E k : Behind(k, t)'
  <2>1. jobs' = jobs /\ remote' = remote
    BY <1>7 DEF WorkerOnly, Fetch, PushTarget, CommandFails, Crash, AdapterStep, records
  <2>2. ~At(w, "finish")' /\ \A v \in Workers : v # w => worker'[v] = worker[v]
    BY <1>7 DEF WorkerOnly, Fetch, PushTarget, CommandFails, Crash, Step, Rest, At, TypeOK
  <2>3. PICK k : Behind(k, t)
    BY <1>2, <2>1
  <2>4. Behind(k, t)'
    BY <1>1, <2>1, <2>2, <2>3, StillBehind DEF Behind
  <2>5. QED
    BY <2>4
<1>8. ASSUME NEW w \in Workers, Records(w)
      PROVE  \E k : Behind(k, t)'
  <2> DEFINE i == worker[w].job
  <2>1. RecordRows(w) /\ worker[w] # Idle
    BY <1>8 DEF Records, Record, RecordThenFail, RecordRows, At
  <2>2. i \in DOMAIN jobs /\ Rewrites(i, jobs[i].job, RecordedRun(w)) /\ jobs[i].target \in Targets
    <3>1. i \in DOMAIN jobs
      BY <2>1, OfWorkers
    <3>2. jobs[i].target \in Targets
      BY <3>1, Numbered DEF Jobs
    <3>3. QED
      BY <2>1, <3>1, <3>2, RecordStep
  <2>3. \A k \in DOMAIN jobs : jobs'[k].job = jobs[k].job
    BY <2>2, Rewritten
  <2>4. jobs[i].target # t /\ remote[t] = "running"
    BY <2>1, <2>2 DEF RecordRows, Outcome, TypeOK
  <2>5. worker'[w].job = i /\ \A v \in Workers : v # w => worker'[v] = worker[v]
    BY <1>8 DEF Records, Record, RecordThenFail, Step, TypeOK
  <2>6. PICK k : Behind(k, t)
    BY <1>2, <2>4
  <2>7. k # i /\ jobs'[k].job \in {"running", "failed"}
    BY <2>3, <2>4, <2>6 DEF Behind
  <2>8. Behind(k, t)'
    BY <1>1, <2>5, <2>6, <2>7, StillBehind
  <2>9. QED
    BY <2>8
<1>9. ASSUME NEW w \in Workers, Finish(w)
      PROVE  \E k : Behind(k, t)'
  <2> DEFINE i == worker[w].job
  <2>1. i \in DOMAIN jobs /\ At(w, "finish") /\ remote' = remote
    BY <1>9, OfWorkers DEF Finish, At, records
  <2>2. Rewrites(i, Outcome(w), jobs[i].run)
    BY <1>9, FinishStep
  <2>3. \A k \in DOMAIN jobs : k # i => jobs'[k].job = jobs[k].job
    BY <2>1, <2>2, Rewritten
  <2>4. ~At(w, "finish")' /\ \A v \in Workers : v # w => worker'[v] = worker[v]
    BY <1>9 DEF Finish, Rest, At, TypeOK
  <2>5. PICK k : Behind(k, t)
    BY <1>2, <2>1
  <2>6. k # i
    BY <2>1, <2>5 DEF Behind, Written
  <2>7. jobs'[k].job \in {"running", "failed"}
    BY <2>3, <2>5, <2>6 DEF Behind
  <2>8. Behind(k, t)'
    BY <1>1, <2>4, <2>5, <2>7, StillBehind
  <2>9. QED
    BY <2>8
<1>10. ASSUME NEW i \in DOMAIN jobs, CancelJob(i) \/ TimeOut(i)
       PROVE  \E k : Behind(k, t)'
  <2>1. worker' = worker /\ remote[t] = "running"
    BY <1>10 DEF CancelJob, TimeOut, records, TypeOK
  <2>2. PICK k : Behind(k, t)
    BY <1>2, <2>1
  <2>3. jobs'[k].job \in {"running", "failed"}
    <3>1. CASE CancelJob(i)
      <4>1. Rewrites(i, "canceled", jobs[i].run) /\ jobs[i].job = "queued"
        BY <3>1, CancelStep
      <4>2. k # i
        BY <2>2, <4>1 DEF Behind
      <4>3. QED
        BY <2>2, <4>1, <4>2, Rewritten DEF Behind
    <3>2. CASE TimeOut(i)
      BY <2>2, <3>2, TimeOutStep, Rewritten DEF Behind
    <3>3. QED
      BY <1>10, <3>1, <3>2
  <2>4. Behind(k, t)'
    BY <1>1, <2>1, <2>2, <2>3, StillBehind
  <2>5. QED
    BY <2>4
<1>11. QED
  BY <1>4, <1>5, <1>6, <1>7, <1>8, <1>9, <1>10, Groups

-----------------------------------------------------------------------------
(* DeliveryStartsFewRuns *)

(* The runs of a delivery, and the requests that handle it, can be counted. *)
LEMMA Counted ==
  ASSUME TypeOK, NEW d, NEW t
  PROVE  /\ IsFiniteSet(RunsOf(d, t)) /\ Cardinality(RunsOf(d, t)) \in Nat
         /\ IsFiniteSet(InFlight(d)) /\ Cardinality(InFlight(d)) \in Nat
         /\ Cardinality(InFlight(d)) <= Cardinality(Handlers) /\ Cardinality(Handlers) \in Nat
<1>1. IsFiniteSet(DOMAIN jobs)
  BY Numbered, FS_Interval
<1>2. RunsOf(d, t) \subseteq DOMAIN jobs /\ InFlight(d) \subseteq Handlers
  BY DEF RunsOf, InFlight
<1>3. QED
  BY <1>1, <1>2, FS_Subset, FS_CardinalityType

Shares(d, t) ==
    /\ d \notin seen => RunsOf(d, t) = {}
    /\ Cardinality(RunsOf(d, t)) + Cardinality(InFlight(d)) <= Cardinality(Handlers)

(* A delivery that is recorded gains neither a run nor a request. *)
LEMMA NoMoreRuns ==
  ASSUME TypeOK, TypeOK', NEW d, NEW t, Shares(d, t), seen \subseteq seen',
         RunsOf(d, t)' \subseteq RunsOf(d, t),
         d \in seen => InFlight(d)' \subseteq InFlight(d)
  PROVE  Shares(d, t)'
<1>1. /\ IsFiniteSet(RunsOf(d, t)) /\ Cardinality(RunsOf(d, t)) \in Nat
      /\ IsFiniteSet(InFlight(d)) /\ Cardinality(InFlight(d)) \in Nat
      /\ Cardinality(Handlers) \in Nat
  BY Counted
<1>2. /\ Cardinality(RunsOf(d, t)') \in Nat /\ Cardinality(InFlight(d)') \in Nat
      /\ Cardinality(InFlight(d)') <= Cardinality(Handlers)
  <2>1. IsFiniteSet(RunsOf(d, t)')
    BY <1>1, FS_Subset
  <2>2. InFlight(d)' \subseteq Handlers
    BY DEF InFlight
  <2>3. QED
    BY <2>1, <2>2, FS_Subset, FS_CardinalityType
<1>3. CASE d \in seen
  <2>1. Cardinality(RunsOf(d, t)') <= Cardinality(RunsOf(d, t))
    BY <1>1, FS_Subset
  <2>2. Cardinality(InFlight(d)') <= Cardinality(InFlight(d))
    BY <1>1, <1>3, FS_Subset
  <2>3. Cardinality(RunsOf(d, t)') + Cardinality(InFlight(d)') <= Cardinality(Handlers)
    BY <1>1, <1>2, <2>1, <2>2 DEF Shares
  <2>4. QED
    BY <1>3, <2>3 DEF Shares
<1>4. CASE d \notin seen
  <2>1. RunsOf(d, t)' = {}
    BY <1>4 DEF Shares
  <2>2. Cardinality(RunsOf(d, t)') = 0
    BY <2>1, FS_EmptySet
  <2>3. Cardinality(RunsOf(d, t)') + Cardinality(InFlight(d)') <= Cardinality(Handlers)
    BY <1>1, <1>2, <2>2
  <2>4. QED
    BY <2>1, <2>3 DEF Shares
<1>5. QED
  BY <1>3, <1>4

(* A request that starts a run handles the delivery no more. *)
LEMMA OneMoreRun ==
  ASSUME TypeOK, TypeOK', NEW d, NEW t, Shares(d, t), d \in seen',
         NEW n, RunsOf(d, t)' \subseteq RunsOf(d, t) \cup {n},
         NEW h \in InFlight(d), InFlight(d)' \subseteq InFlight(d) \ {h}
  PROVE  Shares(d, t)'
<1> DEFINE runs == RunsOf(d, t)
           more == RunsOf(d, t) \cup {n}
           flying == InFlight(d)
           fewer == InFlight(d) \ {h}
<1>1. /\ IsFiniteSet(runs) /\ Cardinality(runs) \in Nat
      /\ IsFiniteSet(flying) /\ Cardinality(flying) \in Nat
      /\ Cardinality(Handlers) \in Nat
  BY Counted
<1>2. Cardinality(runs) + Cardinality(flying) <= Cardinality(Handlers)
  BY DEF Shares
<1>3. /\ IsFiniteSet(more) /\ Cardinality(more) \in Nat
      /\ Cardinality(more) <= Cardinality(runs) + 1
  <2>1. IsFiniteSet(more) /\ (Cardinality(more) = Cardinality(runs) \/ Cardinality(more) = Cardinality(runs) + 1)
    BY <1>1, FS_AddElement
  <2>2. QED
    BY <1>1, <2>1
<1>4. /\ IsFiniteSet(fewer) /\ Cardinality(fewer) \in Nat
      /\ Cardinality(fewer) = Cardinality(flying) - 1
  BY <1>1, FS_RemoveElement, FS_CardinalityType
<1>5. Cardinality(RunsOf(d, t)') \in Nat /\ Cardinality(RunsOf(d, t)') <= Cardinality(more)
  BY <1>3, FS_Subset, FS_CardinalityType
<1>6. Cardinality(InFlight(d)') \in Nat /\ Cardinality(InFlight(d)') <= Cardinality(fewer)
  BY <1>4, FS_Subset, FS_CardinalityType
<1> HIDE DEF runs, more, flying, fewer
<1>7. Cardinality(RunsOf(d, t)') + Cardinality(InFlight(d)') <= Cardinality(Handlers)
  BY <1>1, <1>2, <1>3, <1>4, <1>5, <1>6
<1>8. QED
  BY <1>7 DEF Shares

(* Jobs of other kinds are no runs of a delivery. *)
LEMMA OtherJobs ==
  ASSUME KeepsJobs, \A i \in DOMAIN jobs' \ DOMAIN jobs : jobs'[i].kind # "delivery", NEW d, NEW t
  PROVE  RunsOf(d, t)' \subseteq RunsOf(d, t)
  BY DEF RunsOf, KeepsJobs

(* The request that moves is the only one that may handle another delivery. *)
LEMMA Moving ==
  ASSUME TypeOK, NEW h \in Handlers, NEW r, Goto(h, r), NEW d
  PROVE  \A g \in InFlight(d)' :
            \/ g # h /\ g \in InFlight(d)
            \/ g = h /\ r.pc \in {"select", "write"} /\ r.delivery = d /\ ~r.replay
  BY DEF TypeOK, Goto, InFlight

(* No recorded delivery gets another request, unless a request of it moves *)
(* on.                                                                     *)
LEMMA NoMoreRequests ==
  ASSUME TypeOK, NEW h \in Handlers, Serve(h), NEW d, d \notin NoId
  PROVE  /\ seen \subseteq seen'
         /\ d \in seen => InFlight(d)' \subseteq InFlight(d)
<1>1. ASSUME NEW e \in Deliveries, Receive(h, e)
      PROVE  seen' = seen /\ (d \in seen => InFlight(d)' \subseteq InFlight(d))
  <2>1. Goto(h, [pc |-> "select", delivery |-> e, replay |-> FALSE]) /\ seen' = seen
        /\ (e \notin seen \/ e \in NoId)
    BY <1>1 DEF Receive
  <2>2. QED
    BY <2>1, Moving
<1>2. ASSUME NEW e \in Deliveries, Replay(h, e)
      PROVE  seen' = seen /\ InFlight(d)' \subseteq InFlight(d)
  <2>1. Goto(h, [pc |-> "select", delivery |-> e, replay |-> TRUE]) /\ seen' = seen
    BY <1>2 DEF Replay
  <2>2. QED
    BY <2>1, Moving
<1>3. ASSUME SelectAssets(h)
      PROVE  seen' = seen /\ InFlight(d)' \subseteq InFlight(d)
  <2>1. Goto(h, [pc |-> "write", delivery |-> request[h].delivery,
                 replay |-> request[h].replay, chosen |-> {t \in Targets : Listens(t)}])
        /\ seen' = seen /\ request[h].pc = "select"
    BY <1>3 DEF SelectAssets
  <2>2. request[h].delivery = d /\ ~request[h].replay => h \in InFlight(d)
    BY <2>1 DEF InFlight
  <2>3. QED
    BY <2>1, <2>2, Moving
<1>4. ASSUME StartRuns(h) \/ StartFails(h) \/ DropRequest(h) \/ EndUpdate(h)
      PROVE  seen \subseteq seen' /\ InFlight(d)' \subseteq InFlight(d) \ {h}
  <2>1. Goto(h, Idle) /\ seen \subseteq seen'
    BY <1>4 DEF StartRuns, StartFails, DropRequest, EndUpdate, Edit, Recorded
  <2>2. QED
    BY <2>1, Moving DEF Idle
<1>5. ASSUME NEW t \in Targets, BeginUpdate(h, t)
      PROVE  seen' = seen /\ InFlight(d)' \subseteq InFlight(d)
  <2>1. Goto(h, [pc |-> "update", target |-> t]) /\ seen' = seen
    BY <1>5 DEF BeginUpdate
  <2>2. QED
    BY <2>1, Moving
<1>6. QED
  BY <1>1, <1>2, <1>3, <1>4, <1>5 DEF Serve

(* Steps that start runs of a delivery start one for each target, and are *)
(* the last of their request.                                             *)
LEMMA StartedRuns ==
  ASSUME TypeOK, DuesAreReal, NEW h \in Handlers, StartRuns(h), ~request[h].replay,
         NEW d \in Deliveries, NEW t \in Targets
  PROVE  \/ RunsOf(d, t)' \subseteq RunsOf(d, t)
         \/ /\ d \in seen' /\ h \in InFlight(d) /\ InFlight(d)' \subseteq InFlight(d) \ {h}
            /\ \E n : RunsOf(d, t)' \subseteq RunsOf(d, t) \cup {n}
<1>1. request[h].pc = "write" /\ Goto(h, Idle) /\ seen' = seen \cup {request[h].delivery}
  BY DEF StartRuns, Recorded
<1>2. /\ EnqueueRuns("delivery", request[h].chosen, request[h].delivery)
      /\ request[h].chosen \in SUBSET Targets
      /\ request[h].delivery \in Versions /\ request[h].delivery <= pushed
  BY <1>1, OfRequests DEF StartRuns, DuesAreReal, Deliveries, Versions
<1>3. /\ \A i \in DOMAIN jobs' \ DOMAIN jobs : jobs'[i].due = request[h].delivery
      /\ \A i, k \in DOMAIN jobs' \ DOMAIN jobs : jobs'[i].target = jobs'[k].target => i = k
      /\ Grown
  BY <1>2, Enqueued
<1>4. RunsOf(d, t)' \ RunsOf(d, t) \subseteq
        {i \in DOMAIN jobs' \ DOMAIN jobs : request[h].delivery = d /\ jobs'[i].target = t}
  BY <1>3 DEF RunsOf, Grown
<1>5. CASE request[h].delivery # d
  BY <1>4, <1>5
<1>6. CASE request[h].delivery = d
  <2>1. h \in InFlight(d) /\ d \in seen'
    BY <1>1, <1>6 DEF InFlight
  <2>2. InFlight(d)' \subseteq InFlight(d) \ {h}
    BY <1>1, Moving DEF Idle
  <2>3. \A i, k \in RunsOf(d, t)' \ RunsOf(d, t) : i = k
    BY <1>3, <1>4
  <2>4. \E n : RunsOf(d, t)' \subseteq RunsOf(d, t) \cup {n}
    BY <2>3
  <2>5. QED
    BY <2>1, <2>2, <2>4
<1>7. QED
  BY <1>5, <1>6

(* No other step starts runs of a delivery. *)
LEMMA OtherRuns ==
  ASSUME TypeOK, DuesAreReal, Next,
         ~ \E h \in Handlers : StartRuns(h) /\ ~request[h].replay,
         NEW d, NEW t
  PROVE  RunsOf(d, t)' \subseteq RunsOf(d, t)
<1> DEFINE NoDeliveries == \A i \in DOMAIN jobs' \ DOMAIN jobs : jobs'[i].kind # "delivery"
<1>1. pushed \in Versions /\ 0 \in Versions /\ pushed <= pushed /\ 0 <= pushed
  BY DEF TypeOK, Versions
<1>2. ASSUME NEW u \in Targets, RunAsset(u) \/ RerunAsset(u)
      PROVE  NoDeliveries
  <2>1. EnqueueRuns("manual", {u}, pushed) /\ {u} \in SUBSET Targets
    BY <1>2 DEF RunAsset, RerunAsset
  <2>2. \A i \in DOMAIN jobs' \ DOMAIN jobs : jobs'[i].kind = "manual"
    BY <1>1, <2>1, Enqueued
  <2>3. QED
    BY <2>2
<1>3. ASSUME NEW u \in Targets, SyncRepository(u) \/ RefreshRefs(u)
      PROVE  NoDeliveries
  <2>1. jobs' = Append(jobs, NewJob("manual", u, FALSE, pushed))
        \/ jobs' = Append(jobs, NewJob("refresh", u, FALSE, 0))
    BY <1>3 DEF SyncRepository, RefreshRefs
  <2>2. QED
    BY <1>1, <2>1, Appended
<1>4. ASSUME NEW h \in Handlers, StartRuns(h)
      PROVE  NoDeliveries
  <2>1. /\ EnqueueRuns("manual", request[h].chosen, request[h].delivery)
        /\ request[h].chosen \in SUBSET Targets
        /\ request[h].delivery \in Versions /\ request[h].delivery <= pushed
    BY <1>4, OfRequests DEF StartRuns, DuesAreReal, Deliveries, Versions
  <2>2. \A i \in DOMAIN jobs' \ DOMAIN jobs : jobs'[i].kind = "manual"
    BY <2>1, Enqueued
  <2>3. QED
    BY <2>2
<1>5. CASE Push \/ (\E u \in Targets : EditAsset(u)) \/ (\E h \in Handlers : Quiet(h))
  <2>1. jobs' = jobs
    BY <1>5, QuietStep
  <2>2. QED
    BY <2>1 DEF RunsOf
<1>6. CASE \/ \E w \in Workers : \/ \E i \in DOMAIN jobs : Claim(w, i)
                                 \/ WorkerOnly(w) \/ Records(w) \/ Finish(w)
           \/ \E i \in DOMAIN jobs : CancelJob(i) \/ TimeOut(i)
  <2>1. NoDeliveries
    BY <1>6, SameDomain
  <2>2. QED
    BY <2>1, JobsKept, OtherJobs
<1>7. CASE (\E u \in Targets : Asks(u)) \/ (\E h \in Handlers : StartRuns(h))
  <2>1. NoDeliveries
    BY <1>2, <1>3, <1>4, <1>7 DEF Asks
  <2>2. QED
    BY <2>1, JobsKept, OtherJobs
<1>8. QED
  BY <1>5, <1>6, <1>7, Groups

(* The requests under way and the runs of a delivery stay within the       *)
(* number of handlers.                                                     *)
LEMMA FewRunsKept ==
  ASSUME TypeOK, DuesAreReal, FewRuns, Next
  PROVE  FewRuns'
<1>1. TypeOK'
  BY TypesKept
<1>2. SUFFICES ASSUME NEW d \in Deliveries \ NoId, NEW t \in Targets
               PROVE  Shares(d, t)'
  BY DEF FewRuns, Shares
<1>3. Shares(d, t)
  BY DEF FewRuns, Shares
<1>4. seen \subseteq seen' /\ (d \in seen => InFlight(d)' \subseteq InFlight(d))
  <2>1. CASE UNCHANGED <<request, seen>>
    BY <2>1 DEF InFlight
  <2>2. CASE \E h \in Handlers : Serve(h)
    BY <2>2, NoMoreRequests
  <2>3. QED
    BY <2>1, <2>2, Requesting
<1>5. CASE RunsOf(d, t)' \subseteq RunsOf(d, t)
  BY <1>1, <1>3, <1>4, <1>5, NoMoreRuns
<1>6. CASE ~(RunsOf(d, t)' \subseteq RunsOf(d, t))
  <2>1. PICK h \in Handlers : StartRuns(h) /\ ~request[h].replay
    BY <1>6, OtherRuns
  <2>2. /\ d \in seen' /\ h \in InFlight(d) /\ InFlight(d)' \subseteq InFlight(d) \ {h}
        /\ \E n : RunsOf(d, t)' \subseteq RunsOf(d, t) \cup {n}
    BY <1>6, <2>1, StartedRuns
  <2>3. QED
    BY <1>1, <1>3, <2>2, OneMoreRun
<1>7. QED
  BY <1>5, <1>6

-----------------------------------------------------------------------------
(* The theorems *)

(* The empty tables satisfy the invariant. *)
LEMMA InitInv ==
  ASSUME Init
  PROVE  IInv
<1>1. TypeOK
  BY InitTypes
<1>2. jobs = <<>> /\ DOMAIN jobs = {}
  BY DEF Init
<1>3. WorkersAtWork /\ Carried
  BY DEF Init, WorkersAtWork, Carried
<1>4. DuesAreReal
  BY <1>2 DEF Init, DuesAreReal, Idle
<1>5. RecordsAreTrue
  BY <1>2 DEF Init, RecordsAreTrue
<1>6. StatusesKept
  BY <1>2 DEF Init, StatusesKept, AssetShowsRun, RefreshBehind, NoAsset
<1>7. FewRuns
  <2> SUFFICES ASSUME NEW d \in Deliveries, NEW t \in Targets
               PROVE  /\ RunsOf(d, t) = {}
                      /\ Cardinality(RunsOf(d, t)) + Cardinality(InFlight(d)) <= Cardinality(Handlers)
    BY DEF FewRuns
  <2>1. RunsOf(d, t) = {}
    BY <1>2 DEF RunsOf
  <2>2. InFlight(d) = {}
    BY DEF Init, InFlight, Idle
  <2>3. Cardinality(RunsOf(d, t)) = 0 /\ Cardinality(InFlight(d)) = 0
    BY <2>1, <2>2, FS_EmptySet
  <2>4. Cardinality(Handlers) \in Nat
    BY FS_CardinalityType
  <2>5. QED
    BY <2>1, <2>3, <2>4
<1>8. QED
  BY <1>1, <1>3, <1>4, <1>5, <1>6, <1>7 DEF IInv

(* Every step keeps it. *)
LEMMA StepInv ==
  ASSUME IInv, [Next]_vars
  PROVE  IInv'
<1>1. CASE Next
  <2>1. TypeOK /\ WorkersAtWork /\ DuesAreReal /\ Carried /\ RecordsAreTrue /\ StatusesKept /\ FewRuns
    BY DEF IInv
  <2>2. TypeOK' /\ WorkersAtWork' /\ DuesAreReal'
    BY <1>1, <2>1, TypesKept, WorkersAtWorkKept, DuesKept
  <2>3. Carried' /\ RecordsAreTrue'
    BY <1>1, <2>1, CarriedKept, RecordsKept
  <2>4. StatusesKept'
    BY <1>1, <2>1, AssetsShowRuns, RefreshesBehind DEF StatusesKept
  <2>5. FewRuns'
    BY <1>1, <2>1, FewRunsKept
  <2>6. QED
    BY <2>2, <2>3, <2>4, <2>5 DEF IInv
<1>2. CASE UNCHANGED vars
  <2>1. /\ pushed' = pushed /\ mirror' = mirror /\ latest' = latest /\ remote' = remote
        /\ asset' = asset /\ jobs' = jobs /\ seen' = seen /\ request' = request
        /\ worker' = worker /\ manual' = manual
    BY <1>2 DEF vars, repository, records
  <2>2. TypeOK' /\ WorkersAtWork' /\ DuesAreReal'
    BY <2>1 DEF IInv, TypeOK, Stages, WorkersAtWork, DuesAreReal
  <2>3. Carried' /\ RecordsAreTrue'
    BY <2>1 DEF IInv, Carried, HasVersion, Syncs, RecordsAreTrue
  <2>4. StatusesKept'
    BY <2>1 DEF IInv, StatusesKept, AssetShowsRun, LinkedRuns, RefreshBehind, Syncs, Written, At
  <2>5. FewRuns'
    BY <2>1 DEF IInv, FewRuns, RunsOf, InFlight
  <2>6. QED
    BY <2>2, <2>3, <2>4, <2>5 DEF IInv
<1>3. QED
  BY <1>1, <1>2

(* The invariant holds in every reachable state.                           *)
THEOREM InvCorrect == Spec => []IInv
<1>1. Init => IInv
  BY InitInv
<1>2. IInv /\ [Next]_vars => IInv'
  BY StepInv
<1>3. QED
  BY <1>1, <1>2, PTL DEF Spec

(* The rows of runs, assets, target remotes and events, and what requests  *)
(* and workers carry, keep their types.                                    *)
THEOREM TypeCorrect == Spec => []TypeOK
<1>1. IInv => TypeOK
  BY DEF IInv
<1>2. QED
  BY <1>1, InvCorrect, PTL

(* However often a host repeats a delivery that has an id, it starts no    *)
(* more runs of an asset than the gateway serves requests at once.         *)
THEOREM DeliveryStartsFewRunsCorrect == Spec => []DeliveryStartsFewRuns
<1>1. IInv => DeliveryStartsFewRuns
  <2> SUFFICES ASSUME IInv, NEW d \in Deliveries \ NoId, NEW t \in Targets
               PROVE  Cardinality(RunsOf(d, t)) <= Cardinality(Handlers)
    BY DEF DeliveryStartsFewRuns
  <2>1. Cardinality(RunsOf(d, t)) + Cardinality(InFlight(d)) <= Cardinality(Handlers)
    BY DEF IInv, FewRuns
  <2>2. /\ Cardinality(RunsOf(d, t)) \in Nat /\ Cardinality(InFlight(d)) \in Nat
        /\ Cardinality(Handlers) \in Nat
    BY Counted DEF IInv
  <2>3. QED
    BY <2>1, <2>2
<1>2. QED
  BY <1>1, InvCorrect, PTL

(* A run recorded as completed brought the target the push it was started  *)
(* for, and the recorded SHA of a target is one the target really had.     *)
THEOREM RecordsAreTrueCorrect == Spec => []RecordsAreTrue
<1>1. IInv => RecordsAreTrue
  BY DEF IInv
<1>2. QED
  BY <1>1, InvCorrect, PTL

(* An asset shows the status of one of its runs, and a target shows        *)
(* "running" only while a refresh runs or after one that timed out.        *)
THEOREM StatusesHaveARunCorrect == Spec => []StatusesHaveARun
<1>1. IInv => StatusesHaveARun
  BY DEF IInv, StatusesKept, AssetShowsRun, RefreshBehind, StatusesHaveARun
<1>2. QED
  BY <1>1, InvCorrect, PTL
=============================================================================
