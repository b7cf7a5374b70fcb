------------------------ MODULE ConfigVersions_proof ------------------------
(***************************************************************************)
(* Theorems about ConfigVersions for any handlers, workers, operations,    *)
(* pushes and connections.                                                 *)
(*                                                                         *)
(* A branch never has a commit twice, so that what a push builds on is all *)
(* of it (Branched); what is recorded, or is about to be, is on the branch *)
(* (Landed); requests that are about to enqueue a refresh count with those *)
(* under way that nothing hides (HeadAlone, RefsCounted); and when every   *)
(* refresh completed there is a row that tells so, or a worker that will   *)
(* write it (Told).                                                        *)
(***************************************************************************)
EXTENDS ConfigVersions, SequenceTheorems, FiniteSetTheorems, WellFoundedInduction, TLAPS

USE ActorAssumption, LookBackAssumption, BoundAssumption

(* Only an operation nobody has claimed has a job that waits. *)
JobsFollow == \A i \in DOMAIN ops : ops[i].job = "queued" => ops[i].op = "queued"

(* No two workers have the same operation. *)
WorkersApart ==
    /\ \A w \in Workers : worker[w] # Idle =>
          worker[w].i \in DOMAIN ops /\ ops[worker[w].i].job # "queued"
    /\ \A v, w \in Workers : v # w /\ worker[v] # Idle /\ worker[w] # Idle =>
          worker[v].i # worker[w].i

(* The commits somebody else pushed are numbered; those of operations are of *)
(* operations that were claimed, and whose worker is past its push.          *)
Pushed == {n \in DOMAIN history : history[n] > MaxOps}
Branched ==
    /\ \A m, n \in DOMAIN history : history[m] = history[n] => m = n
    /\ \A n \in Pushed : history[n] <= MaxOps + Cardinality(Pushed)
    /\ \A n \in DOMAIN history \ Pushed :
          history[n] \in DOMAIN ops /\ ops[history[n]].job # "queued"
    /\ \A w \in Workers : worker[w].pc \in {"read", "fetch", "push"} => ~InHistory(worker[w].i)

Landed ==
    /\ RecordedShaIsInHistory
    /\ \A h \in Handlers : request[h].pc = "pin" => InHistory(request[h].sha)
    /\ \A w \in Workers : worker[w] # Idle /\ worker[w].sha # 0 => InHistory(worker[w].sha)

(* Head refreshes under way, and the request that is about to enqueue one. *)
ActiveOf(kind) == {i \in OfKinds({kind}) : ops[i].op \in Active}
Requesting(pc) == {h \in Handlers : request[h].pc = pc}
HeadAlone ==
    /\ \A i, j \in ActiveOf("head") : i = j
    /\ \A g, h \in Requesting("head") : g = h
    /\ Requesting("head") # {} => ActiveOf("head") = {}

(* A refresh of the version has one step for refs, the first. *)
OneRefs(kinds) == /\ 1 \in DOMAIN kinds /\ kinds[1] = "refs"
                  /\ \A n \in DOMAIN kinds : n # 1 => kinds[n] = "argo"

(* A refresh that enough refreshes of other things came after is out of the  *)
(* sight of requests; those that are about to enqueue another one count with *)
(* the ones that nothing hides only until then.                              *)
After(i) == {k \in OfKinds(RefreshTypes \ RefreshKinds) : i < k}
Passed(i) == Cardinality(After(i)) >= LookBack
Asking(i) == IF Passed(i) THEN {} ELSE Requesting("refresh")
RefsCounted ==
    /\ \A h \in Requesting("refresh") : OneRefs(request[h].kinds)
    /\ \A i \in ActiveOf("refs") :
          Cardinality(UnderwayBeside(i)) + Cardinality(Asking(i)) <= Cardinality(Handlers)

(* A row, or a worker that will write one, tells that all refreshes completed. *)
Right(row) == row.status = "recorded" /\ row.completed = Cardinality(Refreshes)
WillTell(w) ==
    /\ worker[w] = Idle
    /\ \/ reader[w].pc \in {"look", "count"}
       \/ reader[w].pc = "write" /\ Right(reader[w].row)
AllCompleted == Refreshes # {} /\ \A i \in Refreshes : ops[i].op = "completed"
Told ==
    AllCompleted /\ ~lost =>
        (\E r \in DOMAIN rows : Right(rows[r])) \/ (\E w \in Workers : WillTell(w))

IInv ==
    /\ TypeOK /\ JobsFollow /\ WorkersApart /\ Branched /\ Landed
    /\ HeadAlone /\ RefsCounted /\ Told


-----------------------------------------------------------------------------
(* What is of which type *)

(* What a request remembers has its type *)
LEMMA RequestTypes ==
  ASSUME NEW r \in Requests
  PROVE  /\ r.pc = "commit" => r.write \in BOOLEAN
         /\ r.pc = "refresh" => r.kinds \in Seq(RefreshKinds)
         /\ r.pc = "pin" => r.sha \in Commits
  BY DEF Requests, Idle

(* and these are what a request can be at. *)
LEMMA RequestsHave ==
  /\ Idle \in Requests /\ Idle.pc = "idle"
  /\ \A p \in {"lock", "head", "rerun"} : [pc |-> p] \in Requests
  /\ \A b \in BOOLEAN : [pc |-> "commit", write |-> b] \in Requests
  /\ \A kinds \in Seq(RefreshKinds) : [pc |-> "refresh", kinds |-> kinds] \in Requests
  /\ \A sha \in Commits : [pc |-> "pin", sha |-> sha] \in Requests
  /\ \A f \in Families : [pc |-> "review", family |-> f] \in Requests
  BY DEF Requests, Idle

(* What a worker remembers has its type *)
LEMMA StageTypes ==
  ASSUME NEW s \in Stages
  PROVE  /\ s # Idle <=> s.pc # "idle"
         /\ s # Idle => /\ s.pc \in {"read", "fetch", "push", "record", "finish"}
                        /\ s.i \in 1..MaxOps /\ s.sha \in Shas /\ s.ok \in BOOLEAN
                        /\ s = [pc |-> s.pc, i |-> s.i, sha |-> s.sha, ok |-> s.ok]
  BY DEF Stages, Idle

(* and these are what a worker can be at. *)
LEMMA StagesHave ==
  /\ Idle \in Stages
  /\ \A p \in {"read", "fetch", "push", "record", "finish"}, i \in 1..MaxOps, sha \in Shas, ok \in BOOLEAN :
        [pc |-> p, i |-> i, sha |-> sha, ok |-> ok] \in Stages
  BY DEF Stages

(* What a reader of the refreshes remembers has its type *)
LEMMA ReadingTypes ==
  ASSUME NEW d \in Readings
  PROVE  /\ d # Idle <=> d.pc # "idle"
         /\ d.pc \in {"look", "count"} => d.need \in BOOLEAN
         /\ d.pc = "count" => d.state \in {"ready", "partial", "blocked"}
         /\ d.pc = "write" => d.row \in Rows
  BY DEF Readings, Idle

(* and these are what a reader can be at. *)
LEMMA ReadingsHave ==
  /\ Idle \in Readings
  /\ \A need \in BOOLEAN : [pc |-> "look", need |-> need] \in Readings
  /\ \A need \in BOOLEAN, state \in {"ready", "partial", "blocked"} :
        [pc |-> "count", need |-> need, state |-> state] \in Readings
  /\ \A row \in Rows : [pc |-> "write", row |-> row] \in Readings
  BY DEF Readings

(* A worker's next stage is of its operation. *)
LEMMA Stepped ==
  ASSUME TypeOK, NEW w \in Workers, worker[w] # Idle,
         NEW p \in {"read", "fetch", "push", "record", "finish"}, NEW sha \in Shas,
         NEW ok \in BOOLEAN, Step(w, p, sha, ok)
  PROVE  /\ worker' \in [Workers -> Stages]
         /\ worker'[w] = [pc |-> p, i |-> worker[w].i, sha |-> sha, ok |-> ok]
         /\ worker'[w] # Idle
         /\ \A v \in Workers : v # w => worker'[v] = worker[v]
<1>1. worker \in [Workers -> Stages]
  BY DEF TypeOK
<1>2. worker[w].i \in 1..MaxOps
  BY <1>1, StageTypes
<1>3. [pc |-> p, i |-> worker[w].i, sha |-> sha, ok |-> ok] \in Stages
  BY <1>2, StagesHave
<1>4. worker' \in [Workers -> Stages]
  BY <1>1, <1>3 DEF Step
<1>5. /\ worker'[w] = [pc |-> p, i |-> worker[w].i, sha |-> sha, ok |-> ok]
      /\ \A v \in Workers : v # w => worker'[v] = worker[v]
  BY <1>1 DEF Step
<1>6. worker'[w].pc # "idle"
  BY <1>5
<1>7. worker'[w] # Idle
  BY <1>4, <1>6, StageTypes
<1>8. QED
  BY <1>4, <1>5, <1>7

-----------------------------------------------------------------------------
(* The branch *)

(* The branch is a sequence of commits, and those pushed are among its places. *)
LEMMA BranchTypes ==
  ASSUME TypeOK
  PROVE  /\ history \in Seq(Commits) /\ Len(history) \in Nat /\ DOMAIN history = 1..Len(history)
         /\ \A n \in DOMAIN history : history[n] \in Commits
         /\ \A n \in DOMAIN history : history[n] \in Nat \ {0}
         /\ Pushed \subseteq 1..Len(history) /\ IsFiniteSet(Pushed) /\ Cardinality(Pushed) \in Nat
<1>1. history \in Seq(Commits)
  BY DEF TypeOK
<1>2. Len(history) \in Nat /\ DOMAIN history = 1..Len(history)
  BY <1>1, LenProperties
<1>3. \A n \in DOMAIN history : history[n] \in Commits
  BY <1>1, <1>2, ElementOfSeq
<1>4. \A n \in DOMAIN history : history[n] \in Nat \ {0}
  BY <1>3 DEF Commits
<1>5. IsFiniteSet(1..Len(history))
  BY <1>2, FS_Interval
<1>6. Pushed \subseteq 1..Len(history)
  BY <1>2 DEF Pushed
<1>7. IsFiniteSet(Pushed) /\ Cardinality(Pushed) \in Nat
  BY <1>5, <1>6, FS_Subset, FS_CardinalityType
<1>8. QED
  BY <1>1, <1>2, <1>3, <1>4, <1>6, <1>7

(* What is on the branch after one more commit. *)
LEMMA OneMore ==
  ASSUME TypeOK, NEW c \in Commits, history' = Append(history, c)
  PROVE  /\ history' \in Seq(Commits) /\ Len(history) + 1 \notin DOMAIN history
         /\ DOMAIN history' = DOMAIN history \cup {Len(history) + 1}
         /\ \A n \in DOMAIN history : history'[n] = history[n]
         /\ history'[Len(history) + 1] = c
         /\ \A x : InHistory(x)' <=> InHistory(x) \/ x = c
<1>1. history \in Seq(Commits) /\ Len(history) \in Nat /\ DOMAIN history = 1..Len(history)
  BY BranchTypes
<1>2. /\ history' \in Seq(Commits) /\ Len(history') = Len(history) + 1
      /\ \A n \in 1..Len(history) : history'[n] = history[n]
      /\ history'[Len(history) + 1] = c
  BY <1>1, AppendProperties
<1>3. DOMAIN history' = 1..(Len(history) + 1)
  BY <1>2, LenProperties
<1>4. DOMAIN history' = DOMAIN history \cup {Len(history) + 1} /\ Len(history) + 1 \notin DOMAIN history
  BY <1>1, <1>3
<1>5. \A n \in DOMAIN history : history'[n] = history[n]
  BY <1>1, <1>2
<1>6. \A x : InHistory(x)' <=> InHistory(x) \/ x = c
  BY <1>2, <1>4, <1>5 DEF InHistory
<1>7. QED
  BY <1>2, <1>4, <1>5, <1>6

(* A push that is accepted builds on all of the branch. *)
LEMMA UpToTip ==
  ASSUME TypeOK, Branched
  PROVE  UpTo(Tip) = history
<1>1. history \in Seq(Commits) /\ Len(history) \in Nat /\ DOMAIN history = 1..Len(history)
      /\ \A n \in DOMAIN history : history[n] \in Nat \ {0}
  BY BranchTypes
<1>2. CASE history = <<>>
  <2>1. Tip = 0 /\ Len(history) = 0
    BY <1>2 DEF Tip
  <2>2. ~InHistory(Tip)
    BY <1>1, <2>1 DEF InHistory
  <2>3. QED
    BY <1>2, <2>2 DEF UpTo
<1>3. CASE history # <<>>
  <2>1. Len(history) \in DOMAIN history /\ Tip = history[Len(history)]
    BY <1>1, <1>3, EmptySeq DEF Tip
  <2>2. InHistory(Tip)
    BY <2>1 DEF InHistory
  <2>3. \A n \in DOMAIN history : history[n] = Tip => n = Len(history)
    BY <2>1 DEF Branched
  <2>4. (CHOOSE n \in DOMAIN history : history[n] = Tip) = Len(history)
    BY <2>1, <2>3
  <2>5. UpTo(Tip) = SubSeq(history, 1, Len(history))
    BY <2>2, <2>4 DEF UpTo
  <2>6. QED
    BY <1>1, <2>5, SubSeqFull
<1>4. QED
  BY <1>2, <1>3

(* The newest commit is on the branch. *)
LEMMA TipIsThere ==
  ASSUME TypeOK
  PROVE  Tip \in Shas /\ (Tip # 0 => InHistory(Tip))
<1>1. history \in Seq(Commits) /\ Len(history) \in Nat /\ DOMAIN history = 1..Len(history)
      /\ \A n \in DOMAIN history : history[n] \in Commits
  BY BranchTypes
<1>2. history # <<>> => Len(history) \in DOMAIN history
  BY <1>1, EmptySeq
<1>3. QED
  BY <1>1, <1>2 DEF Tip, Shas, InHistory

-----------------------------------------------------------------------------
(* The operations *)

(* The operations are a sequence of well-typed ones, within their bound. *)
LEMMA OpTypes ==
  ASSUME TypeOK
  PROVE  /\ ops \in Seq(Ops) /\ Len(ops) \in Nat /\ DOMAIN ops = 1..Len(ops) /\ Len(ops) <= MaxOps
         /\ DOMAIN ops \subseteq 1..MaxOps
         /\ \A i \in DOMAIN ops :
               /\ ops[i] \in Ops
               /\ ops[i].kind \in Kinds /\ ops[i].write \in BOOLEAN
               /\ ops[i].op \in Statuses /\ ops[i].job \in Statuses
               /\ ops[i] = [kind |-> ops[i].kind, write |-> ops[i].write,
                            op |-> ops[i].op, job |-> ops[i].job]
         /\ IsFiniteSet(DOMAIN ops)
<1>1. ops \in Seq(Ops) /\ Len(ops) <= MaxOps
  BY DEF TypeOK
<1>2. Len(ops) \in Nat /\ DOMAIN ops = 1..Len(ops)
  BY <1>1, LenProperties
<1>3. \A i \in DOMAIN ops : ops[i] \in Ops
  BY <1>1, <1>2, ElementOfSeq
<1>4. IsFiniteSet(DOMAIN ops)
  BY <1>2, FS_Interval
<1>5. \A i \in DOMAIN ops :
         /\ ops[i].kind \in Kinds /\ ops[i].write \in BOOLEAN
         /\ ops[i].op \in Statuses /\ ops[i].job \in Statuses
         /\ ops[i] = [kind |-> ops[i].kind, write |-> ops[i].write,
                      op |-> ops[i].op, job |-> ops[i].job]
  BY <1>3 DEF Ops
<1>6. DOMAIN ops \subseteq 1..MaxOps
  BY <1>1, <1>2
<1>7. QED
  BY <1>1, <1>2, <1>3, <1>4, <1>5, <1>6

New(kind, write) == [kind |-> kind, write |-> write, op |-> "queued", job |-> "queued"]

(* An operation more. *)
LEMMA Enqueued ==
  ASSUME TypeOK, NEW kind \in Kinds, NEW write \in BOOLEAN, Enqueue(kind, write)
  PROVE  /\ ops' \in Seq(Ops) /\ Len(ops') <= MaxOps
         /\ DOMAIN ops' = DOMAIN ops \cup {Len(ops) + 1} /\ Len(ops) + 1 \notin DOMAIN ops
         /\ \A i \in DOMAIN ops : ops'[i] = ops[i]
         /\ ops'[Len(ops) + 1] = New(kind, write)
<1>1. ops \in Seq(Ops) /\ Len(ops) \in Nat /\ DOMAIN ops = 1..Len(ops) /\ Len(ops) <= MaxOps
  BY OpTypes
<1>2. New(kind, write) \in Ops
  BY DEF New, Ops, Statuses, Active
<1>3. ops' = Append(ops, New(kind, write)) /\ Len(ops) < MaxOps
  BY DEF Enqueue, New
<1>4. /\ ops' \in Seq(Ops) /\ Len(ops') = Len(ops) + 1
      /\ \A i \in 1..Len(ops) : ops'[i] = ops[i]
      /\ ops'[Len(ops) + 1] = New(kind, write)
  BY <1>1, <1>2, <1>3, AppendProperties
<1>5. DOMAIN ops' = 1..(Len(ops) + 1)
  BY <1>4, LenProperties
<1>6. DOMAIN ops' = DOMAIN ops \cup {Len(ops) + 1} /\ Len(ops) + 1 \notin DOMAIN ops
  BY <1>1, <1>5
<1>7. Len(ops') <= MaxOps
  BY <1>1, <1>3, <1>4
<1>8. QED
  BY <1>1, <1>4, <1>6, <1>7

(* An operation and its job get other statuses. *)
Mark(i, o, b) == ops' = [ops EXCEPT ![i].op = o, ![i].job = b]

(* A worker that marks its operation leaves the others as they were. *)
LEMMA Marked ==
  ASSUME TypeOK, NEW i \in DOMAIN ops, NEW o \in Statuses, NEW b \in Statuses, Mark(i, o, b)
  PROVE  /\ ops' \in Seq(Ops) /\ Len(ops') = Len(ops) /\ DOMAIN ops' = DOMAIN ops
         /\ \A j \in DOMAIN ops : j # i => ops'[j] = ops[j]
         /\ \A j \in DOMAIN ops : ops'[j].kind = ops[j].kind
         /\ ops'[i].op = o /\ ops'[i].job = b
<1>1. /\ ops \in Seq(Ops) /\ Len(ops) \in Nat /\ DOMAIN ops = 1..Len(ops)
      /\ ops[i] \in Ops
  BY OpTypes
<1>2. ops \in [1..Len(ops) -> Ops]
  BY <1>1, LenProperties
<1>3. DOMAIN ops' = DOMAIN ops
  BY DEF Mark
<1>4. \A j \in DOMAIN ops : j # i => ops'[j] = ops[j]
  BY <1>2 DEF Mark
<1>5. ops'[i] = [ops[i] EXCEPT !.op = o, !.job = b]
  BY <1>2 DEF Mark
<1>6. ops'[i] = [kind |-> ops[i].kind, write |-> ops[i].write, op |-> o, job |-> b]
  BY <1>1, <1>5 DEF Ops
<1>7. ops'[i] \in Ops
  BY <1>1, <1>6 DEF Ops
<1>8. ops' = [ops EXCEPT ![i] = ops'[i]]
  BY <1>2 DEF Mark
<1>9. ops' \in Seq(Ops) /\ Len(ops') = Len(ops)
  BY <1>1, <1>7, <1>8, ExceptSeq
<1>10. ops'[i].kind = ops[i].kind /\ ops'[i].op = o /\ ops'[i].job = b
  BY ONLY <1>6
<1>11. \A j \in DOMAIN ops : ops'[j].kind = ops[j].kind
  BY ONLY <1>4, <1>10
<1>12. QED
  BY ONLY <1>3, <1>4, <1>9, <1>10, <1>11

(* What every step does with the operations that are there. *)
OpsKept ==
    /\ DOMAIN ops \subseteq DOMAIN ops'
    /\ \A i \in DOMAIN ops :
          /\ ops'[i].kind = ops[i].kind
          /\ ops'[i].job = "queued" => ops[i].job = "queued"
          /\ ops'[i].op \in Active => ops[i].op \in Active
OpsTyped == ops' \in Seq(Ops) /\ Len(ops') <= MaxOps
NoneNew(kinds) == \A i \in DOMAIN ops' \ DOMAIN ops : ops'[i].kind \notin kinds

(* Nothing makes all refreshes completed that were not. *)
RefreshesKept == AllCompleted' => AllCompleted /\ Refreshes' = Refreshes

(* The result of the refreshes is "recorded" if all of them completed. *)
LEMMA RecordedMeans ==
  ASSUME TypeOK
  PROVE  StatusOf(Refreshes) = "recorded" <=> AllCompleted
<1>1. \A i \in Refreshes : ops[i].op \in Statuses
  BY OpTypes DEF Refreshes, OfKinds
<1>2. /\ Some(Refreshes, Active) <=> \E i \in Refreshes : ops[i].op \in Active
      /\ Some(Refreshes, {"failed"}) <=> \E i \in Refreshes : ops[i].op = "failed"
      /\ Some(Refreshes, {"canceled"}) <=> \E i \in Refreshes : ops[i].op = "canceled"
      /\ Some(Refreshes, Active \cup {"failed"}) <=>
            Some(Refreshes, Active) \/ Some(Refreshes, {"failed"})
  BY DEF Some
<1>3. StatusOf(Refreshes) = "recorded" <=>
         Refreshes # {} /\ ~Some(Refreshes, Active) /\ ~Some(Refreshes, {"failed"})
                        /\ ~Some(Refreshes, {"canceled"})
  BY <1>2 DEF StatusOf
<1>4. QED
  BY <1>1, <1>2, <1>3 DEF Statuses, Active, AllCompleted

(* An operation that is enqueued waits, and the others stay. *)
LEMMA EnqueuedKeeps ==
  ASSUME TypeOK, JobsFollow, NEW kind \in Kinds, NEW write \in BOOLEAN, Enqueue(kind, write)
  PROVE  /\ OpsKept /\ OpsTyped /\ JobsFollow' /\ RefreshesKept
         /\ \A kinds : kind \notin kinds => NoneNew(kinds)
<1>1. /\ DOMAIN ops' = DOMAIN ops \cup {Len(ops) + 1} /\ Len(ops) + 1 \notin DOMAIN ops
      /\ \A i \in DOMAIN ops : ops'[i] = ops[i]
      /\ ops'[Len(ops) + 1] = New(kind, write)
  BY Enqueued
<1>2. OpsTyped
  BY Enqueued DEF OpsTyped
<1>3. /\ ops'[Len(ops) + 1].kind = kind
      /\ ops'[Len(ops) + 1].op = "queued" /\ ops'[Len(ops) + 1].job = "queued"
  BY <1>1 DEF New
<1>4. OpsKept
  BY <1>1 DEF OpsKept
<1>5. JobsFollow'
  BY <1>1, <1>3 DEF JobsFollow
<1>6. \A kinds : kind \notin kinds => NoneNew(kinds)
  BY <1>1, <1>3 DEF NoneNew
<1>7. RefreshesKept
  <2>1. CASE kind \in RefreshKinds
    <3>1. Len(ops) + 1 \in Refreshes' /\ ops'[Len(ops) + 1].op # "completed"
      BY <1>1, <1>3, <2>1 DEF Refreshes, OfKinds
    <3>2. QED
      BY <3>1 DEF RefreshesKept, AllCompleted
  <2>2. CASE kind \notin RefreshKinds
    <3>1. Refreshes' = Refreshes /\ \A i \in Refreshes : ops'[i] = ops[i]
      BY <1>1, <1>3, <2>2 DEF Refreshes, OfKinds
    <3>2. QED
      BY <3>1 DEF RefreshesKept, AllCompleted
  <2>3. QED
    BY <2>1, <2>2
<1>8. QED
  BY <1>2, <1>4, <1>5, <1>6, <1>7

(* Marking an operation keeps what the invariant says of operations. *)
LEMMA MarkedKeeps ==
  ASSUME TypeOK, JobsFollow, NEW i \in DOMAIN ops, NEW o \in Statuses, NEW b \in Statuses,
         Mark(i, o, b), b # "queued", o \in Active => ops[i].op \in Active
  PROVE  /\ OpsKept /\ OpsTyped /\ JobsFollow'
         /\ \A kinds : NoneNew(kinds)
         /\ o # "completed" \/ ops[i].kind \notin RefreshKinds => RefreshesKept
<1>1. /\ ops' \in Seq(Ops) /\ Len(ops') = Len(ops) /\ DOMAIN ops' = DOMAIN ops
      /\ \A j \in DOMAIN ops : j # i => ops'[j] = ops[j]
      /\ \A j \in DOMAIN ops : ops'[j].kind = ops[j].kind
      /\ ops'[i].op = o /\ ops'[i].job = b
  BY Marked
<1>2. OpsTyped
  BY <1>1, OpTypes DEF OpsTyped
<1>3. OpsKept
  <2>1. /\ ops'[i].job = "queued" => ops[i].job = "queued"
        /\ ops'[i].op \in Active => ops[i].op \in Active
    BY <1>1
  <2>2. QED
    BY <1>1, <2>1 DEF OpsKept
<1>4. JobsFollow'
  BY <1>1 DEF JobsFollow
<1>5. \A kinds : NoneNew(kinds)
  BY <1>1 DEF NoneNew
<1>6. Refreshes' = Refreshes
  BY <1>1 DEF Refreshes, OfKinds
<1>7. ASSUME i \notin Refreshes PROVE RefreshesKept
  <2>1. \A j \in Refreshes : ops'[j] = ops[j]
    BY <1>1, <1>7 DEF Refreshes, OfKinds
  <2>2. AllCompleted' => AllCompleted
    BY ONLY <1>6, <2>1 DEF AllCompleted
  <2>3. QED
    BY ONLY <1>6, <2>2 DEF RefreshesKept
<1>8. ASSUME i \in Refreshes /\ o # "completed" PROVE RefreshesKept
  <2>1. i \in Refreshes' /\ ops'[i].op # "completed"
    BY ONLY <1>1, <1>6, <1>8
  <2>2. ~AllCompleted'
    BY ONLY <2>1 DEF AllCompleted
  <2>3. QED
    BY ONLY <2>2 DEF RefreshesKept
<1>9. ops[i].kind \notin RefreshKinds => i \notin Refreshes
  BY DEF Refreshes, OfKinds
<1>10. QED
  BY <1>2, <1>3, <1>4, <1>5, <1>7, <1>8, <1>9

(* What depends on the operations alone stays when they do. *)
LEMMA SameOps ==
  ASSUME TypeOK, JobsFollow, UNCHANGED ops
  PROVE  /\ OpsKept /\ OpsTyped /\ JobsFollow' /\ RefreshesKept
         /\ \A kinds : NoneNew(kinds)
<1>1. OpsTyped
  BY OpTypes DEF OpsTyped
<1>2. QED
  BY <1>1 DEF OpsKept, JobsFollow, RefreshesKept, AllCompleted, Refreshes, OfKinds, NoneNew

(* The refresh steps of a version appear together, the one for refs first. *)
LEMMA EnqueuedRefresh ==
  ASSUME TypeOK, JobsFollow, NEW h \in Handlers, request[h].pc = "refresh",
         OneRefs(request[h].kinds), EnqueueRefresh(h)
  PROVE  /\ OpsKept /\ OpsTyped /\ JobsFollow' /\ RefreshesKept
         /\ NoneNew({"head"}) /\ NoneNew(RefreshTypes \ RefreshKinds)
         /\ Len(ops) + 1 \in DOMAIN ops' \ DOMAIN ops
         /\ \A j \in DOMAIN ops' \ DOMAIN ops : ops'[j].kind = "refs" => j = Len(ops) + 1
<1> DEFINE kinds == request[h].kinds
           new == [n \in DOMAIN kinds |-> New(kinds[n], FALSE)]
<1>1. ops \in Seq(Ops) /\ Len(ops) \in Nat /\ DOMAIN ops = 1..Len(ops)
  BY OpTypes
<1>2. kinds \in Seq(RefreshKinds)
  BY RequestTypes DEF TypeOK
<1>3. Len(kinds) \in Nat /\ DOMAIN kinds = 1..Len(kinds)
      /\ \A n \in DOMAIN kinds : kinds[n] \in RefreshKinds
  BY <1>2, LenProperties, ElementOfSeq
<1>4. \A n \in DOMAIN kinds : New(kinds[n], FALSE) \in Ops
  BY <1>3 DEF New, Ops, Kinds, Statuses, Active
<1>5. new \in Seq(Ops) /\ Len(new) = Len(kinds) /\ \A n \in 1..Len(kinds) : new[n] = New(kinds[n], FALSE)
  <2>1. new = [n \in 1..Len(kinds) |-> New(kinds[n], FALSE)]
    BY <1>3
  <2>2. new \in [1..Len(kinds) -> Ops]
    BY <1>3, <1>4, <2>1
  <2>3. new \in Seq(Ops)
    <3>1. Len(kinds) \in Nat
      BY <1>3
    <3> HIDE DEF kinds, new
    <3>2. QED
      BY ONLY <2>2, <3>1, SeqDef
  <2>4. Len(new) = Len(kinds)
    BY <1>3, <2>1, <2>3, LenProperties
  <2>5. QED
    BY <2>1, <2>3, <2>4
<1>6. ops' = ops \o new /\ Len(ops) + Len(kinds) <= MaxOps
  BY DEF EnqueueRefresh, New
<1>7. 1 \in DOMAIN kinds /\ kinds[1] = "refs" /\ \A n \in DOMAIN kinds : n # 1 => kinds[n] = "argo"
  BY DEF OneRefs
<1> HIDE DEF kinds, new
<1>8. /\ ops' \in Seq(Ops) /\ Len(ops') = Len(ops) + Len(kinds)
      /\ \A n \in 1..Len(ops) + Len(kinds) :
            ops'[n] = IF n <= Len(ops) THEN ops[n] ELSE new[n - Len(ops)]
  <2>1. /\ ops \o new \in Seq(Ops) /\ Len(ops \o new) = Len(ops) + Len(new)
        /\ \A n \in 1..Len(ops) + Len(new) :
              (ops \o new)[n] = IF n <= Len(ops) THEN ops[n] ELSE new[n - Len(ops)]
    BY ONLY <1>1, <1>5, ConcatProperties
  <2>2. QED
    BY ONLY <1>5, <1>6, <2>1
<1>9. DOMAIN ops' = 1..Len(ops) + Len(kinds)
  BY <1>8, LenProperties
<1>10. DOMAIN ops \subseteq DOMAIN ops' /\ \A i \in DOMAIN ops : ops'[i] = ops[i]
  BY <1>1, <1>3, <1>8, <1>9
<1>11. \A i \in DOMAIN ops' \ DOMAIN ops :
          i - Len(ops) \in DOMAIN kinds /\ ops'[i] = New(kinds[i - Len(ops)], FALSE)
  <2> SUFFICES ASSUME NEW i \in DOMAIN ops' \ DOMAIN ops
               PROVE  i - Len(ops) \in DOMAIN kinds /\ ops'[i] = New(kinds[i - Len(ops)], FALSE)
    OBVIOUS
  <2>1. i \in 1..Len(ops) + Len(kinds) /\ ~(i <= Len(ops))
    BY <1>1, <1>3, <1>9
  <2>2. i - Len(ops) \in 1..Len(kinds)
    BY <1>1, <1>3, <2>1
  <2>3. ops'[i] = new[i - Len(ops)]
    BY <1>8, <2>1
  <2>4. QED
    BY <1>3, <1>5, <2>2, <2>3
<1>12. Len(ops) + 1 \in DOMAIN ops' \ DOMAIN ops
  BY <1>1, <1>3, <1>7, <1>9
<1>13. \A i \in DOMAIN ops' \ DOMAIN ops :
          /\ ops'[i].kind = kinds[i - Len(ops)] /\ ops'[i].kind \in RefreshKinds
          /\ ops'[i].op = "queued" /\ ops'[i].job = "queued"
  BY <1>3, <1>11 DEF New
<1>14. OpsKept
  BY <1>10 DEF OpsKept
<1>15. OpsTyped
  BY <1>6, <1>8 DEF OpsTyped
<1>16. JobsFollow'
  <2> SUFFICES ASSUME NEW i \in DOMAIN ops', ops'[i].job = "queued" PROVE ops'[i].op = "queued"
    BY DEF JobsFollow
  <2>1. CASE i \in DOMAIN ops
    BY <1>10, <2>1 DEF JobsFollow
  <2>2. CASE i \notin DOMAIN ops
    BY <1>13, <2>2
  <2>3. QED
    BY <2>1, <2>2
<1>17. RefreshesKept
  <2>1. Len(ops) + 1 \in Refreshes' /\ ops'[Len(ops) + 1].op # "completed"
    BY <1>12, <1>13 DEF Refreshes, OfKinds
  <2>2. QED
    BY <2>1 DEF RefreshesKept, AllCompleted
<1>18. NoneNew({"head"}) /\ NoneNew(RefreshTypes \ RefreshKinds)
  BY <1>13 DEF NoneNew, RefreshKinds
<1>19. \A j \in DOMAIN ops' \ DOMAIN ops : ops'[j].kind = "refs" => j = Len(ops) + 1
  <2> SUFFICES ASSUME NEW j \in DOMAIN ops' \ DOMAIN ops, ops'[j].kind = "refs" PROVE j = Len(ops) + 1
    OBVIOUS
  <2>1. j - Len(ops) = 1
    BY <1>7, <1>11, <1>13
  <2>2. j \in Nat
    BY <1>1, <1>3, <1>9
  <2>3. QED
    BY <1>1, <2>1, <2>2
<1>20. QED
  BY <1>12, <1>14, <1>15, <1>16, <1>17, <1>18, <1>19

-----------------------------------------------------------------------------
(* Steps that leave a part of the invariant alone *)

(* Workers that stay where they are stay apart. *)
LEMMA KeepsApart ==
  ASSUME WorkersApart, OpsKept,
         \A w \in Workers : worker'[w] # Idle => worker[w] # Idle /\ worker'[w].i = worker[w].i
  PROVE  WorkersApart'
<1>1. \A w \in Workers : worker'[w] # Idle =>
         worker'[w].i \in DOMAIN ops' /\ ops'[worker'[w].i].job # "queued"
  BY DEF WorkersApart, OpsKept
<1>2. \A v, w \in Workers : v # w /\ worker'[v] # Idle /\ worker'[w] # Idle =>
         worker'[v].i # worker'[w].i
  BY DEF WorkersApart
<1>3. QED
  BY <1>1, <1>2 DEF WorkersApart

Unpushed == {"read", "fetch", "push"}

(* A step that adds no commit keeps the branch as it was. *)
LEMMA KeepsBranch ==
  ASSUME Branched, OpsKept, UNCHANGED history,
         \A w \in Workers : worker'[w].pc \in Unpushed =>
            worker[w].pc \in Unpushed /\ worker'[w].i = worker[w].i
  PROVE  Branched'
<1>1. Pushed' = Pushed /\ DOMAIN history' = DOMAIN history /\ \A x : InHistory(x)' <=> InHistory(x)
  BY DEF Pushed, InHistory
<1>2. \A n \in DOMAIN history \ Pushed :
         history[n] \in DOMAIN ops' /\ ops'[history[n]].job # "queued"
  BY DEF Branched, OpsKept
<1>3. \A w \in Workers : worker'[w].pc \in Unpushed => ~InHistory(worker'[w].i)
  BY DEF Branched, Unpushed
<1>4. QED
  BY <1>1, <1>2, <1>3 DEF Branched, Unpushed

(* Commits stay on the branch; what is recorded was pinned or recorded, or a *)
(* worker has it.                                                            *)
OnBranch == {history[n] : n \in DOMAIN history}
Landing == {0} \cup OnBranch \cup OnBranch'

(* What is on the branch stays on it. *)
LEMMA KeepsLanded ==
  ASSUME OnBranch \subseteq OnBranch',
         latest' \in Landing, pin' \in Landing,
         \A h \in Handlers : request'[h].pc = "pin" => request'[h].sha \in Landing \ {0},
         \A w \in Workers : worker'[w] # Idle => worker'[w].sha \in Landing
  PROVE  Landed'
<1>1. Landing \ {0} \subseteq OnBranch'
  BY DEF Landing
<1>2. \A x \in Landing : x # 0 => \E n \in DOMAIN history' : history'[n] = x
  BY <1>1 DEF OnBranch
<1>3. RecordedShaIsInHistory'
  BY <1>2 DEF RecordedShaIsInHistory, InHistory
<1>4. \A h \in Handlers : request'[h].pc = "pin" => InHistory(request[h].sha)'
  BY <1>2 DEF InHistory
<1>5. \A w \in Workers : worker'[w] # Idle /\ worker'[w].sha # 0 => InHistory(worker[w].sha)'
  BY <1>2 DEF InHistory
<1>6. QED
  BY <1>3, <1>4, <1>5 DEF Landed

(* What was recorded before a step, and what the branch has after it.        *)
LEMMA Lands ==
  ASSUME TypeOK, Landed
  PROVE  /\ \A x : InHistory(x) <=> x \in OnBranch
         /\ latest \in Landing /\ pin \in Landing /\ Tip \in Landing
         /\ \A h \in Handlers : request[h].pc = "pin" => request[h].sha \in Landing \ {0}
         /\ \A w \in Workers : worker[w] # Idle => worker[w].sha \in Landing
         /\ UNCHANGED history => OnBranch' = OnBranch
<1>1. \A x : InHistory(x) <=> x \in OnBranch
  BY DEF InHistory, OnBranch
<1>2. latest \in Landing /\ pin \in Landing /\ Tip \in Landing
  BY <1>1, TipIsThere DEF Landed, RecordedShaIsInHistory, Landing
<1>3. ASSUME NEW h \in Handlers, request[h].pc = "pin" PROVE request[h].sha \in Landing \ {0}
  <2>1. request[h].sha \in Commits
    BY <1>3, RequestTypes DEF TypeOK
  <2>2. request[h].sha # 0
    BY <2>1 DEF Commits
  <2>3. QED
    BY <1>1, <1>3, <2>2 DEF Landed, Landing
<1>4. \A w \in Workers : worker[w] # Idle => worker[w].sha \in Landing
  BY <1>1 DEF Landed, Landing
<1>5. UNCHANGED history => OnBranch' = OnBranch
  BY DEF OnBranch
<1>6. QED
  BY <1>1, <1>2, <1>3, <1>4, <1>5

(* Where no head refresh is requested or enqueued none is added. *)
LEMMA KeepsHead ==
  ASSUME HeadAlone, OpsKept, NoneNew({"head"}), Requesting("head")' \subseteq Requesting("head")
  PROVE  HeadAlone'
<1>1. ActiveOf("head")' \subseteq ActiveOf("head")
  BY DEF ActiveOf, OfKinds, OpsKept, NoneNew
<1>2. QED
  BY <1>1 DEF HeadAlone

(* What is counted is finite. *)
LEMMA CountedTypes ==
  ASSUME TypeOK
  PROVE  /\ \A i : /\ IsFiniteSet(UnderwayBeside(i)) /\ Cardinality(UnderwayBeside(i)) \in Nat
                   /\ IsFiniteSet(Asking(i)) /\ Cardinality(Asking(i)) \in Nat
                   /\ IsFiniteSet(After(i)) /\ Cardinality(After(i)) \in Nat
         /\ IsFiniteSet(Requesting("refresh")) /\ Cardinality(Requesting("refresh")) \in Nat
         /\ Cardinality(Requesting("refresh")) <= Cardinality(Handlers)
         /\ Cardinality(Handlers) \in Nat
<1>1. Requesting("refresh") \subseteq Handlers
  BY DEF Requesting
<1>2. \A i : /\ UnderwayBeside(i) \subseteq DOMAIN ops /\ After(i) \subseteq DOMAIN ops
             /\ Asking(i) \subseteq Handlers
  BY <1>1 DEF UnderwayBeside, After, Asking, OfKinds
<1>3. IsFiniteSet(DOMAIN ops)
  BY OpTypes
<1>4. QED
  BY <1>1, <1>2, <1>3, FS_Subset, FS_CardinalityType

(* What hides one refresh from the request for another never goes away. *)
LEMMA HidesMore ==
  ASSUME OpsKept, OpsTyped, NEW i
  PROVE  /\ \A j : Hidden(i, j) => Hidden(i, j)'
         /\ Passed(i) => Passed(i)'
<1> DEFINE others == OfKinds(RefreshTypes \ RefreshKinds)
<1>1. others \subseteq others'
  BY DEF OfKinds, OpsKept
<1>2. IsFiniteSet(DOMAIN ops') /\ others' \subseteq DOMAIN ops'
  BY LenProperties, FS_Interval DEF OpsTyped, OfKinds
<1>3. IsFiniteSet(others')
  BY <1>2, FS_Subset
<1>4. ASSUME NEW S, NEW T, S \subseteq T, T \subseteq others', Cardinality(S) >= LookBack
      PROVE  Cardinality(T) >= LookBack
  <2>1. IsFiniteSet(T)
    BY <1>3, <1>4, FS_Subset
  <2>2. /\ IsFiniteSet(S) /\ Cardinality(S) <= Cardinality(T)
        /\ Cardinality(S) \in Nat /\ Cardinality(T) \in Nat
    BY <1>4, <2>1, FS_Subset, FS_CardinalityType
  <2>3. QED
    BY <1>4, <2>2
<1>5. ASSUME NEW j, Hidden(i, j) PROVE Hidden(i, j)'
  <2>1. Between(i, j) \subseteq Between(i, j)' /\ Between(i, j)' \subseteq others'
    BY <1>1 DEF Between
  <2>2. QED
    BY <1>4, <1>5, <2>1 DEF Hidden
<1>6. ASSUME Passed(i) PROVE Passed(i)'
  <2>1. After(i) \subseteq After(i)' /\ After(i)' \subseteq others'
    BY <1>1 DEF After
  <2>2. QED
    BY <1>4, <1>6, <2>1 DEF Passed
<1>7. QED
  BY <1>5, <1>6

(* Where no version refresh is requested or enqueued the counts do not grow. *)
LEMMA KeepsRefs ==
  ASSUME TypeOK, RefsCounted, OpsKept, OpsTyped, NoneNew({"refs"}),
         \A h \in Handlers : request'[h].pc = "refresh" => request'[h] = request[h]
  PROVE  RefsCounted'
<1>1. Requesting("refresh")' \subseteq Requesting("refresh")
  BY DEF Requesting
<1>2. \A h \in Requesting("refresh")' : OneRefs(request'[h].kinds)
  BY <1>1 DEF RefsCounted, Requesting
<1>3. ASSUME NEW i \in ActiveOf("refs")'
      PROVE  Cardinality(UnderwayBeside(i)') + Cardinality(Asking(i)') <= Cardinality(Handlers)
  <2>1. i \in ActiveOf("refs")
    BY DEF ActiveOf, OfKinds, OpsKept, NoneNew
  <2>2. UnderwayBeside(i)' \subseteq UnderwayBeside(i)
    <3>1. \A j : ~Hidden(i, j)' => ~Hidden(i, j)
      BY HidesMore
    <3>2. QED
      BY <3>1 DEF UnderwayBeside, OfKinds, OpsKept, NoneNew
  <2>3. Asking(i)' \subseteq Asking(i)
    BY <1>1, HidesMore DEF Asking
  <2>4. /\ Cardinality(UnderwayBeside(i)') <= Cardinality(UnderwayBeside(i))
        /\ Cardinality(Asking(i)') <= Cardinality(Asking(i))
        /\ Cardinality(UnderwayBeside(i)') \in Nat /\ Cardinality(Asking(i)') \in Nat
    BY <2>2, <2>3, CountedTypes, FS_Subset, FS_CardinalityType
  <2>5. Cardinality(UnderwayBeside(i)) + Cardinality(Asking(i)) <= Cardinality(Handlers)
    BY <2>1 DEF RefsCounted
  <2>6. QED
    BY <2>4, <2>5, CountedTypes
<1>4. QED
  BY <1>2, <1>3 DEF RefsCounted

(* There is a newest of some operations. *)
LEMMA NewestIs ==
  ASSUME TypeOK, NEW S \in SUBSET DOMAIN ops, S # {}
  PROVE  \E i \in S : \A j \in S : j <= i
<1> DEFINE Less == {pair \in Nat \X Nat : pair[1] < pair[2]}
           N == Len(ops)
           T == {n \in 0..N : N - n \in S}
<1>1. N \in Nat /\ S \subseteq 1..N
  BY OpTypes
<1>2. IsWellFoundedOn(Less, Nat)
  BY NatLessThanWellFounded, Zenon DEF OpToRel
<1>3. T \subseteq Nat /\ T # {}
  <2>1. PICK j \in S : TRUE
    OBVIOUS
  <2> HIDE DEF N
  <2>2. N - j \in 0..N /\ N - (N - j) = j
    BY <1>1, <2>1
  <2>3. QED
    BY <1>1, <2>1, <2>2
<1>4. PICK m \in T : \A n \in T : <<n, m>> \notin Less
  <2> HIDE DEF Less, T
  <2>1. QED
    BY <1>2, <1>3, WFMin
<1> HIDE DEF N
<1>5. N - m \in S /\ m \in 0..N
  BY <1>4
<1>6. ASSUME NEW j \in S
      PROVE  j <= N - m
  <2>1. N - j \in 0..N /\ N - (N - j) = j /\ j \in 1..N
    BY <1>1
  <2>2. N - j \in T
    BY <2>1
  <2>3. ~(N - j < m)
    BY <1>3, <1>4, <2>2
  <2>4. QED
    BY <1>1, <1>5, <2>1, <2>3
<1>7. QED
  BY <1>5, <1>6

(* A request that finds no refresh under way: whatever is under way has been *)
(* passed by as many refreshes of other things as the request looks at.      *)
LEMMA FoundUnlessPassed ==
  ASSUME TypeOK, ~RefreshUnderway, NEW i \in ActiveOf("refs")
  PROVE  Passed(i)
<1> DEFINE S == {j \in Refreshes : ops[j].op \in Active /\ i <= j}
<1>1. i \in S /\ S \subseteq DOMAIN ops
  BY OpTypes DEF ActiveOf, OfKinds, Refreshes, RefreshKinds
<1>2. PICK m \in S : \A j \in S : j <= m
  <2> HIDE DEF S
  <2>1. QED
    BY <1>1, NewestIs
<1>3. ~(Cardinality(Newer(m, RefreshTypes)) < LookBack)
  BY <1>2 DEF RefreshUnderway, Found, Refreshes, OfKinds
<1>4. Newer(m, RefreshTypes) \subseteq After(i)
  <2> SUFFICES ASSUME NEW k \in Newer(m, RefreshTypes) PROVE k \in After(i)
    OBVIOUS
  <2>1. k \in DOMAIN ops /\ k > m /\ ops[k].kind \in RefreshTypes /\ ops[k].op \in Active
    BY DEF Newer
  <2>2. k \in Int /\ m \in Int /\ i \in Int /\ i <= m
    BY <1>1, <1>2, <2>1, OpTypes
  <2>3. i < k /\ i <= k /\ ~(k <= m)
    BY <2>1, <2>2
  <2>4. ops[k].kind \notin RefreshKinds
    BY <1>2, <2>1, <2>3 DEF Refreshes, OfKinds
  <2>5. QED
    BY <2>1, <2>3, <2>4 DEF After, OfKinds
<1>5. /\ Cardinality(Newer(m, RefreshTypes)) <= Cardinality(After(i))
      /\ Cardinality(Newer(m, RefreshTypes)) \in Nat /\ Cardinality(After(i)) \in Nat
  BY <1>4, CountedTypes, FS_Subset, FS_CardinalityType
<1>6. QED
  BY <1>3, <1>5 DEF Passed

(* A row that tells stays, and so does a worker that will tell. *)
LEMMA KeepsTold ==
  ASSUME Told, RefreshesKept, UNCHANGED <<rows, lost>>,
         \A w \in Workers : WillTell(w) => worker'[w] = Idle /\ reader'[w] = reader[w]
  PROVE  Told'
<1> SUFFICES ASSUME AllCompleted', ~lost
             PROVE  (\E r \in DOMAIN rows : Right(rows[r])') \/ \E w \in Workers : WillTell(w)'
  BY DEF Told
<1>1. AllCompleted /\ Refreshes' = Refreshes
  BY DEF RefreshesKept
<1>2. \A row : Right(row)' <=> Right(row)
  BY <1>1 DEF Right
<1>3. \A w \in Workers : WillTell(w) => WillTell(w)'
  BY <1>1 DEF WillTell, Right
<1>4. (\E r \in DOMAIN rows : Right(rows[r])) \/ \E w \in Workers : WillTell(w)
  BY <1>1 DEF Told
<1>5. QED
  BY <1>1, <1>3, <1>4 DEF Right

-----------------------------------------------------------------------------
(* The steps *)

(* Where operations, requests and workers stay, so does what they share. *)
LEMMA SameThere ==
  ASSUME IInv, UNCHANGED <<ops, request, worker>>
  PROVE  JobsFollow' /\ WorkersApart' /\ RefsCounted' /\ HeadAlone'
<1>1. OpsKept /\ OpsTyped /\ JobsFollow' /\ \A kinds : NoneNew(kinds)
  BY SameOps DEF IInv
<1>2. Requesting("head")' = Requesting("head")
  BY DEF Requesting
<1>3. HeadAlone' /\ RefsCounted'
  BY <1>1, <1>2, KeepsHead, KeepsRefs DEF IInv
<1>4. WorkersApart'
  BY <1>1, KeepsApart DEF IInv
<1>5. QED
  BY <1>1, <1>3, <1>4

(* Nothing the invariant is about changes. *)
LEMMA SomethingElse ==
  ASSUME IInv, TypeOK',
         UNCHANGED <<history, latest, pin, ops, rows, lost, request, worker, reader>>
  PROVE  IInv'
<1>1. JobsFollow' /\ WorkersApart' /\ RefsCounted' /\ HeadAlone'
  BY SameThere
<1>2. Branched'
  <2>1. OpsKept
    BY SameOps DEF IInv
  <2>2. QED
    BY <2>1, KeepsBranch DEF IInv
<1>3. Landed'
  BY DEF IInv, Landed, RecordedShaIsInHistory, InHistory
<1>4. Told'
  BY DEF IInv, Told, AllCompleted, Refreshes, OfKinds, Right, WillTell
<1>5. QED
  BY <1>1, <1>2, <1>3, <1>4 DEF IInv

(* A handler goes on; no worker and no commit is concerned. *)
LEMMA HandlerStep ==
  ASSUME IInv, NEW h \in Handlers, NEW r \in Requests, Goto(h, r),
         UNCHANGED <<config, sole, history, connections, latest, rows, lost, worker>>,
         pin' \in Shas, pin' \in Landing, reviews' \subseteq Families,
         r.pc = "pin" => r.sha \in Landing \ {0},
         reader' \in [Handlers \cup Workers -> Readings],
         \A w \in Workers : reader'[w] = reader[w],
         OpsKept, OpsTyped, JobsFollow', RefreshesKept
  PROVE  /\ TypeOK' /\ WorkersApart' /\ Branched' /\ Landed' /\ Told'
         /\ r.pc # "head" /\ NoneNew({"head"}) => HeadAlone'
         /\ r.pc # "refresh" /\ NoneNew({"refs"}) => RefsCounted'
         /\ request' \in [Handlers -> Requests] /\ request'[h] = r
         /\ \A g \in Handlers : g # h => request'[g] = request[g]
<1>1. request \in [Handlers -> Requests]
  BY DEF IInv, TypeOK
<1>2. /\ request' \in [Handlers -> Requests] /\ request'[h] = r
      /\ \A g \in Handlers : g # h => request'[g] = request[g]
  BY <1>1 DEF Goto
<1>3. TypeOK'
  BY <1>2 DEF IInv, TypeOK, OpsTyped
<1>4. WorkersApart'
  BY KeepsApart DEF IInv
<1>5. Branched'
  BY KeepsBranch DEF IInv
<1>6. Landed'
  <2>1. OnBranch \subseteq OnBranch' /\ latest' \in Landing
    BY Lands DEF IInv
  <2>2. \A g \in Handlers : request'[g].pc = "pin" => request'[g].sha \in Landing \ {0}
    BY <1>2, Lands DEF IInv
  <2>3. \A w \in Workers : worker'[w] # Idle => worker'[w].sha \in Landing
    BY Lands DEF IInv
  <2>4. QED
    BY <2>1, <2>2, <2>3, KeepsLanded
<1>7. Told'
  <2>1. \A w \in Workers : WillTell(w) => worker'[w] = Idle /\ reader'[w] = reader[w]
    BY DEF WillTell
  <2>2. QED
    BY <2>1, KeepsTold DEF IInv
<1>8. r.pc # "head" /\ NoneNew({"head"}) => HeadAlone'
  <2>1. r.pc # "head" => Requesting("head")' \subseteq Requesting("head")
    BY <1>2 DEF Requesting
  <2>2. QED
    BY <2>1, KeepsHead DEF IInv
<1>9. r.pc # "refresh" /\ NoneNew({"refs"}) => RefsCounted'
  <2>1. r.pc # "refresh" => \A g \in Handlers : request'[g].pc = "refresh" => request'[g] = request[g]
    BY <1>2
  <2>2. QED
    BY <2>1, KeepsRefs DEF IInv
<1>10. QED
  BY <1>2, <1>3, <1>4, <1>5, <1>6, <1>7, <1>8, <1>9

(* A worker goes on with its operation, and pushes nothing. *)
LEMMA WorkerStep ==
  ASSUME IInv, NEW w \in Workers, worker[w] # Idle,
         NEW p \in {"read", "fetch", "push", "record", "finish"}, NEW sha \in Shas, NEW ok \in BOOLEAN,
         Step(w, p, sha, ok), sha \in Landing, p \in Unpushed => worker[w].pc \in Unpushed,
         UNCHANGED <<config, sole, history, connections, pin, ops, recorded, request>>,
         latest' \in Shas, latest' \in Landing,
         reader' \in [Handlers \cup Workers -> Readings],
         \A v \in Workers : v # w => reader'[v] = reader[v]
  PROVE  IInv'
<1>1. /\ worker' \in [Workers -> Stages]
      /\ worker'[w] = [pc |-> p, i |-> worker[w].i, sha |-> sha, ok |-> ok]
      /\ worker'[w] # Idle
      /\ \A v \in Workers : v # w => worker'[v] = worker[v]
  BY Stepped DEF IInv
<1>2. worker'[w].pc = p /\ worker'[w].i = worker[w].i /\ worker'[w].sha = sha
  BY <1>1
<1>3. OpsKept /\ OpsTyped /\ JobsFollow' /\ RefreshesKept /\ \A kinds : NoneNew(kinds)
  BY SameOps DEF IInv
<1>4. TypeOK'
  BY <1>1 DEF IInv, TypeOK, recorded
<1>5. WorkersApart'
  BY <1>1, <1>2, <1>3, KeepsApart DEF IInv
<1>6. Branched'
  <2>1. \A v \in Workers : worker'[v].pc \in Unpushed =>
           worker[v].pc \in Unpushed /\ worker'[v].i = worker[v].i
    BY <1>1, <1>2
  <2>2. QED
    BY <1>3, <2>1, KeepsBranch DEF IInv
<1>7. Landed'
  <2>1. OnBranch \subseteq OnBranch' /\ pin' \in Landing
    BY Lands DEF IInv
  <2>2. \A g \in Handlers : request'[g].pc = "pin" => request'[g].sha \in Landing \ {0}
    BY Lands DEF IInv
  <2>3. \A v \in Workers : worker'[v] # Idle => worker'[v].sha \in Landing
    BY <1>1, <1>2, Lands DEF IInv
  <2>4. QED
    BY <2>1, <2>2, <2>3, KeepsLanded
<1>8. HeadAlone' /\ RefsCounted'
  <2>1. Requesting("head")' = Requesting("head")
    BY DEF Requesting
  <2>2. QED
    BY <1>3, <2>1, KeepsHead, KeepsRefs DEF IInv
<1>9. Told'
  <2>1. \A v \in Workers : WillTell(v) => worker'[v] = Idle /\ reader'[v] = reader[v]
    BY <1>1 DEF WillTell
  <2>2. QED
    BY <1>3, <2>1, KeepsTold DEF IInv, recorded
<1>10. QED
  BY <1>3, <1>4, <1>5, <1>6, <1>7, <1>8, <1>9 DEF IInv

(* Operations change, and nothing else. *)
LEMMA OpsStep ==
  ASSUME IInv, OpsKept, OpsTyped, JobsFollow', RefreshesKept,
         NoneNew({"head"}), NoneNew({"refs"}),
         UNCHANGED <<repository, latest, pin, recorded, request, worker, reader>>
  PROVE  IInv'
<1>1. TypeOK'
  BY DEF IInv, TypeOK, OpsTyped, repository, recorded
<1>2. WorkersApart' /\ Branched'
  BY KeepsApart, KeepsBranch DEF IInv, repository
<1>3. Landed'
  BY DEF IInv, Landed, RecordedShaIsInHistory, InHistory, repository
<1>4. HeadAlone' /\ RefsCounted'
  <2>1. Requesting("head")' = Requesting("head")
    BY DEF Requesting
  <2>2. QED
    BY <2>1, KeepsHead, KeepsRefs DEF IInv
<1>5. Told'
  BY KeepsTold DEF IInv, recorded, WillTell
<1>6. QED
  BY <1>1, <1>2, <1>3, <1>4, <1>5 DEF IInv

(* A handler that enqueues nothing, and is not about to enqueue a refresh. *)
LEMMA QuietHandler ==
  ASSUME IInv, NEW h \in Handlers, NEW r \in Requests, Goto(h, r),
         UNCHANGED <<repository, latest, ops, rows, lost, worker>>,
         pin' \in Shas, pin' \in Landing, reviews' \subseteq Families,
         r.pc = "pin" => r.sha \in Landing \ {0}, r.pc \notin {"head", "refresh"},
         reader' \in [Handlers \cup Workers -> Readings],
         \A w \in Workers : reader'[w] = reader[w]
  PROVE  IInv'
<1>1. OpsKept /\ OpsTyped /\ JobsFollow' /\ RefreshesKept /\ \A kinds : NoneNew(kinds)
  BY SameOps DEF IInv
<1>2. UNCHANGED <<config, sole, history, connections>>
  BY DEF repository
<1>3. TypeOK' /\ WorkersApart' /\ Branched' /\ Landed' /\ Told' /\ HeadAlone' /\ RefsCounted'
  BY <1>1, <1>2, HandlerStep
<1>4. QED
  BY <1>1, <1>3 DEF IInv

(* What is recorded of a version is on the branch, or about to be. *)
LEMMA PinTypes ==
  ASSUME IInv
  PROVE  /\ latest \in Shas /\ pin \in Shas /\ pin \in Landing /\ latest \in Landing
         /\ reviews \subseteq Families
         /\ reader \in [Handlers \cup Workers -> Readings]
  BY Lands DEF IInv, TypeOK

(* Something else is refreshed, or validated again. *)
LEMMA ElsewhereKeeps ==
  ASSUME IInv, NEW kind \in Elsewhere, EnqueueElsewhere(kind)
  PROVE  IInv'
<1>1. Enqueue(kind, FALSE) /\ kind \in Kinds /\ kind \notin {"head"} /\ kind \notin {"refs"}
  BY DEF EnqueueElsewhere, Elsewhere, Kinds
<1>2. OpsKept /\ OpsTyped /\ JobsFollow' /\ RefreshesKept /\ NoneNew({"head"}) /\ NoneNew({"refs"})
  BY <1>1, EnqueuedKeeps DEF IInv
<1>3. QED
  BY <1>2, OpsStep DEF EnqueueElsewhere

(* Requests that read, and those that record. *)
LEMMA PlansKeep ==
  ASSUME IInv, NEW h \in Handlers,
         PlanCommit(h) \/ CheckRole(h) \/ LookForRerun(h) \/ ReadLatest(h) \/ SavePin(h)
  PROVE  IInv'
<1>1. CASE PlanCommit(h)
  <2> DEFINE r == [pc |-> "commit", write |-> WriteEligible]
  <2>1. r \in Requests /\ r.pc = "commit"
    BY RequestsHave DEF WriteEligible, IInv, TypeOK
  <2>2. Goto(h, r) /\ UNCHANGED <<repository, latest, pin, ops, recorded, worker, reader>>
    BY <1>1 DEF PlanCommit
  <2> HIDE DEF r
  <2>3. QED
    BY <2>1, <2>2, PinTypes, QuietHandler DEF recorded
<1>2. CASE CheckRole(h)
  <2> DEFINE r == [pc |-> "lock"]
  <2>1. r \in Requests /\ r.pc = "lock"
    BY RequestsHave
  <2>2. Goto(h, r) /\ UNCHANGED <<repository, latest, pin, ops, recorded, worker, reader>>
    BY <1>2 DEF CheckRole
  <2> HIDE DEF r
  <2>3. QED
    BY <2>1, <2>2, PinTypes, QuietHandler DEF recorded
<1>3. CASE LookForRerun(h)
  <2> DEFINE r == [pc |-> "rerun"]
  <2>1. r \in Requests /\ r.pc = "rerun"
    BY RequestsHave
  <2>2. Goto(h, r) /\ UNCHANGED <<repository, latest, pin, ops, recorded, worker, reader>>
    BY <1>3 DEF LookForRerun
  <2> HIDE DEF r
  <2>3. QED
    BY <2>1, <2>2, PinTypes, QuietHandler DEF recorded
<1>4. CASE ReadLatest(h)
  <2> DEFINE r == [pc |-> "pin", sha |-> latest]
  <2>1. latest # 0 /\ latest \in Commits
    BY <1>4, PinTypes DEF ReadLatest, Shas
  <2>2. r \in Requests /\ r.pc = "pin" /\ r.sha \in Landing \ {0}
    BY <2>1, RequestsHave, PinTypes
  <2>3. Goto(h, r) /\ UNCHANGED <<repository, latest, pin, ops, recorded, worker, reader>>
    BY <1>4 DEF ReadLatest
  <2> HIDE DEF r
  <2>4. QED
    BY <2>2, <2>3, PinTypes, QuietHandler DEF recorded
<1>5. CASE SavePin(h)
  <2>1. request[h].sha \in Shas /\ request[h].sha \in Landing
    BY <1>5, Lands, RequestTypes DEF SavePin, IInv, TypeOK, Shas
  <2>2. Goto(h, Idle) /\ pin' = request[h].sha
        /\ UNCHANGED <<repository, latest, ops, recorded, worker, reader>>
    BY <1>5 DEF SavePin
  <2>3. Idle \in Requests /\ Idle.pc = "idle"
    BY RequestsHave
  <2>4. QED
    BY <2>1, <2>2, <2>3, PinTypes, QuietHandler DEF recorded
<1>6. QED
  BY <1>1, <1>2, <1>3, <1>4, <1>5

(* Reviews change nothing the invariant is about. *)
LEMMA ReviewsKeep ==
  ASSUME IInv, NEW h \in Handlers,
         \/ StartRecording(h) \/ \E family \in Families : LookForReview(h, family)
         \/ RecordPromotion(h) \/ RecordHeadRefresh(h) \/ RequestFails(h)
  PROVE  IInv'
<1>1. Idle \in Requests /\ Idle.pc = "idle" /\ Idle \in Readings
  BY RequestsHave, ReadingsHave
<1>2. h \in Handlers \cup Workers /\ h \notin Workers
  OBVIOUS
<1>3. CASE StartRecording(h)
  <2>1. PICK need \in BOOLEAN : Read(h, need)
    BY <1>3 DEF StartRecording
  <2>2. [pc |-> "look", need |-> need] \in Readings
    BY ReadingsHave
  <2>3. /\ reader' \in [Handlers \cup Workers -> Readings]
        /\ \A w \in Workers : reader'[w] = reader[w]
    BY <1>2, <2>1, <2>2, PinTypes DEF Read
  <2>4. request[h] = Idle /\ UNCHANGED <<repository, latest, pin, ops, recorded, request, worker>>
    BY <1>3 DEF StartRecording, Free
  <2>5. Goto(h, Idle)
    BY <2>4 DEF Goto, IInv, TypeOK
  <2>6. QED
    BY <1>1, <2>3, <2>4, <2>5, PinTypes, QuietHandler DEF recorded
<1>4. CASE \E family \in Families : LookForReview(h, family)
  <2>1. PICK family \in Families : LookForReview(h, family)
    BY <1>4
  <2> DEFINE r == [pc |-> "review", family |-> family]
  <2>2. r \in Requests /\ r.pc = "review"
    BY RequestsHave
  <2>3. Goto(h, r) /\ UNCHANGED <<repository, latest, pin, ops, recorded, worker, reader>>
    BY <2>1 DEF LookForReview
  <2> HIDE DEF r
  <2>4. QED
    BY <2>2, <2>3, PinTypes, QuietHandler DEF recorded
<1>5. CASE RecordPromotion(h) \/ RecordHeadRefresh(h)
  <2>1. Goto(h, Idle) /\ UNCHANGED <<repository, latest, pin, ops, rows, lost, worker, reader>>
    BY <1>5 DEF RecordPromotion, RecordHeadRefresh
  <2>2. reviews' \subseteq Families
    BY <1>5, PinTypes DEF RecordPromotion, RecordHeadRefresh, Families
  <2>3. QED
    BY <1>1, <2>1, <2>2, PinTypes, QuietHandler
<1>6. CASE RequestFails(h)
  <2>1. /\ Goto(h, Idle) /\ reader' = [reader EXCEPT ![h] = Idle]
        /\ UNCHANGED <<repository, latest, pin, ops, recorded, worker>>
    BY <1>6 DEF RequestFails
  <2>2. /\ reader' \in [Handlers \cup Workers -> Readings]
        /\ \A w \in Workers : reader'[w] = reader[w]
    BY <1>1, <1>2, <2>1, PinTypes
  <2>3. QED
    BY <1>1, <2>1, <2>2, PinTypes, QuietHandler DEF recorded
<1>7. QED
  BY <1>3, <1>4, <1>5, <1>6

(* A commit or a rerun is enqueued. *)
LEMMA EnqueuesKeep ==
  ASSUME IInv, NEW h \in Handlers, EnqueueCommit(h) \/ EnqueueRerun(h)
  PROVE  IInv'
<1>1. PICK kind \in {"commit", "rerun"}, write \in BOOLEAN : Enqueue(kind, write)
  <2>1. CASE EnqueueCommit(h)
    <3>1. request[h].write \in BOOLEAN
      BY <2>1, RequestTypes DEF EnqueueCommit, IInv, TypeOK
    <3>2. QED
      BY <2>1, <3>1 DEF EnqueueCommit
  <2>2. CASE EnqueueRerun(h)
    BY <2>2 DEF EnqueueRerun
  <2>3. QED
    BY <2>1, <2>2
<1>2. /\ Goto(h, Idle)
      /\ UNCHANGED <<repository, latest, pin, recorded, worker, reader>>
  BY DEF EnqueueCommit, EnqueueRerun
<1>3. UNCHANGED <<config, sole, history, connections, rows, lost, reviews>>
  BY <1>2 DEF repository, recorded
<1>4. kind \in Kinds /\ kind \notin {"head"} /\ kind \notin {"refs"}
  BY DEF Kinds
<1>5. OpsKept /\ OpsTyped /\ JobsFollow' /\ RefreshesKept /\ NoneNew({"head"}) /\ NoneNew({"refs"})
  BY <1>1, <1>4, EnqueuedKeeps DEF IInv
<1>6. Idle \in Requests /\ Idle.pc = "idle"
  BY RequestsHave
<1>7. TypeOK' /\ WorkersApart' /\ Branched' /\ Landed' /\ Told' /\ HeadAlone' /\ RefsCounted'
  BY <1>2, <1>3, <1>5, <1>6, PinTypes, HandlerStep
<1>8. QED
  BY <1>5, <1>7 DEF IInv

(* The head is refreshed by one request at a time. *)
LEMMA HeadRefreshKeeps ==
  ASSUME IInv, NEW h \in Handlers, LookForHeadRefresh(h) \/ EnqueueHeadRefresh(h)
  PROVE  IInv'
<1>1. CASE LookForHeadRefresh(h)
  <2>1. UNCHANGED <<repository, latest, pin, ops, recorded, worker, reader>>
    BY <1>1 DEF LookForHeadRefresh
  <2>2. CASE Underway({"head"})
    <3>1. Goto(h, Idle) /\ Idle \in Requests /\ Idle.pc = "idle"
      BY <1>1, <2>2, RequestsHave DEF LookForHeadRefresh
    <3>2. QED
      BY <2>1, <3>1, PinTypes, QuietHandler DEF recorded
  <2>3. CASE ~Underway({"head"})
    <3> DEFINE r == [pc |-> "head"]
    <3>1. Goto(h, r)
      BY <1>1, <2>3 DEF LookForHeadRefresh
    <3>2. r \in Requests /\ r.pc = "head"
      BY RequestsHave
    <3> HIDE DEF r
    <3>3. OpsKept /\ OpsTyped /\ JobsFollow' /\ RefreshesKept /\ \A kinds : NoneNew(kinds)
      BY <2>1, SameOps DEF IInv
    <3>4. UNCHANGED <<config, sole, history, connections, rows, lost, reviews>>
      BY <2>1 DEF repository, recorded
    <3>5. /\ TypeOK' /\ WorkersApart' /\ Branched' /\ Landed' /\ Told' /\ RefsCounted'
          /\ \A g \in Handlers : g # h => request'[g] = request[g]
      BY <2>1, <3>1, <3>2, <3>3, <3>4, PinTypes, HandlerStep
    <3>6. Requesting("head") = {}
      BY <1>1 DEF LookForHeadRefresh, RepositoryUnlocked, Requesting
    <3>7. Requesting("head")' \subseteq {h}
      BY <3>5, <3>6 DEF Requesting
    <3>8. ActiveOf("head")' = {}
      BY <2>1, <2>3 DEF ActiveOf, OfKinds, Underway
    <3>9. HeadAlone'
      BY <3>7, <3>8 DEF HeadAlone
    <3>10. QED
      BY <3>3, <3>5, <3>9 DEF IInv
  <2>4. QED
    BY <2>2, <2>3
<1>2. CASE EnqueueHeadRefresh(h)
  <2>1. /\ request[h].pc = "head" /\ Enqueue("head", FALSE) /\ Goto(h, Idle)
        /\ UNCHANGED <<repository, latest, pin, recorded, worker, reader>>
    BY <1>2 DEF EnqueueHeadRefresh
  <2>2. UNCHANGED <<config, sole, history, connections, rows, lost, reviews>>
    BY <2>1 DEF repository, recorded
  <2>3. "head" \in Kinds /\ "head" \notin {"refs"}
    BY DEF Kinds
  <2>4. OpsKept /\ OpsTyped /\ JobsFollow' /\ RefreshesKept /\ NoneNew({"refs"})
    BY <2>1, <2>3, EnqueuedKeeps DEF IInv
  <2>5. Idle \in Requests /\ Idle.pc = "idle"
    BY RequestsHave
  <2>6. /\ TypeOK' /\ WorkersApart' /\ Branched' /\ Landed' /\ Told' /\ RefsCounted'
        /\ request'[h] = Idle
        /\ \A g \in Handlers : g # h => request'[g] = request[g]
    BY <2>1, <2>2, <2>4, <2>5, PinTypes, HandlerStep
  <2>7. h \in Requesting("head")
    BY <2>1 DEF Requesting
  <2>8. ActiveOf("head") = {} /\ \A g \in Requesting("head") : g = h
    BY <2>7 DEF IInv, HeadAlone
  <2>9. Requesting("head")' = {}
    BY <2>5, <2>6, <2>8 DEF Requesting
  <2>10. /\ DOMAIN ops' = DOMAIN ops \cup {Len(ops) + 1}
         /\ \A i \in DOMAIN ops : ops'[i] = ops[i]
    BY <2>1, <2>3, Enqueued DEF IInv
  <2>11. ActiveOf("head")' \subseteq {Len(ops) + 1}
    BY <2>8, <2>10 DEF ActiveOf, OfKinds
  <2>12. HeadAlone'
    BY <2>9, <2>11 DEF HeadAlone
  <2>13. QED
    BY <2>4, <2>6, <2>12 DEF IInv
<1>3. QED
  BY <1>1, <1>2

(* A plan refreshes the references first, then Argo connections. *)
LEMMA PlannedTypes ==
  ASSUME TypeOK, PlannedSteps # <<>>
  PROVE  PlannedSteps \in Seq(RefreshKinds) /\ OneRefs(PlannedSteps)
<1> DEFINE argo == [c \in 1..connections |-> "argo"]
           refs == <<"refs">>
<1>1. PlannedSteps = refs \o argo
  BY DEF PlannedSteps
<1>2. connections \in Nat
  BY DEF TypeOK
<1>3. argo \in Seq(RefreshKinds) /\ Len(argo) = connections
      /\ \A c \in 1..connections : argo[c] = "argo"
  <2>1. argo \in [1..connections -> RefreshKinds]
    BY DEF RefreshKinds
  <2>2. argo \in Seq(RefreshKinds)
    BY <1>2, <2>1, SeqDef
  <2>3. QED
    BY <1>2, <2>2, LenProperties
<1>4. refs \in Seq(RefreshKinds) /\ Len(refs) = 1 /\ refs[1] = "refs"
  BY DEF RefreshKinds
<1> HIDE DEF argo, refs
<1>5. /\ refs \o argo \in Seq(RefreshKinds) /\ Len(refs \o argo) = Len(refs) + Len(argo)
      /\ \A n \in 1..Len(refs) + Len(argo) :
            (refs \o argo)[n] = IF n <= Len(refs) THEN refs[n] ELSE argo[n - Len(refs)]
  BY ONLY <1>3, <1>4, ConcatProperties
<1>6. DOMAIN PlannedSteps = 1..connections + 1
  BY <1>1, <1>2, <1>3, <1>4, <1>5, LenProperties
<1>7. PlannedSteps[1] = "refs"
  BY <1>1, <1>2, <1>3, <1>4, <1>5
<1>8. ASSUME NEW n \in DOMAIN PlannedSteps, n # 1 PROVE PlannedSteps[n] = "argo"
  <2>1. n \in 1..Len(refs) + Len(argo) /\ ~(n <= Len(refs)) /\ n - Len(refs) \in 1..connections
    BY <1>2, <1>3, <1>4, <1>6, <1>8
  <2>2. PlannedSteps[n] = argo[n - Len(refs)]
    BY <1>1, <1>5, <2>1
  <2>3. QED
    BY <1>3, <2>1, <2>2
<1>9. 1 \in DOMAIN PlannedSteps
  BY <1>2, <1>6
<1>10. QED
  BY <1>1, <1>5, <1>7, <1>8, <1>9 DEF OneRefs

(* A set with at most one element more. *)
LEMMA OneMoreAtMost ==
  ASSUME NEW S, NEW T, NEW x, IsFiniteSet(S), T \subseteq S \cup {x}
  PROVE  Cardinality(T) <= Cardinality(S) + 1 /\ Cardinality(T) \in Nat
<1>1. IsFiniteSet(S \cup {x}) /\ Cardinality(S) \in Nat
  BY FS_AddElement, FS_CardinalityType
<1>2. Cardinality(S \cup {x}) <= Cardinality(S) + 1 /\ Cardinality(S \cup {x}) \in Nat
  BY <1>1, FS_AddElement
<1>3. Cardinality(T) <= Cardinality(S \cup {x}) /\ Cardinality(T) \in Nat
  BY <1>1, FS_Subset, FS_CardinalityType
<1>4. QED
  BY <1>1, <1>2, <1>3

(* Requests that found no refresh of the version count with those under way  *)
(* that nothing hides.                                                       *)
LEMMA RefreshKeeps ==
  ASSUME IInv, NEW h \in Handlers, LookForRefresh(h) \/ EnqueueRefresh(h)
  PROVE  IInv'
<1>1. CASE LookForRefresh(h)
  <2> DEFINE r == [pc |-> "refresh", kinds |-> PlannedSteps]
  <2>1. Goto(h, r) /\ UNCHANGED <<repository, latest, pin, ops, recorded, worker, reader>>
    BY <1>1 DEF LookForRefresh
  <2>2. PlannedSteps \in Seq(RefreshKinds) /\ OneRefs(PlannedSteps)
    BY <1>1, PlannedTypes DEF LookForRefresh, IInv
  <2>3. r \in Requests /\ r.pc = "refresh" /\ OneRefs(r.kinds)
    BY <2>2, RequestsHave
  <2> HIDE DEF r
  <2>4. OpsKept /\ OpsTyped /\ JobsFollow' /\ RefreshesKept /\ \A kinds : NoneNew(kinds)
    BY <2>1, SameOps DEF IInv
  <2>5. UNCHANGED <<config, sole, history, connections, rows, lost, reviews>>
    BY <2>1 DEF repository, recorded
  <2>6. /\ TypeOK' /\ WorkersApart' /\ Branched' /\ Landed' /\ Told' /\ HeadAlone'
        /\ request'[h] = r /\ \A g \in Handlers : g # h => request'[g] = request[g]
    BY <2>1, <2>3, <2>4, <2>5, PinTypes, HandlerStep
  <2>7. \A i : /\ Passed(i)' <=> Passed(i)
               /\ UnderwayBeside(i)' = UnderwayBeside(i)
    BY <2>1 DEF Passed, After, UnderwayBeside, Hidden, Between, OfKinds
  <2>8. \A g \in Requesting("refresh")' : OneRefs(request'[g].kinds)
    BY <2>3, <2>6 DEF Requesting, IInv, RefsCounted
  <2>9. ASSUME NEW i \in ActiveOf("refs")'
        PROVE  Cardinality(UnderwayBeside(i)') + Cardinality(Asking(i)') <= Cardinality(Handlers)
    <3>1. i \in ActiveOf("refs")
      BY <2>1 DEF ActiveOf, OfKinds
    <3>2. Passed(i)
      BY <1>1, <3>1, FoundUnlessPassed DEF LookForRefresh, IInv
    <3>3. Asking(i)' = {} /\ Asking(i) = {}
      BY <2>7, <3>2 DEF Asking
    <3>4. QED
      BY <2>7, <3>1, <3>3 DEF IInv, RefsCounted
  <2>13. RefsCounted'
    BY <2>8, <2>9 DEF RefsCounted
  <2>14. QED
    BY <2>4, <2>6, <2>13 DEF IInv
<1>2. CASE EnqueueRefresh(h)
  <2>1. /\ request[h].pc = "refresh" /\ Goto(h, Idle)
        /\ UNCHANGED <<repository, latest, pin, recorded, worker, reader>>
    BY <1>2 DEF EnqueueRefresh
  <2>2. UNCHANGED <<config, sole, history, connections, rows, lost, reviews>>
    BY <2>1 DEF repository, recorded
  <2>3. h \in Requesting("refresh") /\ OneRefs(request[h].kinds)
    BY <2>1 DEF Requesting, IInv, RefsCounted
  <2>4. /\ OpsKept /\ OpsTyped /\ JobsFollow' /\ RefreshesKept /\ NoneNew({"head"})
        /\ NoneNew(RefreshTypes \ RefreshKinds)
        /\ Len(ops) + 1 \in DOMAIN ops' \ DOMAIN ops
        /\ \A j \in DOMAIN ops' \ DOMAIN ops : ops'[j].kind = "refs" => j = Len(ops) + 1
    BY <1>2, <2>1, <2>3, EnqueuedRefresh DEF IInv
  <2>5. Idle \in Requests /\ Idle.pc = "idle"
    BY RequestsHave
  <2>6. /\ TypeOK' /\ WorkersApart' /\ Branched' /\ Landed' /\ Told' /\ HeadAlone'
        /\ request'[h] = Idle /\ \A g \in Handlers : g # h => request'[g] = request[g]
    BY <2>1, <2>2, <2>4, <2>5, PinTypes, HandlerStep
  <2>7. Requesting("refresh")' = Requesting("refresh") \ {h}
    BY <2>5, <2>6 DEF Requesting
  <2>17. PICK new : new = Len(ops) + 1
    OBVIOUS
  <2>8. /\ new \notin DOMAIN ops /\ \A j \in DOMAIN ops : j \in Int /\ j < new
        /\ new \in Int
    BY <2>4, <2>17, OpTypes DEF IInv
  <2>9. \A j \in OfKinds({"refs"})' : j \in OfKinds({"refs"}) \/ j = new
    BY <2>4, <2>17 DEF OfKinds, OpsKept
  <2>10. /\ OfKinds(RefreshTypes \ RefreshKinds)' = OfKinds(RefreshTypes \ RefreshKinds)
         /\ OfKinds(RefreshTypes \ RefreshKinds) \subseteq DOMAIN ops
    BY <2>4 DEF OfKinds, OpsKept, NoneNew
  <2>11. \A i : /\ After(i)' = After(i) /\ Between(i, new)' = After(i)
                /\ Passed(i)' <=> Passed(i)
                /\ Hidden(i, new)' <=> Passed(i)
    <3>1. \A i : After(i)' = After(i) /\ Between(i, new)' = After(i)
      BY <2>8, <2>10 DEF After, Between
    <3>2. QED
      BY <3>1 DEF Passed, Hidden
  <2>12. Cardinality(Requesting("refresh")') = Cardinality(Requesting("refresh")) - 1
    BY <2>3, <2>7, CountedTypes, FS_RemoveElement DEF IInv
  <2>13. ASSUME NEW i \in DOMAIN ops, i \in ActiveOf("refs")'
         PROVE  Cardinality(UnderwayBeside(i)') + Cardinality(Asking(i)') <= Cardinality(Handlers)
    <3>1. i \in ActiveOf("refs")
      BY <2>4, <2>13 DEF ActiveOf, OfKinds, OpsKept
    <3>2. Cardinality(UnderwayBeside(i)) + Cardinality(Asking(i)) <= Cardinality(Handlers)
      BY <3>1 DEF IInv, RefsCounted
    <3>3. UnderwayBeside(i)' \subseteq UnderwayBeside(i) \cup (IF Passed(i) THEN {} ELSE {new})
      <4>1. \A j : ~Hidden(i, j)' => ~Hidden(i, j)
        BY <2>4, HidesMore
      <4>2. QED
        BY <2>4, <2>9, <2>11, <4>1 DEF UnderwayBeside, OfKinds, OpsKept
    <3>4. CASE Passed(i)
      <4>1. UnderwayBeside(i)' \subseteq UnderwayBeside(i) /\ Asking(i)' = Asking(i)
        BY <2>11, <3>3, <3>4 DEF Asking
      <4>2. /\ Cardinality(UnderwayBeside(i)') <= Cardinality(UnderwayBeside(i))
            /\ Cardinality(UnderwayBeside(i)') \in Nat
        BY <4>1, CountedTypes, FS_Subset, FS_CardinalityType DEF IInv
      <4>3. QED
        BY <3>2, <4>1, <4>2, CountedTypes DEF IInv
    <3>5. CASE ~Passed(i)
      <4>1. /\ UnderwayBeside(i)' \subseteq UnderwayBeside(i) \cup {new}
            /\ Asking(i) = Requesting("refresh") /\ Asking(i)' = Requesting("refresh")'
        BY <2>11, <3>3, <3>5 DEF Asking
      <4>2. Cardinality(UnderwayBeside(i)') <= Cardinality(UnderwayBeside(i)) + 1
            /\ Cardinality(UnderwayBeside(i)') \in Nat
        BY <4>1, CountedTypes, OneMoreAtMost DEF IInv
      <4>3. QED
        BY <2>12, <3>2, <4>1, <4>2, CountedTypes DEF IInv
    <3>6. QED
      BY <3>4, <3>5
  <2>14. Cardinality(UnderwayBeside(new)') + Cardinality(Asking(new)') <= Cardinality(Handlers)
    <3>1. UnderwayBeside(new)' \subseteq {new}
      <4>1. \A j : j \in UnderwayBeside(new)' => j \in OfKinds({"refs"})' /\ new <= j
        BY DEF UnderwayBeside
      <4>2. \A j \in OfKinds({"refs"}) : j \in Int /\ j < new
        BY <2>8 DEF OfKinds
      <4>3. \A j \in OfKinds({"refs"}) : ~(new <= j)
        BY <2>8, <4>2
      <4>4. QED
        BY <2>9, <4>1, <4>3
    <3>2. Cardinality(UnderwayBeside(new)') <= 1 /\ Cardinality(UnderwayBeside(new)') \in Nat
      <4>1. IsFiniteSet({new}) /\ Cardinality({new}) = 1
        BY FS_Singleton
      <4>2. QED
        BY <3>1, <4>1, FS_Subset, FS_CardinalityType
    <3>3. Asking(new)' \subseteq Requesting("refresh") \ {h}
      BY <2>7 DEF Asking
    <3>4. /\ Cardinality(Asking(new)') <= Cardinality(Requesting("refresh")) - 1
          /\ Cardinality(Asking(new)') \in Nat
      BY <2>3, <3>3, CountedTypes, FS_RemoveElement, FS_Subset, FS_CardinalityType DEF IInv
    <3>5. QED
      BY <3>2, <3>4, CountedTypes DEF IInv
  <2>15. ASSUME NEW i \in ActiveOf("refs")'
         PROVE  Cardinality(UnderwayBeside(i)') + Cardinality(Asking(i)') <= Cardinality(Handlers)
    <3>1. i \in DOMAIN ops \/ i = new
      BY <2>9 DEF ActiveOf, OfKinds
    <3>2. QED
      BY <2>13, <2>14, <2>15, <3>1
  <2>16. \A g \in Requesting("refresh")' : OneRefs(request'[g].kinds)
    <3>1. \A g \in Requesting("refresh") : g \in Handlers /\ OneRefs(request[g].kinds)
      BY DEF IInv, RefsCounted, Requesting
    <3>2. QED
      BY <2>6, <2>7, <3>1
  <2>18. RefsCounted'
    BY <2>15, <2>16 DEF RefsCounted
  <2>19. QED
    BY <2>4, <2>6, <2>18 DEF IInv
<1>3. QED
  BY <1>1, <1>2

(* A worker at work has an operation that was claimed. *)
LEMMA WorkerTypes ==
  ASSUME IInv, NEW w \in Workers
  PROVE  /\ worker[w].pc = "idle" <=> worker[w] = Idle
         /\ worker[w] # Idle =>
               /\ worker[w].pc \in {"read", "fetch", "push", "record", "finish"}
               /\ worker[w].i \in 1..MaxOps /\ worker[w].i \in DOMAIN ops
               /\ ops[worker[w].i].job # "queued"
               /\ worker[w].sha \in Shas /\ worker[w].ok \in BOOLEAN
               /\ worker[w].sha \in Landing
<1>1. worker[w] \in Stages
  BY DEF IInv, TypeOK
<1>2. worker[w] # Idle => worker[w].i \in DOMAIN ops /\ ops[worker[w].i].job # "queued"
  BY DEF IInv, WorkersApart
<1>3. worker[w] # Idle => worker[w].sha \in Landing
  BY Lands DEF IInv
<1>4. QED
  BY <1>1, <1>2, <1>3, StageTypes

(* A worker reads, fetches, has nothing to push, records or fails. *)
LEMMA StagesKeep ==
  ASSUME IInv, NEW w \in Workers,
         ReadRepository(w) \/ Fetch(w) \/ NothingChanged(w) \/ Record(w) \/ Fails(w)
  PROVE  IInv'
<1>1. /\ reader \in [Handlers \cup Workers -> Readings]
      /\ latest \in Shas /\ latest \in Landing /\ Idle \in Readings
  BY PinTypes, ReadingsHave
<1>2. 0 \in Landing /\ 0 \in Shas /\ Tip \in Landing /\ Tip \in Shas
  BY Lands, TipIsThere DEF Landing, Shas, IInv
<1>3. worker[w] # Idle
  BY WorkerTypes DEF ReadRepository, Fetch, NothingChanged, Record, Fails, At
<1>4. /\ worker[w].sha \in Shas /\ worker[w].ok \in BOOLEAN /\ worker[w].sha \in Landing
  BY <1>3, WorkerTypes
<1>5. UNCHANGED <<config, sole, history, connections, pin, ops, recorded, request>>
  BY DEF ReadRepository, Fetch, NothingChanged, Record, Fails, repository
<1>6. ASSUME Fail(w), UNCHANGED <<latest>>,
             reader' \in [Handlers \cup Workers -> Readings],
             \A v \in Workers : v # w => reader'[v] = reader[v]
      PROVE  IInv'
  <2>1. Step(w, "finish", worker[w].sha, FALSE)
    BY <1>6 DEF Fail
  <2>2. "finish" \notin Unpushed
    BY DEF Unpushed
  <2>3. QED
    BY <1>1, <1>3, <1>4, <1>5, <1>6, <2>1, <2>2, WorkerStep
<1>7. CASE ReadRepository(w)
  <2>1. UNCHANGED <<latest, reader>> /\ worker[w].pc \in Unpushed
    BY <1>7 DEF ReadRepository, At, Unpushed
  <2>2. CASE Fail(w)
    BY <1>1, <1>6, <2>1, <2>2
  <2>3. CASE Step(w, "fetch", 0, worker[w].ok)
    BY <1>1, <1>2, <1>3, <1>4, <1>5, <2>1, <2>3, WorkerStep
  <2>4. QED
    BY <1>7, <2>2, <2>3 DEF ReadRepository, Stage
<1>8. CASE Fetch(w)
  <2>1. UNCHANGED <<latest, reader>> /\ worker[w].pc \in Unpushed
    BY <1>8 DEF Fetch, At, Unpushed
  <2>2. PICK p \in {"push", "record"} : Step(w, p, Tip, worker[w].ok)
    BY <1>8 DEF Fetch, Stage
  <2>3. QED
    BY <1>1, <1>2, <1>3, <1>4, <1>5, <2>1, <2>2, WorkerStep
<1>9. CASE NothingChanged(w)
  <2>1. UNCHANGED <<latest, reader>> /\ worker[w].pc \in Unpushed
    BY <1>9 DEF NothingChanged, At, Unpushed
  <2>2. Step(w, "record", worker[w].sha, worker[w].ok)
    BY <1>9 DEF NothingChanged, Stage
  <2>3. QED
    BY <1>1, <1>3, <1>4, <1>5, <2>1, <2>2, WorkerStep
<1>10. CASE Record(w)
  <2>1. UNCHANGED reader /\ latest' \in Shas /\ latest' \in Landing
    BY <1>1, <1>4, <1>10 DEF Record
  <2>2. Step(w, "finish", worker[w].sha, worker[w].ok) /\ "finish" \notin Unpushed
    BY <1>10 DEF Record, Stage, Unpushed
  <2>3. QED
    BY <1>1, <1>3, <1>4, <1>5, <2>1, <2>2, WorkerStep
<1>11. CASE Fails(w)
  <2>1. Fail(w) /\ UNCHANGED latest /\ reader' = [reader EXCEPT ![w] = Idle]
    BY <1>11 DEF Fails
  <2>2. /\ reader' \in [Handlers \cup Workers -> Readings]
        /\ \A v \in Workers : v # w => reader'[v] = reader[v]
    BY <1>1, <2>1
  <2>3. QED
    BY <1>6, <2>1, <2>2
<1>12. QED
  BY <1>7, <1>8, <1>9, <1>10, <1>11

(* A commit that is new to the branch comes on top of it. *)
LEMMA BranchGrows ==
  ASSUME IInv, NEW c \in Commits, history' = Append(history, c), ~InHistory(c), UNCHANGED ops,
         \A n \in Pushed' : history'[n] <= MaxOps + Cardinality(Pushed'),
         ~(c > MaxOps) => c \in DOMAIN ops /\ ops[c].job # "queued",
         \A v \in Workers : worker'[v].pc \in Unpushed =>
            worker[v].pc \in Unpushed /\ worker'[v].i = worker[v].i /\ worker[v].i # c
  PROVE  Branched' /\ OnBranch \subseteq OnBranch' /\ c \in OnBranch'
<1>1. /\ Len(history) + 1 \notin DOMAIN history
      /\ DOMAIN history' = DOMAIN history \cup {Len(history) + 1}
      /\ \A n \in DOMAIN history : history'[n] = history[n]
      /\ history'[Len(history) + 1] = c
      /\ \A x : InHistory(x)' <=> InHistory(x) \/ x = c
  BY OneMore DEF IInv
<1>2. \A m, n \in DOMAIN history' : history'[m] = history'[n] => m = n
  BY <1>1 DEF IInv, Branched, InHistory
<1>3. \A n \in DOMAIN history' \ Pushed' :
         history'[n] \in DOMAIN ops' /\ ops'[history'[n]].job # "queued"
  <2> SUFFICES ASSUME NEW n \in DOMAIN history' \ Pushed'
               PROVE  history'[n] \in DOMAIN ops /\ ops[history'[n]].job # "queued"
    OBVIOUS
  <2>1. ~(history'[n] > MaxOps)
    BY DEF Pushed
  <2>2. CASE n \in DOMAIN history
    <3>1. n \in DOMAIN history \ Pushed /\ history'[n] = history[n]
      BY <1>1, <2>1, <2>2 DEF Pushed
    <3>2. QED
      BY <3>1 DEF IInv, Branched
  <2>3. CASE n \notin DOMAIN history
    BY <1>1, <2>1, <2>3
  <2>4. QED
    BY <2>2, <2>3
<1>4. \A w \in Workers : worker'[w].pc \in Unpushed => ~InHistory(worker[w].i)'
  BY <1>1 DEF IInv, Branched, Unpushed
<1>5. Branched'
  BY <1>2, <1>3, <1>4 DEF Branched, Unpushed
<1>6. OnBranch \subseteq OnBranch' /\ c \in OnBranch'
  BY <1>1 DEF OnBranch
<1>7. QED
  BY <1>5, <1>6

(* The next number of somebody else is new. *)
LEMMA SomebodyKeeps ==
  ASSUME IInv, SomebodyPushes
  PROVE  IInv'
<1> DEFINE k == Cardinality(Pushed)
           c == MaxOps + k + 1
<1>1. /\ history \in Seq(Commits) /\ Len(history) \in Nat /\ DOMAIN history = 1..Len(history)
      /\ \A n \in DOMAIN history : history[n] \in Nat \ {0}
      /\ IsFiniteSet(Pushed) /\ k \in Nat
  BY BranchTypes DEF IInv
<1>2. k < MaxPushes /\ history' = Append(history, c)
      /\ UNCHANGED <<config, sole, connections, latest, pin, ops, recorded, request, worker, reader>>
  BY DEF SomebodyPushes, Pushed
<1> HIDE DEF k
<1>3. c \in Commits /\ c > MaxOps
  BY <1>1, <1>2 DEF Commits
<1>4. ~InHistory(c)
  <2> SUFFICES ASSUME NEW n \in DOMAIN history PROVE history[n] # c
    BY DEF InHistory
  <2>1. CASE n \in Pushed
    <3>1. history[n] <= MaxOps + k
      BY <2>1 DEF IInv, Branched, k
    <3>2. QED
      BY <1>1, <3>1
  <2>2. CASE n \notin Pushed
    <3>1. ~(history[n] > MaxOps)
      BY <2>2 DEF Pushed
    <3>2. QED
      BY <1>3, <3>1
  <2>3. QED
    BY <2>1, <2>2
<1>5. /\ history' \in Seq(Commits) /\ Len(history) + 1 \notin DOMAIN history
      /\ DOMAIN history' = DOMAIN history \cup {Len(history) + 1}
      /\ \A n \in DOMAIN history : history'[n] = history[n]
      /\ history'[Len(history) + 1] = c
  <2> HIDE DEF c
  <2>1. QED
    BY <1>2, <1>3, OneMore DEF IInv
<1>6. Pushed' = Pushed \cup {Len(history) + 1} /\ Len(history) + 1 \notin Pushed
  BY <1>3, <1>5 DEF Pushed
<1>7. Cardinality(Pushed') = k + 1
  BY <1>1, <1>6, FS_AddElement DEF k
<1>8. \A n \in Pushed' : history'[n] <= MaxOps + Cardinality(Pushed')
  <2> SUFFICES ASSUME NEW n \in Pushed' PROVE history'[n] <= MaxOps + (k + 1)
    BY <1>7
  <2>1. CASE n \in Pushed
    <3>1. history[n] <= MaxOps + k /\ n \in DOMAIN history
      BY <2>1 DEF IInv, Branched, k, Pushed
    <3>2. QED
      BY <1>1, <1>5, <3>1
  <2>2. CASE n = Len(history) + 1
    <3>1. history'[n] = c
      BY <1>5, <2>2
    <3>2. QED
      BY <1>1, <3>1
  <2>3. QED
    BY <1>6, <2>1, <2>2
<1>9. \A v \in Workers : worker[v].pc \in Unpushed => worker[v].i # c
  <2> SUFFICES ASSUME NEW v \in Workers, worker[v].pc \in Unpushed PROVE worker[v].i # c
    OBVIOUS
  <2>1. worker[v] # Idle
    BY WorkerTypes DEF Unpushed
  <2>2. worker[v].i \in 1..MaxOps
    BY <2>1, WorkerTypes
  <2>3. QED
    BY <1>3, <2>2
<1> HIDE DEF c
<1>10. Branched' /\ OnBranch \subseteq OnBranch' /\ c \in OnBranch'
  BY <1>2, <1>3, <1>4, <1>8, <1>9, BranchGrows
<1>11. TypeOK'
  BY <1>2, <1>5 DEF IInv, TypeOK, recorded
<1>12. Landed'
  <2>1. /\ latest' \in Landing /\ pin' \in Landing
        /\ \A h \in Handlers : request'[h].pc = "pin" => request'[h].sha \in Landing \ {0}
        /\ \A w \in Workers : worker'[w] # Idle => worker'[w].sha \in Landing
    BY <1>2, Lands DEF IInv
  <2>2. QED
    BY <1>10, <2>1, KeepsLanded
<1>13. JobsFollow' /\ WorkersApart' /\ RefsCounted' /\ HeadAlone'
  BY <1>2, SameThere DEF repository
<1>14. Told'
  BY <1>2 DEF IInv, Told, AllCompleted, Refreshes, OfKinds, Right, WillTell, recorded
<1>15. QED
  BY <1>10, <1>11, <1>12, <1>13, <1>14 DEF IInv

(* A push is accepted on top of what was fetched only. *)
LEMMA PushKeeps ==
  ASSUME IInv, NEW w \in Workers, Push(w)
  PROVE  IInv'
<1> DEFINE c == worker[w].i
<1>1. worker[w] # Idle /\ worker[w].pc = "push" /\ worker[w].pc \in Unpushed
  BY WorkerTypes DEF Push, At, Unpushed
<1>2. /\ c \in 1..MaxOps /\ c \in DOMAIN ops /\ ops[c].job # "queued"
      /\ worker[w].sha \in Shas /\ worker[w].ok \in BOOLEAN /\ worker[w].sha \in Landing
  BY <1>1, WorkerTypes
<1>3. UNCHANGED <<config, sole, connections, latest, pin, ops, recorded, request, reader>>
  BY DEF Push
<1>4. /\ latest \in Shas /\ latest \in Landing
      /\ reader \in [Handlers \cup Workers -> Readings]
  BY PinTypes
<1>5. CASE ~Accepted(worker[w].sha)
  <2>1. Step(w, "finish", worker[w].sha, FALSE) /\ UNCHANGED history
    BY <1>5 DEF Push, Fail
  <2>2. "finish" \notin Unpushed
    BY DEF Unpushed
  <2>3. QED
    BY <1>1, <1>2, <1>3, <1>4, <2>1, <2>2, WorkerStep
<1>6. CASE Accepted(worker[w].sha)
  <2>1. history' = Append(history, c) /\ Step(w, "record", c, worker[w].ok)
    <3>1. worker[w].sha = Tip
      BY <1>6 DEF Accepted
    <3>2. UpTo(worker[w].sha) = history
      BY <3>1, UpToTip DEF IInv
    <3>3. QED
      BY <1>6, <3>2 DEF Push, Stage
  <2>2. c \in Commits /\ c \in Shas /\ ~(c > MaxOps)
    BY <1>2 DEF Commits, Shas
  <2>3. /\ worker' \in [Workers -> Stages]
        /\ worker'[w] = [pc |-> "record", i |-> c, sha |-> c, ok |-> worker[w].ok]
        /\ worker'[w] # Idle
        /\ \A v \in Workers : v # w => worker'[v] = worker[v]
    BY <1>1, <1>2, <2>1, <2>2, Stepped DEF IInv
  <2>4. worker'[w].pc = "record" /\ worker'[w].i = c /\ worker'[w].sha = c
    BY <2>3
  <2>5. ~InHistory(c)
    BY <1>1 DEF IInv, Branched
  <2>6. /\ history' \in Seq(Commits) /\ Len(history) + 1 \notin DOMAIN history
        /\ DOMAIN history' = DOMAIN history \cup {Len(history) + 1}
        /\ \A n \in DOMAIN history : history'[n] = history[n]
        /\ history'[Len(history) + 1] = c
    <3> HIDE DEF c
    <3>1. QED
      BY <2>1, <2>2, OneMore DEF IInv
  <2>7. Pushed' = Pushed
    BY <2>2, <2>6 DEF Pushed
  <2>8. \A n \in Pushed' : history'[n] <= MaxOps + Cardinality(Pushed')
    <3>1. \A n \in Pushed : history'[n] = history[n]
      BY <2>6 DEF Pushed
    <3>2. \A n \in Pushed : history[n] <= MaxOps + Cardinality(Pushed)
      BY DEF IInv, Branched
    <3>3. QED
      BY <2>7, <3>1, <3>2
  <2>9. \A v \in Workers : worker'[v].pc \in Unpushed =>
           worker[v].pc \in Unpushed /\ worker'[v].i = worker[v].i /\ worker[v].i # c
    <3> SUFFICES ASSUME NEW v \in Workers, worker'[v].pc \in Unpushed
                 PROVE  worker[v].pc \in Unpushed /\ worker'[v].i = worker[v].i /\ worker[v].i # c
      OBVIOUS
    <3>1. v # w
      BY <2>4 DEF Unpushed
    <3>2. worker'[v] = worker[v] /\ worker[v] # Idle
      BY <2>3, <3>1, WorkerTypes DEF Unpushed
    <3>3. worker[v].i # c
      BY <1>1, <3>1, <3>2 DEF IInv, WorkersApart
    <3>4. QED
      BY <3>2, <3>3
  <2>10. Branched' /\ OnBranch \subseteq OnBranch' /\ c \in OnBranch'
    <3> HIDE DEF c
    <3>1. QED
      BY <1>2, <1>3, <2>1, <2>2, <2>5, <2>8, <2>9, BranchGrows
  <2>11. TypeOK'
    BY <1>3, <2>3, <2>6 DEF IInv, TypeOK, recorded
  <2>12. OpsKept /\ OpsTyped /\ JobsFollow' /\ RefreshesKept /\ \A kinds : NoneNew(kinds)
    BY <1>3, SameOps DEF IInv
  <2>13. WorkersApart'
    BY <1>1, <2>3, <2>4, <2>12, KeepsApart DEF IInv
  <2>14. Landed'
    <3>1. /\ latest' \in Landing /\ pin' \in Landing
          /\ \A h \in Handlers : request'[h].pc = "pin" => request'[h].sha \in Landing \ {0}
      BY <1>3, Lands DEF IInv
    <3>2. c \in Landing
      BY <2>10 DEF Landing
    <3>3. \A v \in Workers : worker'[v] # Idle => worker'[v].sha \in Landing
      BY <2>3, <2>4, <3>2, Lands DEF IInv
    <3>4. QED
      BY <2>10, <3>1, <3>3, KeepsLanded
  <2>15. HeadAlone' /\ RefsCounted'
    <3>1. Requesting("head")' = Requesting("head")
      BY <1>3 DEF Requesting
    <3>2. QED
      BY <1>3, <2>12, <3>1, KeepsHead, KeepsRefs DEF IInv
  <2>16. Told'
    <3>1. \A v \in Workers : WillTell(v) => worker'[v] = Idle /\ reader'[v] = reader[v]
      BY <1>1, <1>3, <2>3 DEF WillTell
    <3>2. QED
      BY <1>3, <2>12, <3>1, KeepsTold DEF IInv, recorded
  <2>17. QED
    BY <2>10, <2>11, <2>12, <2>13, <2>14, <2>15, <2>16 DEF IInv
<1>7. QED
  BY <1>5, <1>6

(* A worker that is free claims an operation that nobody had. *)
LEMMA ClaimKeeps ==
  ASSUME IInv, NEW w \in Workers, NEW i \in DOMAIN ops, Claim(w, i)
  PROVE  IInv'
<1>1. /\ worker[w] = Idle /\ reader[w] = Idle /\ ops[i].job = "queued"
      /\ Mark(i, "running", "running")
      /\ worker' = [worker EXCEPT ![w] = [pc |-> FirstStage(i), i |-> i, sha |-> 0, ok |-> TRUE]]
      /\ UNCHANGED <<repository, latest, pin, recorded, request>>
  BY DEF Claim, Mark
<1>2. UNCHANGED <<config, sole, history, connections, rows, lost, reviews>>
  BY <1>1 DEF repository, recorded
<1>3. OpsKept /\ OpsTyped /\ JobsFollow' /\ RefreshesKept /\ \A kinds : NoneNew(kinds)
  <2>1. ops[i].op \in Active
    BY <1>1 DEF IInv, JobsFollow, Active
  <2>2. "running" \in Statuses
    BY DEF Statuses, Active
  <2>3. QED
    BY <1>1, <2>1, <2>2, MarkedKeeps DEF IInv
<1>4. i \in 1..MaxOps /\ ops'[i].job = "running" /\ DOMAIN ops' = DOMAIN ops
  <2>1. "running" \in Statuses
    BY DEF Statuses, Active
  <2>2. QED
    BY <1>1, <2>1, Marked, OpTypes DEF IInv
<1>5. FirstStage(i) \in {"read", "record", "fetch"}
  BY DEF FirstStage
<1>6. /\ worker' \in [Workers -> Stages]
      /\ worker'[w].i = i /\ worker'[w].sha = 0
      /\ \A v \in Workers : v # w => worker'[v] = worker[v]
  <2>1. 0 \in Shas
    BY DEF Shas
  <2>2. [pc |-> FirstStage(i), i |-> i, sha |-> 0, ok |-> TRUE] \in Stages
    BY <1>4, <1>5, <2>1, StagesHave
  <2>3. worker \in [Workers -> Stages]
    BY DEF IInv, TypeOK
  <2>4. QED
    BY <1>1, <2>2, <2>3
<1>7. /\ reader' \in [Handlers \cup Workers -> Readings]
      /\ \A v \in Workers : v # w => reader'[v] = reader[v]
  <2>1. reader' = reader \/ reader' = [reader EXCEPT ![w] = [pc |-> "look", need |-> TRUE]]
    BY DEF Claim, Read
  <2>2. [pc |-> "look", need |-> TRUE] \in Readings
    BY ReadingsHave
  <2>3. QED
    BY <2>1, <2>2, PinTypes
<1>8. TypeOK'
  BY <1>1, <1>2, <1>3, <1>6, <1>7 DEF IInv, TypeOK, OpsTyped
<1>9. \A v \in Workers : v # w /\ worker'[v] # Idle =>
         worker[v] # Idle /\ worker'[v].i = worker[v].i /\ worker[v].i # i
  BY <1>1, <1>6 DEF IInv, WorkersApart
<1>10. WorkersApart'
  <2>1. \A v \in Workers : worker'[v] # Idle =>
           worker'[v].i \in DOMAIN ops' /\ ops'[worker'[v].i].job # "queued"
    <3> SUFFICES ASSUME NEW v \in Workers, worker'[v] # Idle
                 PROVE  worker'[v].i \in DOMAIN ops' /\ ops'[worker'[v].i].job # "queued"
      OBVIOUS
    <3>1. CASE v = w
      BY <1>4, <1>6, <3>1
    <3>2. CASE v # w
      BY <1>3, <1>9, <3>2 DEF IInv, WorkersApart, OpsKept
    <3>3. QED
      BY <3>1, <3>2
  <2>2. \A u, v \in Workers : u # v /\ worker'[u] # Idle /\ worker'[v] # Idle =>
           worker'[u].i # worker'[v].i
    BY <1>6, <1>9 DEF IInv, WorkersApart
  <2>3. QED
    BY <2>1, <2>2 DEF WorkersApart
<1>11. ~InHistory(i)
  <2> SUFFICES ASSUME NEW n \in DOMAIN history, history[n] = i PROVE FALSE
    BY DEF InHistory
  <2>1. n \notin Pushed
    BY <1>4 DEF Pushed
  <2>2. QED
    BY <1>1, <2>1 DEF IInv, Branched
<1>12. Branched'
  <2>1. Pushed' = Pushed /\ DOMAIN history' = DOMAIN history /\ \A x : InHistory(x)' <=> InHistory(x)
    BY <1>2 DEF Pushed, InHistory
  <2>2. \A n \in DOMAIN history \ Pushed :
           history[n] \in DOMAIN ops' /\ ops'[history[n]].job # "queued"
    BY <1>3 DEF IInv, Branched, OpsKept
  <2>3. \A v \in Workers : worker'[v].pc \in Unpushed => ~InHistory(worker'[v].i)
    BY <1>6, <1>11 DEF IInv, Branched, Unpushed
  <2>4. QED
    BY <1>2, <2>1, <2>2, <2>3 DEF IInv, Branched, Unpushed
<1>13. Landed'
  <2>1. /\ OnBranch \subseteq OnBranch' /\ latest' \in Landing /\ pin' \in Landing
        /\ \A h \in Handlers : request'[h].pc = "pin" => request'[h].sha \in Landing \ {0}
    BY <1>1, <1>2, Lands DEF IInv
  <2>2. \A v \in Workers : worker'[v] # Idle => worker'[v].sha \in Landing
    BY <1>6, <1>9, Lands DEF IInv, Landing
  <2>3. QED
    BY <2>1, <2>2, KeepsLanded
<1>14. HeadAlone' /\ RefsCounted'
  <2>1. Requesting("head")' = Requesting("head")
    BY <1>1 DEF Requesting
  <2>2. QED
    BY <1>1, <1>3, <2>1, KeepsHead, KeepsRefs DEF IInv
<1>15. Told'
  <2>1. ~WillTell(w)
    BY <1>1 DEF WillTell, Idle
  <2>2. \A v \in Workers : WillTell(v) => worker'[v] = Idle /\ reader'[v] = reader[v]
    BY <1>6, <1>7, <2>1 DEF WillTell
  <2>3. QED
    BY <1>2, <1>3, <2>2, KeepsTold DEF IInv
<1>16. QED
  BY <1>3, <1>8, <1>10, <1>12, <1>13, <1>14, <1>15 DEF IInv

(* A worker lets go of its operation. *)
LEMMA WorkerLeaves ==
  ASSUME IInv, NEW w \in Workers, worker' = [worker EXCEPT ![w] = Idle],
         UNCHANGED <<repository, latest, pin, rows, reviews, request>>, lost' \in BOOLEAN,
         reader' \in [Handlers \cup Workers -> Readings],
         OpsKept, OpsTyped, JobsFollow', \A kinds : NoneNew(kinds), Told'
  PROVE  IInv'
<1>1. UNCHANGED <<config, sole, history, connections>>
  BY DEF repository
<1>2. worker' \in [Workers -> Stages] /\ worker'[w] = Idle
      /\ \A v \in Workers : v # w => worker'[v] = worker[v]
  BY StagesHave DEF IInv, TypeOK
<1>3. TypeOK'
  BY <1>1, <1>2 DEF IInv, TypeOK, OpsTyped
<1>4. \A v \in Workers : worker'[v] # Idle => worker[v] # Idle /\ worker'[v] = worker[v]
  BY <1>2
<1>5. WorkersApart'
  BY <1>4, KeepsApart DEF IInv
<1>6. Branched'
  <2>1. \A v \in Workers : worker'[v].pc \in Unpushed =>
           worker[v].pc \in Unpushed /\ worker'[v].i = worker[v].i
    BY <1>2 DEF Unpushed, Idle
  <2>2. QED
    BY <1>1, <2>1, KeepsBranch DEF IInv
<1>7. Landed'
  <2>1. /\ OnBranch \subseteq OnBranch' /\ latest' \in Landing /\ pin' \in Landing
        /\ \A h \in Handlers : request'[h].pc = "pin" => request'[h].sha \in Landing \ {0}
    BY <1>1, Lands DEF IInv
  <2>2. \A v \in Workers : worker'[v] # Idle => worker'[v].sha \in Landing
    BY <1>4, Lands DEF IInv
  <2>3. QED
    BY <2>1, <2>2, KeepsLanded
<1>8. HeadAlone' /\ RefsCounted'
  <2>1. Requesting("head")' = Requesting("head")
    BY DEF Requesting
  <2>2. QED
    BY <2>1, KeepsHead, KeepsRefs DEF IInv
<1>9. QED
  BY <1>3, <1>5, <1>6, <1>7, <1>8 DEF IInv

(* A worker that finishes a refresh looks at once whether all are done. *)
LEMMA FinishKeeps ==
  ASSUME IInv, NEW w \in Workers, Finish(w)
  PROVE  IInv'
<1> DEFINE i == worker[w].i
           status == IF worker[w].ok THEN "completed" ELSE "failed"
<1>1. worker[w] # Idle /\ worker' = [worker EXCEPT ![w] = Idle]
      /\ UNCHANGED <<repository, latest, pin, recorded, request>>
  BY WorkerTypes DEF Finish, At
<1>2. i \in DOMAIN ops /\ status \in Statuses /\ status # "queued" /\ status \notin Active
  BY <1>1, WorkerTypes DEF Statuses, Active
<1>3. Mark(i, status, status)
  BY DEF Finish, Mark
<1>4. IF ops[i].kind \in RefreshKinds THEN Read(w, TRUE) ELSE UNCHANGED reader
  BY DEF Finish, Job, ValidatedAfter
<1> HIDE DEF i, status
<1>5. /\ OpsKept /\ OpsTyped /\ JobsFollow' /\ \A kinds : NoneNew(kinds)
      /\ ops[i].kind \notin RefreshKinds => RefreshesKept
  BY <1>2, <1>3, MarkedKeeps DEF IInv
<1>6. UNCHANGED <<rows, reviews, lost>>
  BY <1>1 DEF recorded
<1>7. worker'[w] = Idle /\ \A v \in Workers : v # w => worker'[v] = worker[v]
  BY <1>1 DEF IInv, TypeOK
<1>8. /\ reader' \in [Handlers \cup Workers -> Readings]
      /\ ops[i].kind \in RefreshKinds => reader'[w] = [pc |-> "look", need |-> TRUE]
  <2>1. [pc |-> "look", need |-> TRUE] \in Readings
    BY ReadingsHave
  <2>2. QED
    BY <1>4, <2>1, PinTypes DEF Read
<1>9. Told'
  <2>1. CASE ops[i].kind \in RefreshKinds
    <3>1. WillTell(w)'
      BY <1>7, <1>8, <2>1 DEF WillTell
    <3>2. QED
      BY <3>1 DEF Told
  <2>2. CASE ops[i].kind \notin RefreshKinds
    <3>1. \A v \in Workers : WillTell(v) => worker'[v] = Idle /\ reader'[v] = reader[v]
      BY <1>1, <1>4, <1>7, <2>2 DEF WillTell
    <3>2. QED
      BY <1>5, <1>6, <2>2, <3>1, KeepsTold DEF IInv
  <2>3. QED
    BY <2>1, <2>2
<1>10. lost' \in BOOLEAN
  BY <1>6 DEF IInv, TypeOK
<1>11. QED
  BY <1>1, <1>5, <1>6, <1>8, <1>9, <1>10, WorkerLeaves

(* A worker that stops between an operation and its record is noted (lost). *)
LEMMA CrashKeeps ==
  ASSUME IInv, NEW w \in Workers, Crash(w)
  PROVE  IInv'
<1>1. /\ worker' = [worker EXCEPT ![w] = Idle] /\ reader' = [reader EXCEPT ![w] = Idle]
      /\ lost' = (lost \/ worker[w] = Idle)
      /\ UNCHANGED <<repository, latest, pin, ops, rows, reviews, request>>
  BY DEF Crash
<1>2. OpsKept /\ OpsTyped /\ JobsFollow' /\ RefreshesKept /\ \A kinds : NoneNew(kinds)
  BY <1>1, SameOps DEF IInv
<1>3. /\ reader' \in [Handlers \cup Workers -> Readings]
      /\ \A v \in Workers : v # w => reader'[v] = reader[v] /\ worker'[v] = worker[v]
  BY <1>1, PinTypes, ReadingsHave DEF IInv, TypeOK
<1>4. lost \in BOOLEAN /\ lost' \in BOOLEAN
  BY <1>1 DEF IInv, TypeOK
<1>5. Told'
  <2>1. CASE worker[w] = Idle
    <3>1. lost'
      BY <1>1, <2>1
    <3>2. QED
      BY <3>1 DEF Told
  <2>2. CASE worker[w] # Idle
    <3>1. lost' = lost
      BY <1>1, <1>4, <2>2, Zenon
    <3>2. \A v \in Workers : WillTell(v) => worker'[v] = Idle /\ reader'[v] = reader[v]
      BY <1>3, <2>2 DEF WillTell
    <3>3. QED
      BY <1>1, <1>2, <3>1, <3>2, KeepsTold DEF IInv
  <2>3. QED
    BY <2>1, <2>2
<1>6. QED
  BY <1>1, <1>2, <1>3, <1>4, <1>5, WorkerLeaves

(* Operations are canceled, or swept. *)
LEMMA StopsKeep ==
  ASSUME IInv, NEW i \in DOMAIN ops, Cancel(i) \/ TimeOut(i)
  PROVE  IInv'
<1>1. UNCHANGED <<repository, latest, pin, recorded, request, worker, reader>>
  BY DEF Cancel, TimeOut
<1>2. ops[i].op \in Statuses /\ ops[i].job \in Statuses
  BY OpTypes DEF IInv
<1>3. \E o \in {"canceled", "failed"}, b \in Statuses \ {"queued"} : Mark(i, o, b)
  <2>1. CASE Cancel(i)
    <3> DEFINE b == IF ops[i].job = "queued" THEN "canceled" ELSE ops[i].job
    <3>1. b \in Statuses \ {"queued"}
      BY <1>2 DEF Statuses
    <3>2. Mark(i, "canceled", b)
      BY <2>1 DEF Cancel, Mark
    <3>3. QED
      BY <3>1, <3>2
  <2>2. CASE TimeOut(i)
    BY <2>2 DEF TimeOut, Mark, Statuses
  <2>3. QED
    BY <2>1, <2>2
<1>4. PICK o \in {"canceled", "failed"}, b \in Statuses \ {"queued"} : Mark(i, o, b)
  BY <1>3
<1>5. o \in Statuses /\ o \notin Active /\ o # "completed"
  BY DEF Statuses, Active
<1>6. OpsKept /\ OpsTyped /\ JobsFollow' /\ RefreshesKept /\ \A kinds : NoneNew(kinds)
  BY <1>4, <1>5, MarkedKeeps DEF IInv
<1>7. QED
  BY <1>1, <1>6, OpsStep

(* A validation goes on: what it counts of operations that are done, it      *)
(* counts right.                                                             *)
LEMMA ValidationStep ==
  ASSUME IInv, UNCHANGED <<repository, latest, pin, ops, reviews, lost, request, worker>>,
         rows' \in Seq(Rows), reader' \in [Handlers \cup Workers -> Readings],
         \A n \in DOMAIN rows : n \in DOMAIN rows' /\ rows'[n] = rows[n],
         \A w \in Workers : AllCompleted /\ WillTell(w) =>
            WillTell(w)' \/ \E n \in DOMAIN rows' : Right(rows'[n])
  PROVE  IInv'
<1>1. UNCHANGED <<config, sole, history, connections>>
  BY DEF repository
<1>2. TypeOK'
  BY <1>1 DEF IInv, TypeOK
<1>3. JobsFollow' /\ WorkersApart' /\ RefsCounted' /\ HeadAlone'
  BY SameThere
<1>4. Branched'
  <2>1. OpsKept
    BY SameOps DEF IInv
  <2>2. QED
    BY <1>1, <2>1, KeepsBranch DEF IInv
<1>5. Landed'
  BY <1>1 DEF IInv, Landed, RecordedShaIsInHistory, InHistory
<1>6. Refreshes' = Refreshes /\ (AllCompleted' <=> AllCompleted)
  BY DEF Refreshes, OfKinds, AllCompleted
<1>7. Told'
  <2> SUFFICES ASSUME AllCompleted, ~lost
               PROVE  (\E n \in DOMAIN rows : Right(rows[n]))' \/ \E w \in Workers : WillTell(w)'
    BY <1>6 DEF Told
  <2>1. (\E n \in DOMAIN rows : Right(rows[n]))' <=> \E n \in DOMAIN rows' : Right(rows'[n])
    BY <1>6 DEF Right
  <2>2. CASE \E n \in DOMAIN rows : Right(rows[n])
    BY <2>1, <2>2
  <2>3. CASE \E w \in Workers : WillTell(w)
    BY <2>1, <2>3
  <2>4. QED
    BY <2>2, <2>3 DEF IInv, Told
<1>8. QED
  BY <1>2, <1>3, <1>4, <1>5, <1>7 DEF IInv

(* A worker that counts when all refreshes completed finds all of them. *)
LEMMA CountIsRight ==
  ASSUME IInv, AllCompleted, NEW state \in {"ready", "partial", "blocked"}, NEW need \in BOOLEAN
  PROVE  ReadyToRecord(need) /\ Right(RowSeen(state))
<1>1. StatusOf(Refreshes) = "recorded"
  BY RecordedMeans DEF IInv
<1>2. Rechecked
  BY DEF Rechecked, AllCompleted, Some, Active
<1>3. {i \in Refreshes : ops[i].op = "completed"} = Refreshes
  BY DEF AllCompleted
<1>4. QED
  BY <1>1, <1>2, <1>3 DEF ReadyToRecord, ReadyForReview, RowSeen, Right

(* The row of a validation is well typed. *)
LEMMA RowTypes ==
  ASSUME IInv, NEW state \in {"ready", "partial", "blocked"}
  PROVE  RowSeen(state) \in Rows
<1> DEFINE done == {i \in Refreshes : ops[i].op = "completed"}
<1>1. StatusOf(Refreshes) \in Outcomes
  BY DEF StatusOf, Outcomes
<1>2. done \subseteq 1..Len(ops) /\ Len(ops) \in Nat /\ Len(ops) <= MaxOps
  BY OpTypes DEF IInv, Refreshes, OfKinds
<1>3. Cardinality(done) \in Nat /\ Cardinality(done) <= Len(ops)
  <2>1. IsFiniteSet(1..Len(ops)) /\ Cardinality(1..Len(ops)) = Len(ops)
    <3> DEFINE n == Len(ops)
    <3>1. n \in Nat
      BY <1>2
    <3> HIDE DEF n
    <3>2. IsFiniteSet(1..n) /\ Cardinality(1..n) = IF 1 > n THEN 0 ELSE n - 1 + 1
      BY ONLY <3>1, FS_Interval
    <3>3. Cardinality(1..n) = n
      BY ONLY <3>1, <3>2
    <3>4. QED
      BY <3>2, <3>3 DEF n
  <2> DEFINE n == Len(ops)
  <2> HIDE DEF done, n
  <2>2. IsFiniteSet(1..n) /\ Cardinality(1..n) = n /\ done \subseteq 1..n
    BY <1>2, <2>1 DEF n
  <2>3. Cardinality(done) \in Nat /\ Cardinality(done) <= n
    BY ONLY <2>2, FS_Subset, FS_CardinalityType
  <2>4. QED
    BY <2>3 DEF n
<1>4. Cardinality(done) \in 0..MaxOps
  <2> HIDE DEF done
  <2>1. QED
    BY <1>2, <1>3
<1>5. RowSeen(state) = [state |-> state, status |-> StatusOf(Refreshes), completed |-> Cardinality(done)]
  BY DEF RowSeen
<1> HIDE DEF done
<1>6. QED
  BY <1>1, <1>4, <1>5 DEF Rows

(* The stages of a validation keep the invariant. *)
LEMMA ValidatesKeep ==
  ASSUME IInv, NEW a \in Handlers \cup Workers, Validate(a)
  PROVE  IInv'
<1>1. /\ UNCHANGED <<repository, latest, pin, ops, reviews, lost, request, worker>>
  BY DEF Validate, ReadRemotes, ReadOperations, WriteRow, recorded
<1>2. reader[a] \in Readings /\ rows \in Seq(Rows) /\ reader \in [Handlers \cup Workers -> Readings]
  BY DEF IInv, TypeOK
<1>3. CASE ReadRemotes(a)
  <2> DEFINE d == [pc |-> "count", need |-> reader[a].need, state |-> ValidationState]
  <2>1. reader[a].pc = "look" /\ reader' = [reader EXCEPT ![a] = d] /\ rows' = rows
    BY <1>3 DEF ReadRemotes, recorded
  <2>2. ValidationState \in {"ready", "partial", "blocked"}
    BY DEF ValidationState, ItemStatus
  <2>3. d \in Readings /\ d.pc = "count"
    BY <1>2, <2>1, <2>2, ReadingTypes, ReadingsHave
  <2> HIDE DEF d
  <2>4. reader' \in [Handlers \cup Workers -> Readings]
    BY <1>2, <2>1, <2>3
  <2>5. \A w \in Workers : WillTell(w) => WillTell(w)'
    <3> SUFFICES ASSUME NEW w \in Workers, WillTell(w) PROVE WillTell(w)'
      OBVIOUS
    <3>1. CASE w = a
      BY <1>1, <1>2, <2>1, <2>3, <3>1 DEF WillTell
    <3>2. CASE w # a
      <4>1. reader'[w] = reader[w] /\ worker'[w] = worker[w] /\ Refreshes' = Refreshes
        BY <1>1, <1>2, <2>1, <3>2 DEF Refreshes, OfKinds
      <4>2. QED
        BY <4>1 DEF WillTell, Right
    <3>3. QED
      BY <3>1, <3>2
  <2>6. QED
    BY <1>1, <1>2, <2>1, <2>4, <2>5, ValidationStep
<1>4. CASE ReadOperations(a)
  <2> DEFINE row == RowSeen(reader[a].state)
             d == [pc |-> "write", row |-> row]
  <2>1. /\ reader[a].pc = "count" /\ rows' = rows
        /\ reader' = [reader EXCEPT ![a] = IF ReadyToRecord(reader[a].need) THEN d ELSE Idle]
    BY <1>4 DEF ReadOperations, recorded
  <2>2. reader[a].state \in {"ready", "partial", "blocked"} /\ reader[a].need \in BOOLEAN
    BY <1>2, <2>1, ReadingTypes
  <2>3. row \in Rows
    BY <2>2, RowTypes
  <2>4. d \in Readings /\ d.pc = "write" /\ d.row = row /\ Idle \in Readings
    BY <2>3, ReadingsHave
  <2>5. AllCompleted => ReadyToRecord(reader[a].need) /\ Right(row)
    BY <2>2, CountIsRight
  <2> HIDE DEF d, row
  <2>6. reader' \in [Handlers \cup Workers -> Readings]
    BY <1>2, <2>1, <2>4
  <2>7. Refreshes' = Refreshes
    BY <1>1 DEF Refreshes, OfKinds
  <2>8. \A w \in Workers : AllCompleted /\ WillTell(w) => WillTell(w)'
    <3> SUFFICES ASSUME NEW w \in Workers, AllCompleted, WillTell(w) PROVE WillTell(w)'
      OBVIOUS
    <3>1. CASE w = a
      <4>1. reader'[w] = d /\ worker'[w] = Idle
        BY <1>1, <1>2, <2>1, <2>5, <3>1 DEF WillTell
      <4>2. Right(row)
        BY <2>5
      <4>3. QED
        BY <2>4, <2>7, <4>1, <4>2 DEF WillTell, Right
    <3>2. CASE w # a
      <4>1. reader'[w] = reader[w] /\ worker'[w] = worker[w]
        BY <1>1, <1>2, <2>1, <3>2
      <4>2. QED
        BY <2>7, <4>1 DEF WillTell, Right
    <3>3. QED
      BY <3>1, <3>2
  <2>9. QED
    BY <1>1, <1>2, <2>1, <2>6, <2>8, ValidationStep
<1>5. CASE WriteRow(a)
  <2> DEFINE row == reader[a].row
  <2>1. /\ reader[a].pc = "write" /\ reader' = [reader EXCEPT ![a] = Idle]
        /\ rows' = IF rows # <<>> /\ rows[Len(rows)] = row THEN rows ELSE Append(rows, row)
    BY <1>5 DEF WriteRow
  <2>2. row \in Rows
    BY <1>2, <2>1, ReadingTypes
  <2> HIDE DEF row
  <2>3. Len(rows) \in Nat /\ DOMAIN rows = 1..Len(rows)
    BY <1>2, LenProperties
  <2>4. /\ rows' \in Seq(Rows)
        /\ \A n \in DOMAIN rows : n \in DOMAIN rows' /\ rows'[n] = rows[n]
        /\ \E n \in DOMAIN rows' : rows'[n] = row
    <3>1. CASE rows # <<>> /\ rows[Len(rows)] = row
      <4>1. rows' = rows /\ Len(rows) \in DOMAIN rows
        BY <1>2, <2>1, <2>3, <3>1, EmptySeq
      <4>2. QED
        BY <1>2, <3>1, <4>1
    <3>2. CASE ~(rows # <<>> /\ rows[Len(rows)] = row)
      <4>1. rows' = Append(rows, row)
        BY <2>1, <3>2
      <4>2. /\ Append(rows, row) \in Seq(Rows) /\ Len(Append(rows, row)) = Len(rows) + 1
            /\ \A n \in 1..Len(rows) : Append(rows, row)[n] = rows[n]
            /\ Append(rows, row)[Len(rows) + 1] = row
        BY ONLY <1>2, <2>2, AppendProperties
      <4>3. DOMAIN rows' = 1..Len(rows) + 1
        BY <2>3, <4>1, <4>2, LenProperties
      <4>4. Len(rows) + 1 \in DOMAIN rows' /\ rows'[Len(rows) + 1] = row
        BY <2>3, <4>1, <4>2, <4>3
      <4>5. \A n \in DOMAIN rows : n \in DOMAIN rows' /\ rows'[n] = rows[n]
        BY <2>3, <4>1, <4>2, <4>3
      <4>6. QED
        BY <4>1, <4>2, <4>4, <4>5
    <3>3. QED
      BY <3>1, <3>2
  <2>5. reader' \in [Handlers \cup Workers -> Readings]
    BY <1>2, <2>1, ReadingsHave
  <2>6. \A w \in Workers : AllCompleted /\ WillTell(w) =>
           WillTell(w)' \/ \E n \in DOMAIN rows' : Right(rows'[n])
    <3> SUFFICES ASSUME NEW w \in Workers, WillTell(w)
                 PROVE  WillTell(w)' \/ \E n \in DOMAIN rows' : Right(rows'[n])
      OBVIOUS
    <3>1. CASE w = a
      <4>1. Right(row)
        BY <2>1, <3>1 DEF WillTell, row
      <4>2. QED
        BY <2>4, <4>1
    <3>2. CASE w # a
      <4>1. reader'[w] = reader[w] /\ worker'[w] = worker[w] /\ Refreshes' = Refreshes
        BY <1>1, <1>2, <2>1, <3>2 DEF Refreshes, OfKinds
      <4>2. WillTell(w)'
        BY <4>1 DEF WillTell, Right
      <4>3. QED
        BY <4>2
    <3>3. QED
      BY <3>1, <3>2
  <2>7. QED
    BY <1>1, <2>4, <2>5, <2>6, ValidationStep
<1>6. QED
  BY <1>3, <1>4, <1>5 DEF Validate

-----------------------------------------------------------------------------
(* The invariant holds at first: there is nothing. *)
LEMMA InitInv == Init => IInv
<1> SUFFICES ASSUME Init PROVE IInv
  OBVIOUS
<1>1. /\ ops = <<>> /\ rows = <<>> /\ reviews = {} /\ lost = FALSE /\ connections = 0
      /\ request = [h \in Handlers |-> Idle] /\ worker = [w \in Workers |-> Idle]
      /\ reader = [a \in Handlers \cup Workers |-> Idle]
      /\ config = TRUE /\ sole = TRUE
  BY DEF Init
<1>2. Len(ops) = 0 /\ DOMAIN ops = {} /\ ops \in Seq(Ops) /\ rows \in Seq(Rows)
  BY <1>1, EmptySeq
<1>3. Idle \in Requests /\ Idle \in Stages /\ Idle \in Readings /\ Idle.pc = "idle"
  BY RequestsHave, StagesHave, ReadingsHave
<1>4. /\ history \in Seq(Commits) /\ DOMAIN history \subseteq {1}
      /\ \A n \in DOMAIN history : history[n] = MaxOps + 1
  <2>1. CASE history = <<>>
    BY <2>1, EmptySeq
  <2>2. CASE \E sha \in {MaxOps + 1} \cap Commits : history = <<sha>>
    <3>1. MaxOps + 1 \in Commits /\ history = <<MaxOps + 1>>
      BY <2>2
    <3> DEFINE k == MaxOps + 1
    <3> HIDE DEF k
    <3>2. k \in Commits /\ history = <<k>>
      BY <3>1 DEF k
    <3>3. history \in Seq(Commits) /\ DOMAIN history = {1} /\ history[1] = k
      BY ONLY <3>2
    <3>4. QED
      BY <3>3 DEF k
  <2>3. history \in {<<>>} \cup {<<sha>> : sha \in {MaxOps + 1} \cap Commits}
    BY DEF Init
  <2>4. QED
    BY <2>1, <2>2, <2>3
<1>5. /\ latest \in {0} \cup {history[n] : n \in DOMAIN history} /\ pin \in {0, latest}
  BY DEF Init
<1>6. TypeOK
  <2>1. latest \in Shas /\ pin \in Shas
    <3>1. \A n \in DOMAIN history : history[n] \in Commits
      BY <1>4, ElementOfSeq, LenProperties
    <3>2. QED
      BY <1>5, <3>1 DEF Shas
  <2>2. Len(ops) <= MaxOps /\ connections \in 0..MaxConnections
    BY <1>1, <1>2
  <2>3. QED
    BY <1>1, <1>2, <1>3, <1>4, <2>1, <2>2 DEF TypeOK
<1>7. JobsFollow /\ WorkersApart
  <2>1. \A w \in Workers : worker[w] = Idle
    BY <1>1
  <2>2. WorkersApart
    BY <2>1 DEF WorkersApart
  <2>3. JobsFollow
    BY <1>2 DEF JobsFollow
  <2>4. QED
    BY <2>2, <2>3
<1>8. Branched
  <2>1. Pushed = DOMAIN history
    <3>1. \A n \in DOMAIN history : history[n] > MaxOps
      BY <1>4
    <3>2. QED
      BY <3>1, Zenon DEF Pushed
  <2>2. \A n \in Pushed : history[n] <= MaxOps + Cardinality(Pushed)
    <3> SUFFICES ASSUME NEW n \in Pushed PROVE history[n] <= MaxOps + Cardinality(Pushed)
      OBVIOUS
    <3>1. Pushed = {1}
      BY <1>4, <2>1
    <3>2. Cardinality(Pushed) = 1
      BY <3>1, FS_Singleton
    <3>3. QED
      BY <1>4, <2>1, <3>2
  <2>3. \A w \in Workers : worker[w].pc = "idle"
    BY <1>1, <1>3
  <2>4. QED
    BY <1>4, <2>1, <2>2, <2>3 DEF Branched
<1>9. Landed
  BY <1>1, <1>3, <1>5 DEF Landed, RecordedShaIsInHistory, InHistory
<1>10. Requesting("head") = {} /\ Requesting("refresh") = {}
  BY <1>1, <1>3 DEF Requesting
<1>11. \A kind : ActiveOf(kind) = {}
  BY <1>2 DEF ActiveOf, OfKinds
<1>12. HeadAlone
  BY <1>10, <1>11 DEF HeadAlone
<1>13. RefsCounted
  BY <1>10, <1>11 DEF RefsCounted
<1>14. Told
  BY <1>2 DEF Told, AllCompleted, Refreshes, OfKinds
<1>15. QED
  BY <1>6, <1>7, <1>8, <1>9, <1>12, <1>13, <1>14 DEF IInv

(* Every step keeps it. *)
LEMMA NextInv == IInv /\ [Next]_vars => IInv'
<1> SUFFICES ASSUME IInv, [Next]_vars PROVE IInv'
  OBVIOUS
<1>1. CASE UNCHANGED vars
  <2>1. UNCHANGED <<config, sole, history, connections, latest, pin, ops, rows, reviews, lost,
                    request, worker, reader>>
    BY <1>1 DEF vars, repository, recorded
  <2>2. TypeOK'
    BY <2>1 DEF IInv, TypeOK
  <2>3. QED
    BY <2>1, <2>2, SomethingElse
<1>2. CASE SomebodyPushes
  BY <1>2, SomebodyKeeps
<1>3. CASE ChangeRole \/ AddRemote \/ ConnectArgo
  <2>1. UNCHANGED <<history, latest, pin, ops, rows, reviews, lost, request, worker, reader>>
    BY <1>3 DEF ChangeRole, AddRemote, ConnectArgo, recorded
  <2>2. /\ config' \in BOOLEAN /\ sole' \in BOOLEAN /\ connections' \in 0..MaxConnections
    <3>1. config \in BOOLEAN /\ sole \in BOOLEAN /\ connections \in 0..MaxConnections
      BY DEF IInv, TypeOK
    <3>2. CASE ChangeRole
      BY <3>1, <3>2 DEF ChangeRole
    <3>3. CASE AddRemote
      BY <3>1, <3>3 DEF AddRemote
    <3>4. CASE ConnectArgo
      BY <3>1, <3>4 DEF ConnectArgo
    <3>5. QED
      BY <1>3, <3>2, <3>3, <3>4
  <2>3. TypeOK'
    BY <2>1, <2>2 DEF IInv, TypeOK
  <2>4. QED
    BY <2>1, <2>3, SomethingElse
<1>4. ASSUME NEW h \in Handlers, Serve(h) PROVE IInv'
  BY <1>4, PlansKeep, ReviewsKeep, EnqueuesKeep, HeadRefreshKeeps, RefreshKeeps DEF Serve
<1>5. ASSUME NEW w \in Workers, Work(w) PROVE IInv'
  BY <1>5, ClaimKeeps, StagesKeep, PushKeeps, FinishKeeps, CrashKeeps DEF Work
<1>6. ASSUME NEW a \in Handlers \cup Workers, Validate(a) PROVE IInv'
  BY <1>6, ValidatesKeep
<1>7. ASSUME NEW i \in DOMAIN ops, Cancel(i) \/ TimeOut(i) PROVE IInv'
  BY <1>7, StopsKeep
<1>8. ASSUME NEW kind \in Elsewhere, EnqueueElsewhere(kind) PROVE IInv'
  BY <1>8, ElsewhereKeeps
<1>9. QED
  BY <1>1, <1>2, <1>3, <1>4, <1>5, <1>6, <1>7, <1>8 DEF Next

(* The inductive invariant holds in every state the system reaches. *)
THEOREM InvCorrect == Spec => []IInv
  BY InitInv, NextInv, PTL DEF Spec

(* Every variable keeps its type. *)
THEOREM TypeCorrect == Spec => []TypeOK
<1>1. IInv => TypeOK
  BY DEF IInv
<1>2. QED
  BY <1>1, InvCorrect, PTL

(* What is recorded as a head, or pinned, stays on the branch: no push       *)
(* drops a commit, whoever else commits, pushes, fails or stops.             *)
THEOREM RecordedShaIsInHistoryCorrect == Spec => []RecordedShaIsInHistory
<1>1. IInv => RecordedShaIsInHistory
  BY DEF IInv, Landed
<1>2. QED
  BY <1>1, InvCorrect, PTL

(* No two head refreshes are under way, and no more refreshes of a version   *)
(* than requests are served at the same time, but for those that refreshes   *)
(* of other things hide from the request.                                    *)
THEOREM RefreshOncePerRequestCorrect == Spec => []RefreshOncePerRequest
<1>1. ASSUME IInv PROVE RefreshOncePerRequest
  <2>1. \A i, j \in OfKinds({"head"}) : ops[i].op \in Active /\ ops[j].op \in Active => i = j
    BY <1>1 DEF IInv, HeadAlone, ActiveOf
  <2>2. ASSUME NEW i \in OfKinds({"refs"}), ops[i].op \in Active
        PROVE  Cardinality(UnderwayBeside(i)) <= Cardinality(Handlers)
    <3>1. Cardinality(UnderwayBeside(i)) + Cardinality(Asking(i)) <= Cardinality(Handlers)
      BY <1>1, <2>2 DEF IInv, RefsCounted, ActiveOf
    <3>2. QED
      BY <1>1, <3>1, CountedTypes DEF IInv
  <2>3. QED
    BY <2>1, <2>2 DEF RefreshOncePerRequest
<1>2. IInv => RefreshOncePerRequest
  BY <1>1
<1>3. QED
  BY <1>2, InvCorrect, PTL

(* A validation that starts after the last refresh completed writes a row    *)
(* that counts all of them, unless its worker stops first.                   *)
THEOREM CompletedRefreshIsRecordedCorrect == Spec => []CompletedRefreshIsRecorded
<1>1. ASSUME IInv PROVE CompletedRefreshIsRecorded
  <2> SUFFICES ASSUME StatusOf(Refreshes) = "recorded", ~lost, \A w \in Workers : reader[w] = Idle
               PROVE  \E r \in DOMAIN rows :
                         rows[r].status = "recorded" /\ rows[r].completed = Cardinality(Refreshes)
    BY DEF CompletedRefreshIsRecorded
  <2>1. AllCompleted
    BY <1>1, RecordedMeans DEF IInv
  <2>2. \A w \in Workers : ~WillTell(w)
    BY DEF WillTell, Idle
  <2>3. \E r \in DOMAIN rows : Right(rows[r])
    BY <1>1, <2>1, <2>2 DEF IInv, Told
  <2>4. QED
    BY <2>3 DEF Right
<1>2. IInv => CompletedRefreshIsRecorded
  BY <1>1
<1>3. QED
  BY <1>2, InvCorrect, PTL
=============================================================================
