--------------------------- MODULE PodAccess_proof ---------------------------
(***************************************************************************)
(* Theorems about PodAccess, and about the syncs of ArgoTargets in it, for *)
(* any connections, applications, workers and handlers.                    *)
(*                                                                         *)
(* What refers to the id of a target agrees on its scope and its cluster   *)
(* (Agree); a transaction writes a row for every app it places (JobRows);  *)
(* and a recording that is alone sees tables that nobody changes           *)
(* (AloneSees).                                                            *)
(***************************************************************************)
EXTENDS PodAccess, SequenceTheorems, WellFoundedInduction, TLAPS

USE MapAssumption, BoundAssumption, NoneAssumption, PodAssumption

(* A job outside its transaction has written nothing, one that is not      *)
(* about to save a target has none in hand, and one that is about to commit *)
(* has saved all.                                                          *)
JobRest(j) ==
    /\ j.stage \notin InTx => j.tx = NoTx
    /\ j.stage # "put" => j.at = None /\ j.found = None
    /\ j.stage = "commit" => j.left = {}

(* A transaction makes the listed apps of its connection c, each on a      *)
(* target it has saved.                                                    *)
JobRows(j, c) ==
    /\ \A a \in Apps : j.list[a] # None => ConnOf[a] = c
    /\ \A a \in j.left : j.list[a] # None
    /\ j.stage = "put" => j.at \in Apps /\ j.list[j.at] # None
    /\ \A a \in Apps : j.tx.apps[a] # None =>
          /\ j.list[a] # None /\ j.tx.apps[a].status = j.list[a].status
          /\ j.tx.targets[j.tx.apps[a].target] # None
    /\ \A a \in Apps : j.list[a] # None =>
          a \in j.left \/ (j.stage = "put" /\ a = j.at) \/ j.tx.apps[a] # None

JobsInv == \A w \in Workers : Active(w) => JobRest(worker[w]) /\ JobRows(worker[w], Conn(w))

(* Its operation has been claimed. *)
JobsClaimed == \A w \in Workers : Active(w) => ops[worker[w].op].status # "queued"

(* A target's status sums up those listed for the apps there. *)
Sums(status, there, list) ==
    /\ status \in Statuses
    /\ status = "Synced" <=> \A b \in there : list[b].status = "Synced"
    /\ status = "OutOfSync" <=> \E b \in there : list[b].status = "OutOfSync"
PlacedOn(j, i) == {b \in Apps : j.tx.apps[b] # None /\ j.tx.apps[b].target = i}

(* The targets saved are the connection's, and in the end have the         *)
(* statuses of its apps.                                                   *)
JobMirrors(j, c) ==
    /\ \A i \in Ids : j.tx.targets[i] # None => j.tx.targets[i].conn = c
    /\ j.stage = "commit" =>
          \A a \in Apps : j.tx.apps[a] # None =>
              \A i \in {j.tx.apps[a].target} : Sums(j.tx.targets[i].status, PlacedOn(j, i), j.list)

(* Two recordings at a time are not alone. *)
AloneIsAlone ==
    \A v, w \in Workers : v # w /\ Recording(v) /\ Recording(w) => ~worker[w].tx.alone

(* Nobody changes the tables under a recording that is alone. *)
AloneSees ==
    \A w \in Workers : Recording(w) /\ worker[w].tx.alone =>
        /\ \A a \in Apps : ConnOf[a] = Conn(w) /\ app[a] # None => a \in worker[w].tx.dropped
        /\ JobMirrors(worker[w], Conn(w))
        /\ worker[w].stage = "commit" => worker[w].tx.doomed = Orphans(w)

(* The rows, committed or not, that a target's id has, and the apps that    *)
(* are on it, or will be when a worker saves it.                            *)
RowAt(i, row) ==
    /\ row # None
    /\ row = target[i] \/ \E w \in Workers : Active(w) /\ row = worker[w].tx.targets[i]
AppAt(i, a) ==
    \/ app[a] # None /\ app[a].target = i
    \/ \E w \in Workers : Active(w) /\ worker[w].tx.apps[a] # None /\ worker[w].tx.apps[a].target = i
    \/ \E w \in Workers : Active(w) /\ worker[w].found = i /\ worker[w].at = a

(* They all have one scope, and no more than one cluster is named. *)
Agree(i, scope, cluster) ==
    /\ \A row \in TargetRows : RowAt(i, row) => row.scope = scope /\ row.cluster \in {cluster, None}
    /\ \A a \in Apps : AppAt(i, a) => Scope[a] = scope /\ Cluster[a] \in {cluster, None}
Agreed(i) ==
    \E scope \in {Scope[a] : a \in Apps} \cup {None}, cluster \in {Cluster[a] : a \in Apps} \cup {None} :
        Agree(i, scope, cluster)
IdsAgree == \A i \in Ids : Agreed(i)

(* An app whose target is gone lost it to a deletion that is on record. *)
LostIsCut == \A a \in Apps : app[a] # None /\ target[app[a].target] = None => app[a].target \in cut

(* A connection shown as syncing has a job that has not come to its end. *)
RunningIsWorkedOn ==
    \A c \in Connections : connection[c] = "running" =>
        \/ c \in resaved
        \/ \E i \in DOMAIN ops :
              /\ ops[i].conn = c /\ ops[i].status \in {"running", "stopping"}
              /\ \A w \in Workers : worker[w].stage = "finish" => worker[w].op # i

IInv ==
    /\ TypeOK /\ JobsInv /\ JobsClaimed /\ AloneIsAlone /\ AloneSees /\ IdsAgree /\ LostIsCut
    /\ RunningIsWorkedOn

(* An operation on pods has one worker at most, which claimed it. *)
PodsClaimed ==
    /\ \A w \in Workers : pod[w] # Idle => Op(w).status \notin {"asked", "queued"}
    /\ \A v, w \in Workers : v # w /\ pod[v] # Idle /\ pod[w] # Idle => pod[v].op # pod[w].op

(* Of two workers that found no other restart of a deployment, one has an  *)
(* operation that is no longer shown as running.                           *)
LookedApart ==
    \A v, w \in Workers :
        /\ v # w /\ pod[v] # Idle /\ pod[w] # Idle
        /\ pod[v].stage \in {"load", "call"} /\ pod[w].stage \in {"load", "call"}
        /\ Op(v).kind = "restart" /\ Op(w).kind = "restart" /\ Op(v).place = Op(w).place
        => Op(v).status # "running" \/ Op(w).status # "running"

PodInv == PodTypeOK /\ PodsClaimed /\ LookedApart

-----------------------------------------------------------------------------
(* Operations *)

OpRows == [conn : Connections,
           status : {"queued", "running", "stopping", "canceled", "completed", "failed"}]

(* A sequence has no other elements than those of its set. *)
LEMMA ElementOf == ASSUME NEW S, NEW s \in Seq(S), NEW i \in DOMAIN s PROVE s[i] \in S
  BY ElementOfSeq, LenProperties

(* Changing a status keeps the sequence of operations. *)
LEMMA StatusChanged ==
  ASSUME NEW s \in Seq(OpRows), NEW i \in DOMAIN s,
         NEW st \in {"queued", "running", "stopping", "canceled", "completed", "failed"},
         NEW t, t = [s EXCEPT ![i].status = st]
  PROVE  /\ t \in Seq(OpRows) /\ DOMAIN t = DOMAIN s
         /\ \A k \in DOMAIN s :
               /\ t[k].conn = s[k].conn
               /\ t[k].status = IF k = i THEN st ELSE s[k].status
<1>1. s[i] \in OpRows
  BY ElementOf
<1>2. [s[i] EXCEPT !.status = st] \in OpRows
  BY <1>1 DEF OpRows
<1>3. [s EXCEPT ![i].status = st] = [s EXCEPT ![i] = [s[i] EXCEPT !.status = st]]
  OBVIOUS
<1>4. DOMAIN s = 1..Len(s)
  BY LenProperties
<1>5. [s EXCEPT ![i] = [s[i] EXCEPT !.status = st]] \in Seq(OpRows)
  BY <1>2, <1>4, ExceptSeq
<1>6. \A k \in DOMAIN s : s[k] \in OpRows
  BY ElementOf
<1>7. QED
  BY <1>3, <1>5, <1>6 DEF OpRows

(* Operations are added at the end and keep their connections. *)
OpsKept ==
    /\ ops' \in Seq(OpRows) /\ DOMAIN ops \subseteq DOMAIN ops'
    /\ \A i \in DOMAIN ops :
          /\ ops'[i].conn = ops[i].conn
          /\ ops'[i].status = "queued" => ops[i].status = "queued"

(* Enqueueing keeps the operations there are. *)
LEMMA EnqueueKeeps ==
  ASSUME TypeOK, NEW c \in Connections, Enqueue(c)
  PROVE  OpsKept /\ \A i \in DOMAIN ops : ops'[i] = ops[i]
<1> DEFINE row == [conn |-> c, status |-> "queued"]
<1>1. ops \in Seq(OpRows) /\ row \in OpRows /\ ops' = Append(ops, row)
  BY DEF TypeOK, OpRows, Enqueue
<1>2. /\ Append(ops, row) \in Seq(OpRows) /\ DOMAIN ops = 1..Len(ops) /\ Len(ops) \in Nat
      /\ DOMAIN Append(ops, row) = 1..(Len(ops) + 1)
      /\ \A i \in DOMAIN ops : Append(ops, row)[i] = ops[i]
  BY <1>1, AppendProperties, LenProperties
<1>3. QED
  BY <1>1, <1>2 DEF OpsKept

(* So does every step. *)
LEMMA OpsNext == TypeOK /\ [Next]_vars => OpsKept
<1> SUFFICES ASSUME TypeOK, [Next]_vars PROVE OpsKept
  OBVIOUS
<1>1. ops \in Seq(OpRows)
  BY DEF TypeOK, OpRows
<1>2. CASE UNCHANGED ops
  BY <1>1, <1>2 DEF OpsKept
<1>3. ASSUME NEW c \in Connections, Enqueue(c)
      PROVE  OpsKept
  BY <1>3, EnqueueKeeps
<1>4. ASSUME NEW i \in DOMAIN ops,
             NEW st \in {"running", "stopping", "canceled", "completed", "failed"},
             ops' = [ops EXCEPT ![i].status = st]
      PROVE  OpsKept
  <2>1. /\ ops' \in Seq(OpRows) /\ DOMAIN ops' = DOMAIN ops
        /\ \A k \in DOMAIN ops : /\ ops'[k].conn = ops[k].conn
                                 /\ ops'[k].status = IF k = i THEN st ELSE ops[k].status
    BY <1>1, <1>4, StatusChanged
  <2>2. st # "queued"
    OBVIOUS
  <2>3. QED
    BY <2>1, <2>2 DEF OpsKept
<1>5. ASSUME NEW c \in Connections, CreateConnection(c) \/ RefreshVersion(c) \/ DeleteConnection(c)
      PROVE  OpsKept
  BY <1>2, <1>3, <1>5 DEF CreateConnection, RefreshVersion, DeleteConnection
<1>6. ASSUME NEW h \in Handlers, NEW c \in Connections, UpdateRead(h, c) \/ SyncCheck(h, c)
      PROVE  OpsKept
  BY <1>2, <1>6 DEF UpdateRead, SyncCheck
<1>7. ASSUME NEW h \in Handlers, UpdateSave(h) \/ SyncEnqueue(h)
      PROVE  OpsKept
  <2>1. SyncEnqueue(h) => request[h].conn \in Connections
    BY DEF SyncEnqueue, TypeOK, Idle
  <2>2. QED
    BY <1>2, <1>3, <1>7, <2>1 DEF UpdateSave, SyncEnqueue
<1>8. ASSUME NEW i \in DOMAIN ops, CancelOperation(i) \/ Recover(i)
      PROVE  OpsKept
  <2>1. CancelOperation(i) =>
           \/ ops' = [ops EXCEPT ![i].status = "canceled"]
           \/ ops' = [ops EXCEPT ![i].status = "stopping"]
    BY DEF CancelOperation
  <2>2. QED
    BY <1>4, <1>8, <2>1 DEF Recover
<1>9. ASSUME NEW w \in Workers, WorkerStep(w)
      PROVE  OpsKept
  <2>1. CASE UNCHANGED ops
    BY <1>2, <2>1
  <2>2. ASSUME NEW i \in DOMAIN ops, Claim(w, i)
        PROVE  OpsKept
    BY <1>4, <2>2 DEF Claim
  <2>3. CASE Finish(w)
    <3>1. worker[w].op \in DOMAIN ops
      BY <2>3 DEF Finish, TypeOK, Idle
    <3>2. \/ ops' = [ops EXCEPT ![worker[w].op].status = "completed"]
          \/ ops' = [ops EXCEPT ![worker[w].op].status = "failed"]
      BY <2>3 DEF Finish
    <3>3. QED
      BY <1>4, <3>1, <3>2
  <2>4. QED
    BY <1>9, <2>1, <2>2, <2>3
       DEF WorkerStep, Fetch, Drop, Look, Put, Gather, Commit, Fail, Stop
<1>10. QED
  BY <1>2, <1>5, <1>6, <1>7, <1>8, <1>9 DEF Next, vars

-----------------------------------------------------------------------------
(* Jobs *)

(* What the step of another worker leaves of a job: one that waited for a  *)
(* transaction goes on, and a recording may cease to be alone.             *)
Aside(j, k) ==
    /\ k.op = j.op /\ k.list = j.list /\ k.left = j.left /\ k.at = j.at /\ k.found = j.found
    /\ k.tx.dropped = j.tx.dropped /\ k.tx.apps = j.tx.apps
    /\ k.tx.targets = j.tx.targets /\ k.tx.doomed = j.tx.doomed
    /\ \/ k.stage = j.stage /\ (j.stage \notin InTx => k.tx = j.tx) /\ (k.tx.alone => j.tx.alone)
       \/ j.stage = "stalled" /\ k.stage = "drop" /\ k.tx = NoTx
       \/ j.stage = "stalled" /\ k.stage = "look" /\ ~k.tx.alone

OthersAside(w) ==
    \A v \in Workers \ {w} :
        /\ worker[v] = Idle => worker'[v] = Idle
        /\ worker[v] # Idle => worker'[v] \in Jobs /\ Aside(worker[v], worker'[v])

(* What worker w's step makes of its job, and of the others. *)
Becomes(w, k) ==
    /\ worker' \in [Workers -> {Idle} \cup Jobs]
    /\ worker'[w] = k
    /\ OthersAside(w)

(* An idle worker has no job. *)
LEMMA IdleIsNoJob ==
  ASSUME TypeOK
  PROVE  /\ Idle \notin Jobs
         /\ \A w \in Workers : worker[w] # Idle => worker[w] \in Jobs
         /\ \A w \in Workers : worker[w].stage # "idle" => worker[w] \in Jobs
         /\ \A w \in Workers : Recording(w) => worker[w] \in Jobs
<1>1. Idle \notin Jobs
  BY DEF Idle, Jobs, InTx
<1>2. \A w \in Workers : worker[w] = Idle \/ worker[w] \in Jobs
  BY DEF TypeOK
<1>3. Idle.stage = "idle" /\ "idle" \notin InTx
  BY DEF Idle, InTx
<1>4. QED
  BY <1>1, <1>2, <1>3 DEF Recording

(* An operation belongs to a connection. *)
LEMMA OpConn ==
  ASSUME TypeOK, NEW i \in DOMAIN ops
  PROVE  ops[i].conn \in Connections
<1>1. ops \in Seq(OpRows)
  BY DEF TypeOK, OpRows
<1>2. ops[i] \in OpRows
  BY <1>1, ElementOf
<1>3. QED
  BY <1>2 DEF OpRows

(* So does a job. *)
LEMMA ConnType ==
  ASSUME TypeOK, NEW w \in Workers, worker[w] # Idle
  PROVE  Conn(w) \in Connections
  BY OpConn DEF Conn, TypeOK

(* A transaction that has written nothing. *)
LEMMA NoTxType == NoTx \in Transactions /\ [NoTx EXCEPT !.alone = FALSE] \in Transactions
  BY DEF NoTx, Transactions

(* A step that changes one job alone. *)
LEMMA OnlyThis ==
  ASSUME TypeOK, NEW w \in Workers, NEW k \in {Idle} \cup Jobs,
         worker' = [worker EXCEPT ![w] = k]
  PROVE  Becomes(w, k)
<1>1. worker \in [Workers -> {Idle} \cup Jobs]
  BY DEF TypeOK
<1>2. worker' \in [Workers -> {Idle} \cup Jobs] /\ worker'[w] = k
  BY <1>1
<1>3. \A v \in Workers \ {w} : worker'[v] = worker[v]
  BY <1>1
<1>4. OthersAside(w)
  BY <1>1, <1>3 DEF OthersAside, Aside
<1>5. QED
  BY <1>2, <1>4 DEF Becomes

(* What becomes of a job: a worker claims an operation and begins it,      *)
LEMMA ClaimShape ==
  ASSUME TypeOK, NEW w \in Workers, NEW i \in DOMAIN ops, Claim(w, i)
  PROVE  Becomes(w, [stage |-> "fetch", op |-> i, list |-> NoListing, left |-> {},
                     at |-> None, found |-> None, ok |-> TRUE, tx |-> NoTx])
<1> DEFINE k == [stage |-> "fetch", op |-> i, list |-> NoListing, left |-> {},
                 at |-> None, found |-> None, ok |-> TRUE, tx |-> NoTx]
<1>1. i \in Nat \ {0}
  BY LenProperties DEF TypeOK
<1>2. NoListing \in Listings
  BY DEF NoListing, Listings
<1>3. k \in Jobs
  BY <1>1, <1>2, NoTxType DEF Jobs
<1>4. QED
  BY <1>3, OnlyThis DEF Claim

(* fetches what the server lists of the connection,                        *)
LEMMA FetchShape ==
  ASSUME TypeOK, NEW w \in Workers, Fetch(w)
  PROVE  \E list \in Listings :
            /\ \A a \in Apps : list[a] # None => ConnOf[a] = Conn(w)
            /\ Becomes(w, [worker[w] EXCEPT !.stage = "drop", !.list = list,
                                            !.left = {a \in Apps : list[a] # None}])
<1>1. worker[w] \in Jobs
  BY IdleIsNoJob DEF Fetch
<1>2. PICK list \in Listings :
        /\ \A a \in Apps : list[a] # None => ConnOf[a] = Conn(w)
        /\ worker' = [worker EXCEPT ![w].stage = "drop", ![w].list = list,
                                   ![w].left = {a \in Apps : list[a] # None}]
  BY DEF Fetch
<1> DEFINE k == [worker[w] EXCEPT !.stage = "drop", !.list = list,
                                  !.left = {a \in Apps : list[a] # None}]
<1>3. k \in Jobs
  BY <1>1 DEF Jobs
<1>4. worker' = [worker EXCEPT ![w] = k]
  BY <1>2 DEF TypeOK
<1>5. QED
  BY <1>2, <1>3, <1>4, OnlyThis

(* The smallest of some ids is one of them. *)
LEMMA FirstOf ==
  ASSUME NEW S \in SUBSET Ids, S # {}
  PROVE  (CHOOSE i \in S : \A j \in S : i <= j) \in S
<1>1. S \subseteq Nat
  BY DEF Ids
<1> DEFINE Less == {pair \in Nat \X Nat : pair[1] < pair[2]}
<1>2. IsWellFoundedOn(Less, Nat)
  BY NatLessThanWellFounded, Zenon DEF OpToRel
<1>3. PICK i \in S : \A j \in S : <<j, i>> \notin Less
  <2> HIDE DEF Less
  <2>1. QED
    BY <1>1, <1>2, WFMin
<1>4. ASSUME NEW j \in S
      PROVE  i <= j
  <2>1. <<j, i>> \in Nat \X Nat /\ i \in Nat /\ j \in Nat
    BY <1>1
  <2>2. ~(j < i)
    BY <1>3, <2>1
  <2>3. QED
    BY <2>1, <2>2
<1>5. QED
  BY <1>4

(* looks for the target of an app, the first there is,                     *)
LEMMA LookShape ==
  ASSUME TypeOK, NEW w \in Workers, NEW a \in Apps, Look(w, a)
  PROVE  \E found \in Ids \cup {None} :
            /\ found # None => Matches(TargetSeen(w, found), a)
            /\ Becomes(w, [worker[w] EXCEPT !.stage = "put", !.at = a, !.left = @ \ {a},
                                            !.found = found])
<1>1. worker[w] \in Jobs
  BY IdleIsNoJob DEF Look
<1> DEFINE all == {i \in Ids : Matches(TargetSeen(w, i), a)}
           first == IF all = {} THEN None ELSE CHOOSE i \in all : \A j \in all : i <= j
           k == [worker[w] EXCEPT !.stage = "put", !.at = a, !.left = @ \ {a}, !.found = first]
<1>2. worker' = [worker EXCEPT ![w] = k]
  <2>1. worker' = [worker EXCEPT ![w].stage = "put", ![w].at = a, ![w].left = @ \ {a}, ![w].found = first]
    BY DEF Look
  <2> HIDE DEF first
  <2>2. QED
    BY <2>1 DEF TypeOK
<1>3. first = None \/ first \in all
  BY FirstOf
<1>4. k \in Jobs
  BY <1>1, <1>3 DEF Jobs, InTx
<1>5. Becomes(w, k)
  BY <1>2, <1>4, OnlyThis
<1>6. QED
  BY <1>3, <1>5

(* The transaction begins with the connection's apps gone, and is alone if *)
(* no other one is under way, or the worker waits.                         *)
LEMMA DropShape ==
  ASSUME TypeOK, JobsInv, NEW w \in Workers, Drop(w)
  PROVE  /\ worker[w] \in Jobs
         /\ \/ Becomes(w, [worker[w] EXCEPT !.stage = "stalled"])
            \/ \E alone \in BOOLEAN :
                  /\ Becomes(w, [worker[w] EXCEPT !.stage = "look",
                        !.tx = [NoTx EXCEPT !.dropped = {a \in Apps : ConnOf[a] = Conn(w) /\ app[a] # None},
                                            !.alone = alone]])
                  /\ \A v \in Workers \ {w} : Recording(v) => ~alone /\ ~worker'[v].tx.alone
<1>1. worker[w] \in Jobs /\ worker[w].stage = "drop"
  BY IdleIsNoJob DEF Drop
<1> DEFINE old == {a \in Apps : ConnOf[a] = Conn(w) /\ app[a] # None}
           others == {v \in Workers \ {w} : Recording(v)}
           tx == [NoTx EXCEPT !.dropped = old]
<1>2. CASE worker' = [worker EXCEPT ![w].stage = "stalled"]
  <2>1. [worker[w] EXCEPT !.stage = "stalled"] \in Jobs
    BY <1>1 DEF Jobs
  <2>2. worker' = [worker EXCEPT ![w] = [worker[w] EXCEPT !.stage = "stalled"]]
    BY <1>2 DEF TypeOK
  <2>3. QED
    BY <1>1, <2>1, <2>2, OnlyThis
<1>3. CASE Begin(w, tx)
  <2> DEFINE k == [worker[w] EXCEPT !.stage = "look", !.tx = [tx EXCEPT !.alone = others = {}]]
  <2>1. worker' = [v \in Workers |->
           IF v = w THEN k
           ELSE IF v \in others THEN [worker[v] EXCEPT !.tx.alone = FALSE] ELSE worker[v]]
    BY <1>3 DEF Begin
  <2>2. [tx EXCEPT !.alone = others = {}] \in Transactions
    BY NoTxType DEF Transactions
  <2>3. k \in Jobs
    BY <1>1, <2>2 DEF Jobs, InTx
  <2>4. ASSUME NEW v \in Workers \ {w}
        PROVE  /\ worker[v] = Idle => worker'[v] = Idle
               /\ worker[v] # Idle => worker'[v] \in Jobs /\ Aside(worker[v], worker'[v])
               /\ Recording(v) => ~worker'[v].tx.alone
    <3>1. CASE v \in others
      <4>1. worker[v] \in Jobs /\ worker[v].stage \in InTx /\ worker[v] # Idle
        BY <3>1, IdleIsNoJob DEF Recording
      <4>2. worker'[v] = [worker[v] EXCEPT !.tx = [worker[v].tx EXCEPT !.alone = FALSE]]
        BY <2>1, <3>1, <4>1 DEF Jobs
      <4>3. worker[v].tx \in Transactions
        BY <4>1 DEF Jobs
      <4>4. [worker[v].tx EXCEPT !.alone = FALSE] \in Transactions
        BY <4>3 DEF Transactions
      <4>5. worker'[v] \in Jobs
        BY <4>1, <4>2, <4>4 DEF Jobs
      <4>6. Aside(worker[v], worker'[v]) /\ ~worker'[v].tx.alone
        BY <4>1, <4>2, <4>3 DEF Jobs, Transactions, Aside
      <4>7. QED
        BY <4>1, <4>5, <4>6
    <3>2. CASE v \notin others
      BY <2>1, <3>2, IdleIsNoJob DEF Aside
    <3>3. QED
      BY <3>1, <3>2
  <2>5. worker' \in [Workers -> {Idle} \cup Jobs]
    BY <2>1, <2>3, <2>4 DEF TypeOK
  <2>6. Becomes(w, k)
    BY <2>1, <2>4, <2>5 DEF Becomes, OthersAside
  <2>7. PICK alone \in BOOLEAN : alone = (others = {})
    OBVIOUS
  <2>8. k = [worker[w] EXCEPT !.stage = "look", !.tx = [NoTx EXCEPT !.dropped = old, !.alone = alone]]
    BY <2>7
  <2>9. QED
    BY <1>1, <2>4, <2>6, <2>7, <2>8
<1>4. QED
  BY <1>1, <1>2, <1>3 DEF Drop

(* A target is saved with an id that was found or is not in use. *)
LEMMA PutShape ==
  ASSUME TypeOK, JobsInv, NEW w \in Workers, Put(w)
  PROVE  /\ worker[w] \in Jobs /\ worker[w].stage = "put"
         /\ worker[w].at \in Apps /\ worker[w].list[worker[w].at] \in Reports
         /\ \E i \in Ids, row \in TargetRows, placed \in AppRows :
               /\ i = worker[w].found \/ (worker[w].found = None /\ i \in Unused)
               /\ row = [scope |-> Scope[worker[w].at], cluster |-> Cluster[worker[w].at],
                         conn |-> Conn(w), status |-> "unknown"]
               /\ placed = [target |-> i, status |-> worker[w].list[worker[w].at].status]
               /\ Becomes(w, [worker[w] EXCEPT
                     !.stage = "look", !.at = None, !.found = None,
                     !.tx = [worker[w].tx EXCEPT
                        !.targets = [worker[w].tx.targets EXCEPT ![i] = row],
                        !.apps = [worker[w].tx.apps EXCEPT ![worker[w].at] = placed]]])
<1>1. worker[w] \in Jobs /\ worker[w].stage = "put"
  BY IdleIsNoJob DEF Put
<1>2. worker[w].at \in Apps /\ worker[w].list[worker[w].at] \in Reports
  BY <1>1, IdleIsNoJob DEF JobsInv, JobRows, Active, Jobs, Listings
<1> DEFINE a == worker[w].at
           row == [scope |-> Scope[a], cluster |-> Cluster[a], conn |-> Conn(w), status |-> "unknown"]
<1>3. Conn(w) \in Connections
  BY <1>1, IdleIsNoJob, ConnType
<1>4. row \in TargetRows
  BY <1>2, <1>3 DEF TargetRows
<1>5. PICK i \in Ids :
         /\ i = worker[w].found \/ (worker[w].found = None /\ i \in Unused)
         /\ worker' = [worker EXCEPT
               ![w].stage = "look", ![w].at = None, ![w].found = None,
               ![w].tx = [@ EXCEPT !.targets[i] = row,
                                   !.apps[a] = [target |-> i, status |-> worker[w].list[a].status]]]
  BY DEF Put
<1>6. i \in Ids /\ (i = worker[w].found \/ (worker[w].found = None /\ i \in Unused))
  BY <1>5
<1> DEFINE placed == [target |-> i, status |-> worker[w].list[a].status]
           t == [worker[w].tx EXCEPT !.targets = [worker[w].tx.targets EXCEPT ![i] = row],
                                     !.apps = [worker[w].tx.apps EXCEPT ![a] = placed]]
           k == [worker[w] EXCEPT !.stage = "look", !.at = None, !.found = None, !.tx = t]
<1>7. placed \in AppRows
  BY <1>2, <1>6 DEF AppRows, Reports
<1>8. worker[w].tx \in Transactions
  BY <1>1 DEF Jobs
<1>9. t \in Transactions
  <2> HIDE DEF row, placed
  <2>1. QED
    BY <1>2, <1>4, <1>6, <1>7, <1>8 DEF Transactions
<1>10. k \in Jobs
  <2> HIDE DEF t
  <2>1. QED
    BY <1>1, <1>9 DEF Jobs, InTx
<1>11. worker' = [worker EXCEPT ![w] = k]
  <2> HIDE DEF row, placed
  <2>1. worker' = [worker EXCEPT ![w].stage = "look", ![w].at = None, ![w].found = None,
                                 ![w].tx = [@ EXCEPT !.targets[i] = row, !.apps[a] = placed]]
    BY <1>5 DEF placed
  <2>2. [worker[w].tx EXCEPT !.targets[i] = row, !.apps[a] = placed] = t
    BY <1>8 DEF Transactions
  <2>3. worker' = [worker EXCEPT ![w].stage = "look", ![w].at = None, ![w].found = None, ![w].tx = t]
    BY <1>1, <2>1, <2>2 DEF TypeOK
  <2> HIDE DEF t
  <2>4. QED
    BY <2>3 DEF TypeOK
<1>12. QED
  <2> HIDE DEF k
  <2>1. Becomes(w, k)
    BY <1>10, <1>11, OnlyThis
  <2> USE DEF k
  <2>2. QED
    BY <1>1, <1>2, <1>4, <1>6, <1>7, <2>1

(* The statuses are settled and the targets to delete chosen. *)
LEMMA GatherShape ==
  ASSUME TypeOK, NEW w \in Workers, Gather(w)
  PROVE  /\ worker[w] \in Jobs /\ worker[w].stage = "look" /\ worker[w].left = {}
         /\ \E targets \in [Ids -> TargetRows \cup {None}] :
               /\ \A i \in Ids : targets[i] =
                     IF TargetSeen(w, i) # None /\ StatusesOn(w, i) # {}
                     THEN [TargetSeen(w, i) EXCEPT !.status = RolledUp(StatusesOn(w, i))]
                     ELSE worker[w].tx.targets[i]
               /\ Becomes(w, [worker[w] EXCEPT !.stage = "commit",
                     !.tx = [worker[w].tx EXCEPT !.doomed = Orphans(w), !.targets = targets]])
<1>1. worker[w] \in Jobs /\ worker[w].stage = "look" /\ worker[w].left = {}
  BY IdleIsNoJob DEF Gather
<1>2. worker[w].tx \in Transactions
  BY <1>1 DEF Jobs
<1> DEFINE rolled == {i \in Ids : TargetSeen(w, i) # None /\ StatusesOn(w, i) # {}}
           targets == [i \in Ids |->
              IF i \in rolled THEN [TargetSeen(w, i) EXCEPT !.status = RolledUp(StatusesOn(w, i))]
              ELSE worker[w].tx.targets[i]]
           t == [worker[w].tx EXCEPT !.doomed = Orphans(w), !.targets = targets]
           k == [worker[w] EXCEPT !.stage = "commit", !.tx = t]
<1>3. \A i \in Ids : TargetSeen(w, i) \in TargetRows \cup {None}
  BY <1>2 DEF TargetSeen, TypeOK, Transactions
<1>4. targets \in [Ids -> TargetRows \cup {None}]
  <2>1. ASSUME NEW i \in Ids
        PROVE  targets[i] \in TargetRows \cup {None}
    <3>1. CASE i \in rolled
      <4>1. TargetSeen(w, i) \in TargetRows
        BY <1>3, <3>1
      <4>2. RolledUp(StatusesOn(w, i)) \in Statuses
        BY DEF RolledUp, Statuses
      <4>3. [TargetSeen(w, i) EXCEPT !.status = RolledUp(StatusesOn(w, i))] \in TargetRows
        BY <4>1, <4>2 DEF TargetRows
      <4>4. QED
        BY <3>1, <4>3
    <3>2. CASE i \notin rolled
      BY <1>2, <3>2 DEF Transactions
    <3>3. QED
      BY <3>1, <3>2
  <2>2. QED
    BY <2>1
<1>5. Orphans(w) \subseteq Ids
  BY DEF Orphans, Owned
<1>6. t \in Transactions
  <2> HIDE DEF targets
  <2>1. QED
    BY <1>2, <1>4, <1>5 DEF Transactions
<1>7. k \in Jobs
  <2> HIDE DEF t
  <2>1. QED
    BY <1>1, <1>6 DEF Jobs, InTx
<1>8. worker' = [worker EXCEPT ![w] = k]
  <2>1. worker' = [worker EXCEPT ![w].stage = "commit",
                                 ![w].tx = [@ EXCEPT !.doomed = Orphans(w), !.targets = targets]]
    BY DEF Gather
  <2> HIDE DEF targets
  <2>2. QED
    BY <2>1 DEF TypeOK
<1>9. Becomes(w, k)
  <2> HIDE DEF k
  <2>1. QED
    BY <1>7, <1>8, OnlyThis
<1>10. \A i \in Ids : targets[i] =
                     IF TargetSeen(w, i) # None /\ StatusesOn(w, i) # {}
                     THEN [TargetSeen(w, i) EXCEPT !.status = RolledUp(StatusesOn(w, i))]
                     ELSE worker[w].tx.targets[i]
  OBVIOUS
<1>11. QED
  <2> HIDE DEF targets
  <2>1. QED
    BY <1>1, <1>4, <1>9, <1>10

(* Workers that waited go on; w's own job is another matter. *)
LEMMA ResumedShape ==
  ASSUME TypeOK, JobsInv, NEW w \in Workers, worker[w] # Idle, NEW committed \in BOOLEAN,
         NEW k \in {Idle} \cup Jobs,
         worker' = [Resumed(w, committed) EXCEPT ![w] = k]
  PROVE  /\ Becomes(w, k)
         /\ ~committed => \A v \in Workers \ {w} : worker'[v] = worker[v] \/ worker'[v].stage = "drop"
<1>1. /\ worker'[w] = k
      /\ \A v \in Workers \ {w} :
            worker'[v] = IF worker[v].stage = "stalled" /\ Conn(v) = Conn(w)
                         THEN IF committed
                              THEN [worker[v] EXCEPT !.stage = "look", !.tx = [NoTx EXCEPT !.alone = FALSE]]
                              ELSE [worker[v] EXCEPT !.stage = "drop"]
                         ELSE worker[v]
      /\ DOMAIN worker' = Workers /\ worker' = [v \in Workers |-> worker'[v]]
  BY DEF Resumed
<1>2. ASSUME NEW v \in Workers \ {w}
      PROVE  /\ worker[v] = Idle => worker'[v] = Idle
             /\ worker[v] # Idle => worker'[v] \in Jobs /\ Aside(worker[v], worker'[v])
             /\ ~committed => worker'[v] = worker[v] \/ worker'[v].stage = "drop"
  <2>1. CASE worker[v].stage = "stalled"
    <3>1. /\ worker[v] # Idle /\ worker[v] \in Jobs /\ worker[v].tx = NoTx
          /\ "stalled" \notin InTx
      BY <2>1, IdleIsNoJob DEF Idle, JobsInv, Active, JobRest, InTx
    <3>2. [worker[v] EXCEPT !.stage = "drop"] \in Jobs
      BY <3>1 DEF Jobs
    <3>3. [worker[v] EXCEPT !.stage = "look", !.tx = [NoTx EXCEPT !.alone = FALSE]] \in Jobs
      BY <3>1, NoTxType DEF Jobs, InTx
    <3>4. Aside(worker[v], [worker[v] EXCEPT !.stage = "drop"])
      BY <2>1, <3>1 DEF Jobs, Aside, NoTx
    <3>5. Aside(worker[v], [worker[v] EXCEPT !.stage = "look", !.tx = [NoTx EXCEPT !.alone = FALSE]])
      BY <2>1, <3>1 DEF Jobs, Aside, NoTx
    <3>6. Aside(worker[v], worker[v])
      BY DEF Aside
    <3>7. [worker[v] EXCEPT !.stage = "drop"].stage = "drop"
      BY <3>1 DEF Jobs
    <3>8. QED
      BY <1>1, <3>1, <3>2, <3>3, <3>4, <3>5, <3>6, <3>7
  <2>2. CASE worker[v].stage # "stalled"
    BY <1>1, <2>2, IdleIsNoJob DEF Aside
  <2>3. QED
    BY <2>1, <2>2
<1>3. worker' \in [Workers -> {Idle} \cup Jobs]
  <2>1. \A v \in Workers : worker'[v] \in {Idle} \cup Jobs
    BY <1>1, <1>2
  <2>2. QED
    BY <1>1, <2>1
<1>4. QED
  BY <1>1, <1>2, <1>3 DEF Becomes, OthersAside

(* commits, and has its operation to finish,                               *)
LEMMA CommitShape ==
  ASSUME TypeOK, JobsInv, NEW w \in Workers, Commit(w)
  PROVE  /\ worker[w] \in Jobs /\ worker[w].stage = "commit" /\ Recording(w)
         /\ Becomes(w, [worker[w] EXCEPT !.stage = "finish", !.list = NoListing, !.tx = NoTx])
<1>1. worker[w] \in Jobs /\ worker[w].stage = "commit" /\ worker[w] # Idle /\ Recording(w)
  BY IdleIsNoJob DEF Commit, Recording, InTx, Idle
<1> DEFINE k == [worker[w] EXCEPT !.stage = "finish", !.list = NoListing, !.tx = NoTx]
<1>2. NoListing \in Listings
  BY DEF NoListing, Listings
<1>3. k \in Jobs
  BY <1>1, <1>2, NoTxType DEF Jobs
<1>4. Resumed(w, TRUE)[w] = worker[w] /\ Resumed(w, TRUE) = [v \in Workers |-> Resumed(w, TRUE)[v]]
  BY DEF Resumed
<1>5. worker' = [Resumed(w, TRUE) EXCEPT ![w].stage = "finish", ![w].list = NoListing, ![w].tx = NoTx]
  BY DEF Commit
<1>6. worker' = [Resumed(w, TRUE) EXCEPT ![w] = k]
  BY <1>4, <1>5
<1>7. Becomes(w, k)
  <2> HIDE DEF k
  <2>1. QED
    BY <1>1, <1>3, <1>6, ResumedShape
<1>8. QED
  BY <1>1, <1>7

(* fails, and lets those that wait for it go back,                         *)
LEMMA FailShape ==
  ASSUME TypeOK, JobsInv, NEW w \in Workers, Fail(w)
  PROVE  /\ worker[w] \in Jobs
         /\ Becomes(w, [worker[w] EXCEPT !.stage = "finish", !.ok = FALSE, !.list = NoListing, !.left = {},
                                         !.at = None, !.found = None, !.tx = NoTx])
         /\ \A v \in Workers \ {w} : worker'[v] = worker[v] \/ worker'[v].stage = "drop"
<1>1. worker[w] \in Jobs /\ worker[w] # Idle
  BY IdleIsNoJob DEF Fail, InTx, Idle
<1> DEFINE k == [worker[w] EXCEPT !.stage = "finish", !.ok = FALSE, !.list = NoListing, !.left = {},
                                  !.at = None, !.found = None, !.tx = NoTx]
<1>2. NoListing \in Listings
  BY DEF NoListing, Listings
<1>3. k \in Jobs
  BY <1>1, <1>2, NoTxType DEF Jobs
<1>4. Resumed(w, FALSE)[w] = worker[w] /\ Resumed(w, FALSE) = [v \in Workers |-> Resumed(w, FALSE)[v]]
  BY DEF Resumed
<1>5. worker' = [Resumed(w, FALSE) EXCEPT ![w] = k]
  BY <1>4 DEF Fail
<1>6. QED
  <2> HIDE DEF k
  <2>1. /\ Becomes(w, k)
        /\ \A v \in Workers \ {w} : worker'[v] = worker[v] \/ worker'[v].stage = "drop"
    BY <1>1, <1>3, <1>5, ResumedShape
  <2> USE DEF k
  <2>2. QED
    BY <1>1, <2>1

(* finishes its operation and is idle,                                     *)
LEMMA FinishShape ==
  ASSUME TypeOK, NEW w \in Workers, Finish(w)
  PROVE  worker[w] \in Jobs /\ worker' = [worker EXCEPT ![w] = Idle] /\ Becomes(w, Idle)
  BY IdleIsNoJob, OnlyThis DEF Finish

(* or stops, and lets those that wait for it go back.                       *)
LEMMA StopShape ==
  ASSUME TypeOK, JobsInv, NEW w \in Workers, Stop(w)
  PROVE  /\ Becomes(w, Idle)
         /\ \A v \in Workers \ {w} : worker'[v] = worker[v] \/ worker'[v].stage = "drop"
  BY ResumedShape DEF Stop, Active

(* A deletion of a connection leaves no recording alone. *)
LEMMA DeleteShape ==
  ASSUME TypeOK, NEW c \in Connections, DeleteConnection(c)
  PROVE  /\ worker' \in [Workers -> {Idle} \cup Jobs]
         /\ \A v \in Workers :
               /\ worker[v] = Idle => worker'[v] = Idle
               /\ worker[v] # Idle => worker'[v] \in Jobs /\ Aside(worker[v], worker'[v])
               /\ worker'[v].stage = worker[v].stage
               /\ Recording(v) => ~worker'[v].tx.alone
<1>1. worker' = [v \in Workers |->
          IF Recording(v) THEN [worker[v] EXCEPT !.tx.alone = FALSE] ELSE worker[v]]
  BY DEF DeleteConnection
<1>2. ASSUME NEW v \in Workers
      PROVE  /\ worker[v] = Idle => worker'[v] = Idle
             /\ worker[v] # Idle => worker'[v] \in Jobs /\ Aside(worker[v], worker'[v])
             /\ worker'[v].stage = worker[v].stage
             /\ Recording(v) => ~worker'[v].tx.alone
  <2>1. CASE Recording(v)
    <3>1. worker[v] \in Jobs /\ worker[v].stage \in InTx /\ worker[v] # Idle
      BY <2>1, IdleIsNoJob DEF Recording
    <3>2. worker'[v] = [worker[v] EXCEPT !.tx = [worker[v].tx EXCEPT !.alone = FALSE]]
      BY <1>1, <2>1, <3>1 DEF Jobs
    <3>3. worker[v].tx \in Transactions
      BY <3>1 DEF Jobs
    <3>4. [worker[v].tx EXCEPT !.alone = FALSE] \in Transactions
      BY <3>3 DEF Transactions
    <3>5. worker'[v] \in Jobs
      BY <3>1, <3>2, <3>4 DEF Jobs
    <3>6. Aside(worker[v], worker'[v]) /\ ~worker'[v].tx.alone /\ worker'[v].stage = worker[v].stage
      BY <3>1, <3>2, <3>3 DEF Jobs, Transactions, Aside
    <3>7. QED
      BY <3>1, <3>5, <3>6
  <2>2. CASE ~Recording(v)
    BY <1>1, <2>2, IdleIsNoJob DEF Aside
  <2>3. QED
    BY <2>1, <2>2
<1>3. QED
  BY <1>1, <1>2

(* Up to the commit a worker goes on with the operation it has. *)
Goes(w) == Fetch(w) \/ Drop(w) \/ (\E a \in Apps : Look(w, a)) \/ Put(w) \/ Gather(w)

(* It keeps the operation, and does not come to its end.                    *)
LEMMA GoesShape ==
  ASSUME TypeOK, JobsInv, NEW w \in Workers, Goes(w)
  PROVE  /\ worker[w] \in Jobs /\ worker[w] # Idle
         /\ \E k \in Jobs : Becomes(w, k) /\ k.op = worker[w].op /\ k.stage # "finish"
<1>1. worker[w] \in Jobs /\ worker[w] # Idle
  BY IdleIsNoJob DEF Goes, Fetch, Drop, Look, Put, Gather
<1>2. \A k : Becomes(w, k) /\ k.op = worker[w].op => k \in Jobs \/ k = Idle
  BY DEF Becomes
<1>3. CASE Fetch(w)
  <2>1. PICK list : Becomes(w, [worker[w] EXCEPT !.stage = "drop", !.list = list,
                                               !.left = {a \in Apps : list[a] # None}])
    BY <1>3, FetchShape
  <2> DEFINE k == [worker[w] EXCEPT !.stage = "drop", !.list = list,
                                    !.left = {a \in Apps : list[a] # None}]
  <2>2. k.op = worker[w].op /\ k.stage = "drop"
    BY <1>1 DEF Jobs
  <2> HIDE DEF k
  <2>3. k \in Jobs
    BY <1>2, <2>1, <2>2 DEF Idle, k
  <2>4. QED
    BY <1>1, <2>1, <2>2, <2>3 DEF k
<1>4. CASE Drop(w)
  <2>1. PICK t : \/ Becomes(w, [worker[w] EXCEPT !.stage = "stalled"])
                 \/ Becomes(w, [worker[w] EXCEPT !.stage = "look", !.tx = t])
    BY <1>4, DropShape
  <2> DEFINE j == [worker[w] EXCEPT !.stage = "stalled"]
             k == [worker[w] EXCEPT !.stage = "look", !.tx = t]
  <2>2. k.op = worker[w].op /\ k.stage = "look" /\ j.op = worker[w].op /\ j.stage = "stalled"
    BY <1>1 DEF Jobs
  <2>3. Becomes(w, j) \/ Becomes(w, k)
    BY <2>1
  <2> HIDE DEF j, k
  <2>4. (Becomes(w, j) => j \in Jobs) /\ (Becomes(w, k) => k \in Jobs)
    BY <1>2, <2>2 DEF Idle
  <2>5. QED
    BY <1>1, <2>2, <2>3, <2>4
<1>5. ASSUME NEW a \in Apps, Look(w, a)
      PROVE  \E k \in Jobs : Becomes(w, k) /\ k.op = worker[w].op /\ k.stage # "finish"
  <2>1. PICK found : Becomes(w, [worker[w] EXCEPT !.stage = "put", !.at = a, !.left = @ \ {a}, !.found = found])
    BY <1>5, LookShape
  <2> DEFINE k == [worker[w] EXCEPT !.stage = "put", !.at = a, !.left = @ \ {a}, !.found = found]
  <2>2. k.op = worker[w].op /\ k.stage = "put" /\ Becomes(w, k)
    BY <1>1, <2>1 DEF Jobs
  <2> HIDE DEF k
  <2>3. k \in Jobs
    BY <1>2, <2>2 DEF Idle
  <2>4. QED
    BY <2>2, <2>3
<1>6. CASE Put(w)
  <2>1. PICK t : Becomes(w, [worker[w] EXCEPT !.stage = "look", !.at = None, !.found = None, !.tx = t])
    BY <1>6, PutShape
  <2> DEFINE k == [worker[w] EXCEPT !.stage = "look", !.at = None, !.found = None, !.tx = t]
  <2>2. k.op = worker[w].op /\ k.stage = "look" /\ Becomes(w, k)
    BY <1>1, <2>1 DEF Jobs
  <2> HIDE DEF k
  <2>3. k \in Jobs
    BY <1>2, <2>2 DEF Idle
  <2>4. QED
    BY <1>1, <2>2, <2>3
<1>7. CASE Gather(w)
  <2>1. PICK t : Becomes(w, [worker[w] EXCEPT !.stage = "commit", !.tx = t])
    BY <1>7, GatherShape
  <2> DEFINE k == [worker[w] EXCEPT !.stage = "commit", !.tx = t]
  <2>2. k.op = worker[w].op /\ k.stage = "commit" /\ Becomes(w, k)
    BY <1>1, <2>1 DEF Jobs
  <2> HIDE DEF k
  <2>3. k \in Jobs
    BY <1>2, <2>2 DEF Idle
  <2>4. QED
    BY <1>1, <2>2, <2>3
<1>8. QED
  BY <1>1, <1>3, <1>4, <1>5, <1>6, <1>7 DEF Goes

-----------------------------------------------------------------------------
(* What every step does to the jobs *)

(* A job whose worker does nothing keeps what is known of it. *)
LEMMA AsideKeeps ==
  ASSUME NEW j \in Jobs, NEW k \in Jobs, NEW c, Aside(j, k), JobRest(j), JobRows(j, c)
  PROVE  JobRest(k) /\ JobRows(k, c)
<1>1. JobRest(k)
  BY DEF Aside, JobRest, InTx
<1>2. JobRows(k, c)
  <2>1. k.stage = "put" <=> j.stage = "put"
    BY DEF Aside
  <2>2. QED
    BY <2>1 DEF Aside, JobRows
<1>3. QED
  BY <1>1, <1>2

(* A step of worker w that leaves w idle or with a job in order keeps all  *)
(* jobs in order.                                                          *)
LEMMA JobsKept ==
  ASSUME TypeOK, JobsInv, OpsKept, NEW w \in Workers, OthersAside(w),
         worker'[w] # Idle => JobRest(worker'[w]) /\ JobRows(worker'[w], Conn(w)')
  PROVE  JobsInv'
<1>1. ASSUME NEW v \in Workers, worker'[v] # Idle
      PROVE  JobRest(worker'[v]) /\ JobRows(worker'[v], Conn(v)')
  <2>1. CASE v = w
    BY <1>1, <2>1
  <2>2. CASE v # w
    <3>1. worker[v] # Idle /\ worker[v] \in Jobs /\ worker'[v] \in Jobs /\ Aside(worker[v], worker'[v])
      BY <1>1, <2>2, IdleIsNoJob DEF OthersAside
    <3>2. JobRest(worker[v]) /\ JobRows(worker[v], Conn(v))
      BY <3>1 DEF JobsInv, Active
    <3>3. Conn(v)' = Conn(v)
      BY <3>1 DEF Aside, Conn, OpsKept, TypeOK
    <3>4. QED
      BY <3>1, <3>2, <3>3, AsideKeeps
  <2>3. QED
    BY <2>1, <2>2
<1>2. QED
  BY <1>1 DEF JobsInv, Active, JobRest, JobRows

(* So does one that changes no job, or leaves none alone. *)
LEMMA AllJobsKept ==
  ASSUME TypeOK, JobsInv, OpsKept,
         \A v \in Workers : /\ worker[v] = Idle => worker'[v] = Idle
                            /\ worker[v] # Idle => worker'[v] \in Jobs /\ Aside(worker[v], worker'[v])
  PROVE  JobsInv'
<1>1. ASSUME NEW v \in Workers, worker'[v] # Idle
      PROVE  JobRest(worker'[v]) /\ JobRows(worker'[v], Conn(v)')
  <2>1. worker[v] # Idle /\ worker[v] \in Jobs /\ worker'[v] \in Jobs /\ Aside(worker[v], worker'[v])
    BY <1>1, IdleIsNoJob
  <2>2. JobRest(worker[v]) /\ JobRows(worker[v], Conn(v))
    BY <2>1 DEF JobsInv, Active
  <2>3. Conn(v)' = Conn(v)
    BY <2>1 DEF Aside, Conn, OpsKept, TypeOK
  <2>4. QED
    BY <2>1, <2>2, <2>3, AsideKeeps
<1>2. QED
  BY <1>1 DEF JobsInv, Active, JobRest, JobRows

(* The steps that are not a worker's, but for deletions, touch neither     *)
(* jobs nor tables.                                                        *)
LEMMA NonWorkers ==
  ASSUME [Next]_vars
  PROVE  \/ \E w \in Workers : WorkerStep(w)
         \/ \E c \in Connections : DeleteConnection(c)
         \/ UNCHANGED <<worker, app, target, cut>>
  BY DEF Next, vars, tables, CreateConnection, RefreshVersion, UpdateRead, SyncCheck, UpdateSave,
         SyncEnqueue, CancelOperation, Recover

(* A worker keeps its operation's connection. *)
LEMMA ConnKept ==
  ASSUME TypeOK, OpsKept, NEW w \in Workers, worker[w] # Idle, worker'[w].op = worker[w].op
  PROVE  Conn(w)' = Conn(w)
  BY DEF Conn, OpsKept, TypeOK

(* Every step keeps the jobs in order. *)
LEMMA JobsNext == IInv /\ [Next]_vars => JobsInv'
<1> SUFFICES ASSUME IInv, [Next]_vars PROVE JobsInv'
  OBVIOUS
<1>1. TypeOK /\ JobsInv /\ OpsKept
  BY OpsNext DEF IInv
<1>2. \A v \in Workers : worker[v] # Idle => JobRest(worker[v]) /\ JobRows(worker[v], Conn(v))
  BY <1>1 DEF JobsInv, Active
<1>3. \A a \in Apps : NoTx.apps[a] = None /\ NoListing[a] = None
  BY DEF NoTx, NoListing
<1>4. CASE UNCHANGED <<worker, app, target, cut>>
  BY <1>1, <1>4, AllJobsKept, IdleIsNoJob DEF Aside
<1>5. ASSUME NEW c \in Connections, DeleteConnection(c)
      PROVE  JobsInv'
  BY <1>1, <1>5, DeleteShape, AllJobsKept
<1>6. ASSUME NEW w \in Workers, NEW i \in DOMAIN ops, Claim(w, i)
      PROVE  JobsInv'
  <2> DEFINE k == [stage |-> "fetch", op |-> i, list |-> NoListing, left |-> {},
                   at |-> None, found |-> None, ok |-> TRUE, tx |-> NoTx]
  <2>1. Becomes(w, k)
    BY <1>1, <1>6, ClaimShape
  <2>2. JobRest(k) /\ JobRows(k, Conn(w)')
    BY <1>3 DEF JobRest, JobRows
  <2>3. QED
    BY <1>1, <2>1, <2>2, JobsKept DEF Becomes
<1>7. ASSUME NEW w \in Workers, Fetch(w)
      PROVE  JobsInv'
  <2>1. worker[w] \in Jobs /\ worker[w] # Idle /\ worker[w].stage = "fetch"
    BY <1>1, <1>7, IdleIsNoJob DEF Fetch
  <2>2. PICK list \in Listings :
            /\ \A a \in Apps : list[a] # None => ConnOf[a] = Conn(w)
            /\ Becomes(w, [worker[w] EXCEPT !.stage = "drop", !.list = list,
                                            !.left = {a \in Apps : list[a] # None}])
    BY <1>1, <1>7, FetchShape
  <2> DEFINE k == [worker[w] EXCEPT !.stage = "drop", !.list = list,
                                    !.left = {a \in Apps : list[a] # None}]
  <2>3. worker'[w] = k /\ k.op = worker[w].op /\ Conn(w)' = Conn(w)
    BY <1>1, <2>1, <2>2, ConnKept DEF Becomes, Jobs
  <2>4. /\ k.stage = "drop" /\ k.list = list /\ k.left = {a \in Apps : list[a] # None}
        /\ k.tx = NoTx /\ k.at = None /\ k.found = None
    BY <1>2, <2>1 DEF JobRest, InTx, Jobs
  <2> HIDE DEF k
  <2>5. JobRest(k) /\ JobRows(k, Conn(w)')
    BY <1>3, <2>2, <2>3, <2>4 DEF JobRest, JobRows
  <2>6. QED
    BY <1>1, <2>2, <2>3, <2>5, JobsKept DEF Becomes
<1>8. ASSUME NEW w \in Workers, Drop(w)
      PROVE  JobsInv'
  <2>1. worker[w] \in Jobs /\ worker[w] # Idle /\ worker[w].stage = "drop"
    BY <1>1, <1>8, IdleIsNoJob DEF Drop
  <2>2. CASE Becomes(w, [worker[w] EXCEPT !.stage = "stalled"])
    <3> DEFINE k == [worker[w] EXCEPT !.stage = "stalled"]
    <3>1. worker'[w] = k /\ k.op = worker[w].op /\ Conn(w)' = Conn(w)
      BY <1>1, <2>1, <2>2, ConnKept DEF Becomes, Jobs
    <3>2. /\ k.stage = "stalled" /\ k.list = worker[w].list /\ k.left = worker[w].left
          /\ k.tx = NoTx /\ k.at = None /\ k.found = None /\ worker[w].tx = NoTx
      BY <1>2, <2>1 DEF JobRest, InTx, Jobs
    <3> HIDE DEF k
    <3>3. JobRest(k) /\ JobRows(k, Conn(w)')
      BY <1>2, <1>3, <2>1, <3>1, <3>2 DEF JobRest, JobRows
    <3>4. QED
      BY <1>1, <2>2, <3>1, <3>3, JobsKept DEF Becomes
  <2>3. ASSUME NEW alone \in BOOLEAN,
               Becomes(w, [worker[w] EXCEPT !.stage = "look",
                        !.tx = [NoTx EXCEPT !.dropped = {a \in Apps : ConnOf[a] = Conn(w) /\ app[a] # None},
                                            !.alone = alone]])
        PROVE  JobsInv'
    <3> DEFINE old == {a \in Apps : ConnOf[a] = Conn(w) /\ app[a] # None}
               tx == [NoTx EXCEPT !.dropped = old, !.alone = alone]
               k == [worker[w] EXCEPT !.stage = "look", !.tx = tx]
    <3>1. tx.apps = NoTx.apps
      BY DEF NoTx
    <3> HIDE DEF tx
    <3>2. worker'[w] = k
      BY <2>3 DEF Becomes, tx
    <3>3. k.op = worker[w].op /\ Conn(w)' = Conn(w)
      BY <1>1, <2>1, <3>2, ConnKept DEF Jobs
    <3>4. /\ k.stage = "look" /\ k.list = worker[w].list /\ k.left = worker[w].left
          /\ k.tx = tx /\ k.at = None /\ k.found = None /\ worker[w].tx = NoTx
      BY <1>2, <2>1 DEF JobRest, InTx, Jobs
    <3> HIDE DEF k
    <3>5. JobRest(k) /\ JobRows(k, Conn(w)')
      BY <1>2, <1>3, <2>1, <3>1, <3>3, <3>4 DEF JobRest, JobRows, InTx
    <3>6. QED
      BY <1>1, <2>3, <3>2, <3>5, JobsKept DEF Becomes
  <2>4. QED
    BY <1>1, <1>8, <2>2, <2>3, DropShape
<1>9. ASSUME NEW w \in Workers, NEW a \in Apps, Look(w, a)
      PROVE  JobsInv'
  <2>1. worker[w] \in Jobs /\ worker[w] # Idle /\ worker[w].stage = "look" /\ a \in worker[w].left
    BY <1>1, <1>9, IdleIsNoJob DEF Look
  <2>2. PICK found \in Ids \cup {None} :
            /\ found # None => Matches(TargetSeen(w, found), a)
            /\ Becomes(w, [worker[w] EXCEPT !.stage = "put", !.at = a, !.left = @ \ {a},
                                            !.found = found])
    BY <1>1, <1>9, LookShape
  <2> DEFINE k == [worker[w] EXCEPT !.stage = "put", !.at = a, !.left = @ \ {a}, !.found = found]
  <2>3. worker'[w] = k /\ k.op = worker[w].op /\ Conn(w)' = Conn(w)
    BY <1>1, <2>1, <2>2, ConnKept DEF Becomes, Jobs
  <2>4. /\ k.stage = "put" /\ k.list = worker[w].list /\ k.left = worker[w].left \ {a}
        /\ k.tx = worker[w].tx /\ k.at = a /\ k.found = found
    BY <2>1 DEF Jobs
  <2> HIDE DEF k
  <2>a. JobRest(k) /\ JobRest(worker[w]) /\ JobRows(worker[w], Conn(w))
    BY <1>2, <2>1, <2>4 DEF JobRest, InTx
  <2>b. ASSUME NEW b \in Apps, k.list[b] # None
        PROVE  b \in k.left \/ (k.stage = "put" /\ b = k.at) \/ k.tx.apps[b] # None
    BY <2>1, <2>4, <2>a, <2>b DEF JobRows
  <2>c. ASSUME NEW b \in Apps, k.tx.apps[b] # None
        PROVE  /\ k.list[b] # None /\ k.tx.apps[b].status = k.list[b].status
               /\ k.tx.targets[k.tx.apps[b].target] # None
    <3>1. worker[w].tx.apps[b] # None
      BY <2>4, <2>c
    <3>2. /\ worker[w].list[b] # None /\ worker[w].tx.apps[b].status = worker[w].list[b].status
          /\ worker[w].tx.targets[worker[w].tx.apps[b].target] # None
      BY <2>a, <3>1 DEF JobRows
    <3>3. QED
      BY <2>4, <3>2
  <2>d. \A b \in Apps : k.list[b] # None => ConnOf[b] = Conn(w)'
    BY <2>3, <2>4, <2>a DEF JobRows
  <2>e. (\A b \in k.left : k.list[b] # None) /\ (k.stage = "put" => k.at \in Apps /\ k.list[k.at] # None)
    BY <1>1, <2>1, <2>4, <2>a DEF JobRows, Jobs
  <2>5. JobRest(k) /\ JobRows(k, Conn(w)')
    <3> HIDE DEF JobRest
    <3>1. QED
      BY <2>a, <2>b, <2>c, <2>d, <2>e DEF JobRows
  <2>6. QED
    BY <1>1, <2>2, <2>3, <2>5, JobsKept DEF Becomes
<1>10. ASSUME NEW w \in Workers, Put(w)
      PROVE  JobsInv'
  <2>2. /\ worker[w] \in Jobs /\ worker[w].stage = "put"
        /\ worker[w].at \in Apps /\ worker[w].list[worker[w].at] \in Reports
    BY <1>1, <1>10, PutShape
  <2>a. worker[w] # Idle
    BY <1>1, <2>2, IdleIsNoJob
  <2>1. worker[w] # Idle /\ worker[w].tx \in Transactions /\ worker[w].list \in Listings
    BY <2>2, <2>a DEF Jobs
  <2>3. PICK i \in Ids, row \in TargetRows, placed \in AppRows :
               /\ placed = [target |-> i, status |-> worker[w].list[worker[w].at].status]
               /\ Becomes(w, [worker[w] EXCEPT
                     !.stage = "look", !.at = None, !.found = None,
                     !.tx = [worker[w].tx EXCEPT
                        !.targets = [worker[w].tx.targets EXCEPT ![i] = row],
                        !.apps = [worker[w].tx.apps EXCEPT ![worker[w].at] = placed]]])
    BY <1>1, <1>10, PutShape
  <2> DEFINE a == worker[w].at
             apps == [worker[w].tx.apps EXCEPT ![a] = placed]
             targets == [worker[w].tx.targets EXCEPT ![i] = row]
             t == [worker[w].tx EXCEPT !.targets = targets, !.apps = apps]
             k == [worker[w] EXCEPT !.stage = "look", !.at = None, !.found = None, !.tx = t]
  <2>4. worker'[w] = k
    BY <2>3 DEF Becomes
  <2>5. /\ k.op = worker[w].op /\ k.stage = "look" /\ k.list = worker[w].list /\ k.left = worker[w].left
        /\ k.tx = t /\ k.at = None /\ k.found = None
    BY <2>2 DEF Jobs
  <2>6. t.apps = apps /\ t.targets = targets
    BY <2>1 DEF Transactions
  <2>7. /\ apps[a] = placed /\ \A b \in Apps \ {a} : apps[b] = worker[w].tx.apps[b]
        /\ targets[i] = row /\ \A n \in Ids \ {i} : targets[n] = worker[w].tx.targets[n]
        /\ placed.target = i /\ placed.status = worker[w].list[a].status /\ row # None /\ placed # None
        /\ worker[w].list[a] # None
        /\ \A b \in Apps : worker[w].tx.apps[b] # None => worker[w].tx.apps[b].target \in Ids
    BY <2>1, <2>2, <2>3 DEF Transactions, AppRows
  <2> HIDE DEF k, t, apps, targets
  <2>8. Conn(w)' = Conn(w)
    BY <1>1, <2>1, <2>4, <2>5, ConnKept
  <2>9. JobRest(k)
    BY <2>5 DEF JobRest, InTx
  <2>10. JobRows(k, Conn(w)')
    <3>1. JobRows(worker[w], Conn(w))
      BY <1>2, <2>1
    <3>2. ASSUME NEW b \in Apps, k.tx.apps[b] # None
          PROVE  /\ k.list[b] # None /\ k.tx.apps[b].status = k.list[b].status
                 /\ k.tx.targets[k.tx.apps[b].target] # None
      <4>1. CASE b = a
        BY <2>5, <2>6, <2>7, <4>1
      <4>2. CASE b # a
        <5>1. /\ k.tx.apps[b] = worker[w].tx.apps[b] /\ k.list = worker[w].list
              /\ k.tx.targets = targets
          BY <2>5, <2>6, <2>7, <4>2
        <5>2. /\ worker[w].list[b] # None /\ worker[w].tx.apps[b].status = worker[w].list[b].status
              /\ worker[w].tx.targets[worker[w].tx.apps[b].target] # None
              /\ worker[w].tx.apps[b].target \in Ids
          BY <2>7, <3>1, <3>2, <5>1 DEF JobRows
        <5>3. \A n \in Ids : worker[w].tx.targets[n] # None => targets[n] # None
          BY <2>7
        <5>4. QED
          BY <5>1, <5>2, <5>3
      <4>3. QED
        BY <4>1, <4>2
    <3>3. ASSUME NEW b \in Apps, k.list[b] # None
          PROVE  b \in k.left \/ k.tx.apps[b] # None
      <4>1. CASE b = a
        BY <2>5, <2>6, <2>7, <4>1
      <4>2. CASE b # a
        <5>1. k.tx.apps[b] = worker[w].tx.apps[b] /\ k.list = worker[w].list /\ k.left = worker[w].left
          BY <2>5, <2>6, <2>7, <4>2
        <5>2. b \in worker[w].left \/ worker[w].tx.apps[b] # None
          BY <3>1, <3>3, <4>2, <5>1 DEF JobRows
        <5>3. QED
          BY <5>1, <5>2
      <4>3. QED
        BY <4>1, <4>2
    <3>4. QED
      BY <2>5, <2>8, <3>1, <3>2, <3>3 DEF JobRows
  <2>11. QED
    BY <1>1, <2>3, <2>4, <2>9, <2>10, JobsKept DEF Becomes
<1>11. ASSUME NEW w \in Workers, Gather(w)
      PROVE  JobsInv'
  <2>1. worker[w] \in Jobs /\ worker[w].stage = "look" /\ worker[w].left = {} /\ worker[w] # Idle
    BY <1>1, <1>11, GatherShape, IdleIsNoJob
  <2>2. PICK targets \in [Ids -> TargetRows \cup {None}] :
               /\ \A i \in Ids : targets[i] =
                     IF TargetSeen(w, i) # None /\ StatusesOn(w, i) # {}
                     THEN [TargetSeen(w, i) EXCEPT !.status = RolledUp(StatusesOn(w, i))]
                     ELSE worker[w].tx.targets[i]
               /\ Becomes(w, [worker[w] EXCEPT !.stage = "commit",
                     !.tx = [worker[w].tx EXCEPT !.doomed = Orphans(w), !.targets = targets]])
    BY <1>1, <1>11, GatherShape
  <2> DEFINE t == [worker[w].tx EXCEPT !.doomed = Orphans(w), !.targets = targets]
             k == [worker[w] EXCEPT !.stage = "commit", !.tx = t]
  <2>3. worker'[w] = k
    BY <2>2 DEF Becomes
  <2>4. worker[w].tx \in Transactions
    BY <2>1 DEF Jobs
  <2>5. /\ k.op = worker[w].op /\ k.stage = "commit" /\ k.list = worker[w].list /\ k.left = {}
        /\ k.tx = t /\ k.at = None /\ k.found = None
    BY <1>2, <2>1 DEF Jobs, JobRest
  <2>6. t.apps = worker[w].tx.apps /\ t.targets = targets
    BY <2>4 DEF Transactions
  <2>7. \A i \in Ids : worker[w].tx.targets[i] # None => targets[i] # None
    <3>1. ASSUME NEW i \in Ids, worker[w].tx.targets[i] # None
          PROVE  targets[i] # None
      <4>1. TargetSeen(w, i) \in TargetRows
        BY <2>4, <3>1 DEF TargetSeen, Transactions
      <4>2. RolledUp(StatusesOn(w, i)) \in Statuses
        BY DEF RolledUp, Statuses
      <4>3. [TargetSeen(w, i) EXCEPT !.status = RolledUp(StatusesOn(w, i))] \in TargetRows
        BY <4>1, <4>2 DEF TargetRows
      <4>4. QED
        BY <2>2, <3>1, <4>3
    <3>2. QED
      BY <3>1
  <2> HIDE DEF k, t
  <2>8. Conn(w)' = Conn(w)
    BY <1>1, <2>1, <2>3, <2>5, ConnKept
  <2>9. \A b \in Apps : worker[w].tx.apps[b] # None => worker[w].tx.apps[b].target \in Ids
    BY <2>4 DEF Transactions, AppRows
  <2>10. JobRest(k)
    BY <2>5 DEF JobRest, InTx
  <2>11. JobRows(k, Conn(w)')
    <3>1. JobRows(worker[w], Conn(w))
      BY <1>2, <2>1
    <3>2. k.tx.apps = worker[w].tx.apps /\ k.tx.targets = targets
      BY <2>5, <2>6
    <3>3. ASSUME NEW b \in Apps, k.tx.apps[b] # None
          PROVE  /\ k.list[b] # None /\ k.tx.apps[b].status = k.list[b].status
                 /\ k.tx.targets[k.tx.apps[b].target] # None
      <4>1. /\ worker[w].list[b] # None /\ worker[w].tx.apps[b].status = worker[w].list[b].status
            /\ worker[w].tx.targets[worker[w].tx.apps[b].target] # None
            /\ worker[w].tx.apps[b].target \in Ids
        BY <2>9, <3>1, <3>2, <3>3 DEF JobRows
      <4>2. QED
        BY <2>5, <2>7, <3>2, <4>1
    <3>4. \A b \in Apps : k.list[b] # None => k.tx.apps[b] # None
      BY <2>1, <2>5, <3>1, <3>2 DEF JobRows
    <3>5. \A b \in Apps : k.list[b] # None => ConnOf[b] = Conn(w)'
      BY <2>5, <2>8, <3>1 DEF JobRows
    <3>6. QED
      BY <2>5, <3>3, <3>4, <3>5 DEF JobRows
  <2>12. QED
    BY <1>1, <2>2, <2>3, <2>10, <2>11, JobsKept DEF Becomes
<1>12. ASSUME NEW w \in Workers, Commit(w)
      PROVE  JobsInv'
  <2> DEFINE k == [worker[w] EXCEPT !.stage = "finish", !.list = NoListing, !.tx = NoTx]
  <2>1. worker[w] \in Jobs /\ worker[w] # Idle /\ worker[w].stage = "commit" /\ Becomes(w, k)
    BY <1>1, <1>12, CommitShape, IdleIsNoJob
  <2>2. /\ k.stage = "finish" /\ k.list = NoListing /\ k.left = {}
        /\ k.tx = NoTx /\ k.at = None /\ k.found = None
    BY <1>2, <2>1 DEF Jobs, JobRest
  <2> HIDE DEF k
  <2>3. JobRest(k) /\ JobRows(k, Conn(w)')
    BY <1>3, <2>2 DEF JobRest, JobRows
  <2>4. QED
    BY <1>1, <2>1, <2>3, JobsKept DEF Becomes
<1>13. ASSUME NEW w \in Workers, Fail(w)
      PROVE  JobsInv'
  <2> DEFINE k == [worker[w] EXCEPT !.stage = "finish", !.ok = FALSE, !.list = NoListing, !.left = {},
                                    !.at = None, !.found = None, !.tx = NoTx]
  <2>1. worker[w] \in Jobs /\ Becomes(w, k)
    BY <1>1, <1>13, FailShape
  <2>2. /\ k.stage = "finish" /\ k.list = NoListing /\ k.left = {}
        /\ k.tx = NoTx /\ k.at = None /\ k.found = None
    BY <2>1 DEF Jobs
  <2> HIDE DEF k
  <2>3. JobRest(k) /\ JobRows(k, Conn(w)')
    BY <1>3, <2>2 DEF JobRest, JobRows
  <2>4. QED
    BY <1>1, <2>1, <2>3, JobsKept DEF Becomes
<1>14. ASSUME NEW w \in Workers, Finish(w) \/ Stop(w)
      PROVE  JobsInv'
  <2>1. Becomes(w, Idle)
    BY <1>1, <1>14, FinishShape, StopShape
  <2>2. QED
    BY <1>1, <2>1, JobsKept DEF Becomes
<1>15. QED
  BY <1>4, <1>5, <1>6, <1>7, <1>8, <1>9, <1>10, <1>11, <1>12, <1>13, <1>14, NonWorkers DEF WorkerStep

-----------------------------------------------------------------------------
(* Types *)

(* Workers keep their types when w is left idle or at an operation. *)
LEMMA WorkersType ==
  ASSUME TypeOK, OpsKept, NEW w \in Workers, NEW k, Becomes(w, k),
         k # Idle => k.op \in DOMAIN ops
  PROVE  /\ worker' \in [Workers -> {Idle} \cup Jobs]
         /\ \A v \in Workers : worker'[v] # Idle => worker'[v].op \in DOMAIN ops'
<1>1. ASSUME NEW v \in Workers, worker'[v] # Idle
      PROVE  worker'[v].op \in DOMAIN ops'
  <2>1. CASE v = w
    BY <1>1, <2>1 DEF Becomes, OpsKept
  <2>2. CASE v # w
    <3>1. worker[v] # Idle /\ Aside(worker[v], worker'[v])
      BY <1>1, <2>2 DEF Becomes, OthersAside
    <3>2. QED
      BY <3>1 DEF Aside, TypeOK, OpsKept
  <2>3. QED
    BY <2>1, <2>2
<1>2. QED
  BY <1>1 DEF Becomes

(* Statuses are set to statuses. *)
LEMMA SetStatusType ==
  ASSUME TypeOK, NEW c \in Connections, NEW st \in SyncStatuses, SetStatus(c, st)
  PROVE  /\ connection' \in [Connections -> {"absent", "deleted"} \cup SyncStatuses]
         /\ resaved' \subseteq Connections
         /\ connection'[c] = "running" => st = "running" /\ Exists(c)
         /\ \A d \in Connections \ {c} : connection'[d] = connection[d] /\ (d \in resaved <=> d \in resaved')
  BY DEF SetStatus, TypeOK, Exists

(* The tables as a worker sees them have the types of the tables. *)
LEMMA SeenType ==
  ASSUME TypeOK, NEW w \in Workers, worker[w] \in Jobs
  PROVE  /\ \A a \in Apps : AppSeen(w, a) \in AppRows \cup {None}
         /\ \A i \in Ids : TargetSeen(w, i) \in TargetRows \cup {None}
<1>1. worker[w].tx \in Transactions
  BY DEF Jobs
<1>2. QED
  BY <1>1 DEF AppSeen, TargetSeen, TypeOK, Transactions

(* Every step keeps the types. *)
LEMMA TypeNext == IInv /\ [Next]_vars => TypeOK'
<1> SUFFICES ASSUME IInv, [Next]_vars PROVE TypeOK'
  OBVIOUS
<1>1. TypeOK /\ JobsInv /\ OpsKept
  BY OpsNext DEF IInv
<1>2. ops' \in Seq([conn : Connections,
                   status : {"queued", "running", "stopping", "canceled", "completed", "failed"}])
  BY <1>1 DEF OpsKept, OpRows
<1>3. UNCHANGED worker =>
        /\ worker' \in [Workers -> {Idle} \cup Jobs]
        /\ \A v \in Workers : worker'[v] # Idle => worker'[v].op \in DOMAIN ops'
  BY <1>1 DEF TypeOK, OpsKept
<1>4. CASE UNCHANGED vars
  BY <1>1, <1>4 DEF vars, tables, TypeOK
<1>5. ASSUME NEW c \in Connections, CreateConnection(c) \/ RefreshVersion(c)
      PROVE  TypeOK'
  BY <1>1, <1>2, <1>3, <1>5 DEF CreateConnection, RefreshVersion, tables, SyncStatuses, TypeOK
<1>6. ASSUME NEW c \in Connections, DeleteConnection(c)
      PROVE  TypeOK'
  <2> DEFINE apps == {a \in Apps : ConnOf[a] = c}
             targets == {i \in Ids : target[i] # None /\ target[i].conn = c}
  <2>1. /\ worker' \in [Workers -> {Idle} \cup Jobs]
        /\ \A v \in Workers : worker'[v] # Idle => worker'[v].op \in DOMAIN ops'
    <3>1. \A v \in Workers : worker'[v] # Idle => worker[v] # Idle /\ worker'[v].op = worker[v].op
      BY <1>1, <1>6, DeleteShape DEF Aside
    <3>2. QED
      BY <1>1, <1>6, <3>1, DeleteShape DEF TypeOK, OpsKept
  <2>2. connection' \in [Connections -> {"absent", "deleted"} \cup SyncStatuses]
    BY <1>1, <1>6 DEF DeleteConnection, TypeOK
  <2>3. app' \in [Apps -> AppRows \cup {None}] /\ target' \in [Ids -> TargetRows \cup {None}]
    BY <1>1, <1>6 DEF DeleteConnection, TypeOK
  <2>4. deployed' \in [Apps -> DeployedRows \cup {None}]
    <3>1. deployed' = [a \in Apps |-> IF a \in apps \/ deployed[a] = None THEN None
                         ELSE PointKept(deployed[a], targets)]
      BY <1>6 DEF DeleteConnection
    <3>2. ASSUME NEW a \in Apps, deployed[a] # None
          PROVE  PointKept(deployed[a], targets) \in DeployedRows
      <4> HIDE DEF targets
      <4>1. deployed[a] \in DeployedRows
        BY <1>1, <3>2 DEF TypeOK
      <4>2. QED
        BY <4>1 DEF PointKept, DeployedRows
    <3>3. QED
      BY <3>1, <3>2
  <2>5. cut' \subseteq Ids /\ resaved' \subseteq Connections /\ UNCHANGED request
    BY <1>1, <1>6 DEF DeleteConnection, TypeOK
  <2>6. QED
    BY <1>1, <1>2, <2>1, <2>2, <2>3, <2>4, <2>5 DEF TypeOK
<1>7. ASSUME NEW h \in Handlers, NEW c \in Connections, UpdateRead(h, c) \/ SyncCheck(h, c)
      PROVE  TypeOK'
  <2>1. UpdateRead(h, c) => connection[c] \in SyncStatuses
    BY <1>1 DEF UpdateRead, Exists, TypeOK
  <2>2. request' \in [Handlers -> {Idle} \cup [stage : {"enqueue"}, conn : Connections]
             \cup [stage : {"save"}, conn : Connections, status : SyncStatuses]]
    BY <1>1, <1>7, <2>1 DEF UpdateRead, SyncCheck, TypeOK
  <2>3. QED
    BY <1>1, <1>2, <1>3, <1>7, <2>2 DEF UpdateRead, SyncCheck, tables, TypeOK
<1>8. ASSUME NEW h \in Handlers, UpdateSave(h) \/ SyncEnqueue(h)
      PROVE  TypeOK'
  <2>1. UpdateSave(h) => request[h].conn \in Connections /\ request[h].status \in SyncStatuses
    BY <1>1 DEF UpdateSave, TypeOK, Idle
  <2>2. connection' \in [Connections -> {"absent", "deleted"} \cup SyncStatuses] /\ resaved' \subseteq Connections
    BY <1>1, <1>8, <2>1 DEF UpdateSave, SyncEnqueue, TypeOK
  <2>3. request' \in [Handlers -> {Idle} \cup [stage : {"enqueue"}, conn : Connections]
             \cup [stage : {"save"}, conn : Connections, status : SyncStatuses]]
    BY <1>1, <1>8 DEF UpdateSave, SyncEnqueue, TypeOK
  <2>4. QED
    BY <1>1, <1>2, <1>3, <1>8, <2>2, <2>3 DEF UpdateSave, SyncEnqueue, tables, TypeOK
<1>9. ASSUME NEW i \in DOMAIN ops, CancelOperation(i) \/ Recover(i)
      PROVE  TypeOK'
  <2>1. ops[i].conn \in Connections
    BY <1>1, OpConn
  <2>2. connection' \in [Connections -> {"absent", "deleted"} \cup SyncStatuses] /\ resaved' \subseteq Connections
    BY <1>1, <1>9, <2>1, SetStatusType DEF CancelOperation, Recover, SyncStatuses, TypeOK
  <2>3. QED
    BY <1>1, <1>2, <1>3, <1>9, <2>2 DEF CancelOperation, Recover, tables, TypeOK
<1>10. ASSUME NEW w \in Workers, NEW i \in DOMAIN ops, Claim(w, i)
       PROVE  TypeOK'
  <2>1. ops[i].conn \in Connections
    BY <1>1, OpConn
  <2>2. connection' \in [Connections -> {"absent", "deleted"} \cup SyncStatuses] /\ resaved' \subseteq Connections
    BY <1>1, <1>10, <2>1, SetStatusType DEF Claim, SyncStatuses
  <2>3. /\ worker' \in [Workers -> {Idle} \cup Jobs]
        /\ \A v \in Workers : worker'[v] # Idle => worker'[v].op \in DOMAIN ops'
    BY <1>1, <1>10, ClaimShape, WorkersType
  <2>4. QED
    BY <1>1, <1>2, <1>10, <2>2, <2>3 DEF Claim, tables, TypeOK
<1>11. ASSUME NEW w \in Workers, NEW k, Becomes(w, k), k # Idle => k.op = worker[w].op /\ worker[w] # Idle,
              UNCHANGED <<tables, request>>,
              /\ connection' \in [Connections -> {"absent", "deleted"} \cup SyncStatuses]
              /\ resaved' \subseteq Connections,
              cut' \subseteq Ids
       PROVE  TypeOK'
  <2>1. k # Idle => k.op \in DOMAIN ops
    BY <1>1, <1>11 DEF TypeOK
  <2>2. /\ worker' \in [Workers -> {Idle} \cup Jobs]
        /\ \A v \in Workers : worker'[v] # Idle => worker'[v].op \in DOMAIN ops'
    BY <1>1, <1>11, <2>1, WorkersType
  <2>3. QED
    BY <1>1, <1>2, <1>11, <2>2 DEF tables, TypeOK
<1>12. ASSUME NEW w \in Workers, Goes(w)
       PROVE  TypeOK'
  <2>1. UNCHANGED <<tables, request, connection, resaved, cut>>
    BY <1>12 DEF Goes, Fetch, Drop, Look, Put, Gather
  <2>2. QED
    BY <1>1, <1>11, <1>12, <2>1, GoesShape DEF TypeOK
<1>13. ASSUME NEW w \in Workers, Commit(w)
       PROVE  TypeOK'
  <2> DEFINE k == [worker[w] EXCEPT !.stage = "finish", !.list = NoListing, !.tx = NoTx]
  <2>1. worker[w] \in Jobs /\ worker[w] # Idle /\ Becomes(w, k) /\ Conn(w) \in Connections
    BY <1>1, <1>13, CommitShape, IdleIsNoJob, ConnType
  <2>2. k.op = worker[w].op /\ worker[w].tx \in Transactions
    BY <2>1 DEF Jobs
  <2> HIDE DEF k
  <2>3. k.op \in DOMAIN ops
    BY <1>1, <2>1, <2>2 DEF TypeOK
  <2>4. /\ worker' \in [Workers -> {Idle} \cup Jobs]
        /\ \A v \in Workers : worker'[v] # Idle => worker'[v].op \in DOMAIN ops'
    BY <1>1, <2>1, <2>3, WorkersType
  <2>5. connection' \in [Connections -> {"absent", "deleted"} \cup SyncStatuses] /\ resaved' \subseteq Connections
    BY <1>1, <1>13, <2>1, SetStatusType DEF Commit, SyncStatuses
  <2>6. app' \in [Apps -> AppRows \cup {None}] /\ target' \in [Ids -> TargetRows \cup {None}]
    BY <1>1, <1>13, <2>1, SeenType DEF Commit
  <2>7. deployed' \in [Apps -> DeployedRows \cup {None}]
    <3>1. \A a \in Apps : worker[w].tx.apps[a] # None => worker[w].tx.apps[a].target \in Ids
      BY <2>2 DEF Transactions, AppRows
    <3>2. deployed' = [a \in Apps |-> IF worker[w].tx.apps[a] = None THEN deployed[a]
                                     ELSE RecordOf(w, a)]
      BY <1>13 DEF Commit
    <3>3. ASSUME NEW a \in Apps, worker[w].tx.apps[a] # None
          PROVE  RecordOf(w, a) \in DeployedRows
      <4>1. deployed[a] # None => deployed[a].point \in Ids \cup {None}
        BY <1>1 DEF TypeOK, DeployedRows
      <4>2. QED
        BY <3>1, <3>3, <4>1 DEF RecordOf, DeployedRows
    <3>4. QED
      BY <1>1, <3>2, <3>3 DEF TypeOK
  <2>8. cut' \subseteq Ids
    BY <1>1, <1>13, <2>2 DEF Commit, Transactions, TypeOK
  <2>9. QED
    BY <1>1, <1>2, <1>13, <2>4, <2>5, <2>6, <2>7, <2>8 DEF Commit, TypeOK
<1>14. ASSUME NEW w \in Workers, Fail(w)
       PROVE  TypeOK'
  <2> DEFINE k == [worker[w] EXCEPT !.stage = "finish", !.ok = FALSE, !.list = NoListing, !.left = {},
                                    !.at = None, !.found = None, !.tx = NoTx]
  <2>1. worker[w] \in Jobs /\ worker[w] # Idle /\ Becomes(w, k) /\ Conn(w) \in Connections
    BY <1>1, <1>14, FailShape, IdleIsNoJob, ConnType
  <2>2. k.op = worker[w].op
    BY <2>1 DEF Jobs
  <2> HIDE DEF k
  <2>3. connection' \in [Connections -> {"absent", "deleted"} \cup SyncStatuses] /\ resaved' \subseteq Connections
    BY <1>1, <1>14, <2>1, SetStatusType DEF Fail, SyncStatuses
  <2>4. QED
    BY <1>1, <1>11, <1>14, <2>1, <2>2, <2>3 DEF Fail, TypeOK
<1>15. ASSUME NEW w \in Workers, Finish(w) \/ Stop(w)
       PROVE  TypeOK'
  <2>1. Becomes(w, Idle)
    BY <1>1, <1>15, FinishShape, StopShape
  <2>2. QED
    BY <1>1, <1>11, <1>15, <2>1 DEF Finish, Stop, TypeOK
<1>16. QED
  BY <1>4, <1>5, <1>6, <1>7, <1>8, <1>9, <1>10, <1>12, <1>13, <1>14, <1>15 DEF Next, WorkerStep, Goes

-----------------------------------------------------------------------------
(* Operations that are worked on *)

(* An operation is worked on once it was claimed. *)
LEMMA ClaimedNext == IInv /\ [Next]_vars => JobsClaimed'
<1> SUFFICES ASSUME IInv, [Next]_vars, NEW v \in Workers, worker'[v] # Idle
             PROVE  ops'[worker'[v].op].status # "queued"
  BY DEF JobsClaimed, Active
<1>1. TypeOK /\ JobsInv /\ OpsKept /\ JobsClaimed
  BY OpsNext DEF IInv
<1>2. ASSUME worker[v] # Idle, worker'[v].op = worker[v].op
      PROVE  ops'[worker'[v].op].status # "queued"
  BY <1>1, <1>2 DEF TypeOK, OpsKept, JobsClaimed, Active
<1>3. ASSUME NEW w \in Workers, NEW k, Becomes(w, k), v # w
      PROVE  worker[v] # Idle /\ worker'[v].op = worker[v].op
  BY <1>3 DEF Becomes, OthersAside, Aside
<1>4. ASSUME NEW w \in Workers, WorkerStep(w)
      PROVE  ops'[worker'[v].op].status # "queued"
  <2>1. CASE Goes(w)
    <3>1. PICK k \in Jobs : Becomes(w, k) /\ k.op = worker[w].op /\ worker[w] # Idle
      BY <1>1, <2>1, GoesShape
    <3>2. QED
      BY <1>2, <1>3, <3>1 DEF Becomes
  <2>2. ASSUME NEW i \in DOMAIN ops, Claim(w, i)
        PROVE  ops'[worker'[v].op].status # "queued"
    <3>1. PICK k : Becomes(w, k) /\ k.op = i
      <4> DEFINE k == [stage |-> "fetch", op |-> i, list |-> NoListing, left |-> {},
                       at |-> None, found |-> None, ok |-> TRUE, tx |-> NoTx]
      <4>1. Becomes(w, k) /\ k.op = i
        BY <1>1, <2>2, ClaimShape
      <4>2. QED
        BY <4>1
    <3>2. ops'[i].status = "running"
      <4>1. ops \in Seq(OpRows)
        BY <1>1 DEF TypeOK, OpRows
      <4>2. QED
        BY <2>2, <4>1, StatusChanged DEF Claim
    <3>3. QED
      BY <1>2, <1>3, <3>1, <3>2 DEF Becomes
  <2>3. CASE Commit(w)
    <3>1. PICK k : Becomes(w, k) /\ k.op = worker[w].op /\ worker[w] # Idle
      <4>1. worker[w] \in Jobs
        BY <1>1, <2>3, CommitShape
      <4>2. [worker[w] EXCEPT !.stage = "finish", !.list = NoListing, !.tx = NoTx].op = worker[w].op
        BY <4>1 DEF Jobs
      <4>3. QED
        BY <1>1, <2>3, <4>1, <4>2, CommitShape, IdleIsNoJob
    <3>2. QED
      BY <1>2, <1>3, <3>1 DEF Becomes
  <2>4. CASE Fail(w)
    <3>1. PICK k : Becomes(w, k) /\ k.op = worker[w].op /\ worker[w] # Idle
      <4>1. worker[w] \in Jobs
        BY <1>1, <2>4, FailShape
      <4>2. [worker[w] EXCEPT !.stage = "finish", !.ok = FALSE, !.list = NoListing, !.left = {},
                              !.at = None, !.found = None, !.tx = NoTx].op = worker[w].op
        BY <4>1 DEF Jobs
      <4>3. QED
        BY <1>1, <2>4, <4>1, <4>2, FailShape, IdleIsNoJob
    <3>2. QED
      BY <1>2, <1>3, <3>1 DEF Becomes
  <2>5. CASE Finish(w) \/ Stop(w)
    <3>1. Becomes(w, Idle)
      BY <1>1, <2>5, FinishShape, StopShape
    <3>2. QED
      BY <1>2, <1>3, <3>1 DEF Becomes
  <2>6. QED
    BY <1>4, <2>1, <2>2, <2>3, <2>4, <2>5 DEF WorkerStep, Goes
<1>5. ASSUME NEW c \in Connections, DeleteConnection(c)
      PROVE  ops'[worker'[v].op].status # "queued"
  BY <1>1, <1>2, <1>5, DeleteShape DEF Aside
<1>6. CASE UNCHANGED worker
  BY <1>2, <1>6
<1>7. QED
  BY <1>4, <1>5, <1>6, NonWorkers

-----------------------------------------------------------------------------
(* Syncing connections *)

(* A connection that was not set to running is shown as running only if it *)
(* was before.                                                             *)
LEMMA RunningNext == IInv /\ [Next]_vars => RunningIsWorkedOn'
<1> SUFFICES ASSUME IInv, [Next]_vars, NEW c \in Connections, connection'[c] = "running"
             PROVE  \/ c \in resaved'
                    \/ \E i \in DOMAIN ops' :
                          /\ ops'[i].conn = c /\ ops'[i].status \in {"running", "stopping"}
                          /\ \A w \in Workers : worker'[w].stage = "finish" => worker'[w].op # i
  BY DEF RunningIsWorkedOn
<1> DEFINE At2(i) == /\ i \in DOMAIN ops /\ ops[i].conn = c /\ ops[i].status \in {"running", "stopping"}
                     /\ \A w \in Workers : worker[w].stage = "finish" => worker[w].op # i
           Goal == \/ c \in resaved'
                   \/ \E i \in DOMAIN ops' :
                         /\ ops'[i].conn = c /\ ops'[i].status \in {"running", "stopping"}
                         /\ \A w \in Workers : worker'[w].stage = "finish" => worker'[w].op # i
<1>1. TypeOK /\ JobsInv /\ OpsKept
  BY OpsNext DEF IInv
<1>2. ops \in Seq(OpRows)
  BY <1>1 DEF TypeOK, OpRows
<1>3. connection[c] = "running" => c \in resaved \/ \E i : At2(i)
  BY DEF IInv, RunningIsWorkedOn
<1>4. ASSUME connection[c] = "running", c \in resaved => c \in resaved',
             \A i : At2(i) => /\ ops'[i].status \in {"running", "stopping"}
                             /\ \A w \in Workers : worker'[w].stage = "finish" => worker'[w].op # i
      PROVE  Goal
  BY <1>1, <1>3, <1>4 DEF OpsKept
<1>5. CASE UNCHANGED vars
  BY <1>4, <1>5 DEF vars
<1>6. ASSUME NEW d \in Connections, CreateConnection(d) \/ RefreshVersion(d) \/ DeleteConnection(d)
      PROVE  Goal
  <2>1. CASE CreateConnection(d)
    BY <1>1, <1>4, <2>1 DEF CreateConnection, TypeOK
  <2>2. CASE RefreshVersion(d)
    <3>1. \A i \in DOMAIN ops : ops'[i] = ops[i]
      BY <1>1, <2>2, EnqueueKeeps DEF RefreshVersion
    <3>2. QED
      BY <1>4, <2>2, <3>1 DEF RefreshVersion
  <2>3. CASE DeleteConnection(d)
    <3>1. c # d /\ connection[c] = "running" /\ (c \in resaved => c \in resaved') /\ ops' = ops
      BY <1>1, <2>3 DEF DeleteConnection, TypeOK
    <3>2. \A w \in Workers : worker'[w].stage = "finish" =>
             worker[w].stage = "finish" /\ worker'[w].op = worker[w].op
      <4>1. \A w \in Workers : worker'[w].stage = worker[w].stage
        BY <1>1, <2>3, DeleteShape
      <4>2. \A w \in Workers : worker[w].stage = "finish" => worker[w] # Idle
        BY DEF Idle
      <4>3. \A w \in Workers : worker[w] # Idle => worker'[w].op = worker[w].op
        BY <1>1, <2>3, DeleteShape DEF Aside
      <4>4. QED
        BY <4>1, <4>2, <4>3
    <3>3. QED
      BY <1>4, <3>1, <3>2
  <2>4. QED
    BY <1>6, <2>1, <2>2, <2>3
<1>7. ASSUME NEW h \in Handlers, NEW d \in Connections, UpdateRead(h, d) \/ SyncCheck(h, d)
      PROVE  Goal
  BY <1>4, <1>7 DEF UpdateRead, SyncCheck
<1>8. ASSUME NEW h \in Handlers, UpdateSave(h)
      PROVE  Goal
  <2>1. CASE connection' = connection
    BY <1>4, <1>8, <2>1 DEF UpdateSave
  <2>2. CASE connection' # connection
    <3>1. /\ connection' = [connection EXCEPT ![request[h].conn] = request[h].status]
          /\ resaved' = IF request[h].status = connection[request[h].conn] THEN resaved
                         ELSE resaved \cup {request[h].conn}
      BY <1>8, <2>2 DEF UpdateSave
    <3>2. resaved \subseteq resaved'
      BY <3>1
    <3>3. CASE c = request[h].conn /\ request[h].status # connection[c]
      BY <3>1, <3>3
    <3>4. CASE connection'[c] = connection[c]
      BY <1>4, <1>8, <3>2, <3>4 DEF UpdateSave
    <3>5. QED
      BY <1>1, <3>1, <3>3, <3>4 DEF TypeOK
  <2>3. QED
    BY <2>1, <2>2
<1>9. ASSUME NEW h \in Handlers, SyncEnqueue(h)
      PROVE  Goal
  <2>1. request[h].conn \in Connections
    BY <1>1, <1>9 DEF SyncEnqueue, TypeOK, Idle
  <2>2. \A i \in DOMAIN ops : ops'[i] = ops[i]
    BY <1>1, <1>9, <2>1, EnqueueKeeps DEF SyncEnqueue
  <2>3. QED
    BY <1>4, <1>9, <2>2 DEF SyncEnqueue
<1>10. ASSUME NEW o \in DOMAIN ops, CancelOperation(o)
       PROVE  Goal
  <2>1. \A i \in DOMAIN ops : ops[i].status \in {"running", "stopping"} => ops'[i].status \in {"running", "stopping"}
    <3>1. CASE ops[o].status = "queued" /\ ops' = [ops EXCEPT ![o].status = "canceled"]
      <4>1. \A i \in DOMAIN ops : ops'[i].status = IF i = o THEN "canceled" ELSE ops[i].status
        BY <1>2, <3>1, StatusChanged
      <4>2. QED
        BY <3>1, <4>1
    <3>2. CASE ops' = [ops EXCEPT ![o].status = "stopping"]
      <4>1. \A i \in DOMAIN ops : ops'[i].status = IF i = o THEN "stopping" ELSE ops[i].status
        BY <1>2, <3>2, StatusChanged
      <4>2. QED
        BY <4>1
    <3>3. QED
      BY <1>10, <3>1, <3>2 DEF CancelOperation
  <2>2. QED
    BY <1>4, <1>10, <2>1 DEF CancelOperation
<1>11. ASSUME NEW d \in Connections, SetStatus(d, "failed") \/ SetStatus(d, "completed")
       PROVE  c # d /\ connection[c] = "running" /\ (c \in resaved => c \in resaved')
  BY <1>1, <1>11, SetStatusType DEF SyncStatuses
<1>12. ASSUME NEW o \in DOMAIN ops, Recover(o)
       PROVE  Goal
  <2>1. ops[o].conn \in Connections /\ ops' = [ops EXCEPT ![o].status = "failed"] /\ SetStatus(ops[o].conn, "failed")
    BY <1>1, <1>12, OpConn DEF Recover
  <2>2. \A i \in DOMAIN ops : ops'[i].status = IF i = o THEN "failed" ELSE ops[i].status
    BY <1>2, <2>1, StatusChanged
  <2>3. QED
    BY <1>4, <1>11, <1>12, <2>1, <2>2 DEF Recover
<1>13. ASSUME NEW w \in Workers, NEW k, Becomes(w, k), k.stage # "finish"
       PROVE  \A v \in Workers : worker'[v].stage = "finish" =>
                  worker[v].stage = "finish" /\ worker'[v].op = worker[v].op
  <2>1. ASSUME NEW v \in Workers, worker'[v].stage = "finish"
        PROVE  worker[v].stage = "finish" /\ worker'[v].op = worker[v].op
    <3>1. v # w /\ worker'[v] # Idle
      BY <1>13, <2>1 DEF Becomes, Idle
    <3>2. Aside(worker[v], worker'[v])
      BY <1>13, <3>1 DEF Becomes, OthersAside
    <3>3. QED
      BY <2>1, <3>2 DEF Aside
  <2>2. QED
    BY <2>1
<1>14. ASSUME NEW w \in Workers, NEW o \in DOMAIN ops, Claim(w, o)
       PROVE  Goal
  <2>1. ops[o].conn \in Connections /\ ops' = [ops EXCEPT ![o].status = "running"] /\ ops[o].status = "queued"
        /\ SetStatus(ops[o].conn, "running")
    BY <1>1, <1>14, OpConn DEF Claim
  <2>2. \A i \in DOMAIN ops : ops'[i].status = (IF i = o THEN "running" ELSE ops[i].status) /\ ops'[i].conn = ops[i].conn
    BY <1>2, <2>1, StatusChanged
  <2>3. \A v \in Workers : worker'[v].stage = "finish" => worker[v].stage = "finish" /\ worker'[v].op = worker[v].op
    BY <1>1, <1>13, <1>14, ClaimShape
  <2>4. CASE ops[o].conn # c
    <3>1. connection[c] = "running" /\ (c \in resaved => c \in resaved')
      BY <1>1, <2>1, <2>4, SetStatusType DEF SyncStatuses
    <3>2. QED
      BY <1>4, <2>2, <2>3, <3>1
  <2>5. CASE ops[o].conn = c /\ \E v \in Workers : worker[v].stage = "finish" /\ worker[v].op = o
    BY <2>1, <2>5 DEF IInv, JobsClaimed, Active, Idle
  <2>6. CASE ops[o].conn = c /\ \A v \in Workers : worker[v].stage = "finish" => worker[v].op # o
    <3>1. o \in DOMAIN ops' /\ ops'[o].conn = c /\ ops'[o].status = "running"
      BY <1>1, <2>2, <2>6 DEF OpsKept
    <3>2. \A v \in Workers : worker'[v].stage = "finish" => worker'[v].op # o
      BY <2>3, <2>6
    <3>3. QED
      BY <3>1, <3>2
  <2>7. QED
    BY <2>4, <2>5, <2>6
<1>15. ASSUME NEW w \in Workers, NEW k, Becomes(w, k), k.stage # "finish", UNCHANGED <<connection, ops, resaved>>
       PROVE  Goal
  BY <1>4, <1>13, <1>15
<1>16. ASSUME NEW w \in Workers, Goes(w) \/ Stop(w)
       PROVE  Goal
  <2>1. UNCHANGED <<connection, ops, resaved>>
    BY <1>16 DEF Goes, Fetch, Drop, Look, Put, Gather, Stop
  <2>2. \E k : Becomes(w, k) /\ k.stage # "finish"
    BY <1>1, <1>16, GoesShape, StopShape DEF Idle
  <2>3. QED
    BY <1>15, <2>1, <2>2
<1>17. ASSUME NEW w \in Workers, Commit(w) \/ Fail(w)
       PROVE  Goal
  <2>1. PICK k : Becomes(w, k) /\ k.op = worker[w].op /\ worker[w] # Idle
    <3>1. worker[w] \in Jobs
      BY <1>1, <1>17, CommitShape, FailShape
    <3>2. /\ [worker[w] EXCEPT !.stage = "finish", !.list = NoListing, !.tx = NoTx].op = worker[w].op
          /\ [worker[w] EXCEPT !.stage = "finish", !.ok = FALSE, !.list = NoListing, !.left = {},
                               !.at = None, !.found = None, !.tx = NoTx].op = worker[w].op
      BY <3>1 DEF Jobs
    <3>3. QED
      BY <1>1, <1>17, <3>1, <3>2, CommitShape, FailShape, IdleIsNoJob
  <2>2. Conn(w) \in Connections /\ (SetStatus(Conn(w), "failed") \/ SetStatus(Conn(w), "completed"))
    BY <1>1, <1>17, <2>1, ConnType DEF Commit, Fail
  <2>3. c # Conn(w) /\ connection[c] = "running" /\ (c \in resaved => c \in resaved') /\ ops' = ops
    BY <1>11, <1>17, <2>2 DEF Commit, Fail
  <2>4. ASSUME NEW i, At2(i), NEW v \in Workers, worker'[v].stage = "finish"
        PROVE  worker'[v].op # i
    <3>1. CASE v = w
      BY <2>1, <2>3, <2>4, <3>1 DEF Becomes, Conn
    <3>2. CASE v # w
      <4>1. worker'[v] # Idle
        BY <2>4 DEF Idle
      <4>2. Aside(worker[v], worker'[v])
        BY <2>1, <3>2, <4>1 DEF Becomes, OthersAside
      <4>3. QED
        BY <2>4, <4>2 DEF Aside
    <3>3. QED
      BY <3>1, <3>2
  <2>5. QED
    BY <1>4, <2>3, <2>4
<1>18. ASSUME NEW w \in Workers, Finish(w)
       PROVE  Goal
  <2>1. worker[w] \in Jobs /\ worker[w] # Idle /\ worker' = [worker EXCEPT ![w] = Idle]
        /\ worker[w].stage = "finish"
    BY <1>1, <1>18, FinishShape, IdleIsNoJob DEF Finish
  <2>2. worker[w].op \in DOMAIN ops
    BY <1>1, <2>1 DEF TypeOK
  <2>3. \A i \in DOMAIN ops \ {worker[w].op} : ops'[i].status = ops[i].status
    <3>1. \/ ops' = [ops EXCEPT ![worker[w].op].status = "completed"]
          \/ ops' = [ops EXCEPT ![worker[w].op].status = "failed"]
      BY <1>18 DEF Finish
    <3>2. QED
      BY <1>2, <2>2, <3>1, StatusChanged
  <2>4. \A v \in Workers : worker'[v].stage = "finish" => worker[v].stage = "finish" /\ worker'[v].op = worker[v].op
    BY <1>1, <2>1 DEF TypeOK, Idle
  <2>5. QED
    BY <1>4, <1>18, <2>1, <2>3, <2>4 DEF Finish
<1>19. QED
  BY <1>5, <1>6, <1>7, <1>8, <1>9, <1>10, <1>12, <1>14, <1>16, <1>17, <1>18 DEF Next, WorkerStep, Goes

-----------------------------------------------------------------------------
(* What has the id of a target *)

(* What a job has of the id. *)
JobRow(j, i, row) == j # Idle /\ row = j.tx.targets[i]
JobApp(j, i, a) ==
    /\ j # Idle
    /\ \/ j.tx.apps[a] # None /\ j.tx.apps[a].target = i
       \/ j.found = i /\ j.at = a

(* A row like one there was. *)
Known(i, row) == \E old \in TargetRows : RowAt(i, old) /\ old.scope = row.scope /\ old.cluster = row.cluster

(* Nothing new has the id. *)
Kept(i) ==
    /\ \A row \in TargetRows : RowAt(i, row)' => Known(i, row)
    /\ \A a \in Apps : AppAt(i, a)' => AppAt(i, a)

(* What had the id agreed, so what is left of it does. *)
LEMMA KeptAgrees == ASSUME NEW i \in Ids, Kept(i), Agreed(i) PROVE Agreed(i)'
<1>1. PICK scope \in {Scope[a] : a \in Apps} \cup {None}, cluster \in {Cluster[a] : a \in Apps} \cup {None} :
          Agree(i, scope, cluster)
  BY DEF Agreed
<1>2. Agree(i, scope, cluster)'
  <2>1. ASSUME NEW row \in TargetRows, RowAt(i, row)'
        PROVE  row.scope = scope /\ row.cluster \in {cluster, None}
    BY <1>1, <2>1 DEF Kept, Known, Agree
  <2>2. ASSUME NEW a \in Apps, AppAt(i, a)'
        PROVE  Scope[a] = scope /\ Cluster[a] \in {cluster, None}
    BY <1>1, <2>2 DEF Kept, Agree
  <2>3. QED
    BY <2>1, <2>2 DEF Agree
<1>3. QED
  BY <1>2 DEF Agreed

(* What has an id after a step of worker w. *)
LEMMA HasId ==
  ASSUME TypeOK, NEW w \in Workers, OthersAside(w), NEW i \in Ids
  PROVE  /\ \A row \in TargetRows : RowAt(i, row)' =>
               row = target'[i] \/ JobRow(worker'[w], i, row) \/ RowAt(i, row)
         /\ \A a \in Apps : AppAt(i, a)' =>
               (app'[a] # None /\ app'[a].target = i) \/ JobApp(worker'[w], i, a) \/ AppAt(i, a)
<1>1. ASSUME NEW v \in Workers \ {w}, worker'[v] # Idle
      PROVE  /\ worker[v] # Idle /\ worker'[v].tx.targets = worker[v].tx.targets
             /\ worker'[v].tx.apps = worker[v].tx.apps
             /\ worker'[v].found = worker[v].found /\ worker'[v].at = worker[v].at
  BY <1>1 DEF OthersAside, Aside
<1>2. ASSUME NEW row \in TargetRows, RowAt(i, row)'
      PROVE  row = target'[i] \/ JobRow(worker'[w], i, row) \/ RowAt(i, row)
  <2>1. row # None
    OBVIOUS
  <2>2. CASE row = target'[i]
    BY <2>2
  <2>3. ASSUME NEW v \in Workers, worker'[v] # Idle, row = worker'[v].tx.targets[i]
        PROVE  JobRow(worker'[w], i, row) \/ RowAt(i, row)
    <3>1. CASE v = w
      BY <2>3, <3>1 DEF JobRow
    <3>2. CASE v # w
      BY <1>1, <2>1, <2>3, <3>2 DEF RowAt, Active
    <3>3. QED
      BY <3>1, <3>2
  <2>4. QED
    BY <1>2, <2>2, <2>3 DEF RowAt, Active
<1>3. ASSUME NEW a \in Apps, AppAt(i, a)'
      PROVE  (app'[a] # None /\ app'[a].target = i) \/ JobApp(worker'[w], i, a) \/ AppAt(i, a)
  <2>1. CASE app'[a] # None /\ app'[a].target = i
    BY <2>1
  <2>2. ASSUME NEW v \in Workers, worker'[v] # Idle,
               \/ worker'[v].tx.apps[a] # None /\ worker'[v].tx.apps[a].target = i
               \/ worker'[v].found = i /\ worker'[v].at = a
        PROVE  JobApp(worker'[w], i, a) \/ AppAt(i, a)
    <3>1. CASE v = w
      BY <2>2, <3>1 DEF JobApp
    <3>2. CASE v # w
      BY <1>1, <2>2, <3>2 DEF AppAt, Active
    <3>3. QED
      BY <3>1, <3>2
  <2>3. QED
    BY <1>3, <2>1, <2>2 DEF AppAt, Active
<1>4. QED
  BY <1>2, <1>3

(* A row of a table, or of w's transaction, is one that has the id. *)
LEMMA RowsKnown ==
  ASSUME NEW i \in Ids, NEW row \in TargetRows, RowAt(i, row)
  PROVE  Known(i, row)
  BY DEF Known

(* A step of w that leaves the tables as they are. *)
LEMMA JobKeepsIds ==
  ASSUME TypeOK, NEW w \in Workers, OthersAside(w), UNCHANGED <<app, target>>, NEW i \in Ids,
         \A row \in TargetRows : JobRow(worker'[w], i, row) => Known(i, row),
         \A a \in Apps : JobApp(worker'[w], i, a) => AppAt(i, a)
  PROVE  Kept(i)
<1>1. \A row \in TargetRows : row = target[i] => RowAt(i, row)
  BY DEF RowAt
<1>2. \A a \in Apps : app[a] # None /\ app[a].target = i => AppAt(i, a)
  BY DEF AppAt
<1>3. QED
  BY <1>1, <1>2, HasId, RowsKnown DEF Kept

(* One that leaves w's job without rows and targets. *)
LEMMA EmptyJobKeepsIds ==
  ASSUME TypeOK, NEW w \in Workers, OthersAside(w), UNCHANGED <<app, target>>,
         worker'[w] # Idle => /\ worker'[w].found = None
                              /\ worker'[w].tx.apps = NoTx.apps /\ worker'[w].tx.targets = NoTx.targets,
         NEW i \in Ids
  PROVE  Kept(i)
<1>1. \A row \in TargetRows : ~JobRow(worker'[w], i, row)
  BY DEF JobRow, NoTx
<1>2. \A a \in Apps : ~JobApp(worker'[w], i, a)
  BY DEF JobApp, NoTx
<1>3. QED
  BY <1>1, <1>2, JobKeepsIds

(* Of a job of its own, a worker has its rows and apps already. *)
LEMMA OwnIds ==
  ASSUME NEW w \in Workers, NEW i \in Ids
  PROVE  /\ \A row \in TargetRows : JobRow(worker[w], i, row) => RowAt(i, row)
         /\ \A a \in Apps : JobApp(worker[w], i, a) => AppAt(i, a)
  BY DEF JobRow, JobApp, RowAt, AppAt, Active

(* A worker that looks for a target takes one that agrees with its app. *)
LEMMA LookAgrees ==
  ASSUME IInv, NEW w \in Workers, NEW a \in Apps, Look(w, a), NEW i \in Ids
  PROVE  Agreed(i)'
<1>1. TypeOK /\ JobsInv /\ Agreed(i) /\ worker[w] \in Jobs /\ worker[w] # Idle
  BY IdleIsNoJob DEF IInv, IdsAgree, Look
<1>2. PICK found \in Ids \cup {None} :
          /\ found # None => Matches(TargetSeen(w, found), a)
          /\ Becomes(w, [worker[w] EXCEPT !.stage = "put", !.at = a, !.left = @ \ {a}, !.found = found])
  BY <1>1, LookShape
<1> DEFINE k == [worker[w] EXCEPT !.stage = "put", !.at = a, !.left = @ \ {a}, !.found = found]
<1>3. OthersAside(w) /\ worker'[w] = k /\ UNCHANGED <<app, target>>
  BY <1>2 DEF Becomes, Look, tables
<1>4. k # Idle /\ k.tx = worker[w].tx /\ k.at = a /\ k.found = found
  <2>1. k.stage = "put" /\ Idle.stage = "idle"
    BY <1>1 DEF Jobs, Idle
  <2>2. QED
    BY <1>1, <2>1 DEF Jobs
<1> HIDE DEF k
<1>5. \A row \in TargetRows : RowAt(i, row)' => RowAt(i, row)
  <2>1. \A row \in TargetRows : JobRow(k, i, row) => RowAt(i, row)
    BY <1>1, <1>4, OwnIds DEF JobRow
  <2>2. \A row \in TargetRows : row = target'[i] => RowAt(i, row)
    BY <1>3 DEF RowAt
  <2>3. QED
    BY <1>1, <1>3, <2>1, <2>2, HasId
<1>6. \A b \in Apps : AppAt(i, b)' => AppAt(i, b) \/ (b = a /\ i = found)
  <2>1. \A b \in Apps : JobApp(k, i, b) => AppAt(i, b) \/ (b = a /\ i = found)
    BY <1>1, <1>4, OwnIds DEF JobApp
  <2>2. \A b \in Apps : app'[b] # None /\ app'[b].target = i => AppAt(i, b)
    BY <1>3 DEF AppAt
  <2>3. QED
    BY <1>1, <1>3, <2>1, <2>2, HasId
<1>7. PICK scope \in {Scope[b] : b \in Apps} \cup {None}, cluster \in {Cluster[b] : b \in Apps} \cup {None} :
          Agree(i, scope, cluster)
  BY <1>1 DEF Agreed
<1>8. i = found => Scope[a] = scope /\ Cluster[a] \in {cluster, None}
  <2> SUFFICES ASSUME i = found PROVE Scope[a] = scope /\ Cluster[a] \in {cluster, None}
    OBVIOUS
  <2> DEFINE row == TargetSeen(w, i)
  <2>1. row # None /\ row.scope = Scope[a] /\ (Cluster[a] = None \/ row.cluster = Cluster[a])
    BY <1>2 DEF Matches
  <2>2. row \in TargetRows
    BY <1>1, <2>1, SeenType
  <2>3. RowAt(i, row)
    BY <1>1, <2>1 DEF TargetSeen, RowAt, Active
  <2>4. row.scope = scope /\ row.cluster \in {cluster, None}
    BY <1>7, <2>2, <2>3 DEF Agree
  <2>5. QED
    BY <2>1, <2>4
<1>9. Agree(i, scope, cluster)'
  BY <1>5, <1>6, <1>7, <1>8 DEF Agree
<1>10. QED
  BY <1>9 DEF Agreed

(* A target is saved for the app it was looked for, or has a new id. *)
LEMMA PutAgrees ==
  ASSUME IInv, NEW w \in Workers, Put(w), NEW i \in Ids
  PROVE  Agreed(i)'
<1>1. TypeOK /\ JobsInv /\ Agreed(i) /\ worker[w] \in Jobs /\ worker[w].stage = "put" /\ worker[w] # Idle
  BY PutShape, IdleIsNoJob DEF IInv, IdsAgree
<1> DEFINE a == worker[w].at
<1>2. a \in Apps /\ worker[w].tx \in Transactions
  BY <1>1, PutShape DEF Jobs
<1>3. PICK n \in Ids, row \in TargetRows, placed \in AppRows :
               /\ n = worker[w].found \/ (worker[w].found = None /\ n \in Unused)
               /\ row = [scope |-> Scope[a], cluster |-> Cluster[a],
                         conn |-> Conn(w), status |-> "unknown"]
               /\ placed = [target |-> n, status |-> worker[w].list[a].status]
               /\ Becomes(w, [worker[w] EXCEPT
                     !.stage = "look", !.at = None, !.found = None,
                     !.tx = [worker[w].tx EXCEPT
                        !.targets = [worker[w].tx.targets EXCEPT ![n] = row],
                        !.apps = [worker[w].tx.apps EXCEPT ![a] = placed]]])
  BY <1>1, PutShape
<1> DEFINE apps == [worker[w].tx.apps EXCEPT ![a] = placed]
           targets == [worker[w].tx.targets EXCEPT ![n] = row]
           t == [worker[w].tx EXCEPT !.targets = targets, !.apps = apps]
           k == [worker[w] EXCEPT !.stage = "look", !.at = None, !.found = None, !.tx = t]
<1>4. OthersAside(w) /\ worker'[w] = k /\ UNCHANGED <<app, target>>
  BY <1>1, <1>3 DEF Becomes, Put, tables
<1>5. k # Idle /\ k.tx = t /\ k.found = None
  <2>1. k.stage = "look" /\ Idle.stage = "idle"
    BY <1>1 DEF Jobs, Idle
  <2>2. QED
    BY <1>1, <2>1 DEF Jobs
<1>6. t.apps = apps /\ t.targets = targets
  BY <1>2 DEF Transactions
<1>7. /\ apps[a] = placed /\ \A b \in Apps \ {a} : apps[b] = worker[w].tx.apps[b]
      /\ targets[n] = row /\ \A m \in Ids \ {n} : targets[m] = worker[w].tx.targets[m]
      /\ placed.target = n /\ row.scope = Scope[a] /\ row.cluster = Cluster[a]
  BY <1>2, <1>3 DEF Transactions
<1> HIDE DEF k, t, apps, targets
<1>8. \A r \in TargetRows : RowAt(i, r)' => RowAt(i, r) \/ (i = n /\ r = row)
  <2>1. \A r \in TargetRows : JobRow(k, i, r) => RowAt(i, r) \/ (i = n /\ r = row)
    BY <1>1, <1>5, <1>6, <1>7, OwnIds DEF JobRow
  <2>2. \A r \in TargetRows : r = target'[i] => RowAt(i, r)
    BY <1>4 DEF RowAt
  <2>3. QED
    BY <1>1, <1>4, <2>1, <2>2, HasId
<1>9. \A b \in Apps : AppAt(i, b)' => AppAt(i, b) \/ (b = a /\ i = n)
  <2>1. \A b \in Apps : JobApp(k, i, b) => AppAt(i, b) \/ (b = a /\ i = n)
    <3>1. ASSUME NEW b \in Apps, JobApp(k, i, b)
          PROVE  AppAt(i, b) \/ (b = a /\ i = n)
      <4>1. apps[b] # None /\ apps[b].target = i
        BY <1>5, <1>6, <3>1 DEF JobApp
      <4>2. QED
        BY <1>1, <1>7, <4>1, OwnIds DEF JobApp
    <3>2. QED
      BY <3>1
  <2>2. \A b \in Apps : app'[b] # None /\ app'[b].target = i => AppAt(i, b)
    BY <1>4 DEF AppAt
  <2>3. QED
    BY <1>1, <1>4, <2>1, <2>2, HasId
<1>10. CASE i # n
  BY <1>1, <1>8, <1>9, <1>10, KeptAgrees, RowsKnown DEF Kept
<1>11. CASE i = n /\ n = worker[w].found
  <2>1. AppAt(i, a)
    BY <1>1, <1>11 DEF AppAt, Active
  <2>2. PICK scope \in {Scope[b] : b \in Apps} \cup {None}, cluster \in {Cluster[b] : b \in Apps} \cup {None} :
            Agree(i, scope, cluster)
    BY <1>1 DEF Agreed
  <2>3. Agree(i, scope, cluster)'
    BY <1>2, <1>7, <1>8, <1>9, <2>1, <2>2 DEF Agree
  <2>4. QED
    BY <2>3 DEF Agreed
<1>12. CASE i = n /\ n \in Unused
  <2>1. /\ target[i] = None
        /\ \A b \in Apps : app[b] # None => app[b].target # i
        /\ \A v \in Workers : Active(v) => worker[v].tx.targets[i] = None /\ worker[v].found # i
    BY <1>12 DEF Unused
  <2>2. \A r \in TargetRows : ~RowAt(i, r)
    BY <2>1 DEF RowAt
  <2>3. \A b \in Apps : ~AppAt(i, b)
    <3>1. \A v \in Workers, b \in Apps : Active(v) /\ worker[v].tx.apps[b] # None =>
             worker[v].tx.targets[worker[v].tx.apps[b].target] # None
      BY <1>1 DEF JobsInv, JobRows
    <3>2. QED
      BY <2>1, <3>1 DEF AppAt
  <2>4. PICK b \in Apps : b = a
    BY <1>2
  <2>5. Agree(i, Scope[b], Cluster[b])'
    BY <1>7, <1>8, <1>9, <2>2, <2>3, <2>4 DEF Agree
  <2>6. QED
    BY <2>5 DEF Agreed
<1>13. QED
  BY <1>3, <1>10, <1>11, <1>12

(* The statuses are settled in rows there are. *)
LEMMA GatherKeepsIds ==
  ASSUME IInv, NEW w \in Workers, Gather(w), NEW i \in Ids
  PROVE  Kept(i)
<1>1. TypeOK /\ JobsInv /\ worker[w] \in Jobs /\ worker[w].stage = "look" /\ worker[w] # Idle
  BY GatherShape, IdleIsNoJob DEF IInv
<1>2. PICK targets \in [Ids -> TargetRows \cup {None}] :
               /\ \A n \in Ids : targets[n] =
                     IF TargetSeen(w, n) # None /\ StatusesOn(w, n) # {}
                     THEN [TargetSeen(w, n) EXCEPT !.status = RolledUp(StatusesOn(w, n))]
                     ELSE worker[w].tx.targets[n]
               /\ Becomes(w, [worker[w] EXCEPT !.stage = "commit",
                     !.tx = [worker[w].tx EXCEPT !.doomed = Orphans(w), !.targets = targets]])
  BY <1>1, GatherShape
<1> DEFINE t == [worker[w].tx EXCEPT !.doomed = Orphans(w), !.targets = targets]
           k == [worker[w] EXCEPT !.stage = "commit", !.tx = t]
<1>3. OthersAside(w) /\ worker'[w] = k /\ UNCHANGED <<app, target>>
  BY <1>2 DEF Becomes, Gather, tables
<1>4. worker[w].tx \in Transactions
  BY <1>1 DEF Jobs
<1>5. k # Idle /\ k.tx = t /\ k.found = worker[w].found /\ k.at = worker[w].at
  <2>1. k.stage = "commit" /\ Idle.stage = "idle"
    BY <1>1 DEF Jobs, Idle
  <2>2. QED
    BY <1>1, <2>1 DEF Jobs
<1>6. t.apps = worker[w].tx.apps /\ t.targets = targets
  BY <1>4 DEF Transactions
<1> HIDE DEF k, t
<1>7. \A row \in TargetRows : JobRow(k, i, row) => Known(i, row)
  <2> SUFFICES ASSUME NEW row \in TargetRows, row = targets[i] PROVE Known(i, row)
    BY <1>5, <1>6 DEF JobRow
  <2>1. CASE TargetSeen(w, i) # None /\ StatusesOn(w, i) # {}
    <3>1. TargetSeen(w, i) \in TargetRows
      BY <1>1, <2>1, SeenType
    <3>2. row.scope = TargetSeen(w, i).scope /\ row.cluster = TargetSeen(w, i).cluster
      BY <1>2, <2>1, <3>1 DEF TargetRows
    <3>3. RowAt(i, TargetSeen(w, i))
      BY <1>1, <2>1 DEF TargetSeen, RowAt, Active
    <3>4. QED
      BY <3>1, <3>2, <3>3 DEF Known
  <2>2. CASE ~(TargetSeen(w, i) # None /\ StatusesOn(w, i) # {})
    <3>1. row = worker[w].tx.targets[i]
      BY <1>2, <2>2
    <3>2. QED
      BY <1>1, <3>1, OwnIds, RowsKnown DEF JobRow
  <2>3. QED
    BY <2>1, <2>2
<1>8. \A a \in Apps : JobApp(k, i, a) => AppAt(i, a)
  BY <1>1, <1>5, <1>6, OwnIds DEF JobApp
<1>9. QED
  BY <1>1, <1>3, <1>7, <1>8, JobKeepsIds

(* A commit writes what the transaction has. *)
LEMMA CommitKeepsIds ==
  ASSUME IInv, NEW w \in Workers, Commit(w), NEW i \in Ids
  PROVE  Kept(i)
<1> DEFINE k == [worker[w] EXCEPT !.stage = "finish", !.list = NoListing, !.tx = NoTx]
<1>1. TypeOK /\ JobsInv /\ worker[w] \in Jobs /\ worker[w].stage = "commit" /\ worker[w] # Idle /\ Becomes(w, k)
  BY CommitShape, IdleIsNoJob DEF IInv
<1>2. k.tx = NoTx /\ k.found = None
  BY <1>1 DEF Jobs, JobsInv, JobRest, Active
<1>3. worker'[w] = k /\ OthersAside(w)
  BY <1>1 DEF Becomes
<1> HIDE DEF k
<1>4. \A row \in TargetRows : ~JobRow(k, i, row)
  BY <1>2 DEF JobRow, NoTx
<1>5. \A a \in Apps : ~JobApp(k, i, a)
  BY <1>2 DEF JobApp, NoTx
<1>6. \A row \in TargetRows : row = target'[i] => RowAt(i, row)
  BY <1>1 DEF Commit, TargetSeen, RowAt, Active
<1>7. \A a \in Apps : app'[a] # None /\ app'[a].target = i => AppAt(i, a)
  BY <1>1 DEF Commit, AppSeen, AppAt, Active
<1>8. QED
  BY <1>1, <1>3, <1>4, <1>5, <1>6, <1>7, HasId, RowsKnown DEF Kept

(* So does a deletion with what is left. *)
LEMMA DeleteKeepsIds ==
  ASSUME TypeOK, NEW c \in Connections, DeleteConnection(c), NEW i \in Ids
  PROVE  Kept(i)
<1>1. ASSUME NEW v \in Workers, worker'[v] # Idle
      PROVE  /\ worker[v] # Idle /\ worker'[v].tx.targets = worker[v].tx.targets
             /\ worker'[v].tx.apps = worker[v].tx.apps
             /\ worker'[v].found = worker[v].found /\ worker'[v].at = worker[v].at
  BY <1>1, DeleteShape DEF Aside
<1>2. target'[i] = target[i] \/ target'[i] = None
  BY DEF DeleteConnection
<1>3. \A a \in Apps : app'[a] = app[a] \/ app'[a] = None
  BY DEF DeleteConnection
<1>4. \A row \in TargetRows : RowAt(i, row)' => RowAt(i, row)
  BY <1>1, <1>2 DEF RowAt, Active
<1>5. \A a \in Apps : AppAt(i, a)' => AppAt(i, a)
  BY <1>1, <1>3 DEF AppAt, Active
<1>6. QED
  BY <1>4, <1>5, RowsKnown DEF Kept

(* Every step keeps what has an id in agreement. *)
LEMMA IdsNext == IInv /\ [Next]_vars => IdsAgree'
<1> SUFFICES ASSUME IInv, [Next]_vars, NEW i \in Ids PROVE Agreed(i)'
  BY DEF IdsAgree
<1>1. TypeOK /\ JobsInv /\ Agreed(i)
  BY DEF IInv, IdsAgree
<1>2. CASE UNCHANGED <<worker, app, target, cut>>
  <2>1. Kept(i)
    BY <1>2, RowsKnown DEF Kept, RowAt, AppAt, Active
  <2>2. QED
    BY <1>1, <2>1, KeptAgrees
<1>3. ASSUME NEW c \in Connections, DeleteConnection(c)
      PROVE  Agreed(i)'
  BY <1>1, <1>3, DeleteKeepsIds, KeptAgrees
<1>4. ASSUME NEW w \in Workers, NEW o \in DOMAIN ops, Claim(w, o)
      PROVE  Agreed(i)'
  <2> DEFINE k == [stage |-> "fetch", op |-> o, list |-> NoListing, left |-> {},
                   at |-> None, found |-> None, ok |-> TRUE, tx |-> NoTx]
  <2>1. Becomes(w, k)
    BY <1>1, <1>4, ClaimShape
  <2>2. k.found = None /\ k.tx = NoTx
    OBVIOUS
  <2> HIDE DEF k
  <2>3. Kept(i)
    BY <1>1, <1>4, <2>1, <2>2, EmptyJobKeepsIds DEF Becomes, Claim, tables
  <2>4. QED
    BY <1>1, <2>3, KeptAgrees
<1>5. ASSUME NEW w \in Workers, Fetch(w)
      PROVE  Agreed(i)'
  <2>1. worker[w] \in Jobs /\ worker[w] # Idle /\ worker[w].stage = "fetch"
    BY <1>1, <1>5, IdleIsNoJob DEF Fetch
  <2>2. PICK list \in Listings :
            Becomes(w, [worker[w] EXCEPT !.stage = "drop", !.list = list,
                                            !.left = {a \in Apps : list[a] # None}])
    BY <1>1, <1>5, FetchShape
  <2> DEFINE k == [worker[w] EXCEPT !.stage = "drop", !.list = list,
                                    !.left = {a \in Apps : list[a] # None}]
  <2>3. k.found = None /\ k.tx = NoTx
    BY <1>1, <2>1 DEF Jobs, JobsInv, JobRest, Active, InTx
  <2> HIDE DEF k
  <2>4. Becomes(w, k)
    BY <2>2 DEF k
  <2>5. Kept(i)
    BY <1>1, <1>5, <2>3, <2>4, EmptyJobKeepsIds DEF Becomes, Fetch, tables
  <2>6. QED
    BY <1>1, <2>5, KeptAgrees
<1>6. ASSUME NEW w \in Workers, Drop(w)
      PROVE  Agreed(i)'
  <2>1. worker[w] \in Jobs /\ worker[w] # Idle /\ worker[w].stage = "drop" /\ UNCHANGED <<app, target>>
    BY <1>1, <1>6, IdleIsNoJob DEF Drop, tables
  <2>2. worker[w].found = None /\ worker[w].tx = NoTx
    BY <1>1, <2>1 DEF JobsInv, JobRest, Active, InTx
  <2>3. CASE Becomes(w, [worker[w] EXCEPT !.stage = "stalled"])
    <3> DEFINE k == [worker[w] EXCEPT !.stage = "stalled"]
    <3>1. k.found = None /\ k.tx = NoTx
      BY <2>1, <2>2 DEF Jobs
    <3> HIDE DEF k
    <3>2. Becomes(w, k)
      BY <2>3 DEF k
    <3>3. Kept(i)
      BY <1>1, <2>1, <3>1, <3>2, EmptyJobKeepsIds DEF Becomes
    <3>4. QED
      BY <1>1, <3>3, KeptAgrees
  <2>4. ASSUME NEW alone \in BOOLEAN, NEW old,
               Becomes(w, [worker[w] EXCEPT !.stage = "look",
                                            !.tx = [NoTx EXCEPT !.dropped = old, !.alone = alone]])
        PROVE  Agreed(i)'
    <3> DEFINE tx == [NoTx EXCEPT !.dropped = old, !.alone = alone]
               k == [worker[w] EXCEPT !.stage = "look", !.tx = tx]
    <3>1. tx.apps = NoTx.apps /\ tx.targets = NoTx.targets
      BY DEF NoTx
    <3> HIDE DEF tx
    <3>2. k.found = None /\ k.tx = tx
      BY <2>1, <2>2 DEF Jobs
    <3> HIDE DEF k
    <3>3. Becomes(w, k)
      BY <2>4 DEF k, tx
    <3>4. Kept(i)
      BY <1>1, <2>1, <3>1, <3>2, <3>3, EmptyJobKeepsIds DEF Becomes
    <3>5. QED
      BY <1>1, <3>4, KeptAgrees
  <2>5. QED
    BY <1>1, <1>6, <2>3, <2>4, DropShape
<1>7. ASSUME NEW w \in Workers, Fail(w)
      PROVE  Agreed(i)'
  <2> DEFINE k == [worker[w] EXCEPT !.stage = "finish", !.ok = FALSE, !.list = NoListing, !.left = {},
                                    !.at = None, !.found = None, !.tx = NoTx]
  <2>1. worker[w] \in Jobs /\ Becomes(w, k)
    BY <1>1, <1>7, FailShape
  <2>2. k.tx = NoTx /\ k.found = None
    BY <2>1 DEF Jobs
  <2> HIDE DEF k
  <2>3. Kept(i)
    BY <1>1, <1>7, <2>1, <2>2, EmptyJobKeepsIds DEF Becomes, Fail, tables
  <2>4. QED
    BY <1>1, <2>3, KeptAgrees
<1>8. ASSUME NEW w \in Workers, Finish(w) \/ Stop(w)
      PROVE  Agreed(i)'
  <2>1. Becomes(w, Idle)
    BY <1>1, <1>8, FinishShape, StopShape
  <2>2. Kept(i)
    BY <1>1, <1>8, <2>1, EmptyJobKeepsIds DEF Becomes, Finish, Stop, tables
  <2>3. QED
    BY <1>1, <2>2, KeptAgrees
<1>9. QED
  BY <1>1, <1>2, <1>3, <1>4, <1>5, <1>6, <1>7, <1>8, LookAgrees, PutAgrees, GatherKeepsIds, CommitKeepsIds,
     KeptAgrees, NonWorkers DEF WorkerStep

-----------------------------------------------------------------------------
(* Recordings that are alone *)

(* Beside a step of worker w, another one records only if it did, or w's   *)
(* commit lets it go on.                                                   *)
LEMMA NewRecordings ==
  ASSUME TypeOK, JobsInv, NEW w \in Workers, WorkerStep(w), NEW v \in Workers \ {w},
         worker'[v].stage \in InTx
  PROVE  \/ Recording(v) /\ worker'[v].stage = worker[v].stage /\ (worker'[v].tx.alone => worker[v].tx.alone)
         \/ Commit(w) /\ ~worker'[v].tx.alone
<1>1. CASE worker'[v] = worker[v]
  BY <1>1 DEF Recording
<1>2. "drop" \notin InTx /\ "stalled" \notin InTx /\ "idle" \notin InTx
  BY DEF InTx
<1>3. ASSUME OthersAside(w)
      PROVE  \/ Recording(v) /\ worker'[v].stage = worker[v].stage /\ (worker'[v].tx.alone => worker[v].tx.alone)
             \/ worker[v].stage = "stalled" /\ ~worker'[v].tx.alone
  <2>1. worker[v] # Idle /\ Aside(worker[v], worker'[v])
    BY <1>2, <1>3 DEF OthersAside, Idle
  <2>2. QED
    BY <1>2, <2>1 DEF Aside, Recording
<1>4. CASE Commit(w)
  BY <1>3, <1>4, CommitShape DEF Becomes
<1>5. CASE Fail(w) \/ Stop(w)
  BY <1>1, <1>2, <1>5, FailShape, StopShape
<1>6. CASE Drop(w)
  <2>1. CASE worker' = [worker EXCEPT ![w].stage = "stalled"]
    BY <1>1, <2>1 DEF TypeOK
  <2>2. ASSUME NEW t, Begin(w, t)
        PROVE  worker'[v] = worker[v] \/ Recording(v)
    BY <2>2 DEF Begin
  <2>3. OthersAside(w)
    BY <1>6, DropShape DEF Becomes
  <2>4. Recording(v) => worker[v].stage # "stalled"
    BY <1>2 DEF Recording
  <2>5. QED
    BY <1>1, <1>3, <1>6, <2>1, <2>2, <2>3, <2>4 DEF Drop
<1>8. ASSUME NEW i \in DOMAIN ops, Claim(w, i)
      PROVE  worker'[v] = worker[v]
  BY <1>8 DEF Claim, TypeOK
<1>9. Fetch(w) => worker'[v] = worker[v]
  BY DEF Fetch, TypeOK
<1>10. (\E a \in Apps : Look(w, a)) => worker'[v] = worker[v]
  BY DEF Look, TypeOK
<1>11. Put(w) => worker'[v] = worker[v]
  BY DEF Put, TypeOK
<1>12. Gather(w) => worker'[v] = worker[v]
  BY DEF Gather, TypeOK
<1>13. Finish(w) => worker'[v] = worker[v]
  BY DEF Finish, TypeOK
<1>14. QED
  BY <1>1, <1>4, <1>5, <1>6, <1>8, <1>9, <1>10, <1>11, <1>12, <1>13 DEF WorkerStep

(* A worker that records after its step began the transaction with it, and *)
(* is alone if no one else records, or goes on and is as alone as it was.  *)
LEMMA OwnRecording ==
  ASSUME TypeOK, JobsInv, NEW w \in Workers, WorkerStep(w), worker'[w].stage \in InTx
  PROVE  /\ worker[w] # Idle
         /\ \/ /\ Drop(w)
               /\ \A v \in Workers \ {w} : Recording(v) => ~worker'[w].tx.alone /\ ~worker'[v].tx.alone
            \/ /\ Recording(w) /\ (worker'[w].tx.alone => worker[w].tx.alone)
               /\ (\E a \in Apps : Look(w, a)) \/ Put(w) \/ Gather(w)
<1>1. "idle" \notin InTx /\ "fetch" \notin InTx /\ "drop" \notin InTx /\ "stalled" \notin InTx /\ "finish" \notin InTx
  BY DEF InTx
<1>2. ASSUME NEW i \in DOMAIN ops, Claim(w, i)
      PROVE  FALSE
  <2> DEFINE k == [stage |-> "fetch", op |-> i, list |-> NoListing, left |-> {},
                   at |-> None, found |-> None, ok |-> TRUE, tx |-> NoTx]
  <2>1. worker'[w] = k /\ k.stage = "fetch"
    BY <1>2, ClaimShape DEF Becomes
  <2> HIDE DEF k
  <2>2. QED
    BY <1>1, <2>1
<1>3. ASSUME Fetch(w)
      PROVE  FALSE
  <2>1. worker[w] \in Jobs
    BY <1>3, IdleIsNoJob DEF Fetch
  <2>2. PICK list : Becomes(w, [worker[w] EXCEPT !.stage = "drop", !.list = list,
                                                 !.left = {a \in Apps : list[a] # None}])
    BY <1>3, FetchShape
  <2> DEFINE k == [worker[w] EXCEPT !.stage = "drop", !.list = list, !.left = {a \in Apps : list[a] # None}]
  <2>3. worker'[w] = k /\ k.stage = "drop"
    BY <2>1, <2>2 DEF Becomes, Jobs
  <2> HIDE DEF k
  <2>4. QED
    BY <1>1, <2>3
<1>4. ASSUME Commit(w)
      PROVE  FALSE
  <2> DEFINE k == [worker[w] EXCEPT !.stage = "finish", !.list = NoListing, !.tx = NoTx]
  <2>1. worker[w] \in Jobs /\ worker'[w] = k
    BY <1>4, CommitShape DEF Becomes
  <2>2. k.stage = "finish"
    BY <2>1 DEF Jobs
  <2> HIDE DEF k
  <2>3. QED
    BY <1>1, <2>1, <2>2
<1>5. ASSUME Fail(w)
      PROVE  FALSE
  <2> DEFINE k == [worker[w] EXCEPT !.stage = "finish", !.ok = FALSE, !.list = NoListing, !.left = {},
                                    !.at = None, !.found = None, !.tx = NoTx]
  <2>1. worker[w] \in Jobs /\ worker'[w] = k
    BY <1>5, FailShape DEF Becomes
  <2>2. k.stage = "finish"
    BY <2>1 DEF Jobs
  <2> HIDE DEF k
  <2>3. QED
    BY <1>1, <2>1, <2>2
<1>6. ~(Finish(w) \/ Stop(w))
  BY <1>1, FinishShape, StopShape DEF Becomes, Idle
<1>7. CASE Drop(w)
  <2>1. worker[w] \in Jobs /\ worker[w] # Idle
    BY <1>7, DropShape, IdleIsNoJob
  <2>2. ~Becomes(w, [worker[w] EXCEPT !.stage = "stalled"])
    BY <1>1, <2>1 DEF Becomes, Jobs
  <2>3. PICK alone \in BOOLEAN :
           /\ Becomes(w, [worker[w] EXCEPT !.stage = "look",
                 !.tx = [NoTx EXCEPT !.dropped = {a \in Apps : ConnOf[a] = Conn(w) /\ app[a] # None},
                                     !.alone = alone]])
           /\ \A v \in Workers \ {w} : Recording(v) => ~alone /\ ~worker'[v].tx.alone
    BY <1>7, <2>2, DropShape
  <2> DEFINE t == [NoTx EXCEPT !.dropped = {a \in Apps : ConnOf[a] = Conn(w) /\ app[a] # None},
                               !.alone = alone]
  <2>4. t.alone = alone
    BY DEF NoTx
  <2> HIDE DEF t
  <2>5. worker'[w].tx = t
    BY <2>1, <2>3 DEF Becomes, Jobs, t
  <2>6. QED
    BY <1>7, <2>1, <2>3, <2>4, <2>5
<1>8. ASSUME NEW a \in Apps, Look(w, a)
      PROVE  Recording(w) /\ (worker'[w].tx.alone => worker[w].tx.alone) /\ worker[w] # Idle
  <2>1. worker[w] \in Jobs /\ worker[w] # Idle /\ Recording(w)
    BY <1>8, IdleIsNoJob DEF Look, Recording, InTx
  <2>2. PICK found : Becomes(w, [worker[w] EXCEPT !.stage = "put", !.at = a, !.left = @ \ {a}, !.found = found])
    BY <1>8, LookShape
  <2>3. worker'[w].tx = worker[w].tx
    BY <2>1, <2>2 DEF Becomes, Jobs
  <2>4. QED
    BY <2>1, <2>3
<1>9. ASSUME Put(w)
      PROVE  Recording(w) /\ (worker'[w].tx.alone => worker[w].tx.alone) /\ worker[w] # Idle
  <2>1. worker[w] \in Jobs /\ worker[w] # Idle /\ Recording(w) /\ worker[w].tx \in Transactions
    BY <1>9, IdleIsNoJob DEF Put, Recording, InTx, Jobs
  <2>2. PICK apps, targets :
          Becomes(w, [worker[w] EXCEPT !.stage = "look", !.at = None, !.found = None,
                        !.tx = [worker[w].tx EXCEPT !.targets = targets, !.apps = apps]])
    BY <1>9, PutShape
  <2> DEFINE t == [worker[w].tx EXCEPT !.targets = targets, !.apps = apps]
  <2>3. t.alone = worker[w].tx.alone
    BY <2>1 DEF Transactions
  <2> HIDE DEF t
  <2>4. worker'[w].tx = t
    BY <2>1, <2>2 DEF Becomes, Jobs, t
  <2>5. QED
    BY <2>1, <2>3, <2>4
<1>10. ASSUME Gather(w)
      PROVE  Recording(w) /\ (worker'[w].tx.alone => worker[w].tx.alone) /\ worker[w] # Idle
  <2>1. worker[w] \in Jobs /\ worker[w] # Idle /\ Recording(w) /\ worker[w].tx \in Transactions
    BY <1>10, IdleIsNoJob DEF Gather, Recording, InTx, Jobs
  <2>2. PICK targets :
          Becomes(w, [worker[w] EXCEPT !.stage = "commit",
                     !.tx = [worker[w].tx EXCEPT !.doomed = Orphans(w), !.targets = targets]])
    BY <1>10, GatherShape
  <2> DEFINE t == [worker[w].tx EXCEPT !.doomed = Orphans(w), !.targets = targets]
  <2>3. t.alone = worker[w].tx.alone
    BY <2>1 DEF Transactions
  <2> HIDE DEF t
  <2>4. worker'[w].tx = t
    BY <2>1, <2>2 DEF Becomes, Jobs, t
  <2>5. QED
    BY <2>1, <2>3, <2>4
<1>11. QED
  BY <1>2, <1>3, <1>4, <1>5, <1>6, <1>7, <1>8, <1>9, <1>10 DEF WorkerStep

(* Recordings beside one that is alone do not come to be. *)
LEMMA AloneNext == IInv /\ [Next]_vars => AloneIsAlone'
<1> SUFFICES ASSUME IInv, [Next]_vars, NEW v \in Workers, NEW w \in Workers, v # w,
                    worker'[v].stage \in InTx, worker'[w].stage \in InTx, worker'[w].tx.alone
             PROVE  FALSE
  BY DEF AloneIsAlone, Recording
<1>1. TypeOK /\ JobsInv /\ AloneIsAlone
  BY DEF IInv
<1>2. CASE UNCHANGED worker
  BY <1>1, <1>2 DEF AloneIsAlone, Recording
<1>3. ASSUME NEW c \in Connections, DeleteConnection(c)
      PROVE  FALSE
  BY <1>1, <1>3, DeleteShape DEF Recording
<1>4. ASSUME NEW u \in Workers, WorkerStep(u)
      PROVE  FALSE
  <2>1. CASE u = w
    <3>1. CASE Drop(w) /\ ~Recording(v)
      <4>1. ~Commit(w)
        BY <3>1 DEF Drop, Commit
      <4>2. QED
        BY <1>1, <1>4, <2>1, <3>1, <4>1, NewRecordings
    <3>2. CASE Recording(w) /\ worker[w].tx.alone /\ ~Commit(w)
      BY <1>1, <1>4, <2>1, <3>2, NewRecordings DEF AloneIsAlone
    <3>3. ((\E a \in Apps : Look(w, a)) \/ Put(w) \/ Gather(w)) => ~Commit(w)
      BY DEF Look, Put, Gather, Commit
    <3>4. QED
      BY <1>1, <1>4, <2>1, <3>1, <3>2, <3>3, OwnRecording
  <2>2. CASE u # w
    <3>1. Recording(w) /\ worker[w].tx.alone
      BY <1>1, <1>4, <2>2, NewRecordings
    <3>2. ~Recording(u) /\ ~Recording(v)
      BY <1>1, <2>2, <3>1 DEF AloneIsAlone
    <3>3. u = v
      <4>1. ~Commit(u)
        BY <1>1, <3>2, CommitShape
      <4>2. QED
        BY <1>1, <1>4, <3>2, <4>1, NewRecordings
    <3>4. QED
      BY <1>1, <1>4, <3>1, <3>2, <3>3, OwnRecording
  <2>3. QED
    BY <2>1, <2>2
<1>5. QED
  BY <1>2, <1>3, <1>4, NonWorkers

(* What a recording that is alone knows: AloneSees, of one worker. *)
Sees(w) ==
    /\ \A a \in Apps : ConnOf[a] = Conn(w) /\ app[a] # None => a \in worker[w].tx.dropped
    /\ JobMirrors(worker[w], Conn(w))
    /\ worker[w].stage = "commit" => worker[w].tx.doomed = Orphans(w)

(* Rows of a transaction that has written nothing. *)
LEMMA NothingMirrors ==
  ASSUME NEW j, NEW c, j.tx.targets = NoTx.targets, j.stage # "commit"
  PROVE  JobMirrors(j, c)
  BY DEF JobMirrors, NoTx

(* It speaks of these parts of a job only. *)
LEMMA SameMirrors ==
  ASSUME NEW j, NEW k, NEW c, JobMirrors(j, c), k.stage = j.stage, k.list = j.list,
         k.tx.apps = j.tx.apps, k.tx.targets = j.tx.targets
  PROVE  JobMirrors(k, c)
<1>1. \A i : PlacedOn(k, i) = PlacedOn(j, i)
  BY DEF PlacedOn
<1>2. QED
  BY <1>1 DEF JobMirrors

(* A step of another worker leaves what is known to a recording alone. *)
LEMMA AsideSees ==
  ASSUME IInv, OpsKept, NEW v \in Workers, Recording(v), worker'[v] # Idle, Aside(worker[v], worker'[v]),
         worker'[v].stage = worker[v].stage, UNCHANGED <<app, target>>, Sees(v)
  PROVE  Sees(v)'
<1>1. TypeOK /\ worker[v] # Idle
  BY IdleIsNoJob DEF IInv, Recording, InTx, Idle
<1>2. Conn(v)' = Conn(v)
  BY <1>1, ConnKept DEF Aside
<1>3. /\ worker'[v].tx.dropped = worker[v].tx.dropped /\ worker'[v].tx.apps = worker[v].tx.apps
      /\ worker'[v].tx.targets = worker[v].tx.targets /\ worker'[v].tx.doomed = worker[v].tx.doomed
      /\ worker'[v].list = worker[v].list
  BY DEF Aside
<1>4. \A a \in Apps : AppSeen(v, a)' = AppSeen(v, a)
  BY <1>3 DEF AppSeen
<1>5. \A i \in Ids : TargetSeen(v, i)' = TargetSeen(v, i)
  BY <1>3 DEF TargetSeen
<1>6. Orphans(v)' = Orphans(v)
  BY <1>2, <1>4, <1>5 DEF Orphans, Owned
<1>7. JobMirrors(worker'[v], Conn(v)')
  <2>1. JobMirrors(worker[v], Conn(v)')
    BY <1>2 DEF Sees
  <2>2. QED
    BY <1>3, <2>1, SameMirrors
<1>8. QED
  BY <1>2, <1>3, <1>6, <1>7 DEF Sees

(* Of its connection's apps it sees those it made. *)
LEMMA AloneApps ==
  ASSUME TypeOK, JobsInv, NEW w \in Workers, worker[w] # Idle, Sees(w)
  PROVE  /\ \A a \in Apps : ConnOf[a] = Conn(w) => AppSeen(w, a) = worker[w].tx.apps[a]
         /\ \A a \in Apps : worker[w].tx.apps[a] # None =>
               /\ ConnOf[a] = Conn(w) /\ worker[w].list[a].status \in Statuses
               /\ worker[w].tx.apps[a].status = worker[w].list[a].status
               /\ worker[w].tx.apps[a].target \in Ids
               /\ worker[w].tx.targets[worker[w].tx.apps[a].target] # None
         /\ \A i \in Ids : \A st :
               st \in StatusesOn(w, i) <=>
                  \E b \in Apps : /\ worker[w].tx.apps[b] # None /\ worker[w].tx.apps[b].target = i
                                  /\ st = worker[w].list[b].status
<1>1. worker[w] \in Jobs /\ worker[w].tx \in Transactions /\ worker[w].list \in Listings
  BY IdleIsNoJob DEF Jobs
<1>2. \A a \in Apps : ConnOf[a] = Conn(w) => AppSeen(w, a) = worker[w].tx.apps[a]
  BY DEF Sees, AppSeen
<1>3. ASSUME NEW a \in Apps, worker[w].tx.apps[a] # None
      PROVE  /\ ConnOf[a] = Conn(w) /\ worker[w].list[a].status \in Statuses
             /\ worker[w].tx.apps[a].status = worker[w].list[a].status
             /\ worker[w].tx.apps[a].target \in Ids
             /\ worker[w].tx.targets[worker[w].tx.apps[a].target] # None
  <2>1. JobRows(worker[w], Conn(w))
    BY DEF JobsInv, Active
  <2>2. worker[w].tx.apps[a] \in AppRows
    BY <1>1, <1>3 DEF Transactions
  <2>3. QED
    BY <1>1, <1>3, <2>1, <2>2 DEF JobRows, Listings, Reports, AppRows
<1>4. ASSUME NEW i \in Ids, NEW st
      PROVE  st \in StatusesOn(w, i) <=>
                  \E b \in Apps : /\ worker[w].tx.apps[b] # None /\ worker[w].tx.apps[b].target = i
                                  /\ st = worker[w].list[b].status
  <2>1. st \in StatusesOn(w, i) <=>
           \E b \in Apps : /\ ConnOf[b] = Conn(w) /\ AppSeen(w, b) # None /\ AppSeen(w, b).target = i
                           /\ st = AppSeen(w, b).status
    BY DEF StatusesOn, AppsSeenOf
  <2>2. QED
    BY <1>2, <1>3, <2>1
<1>5. QED
  BY <1>2, <1>3, <1>4

(* A worker's step leaves the jobs of others. *)
LEMMA StepAside == ASSUME TypeOK, JobsInv, NEW w \in Workers, WorkerStep(w) PROVE OthersAside(w)
<1>1. Goes(w) => OthersAside(w)
  BY GoesShape DEF Becomes
<1>2. ASSUME NEW i \in DOMAIN ops, Claim(w, i)
      PROVE  OthersAside(w)
  BY <1>2, ClaimShape DEF Becomes
<1>3. Commit(w) \/ Fail(w) \/ Finish(w) \/ Stop(w) => OthersAside(w)
  BY CommitShape, FailShape, FinishShape, StopShape DEF Becomes
<1>4. QED
  BY <1>1, <1>2, <1>3 DEF WorkerStep, Goes

(* A transaction that begins deletes its connection's apps. *)
LEMMA DropSees ==
  ASSUME IInv, OpsKept, NEW w \in Workers, Drop(w), worker'[w].stage \in InTx
  PROVE  Sees(w)'
<1>1. TypeOK /\ JobsInv /\ worker[w] \in Jobs /\ worker[w] # Idle /\ app' = app
  BY IdleIsNoJob DEF IInv, Drop, tables
<1>2. ~Becomes(w, [worker[w] EXCEPT !.stage = "stalled"])
  <2> DEFINE k == [worker[w] EXCEPT !.stage = "stalled"]
  <2>1. k.stage = "stalled" /\ "stalled" \notin InTx
    BY <1>1 DEF Jobs, InTx
  <2> HIDE DEF k
  <2>2. ~Becomes(w, k)
    BY <2>1 DEF Becomes
  <2>3. QED
    BY <2>2 DEF k
<1>3. PICK alone \in BOOLEAN :
        Becomes(w, [worker[w] EXCEPT !.stage = "look",
                 !.tx = [NoTx EXCEPT !.dropped = {a \in Apps : ConnOf[a] = Conn(w) /\ app[a] # None},
                                     !.alone = alone]])
  BY <1>1, <1>2, DropShape
<1> DEFINE old == {a \in Apps : ConnOf[a] = Conn(w) /\ app[a] # None}
           t == [NoTx EXCEPT !.dropped = old, !.alone = alone]
           k == [worker[w] EXCEPT !.stage = "look", !.tx = t]
<1>4. t.dropped = old /\ t.targets = NoTx.targets
  BY DEF NoTx
<1> HIDE DEF old, t
<1>5. worker'[w] = k
  BY <1>3 DEF Becomes, old, t
<1>6. k.op = worker[w].op /\ k.stage = "look" /\ k.tx = t
  BY <1>1 DEF Jobs
<1> HIDE DEF k
<1>7. Conn(w)' = Conn(w)
  BY <1>1, <1>5, <1>6, ConnKept
<1>8. JobMirrors(k, Conn(w))
  BY <1>4, <1>6, NothingMirrors
<1>9. \A a \in Apps : ConnOf[a] = Conn(w)' /\ app'[a] # None => a \in worker'[w].tx.dropped
  BY <1>1, <1>4, <1>5, <1>6, <1>7 DEF old
<1>10. JobMirrors(worker'[w], Conn(w)')
  BY <1>5, <1>7, <1>8
<1>11. QED
  BY <1>5, <1>6, <1>9, <1>10 DEF Sees

(* Looking for a target writes nothing.                                    *)
LEMMA LookSees ==
  ASSUME IInv, OpsKept, NEW w \in Workers, NEW a \in Apps, Look(w, a), Sees(w)
  PROVE  Sees(w)'
<1>1. TypeOK /\ JobsInv /\ worker[w] \in Jobs /\ worker[w] # Idle /\ app' = app
  BY IdleIsNoJob DEF IInv, Look, tables
<1>2. PICK found : Becomes(w, [worker[w] EXCEPT !.stage = "put", !.at = a, !.left = @ \ {a}, !.found = found])
  BY <1>1, LookShape
<1> DEFINE k == [worker[w] EXCEPT !.stage = "put", !.at = a, !.left = @ \ {a}, !.found = found]
<1>3. worker'[w] = k
  BY <1>2 DEF Becomes
<1>4. k.op = worker[w].op /\ k.stage = "put" /\ k.tx = worker[w].tx
  BY <1>1 DEF Jobs
<1> HIDE DEF k
<1>5. Conn(w)' = Conn(w)
  BY <1>1, <1>3, <1>4, ConnKept
<1>6. JobMirrors(worker'[w], Conn(w)')
  BY <1>3, <1>4, <1>5 DEF Sees, JobMirrors
<1>7. QED
  BY <1>1, <1>3, <1>4, <1>5, <1>6 DEF Sees

(* Saving one makes it the connection's.                                    *)
LEMMA PutSees ==
  ASSUME IInv, OpsKept, NEW w \in Workers, Put(w), Sees(w)
  PROVE  Sees(w)'
<1>1. TypeOK /\ JobsInv /\ worker[w] \in Jobs /\ worker[w] # Idle /\ app' = app /\ worker[w].tx \in Transactions
  BY IdleIsNoJob DEF IInv, Put, tables, Jobs
<1>2. PICK n, row, apps :
               /\ n \in Ids /\ row.conn = Conn(w)
               /\ Becomes(w, [worker[w] EXCEPT
                     !.stage = "look", !.at = None, !.found = None,
                     !.tx = [worker[w].tx EXCEPT
                        !.targets = [worker[w].tx.targets EXCEPT ![n] = row], !.apps = apps]])
  BY <1>1, PutShape
<1> DEFINE targets == [worker[w].tx.targets EXCEPT ![n] = row]
           t == [worker[w].tx EXCEPT !.targets = targets, !.apps = apps]
           k == [worker[w] EXCEPT !.stage = "look", !.at = None, !.found = None, !.tx = t]
<1>3. worker'[w] = k
  BY <1>2 DEF Becomes
<1>4. t.dropped = worker[w].tx.dropped /\ t.targets = targets
  BY <1>1 DEF Transactions
<1>5. targets[n] = row /\ \A i \in Ids \ {n} : targets[i] = worker[w].tx.targets[i]
  BY <1>1, <1>2 DEF Transactions
<1> HIDE DEF targets, t
<1>6. k.op = worker[w].op /\ k.stage = "look" /\ k.tx = t
  BY <1>1 DEF Jobs
<1> HIDE DEF k
<1>7. Conn(w)' = Conn(w)
  BY <1>1, <1>3, <1>6, ConnKept
<1>8. JobMirrors(worker'[w], Conn(w)')
  BY ZenonT(120), <1>2, <1>3, <1>4, <1>5, <1>6, <1>7 DEF Sees, JobMirrors
<1>9. QED
  BY <1>1, <1>3, <1>4, <1>6, <1>7, <1>8 DEF Sees

(* The roll-up sums up the statuses it is given. *)
LEMMA RolledUpSums ==
  ASSUME NEW S, NEW there, there # {}, NEW list, \A b \in there : list[b].status \in Statuses,
         \A st : st \in S <=> \E b \in there : st = list[b].status
  PROVE  Sums(RolledUp(S), there, list)
<1>1. "OutOfSync" \in S <=> \E b \in there : list[b].status = "OutOfSync"
  OBVIOUS
<1>2. S = {"Synced"} <=> \A b \in there : list[b].status = "Synced"
  OBVIOUS
<1>3. "OutOfSync" \in S => S # {"Synced"}
  OBVIOUS
<1>4. CASE "OutOfSync" \in S
  BY <1>1, <1>2, <1>3, <1>4 DEF RolledUp, Sums, Statuses
<1>5. CASE S = {"Synced"}
  BY <1>1, <1>2, <1>3, <1>5 DEF RolledUp, Sums, Statuses
<1>6. CASE "OutOfSync" \notin S /\ S # {"Synced"}
  BY <1>1, <1>2, <1>6 DEF RolledUp, Sums, Statuses
<1>7. QED
  BY <1>4, <1>5, <1>6

(* Settling the statuses. *)
LEMMA GatherSees ==
  ASSUME IInv, OpsKept, NEW w \in Workers, Gather(w), Sees(w)
  PROVE  Sees(w)'
<1>1. TypeOK /\ JobsInv /\ worker[w] \in Jobs /\ worker[w] # Idle /\ UNCHANGED <<app, target>>
      /\ worker[w].tx \in Transactions
  BY IdleIsNoJob DEF IInv, Gather, tables, Jobs
<1>2. PICK targets \in [Ids -> TargetRows \cup {None}] :
               /\ \A i \in Ids : targets[i] =
                     IF TargetSeen(w, i) # None /\ StatusesOn(w, i) # {}
                     THEN [TargetSeen(w, i) EXCEPT !.status = RolledUp(StatusesOn(w, i))]
                     ELSE worker[w].tx.targets[i]
               /\ Becomes(w, [worker[w] EXCEPT !.stage = "commit",
                     !.tx = [worker[w].tx EXCEPT !.doomed = Orphans(w), !.targets = targets]])
  BY <1>1, GatherShape
<1> DEFINE j == worker[w]
           t == [worker[w].tx EXCEPT !.doomed = Orphans(w), !.targets = targets]
           k == [worker[w] EXCEPT !.stage = "commit", !.tx = t]
<1>3. worker'[w] = k
  BY <1>2 DEF Becomes
<1>4. t.dropped = j.tx.dropped /\ t.targets = targets /\ t.apps = j.tx.apps /\ t.doomed = Orphans(w)
  BY <1>1 DEF Transactions
<1> HIDE DEF t
<1>5. k.op = j.op /\ k.stage = "commit" /\ k.tx = t /\ k.list = j.list
  BY <1>1 DEF Jobs
<1> HIDE DEF k
<1>6. Conn(w)' = Conn(w)
  BY <1>1, <1>3, <1>5, ConnKept
<1>7. /\ \A a \in Apps : j.tx.apps[a] # None =>
             /\ j.list[a].status \in Statuses /\ j.tx.apps[a].target \in Ids
             /\ j.tx.targets[j.tx.apps[a].target] # None
      /\ \A i \in Ids : \A st :
             st \in StatusesOn(w, i) <=>
                  \E b \in Apps : j.tx.apps[b] # None /\ j.tx.apps[b].target = i /\ st = j.list[b].status
  <2>0. TypeOK /\ JobsInv /\ w \in Workers /\ worker[w] # Idle /\ Sees(w)
    BY <1>1
  <2>1. /\ \A a \in Apps : worker[w].tx.apps[a] # None =>
               /\ worker[w].list[a].status \in Statuses
               /\ worker[w].tx.apps[a].target \in Ids
               /\ worker[w].tx.targets[worker[w].tx.apps[a].target] # None
        /\ \A i \in Ids : \A st :
               st \in StatusesOn(w, i) <=>
                  \E b \in Apps : /\ worker[w].tx.apps[b] # None /\ worker[w].tx.apps[b].target = i
                                  /\ st = worker[w].list[b].status
    BY ONLY <2>0, AloneApps
  <2>2. QED
    BY ONLY <2>1
<1>8. ASSUME NEW i \in Ids, TargetSeen(w, i) # None, StatusesOn(w, i) # {}
      PROVE  /\ j.tx.targets[i] # None /\ TargetSeen(w, i) = j.tx.targets[i] /\ targets[i].conn = Conn(w)
             /\ targets[i].status = RolledUp(StatusesOn(w, i))
             /\ targets[i] # None
  <2>1. PICK st : st \in StatusesOn(w, i)
    BY <1>8
  <2>2. j.tx.targets[i] # None
    BY <1>7, <2>1
  <2>3. TargetSeen(w, i) = j.tx.targets[i] /\ TargetSeen(w, i) \in TargetRows
    BY <1>1, <2>2, SeenType DEF TargetSeen
  <2>4. TargetSeen(w, i).conn = Conn(w)
    BY <2>2, <2>3 DEF Sees, JobMirrors
  <2>5. targets[i] = [TargetSeen(w, i) EXCEPT !.status = RolledUp(StatusesOn(w, i))]
    BY <1>2, <1>8
  <2>6. targets[i].conn = Conn(w) /\ targets[i].status = RolledUp(StatusesOn(w, i))
    BY <2>3, <2>4, <2>5 DEF TargetRows
  <2>7. [TargetSeen(w, i) EXCEPT !.status = RolledUp(StatusesOn(w, i))] \in TargetRows
    <3>1. RolledUp(StatusesOn(w, i)) \in Statuses
      BY DEF RolledUp, Statuses
    <3>2. QED
      BY <2>3, <3>1 DEF TargetRows
  <2>8. QED
    BY <2>2, <2>3, <2>5, <2>6, <2>7
<1>9. \A i \in Ids : targets[i] # None => targets[i].conn = Conn(w)
  BY <1>2, <1>8 DEF Sees, JobMirrors
<1>10. ASSUME NEW i \in Ids, PlacedOn(j, i) # {}
       PROVE  Sums(targets[i].status, PlacedOn(j, i), j.list)
  <2>1. \A st : st \in StatusesOn(w, i) <=> \E b \in PlacedOn(j, i) : st = j.list[b].status
    BY <1>7 DEF PlacedOn
  <2>2. PICK b \in Apps : j.tx.apps[b] # None /\ j.tx.apps[b].target = i
    BY <1>10 DEF PlacedOn
  <2>3. TargetSeen(w, i) # None
    BY <1>7, <2>2 DEF TargetSeen
  <2>4. StatusesOn(w, i) # {}
    BY <1>10, <2>1
  <2>5. targets[i].status = RolledUp(StatusesOn(w, i))
    BY <1>8, <2>3, <2>4
  <2>6. \A a \in PlacedOn(j, i) : j.list[a].status \in Statuses
    BY <1>7 DEF PlacedOn
  <2>7. QED
    BY <1>10, <2>1, <2>5, <2>6, RolledUpSums
<1>11. JobMirrors(k, Conn(w))
  <2>1. k.tx.targets = targets /\ k.tx.apps = j.tx.apps /\ k.list = j.list
    BY <1>4, <1>5
  <2>2. \A i \in Ids : k.tx.targets[i] # None => k.tx.targets[i].conn = Conn(w)
    BY <1>9, <2>1
  <2>3. ASSUME NEW a \in Apps, k.tx.apps[a] # None, NEW i \in {k.tx.apps[a].target}
        PROVE  Sums(k.tx.targets[i].status, PlacedOn(k, i), k.list)
    <3>1. i \in Ids /\ a \in PlacedOn(j, i) /\ PlacedOn(k, i) = PlacedOn(j, i)
      BY <1>7, <2>1, <2>3 DEF PlacedOn
    <3>2. QED
      BY <1>10, <2>1, <3>1
  <2>4. QED
    BY ONLY <2>2, <2>3 DEF JobMirrors
<1>12. Orphans(w)' = Orphans(w)
  <2>1. \A a \in Apps : AppSeen(w, a)' = AppSeen(w, a)
    BY <1>1, <1>3, <1>4, <1>5 DEF AppSeen
  <2>2. \A i \in Ids : /\ TargetSeen(w, i)' # None <=> TargetSeen(w, i) # None
                       /\ TargetSeen(w, i) # None => TargetSeen(w, i)'.conn = TargetSeen(w, i).conn
    <3>1. ASSUME NEW i \in Ids
          PROVE  /\ TargetSeen(w, i)' # None <=> TargetSeen(w, i) # None
                 /\ TargetSeen(w, i) # None => TargetSeen(w, i)'.conn = TargetSeen(w, i).conn
      <4>1. TargetSeen(w, i)' = IF targets[i] # None THEN targets[i] ELSE target[i]
        BY <1>1, <1>3, <1>4, <1>5 DEF TargetSeen
      <4>2. CASE TargetSeen(w, i) # None /\ StatusesOn(w, i) # {}
        BY <1>8, <4>1, <4>2 DEF Sees, JobMirrors
      <4>3. CASE ~(TargetSeen(w, i) # None /\ StatusesOn(w, i) # {})
        BY <1>2, <4>1, <4>3 DEF TargetSeen
      <4>4. QED
        BY <4>2, <4>3
    <3>2. QED
      BY <3>1
  <2>3. QED
    BY <1>6, <2>1, <2>2 DEF Orphans, Owned
<1>13. \A a \in Apps : ConnOf[a] = Conn(w)' /\ app'[a] # None => a \in worker'[w].tx.dropped
  BY <1>1, <1>3, <1>4, <1>5, <1>6 DEF Sees
<1>14. JobMirrors(worker'[w], Conn(w)')
  BY <1>3, <1>6, <1>11
<1>15. worker'[w].tx.doomed = Orphans(w)'
  BY <1>3, <1>4, <1>5, <1>12
<1>16. QED
  BY <1>13, <1>14, <1>15 DEF Sees

(* Every step. *)
LEMMA SeesNext == IInv /\ [Next]_vars => AloneSees'
<1> SUFFICES ASSUME IInv, [Next]_vars, NEW v \in Workers, worker'[v].stage \in InTx, worker'[v].tx.alone
             PROVE  Sees(v)'
  BY DEF AloneSees, Sees, Recording
<1>1. TypeOK /\ JobsInv /\ AloneIsAlone /\ OpsKept
  BY OpsNext DEF IInv
<1>2. Recording(v) /\ worker[v].tx.alone => Sees(v)
  BY DEF IInv, AloneSees, Sees
<1>3. worker'[v] # Idle
  BY DEF Idle, InTx
<1>4. CASE UNCHANGED <<worker, app, target, cut>>
  BY <1>1, <1>2, <1>3, <1>4, AsideSees DEF Aside, Recording
<1>5. ASSUME NEW c \in Connections, DeleteConnection(c)
      PROVE  FALSE
  BY <1>1, <1>5, DeleteShape DEF Recording
<1>6. ASSUME NEW w \in Workers, WorkerStep(w), v # w
      PROVE  Sees(v)'
  <2>1. Recording(v) /\ worker'[v].stage = worker[v].stage /\ worker[v].tx.alone
    BY <1>1, <1>6, NewRecordings
  <2>2. ~Commit(w)
    BY <1>1, <1>6, <2>1, CommitShape DEF AloneIsAlone
  <2>3. UNCHANGED <<app, target>>
    BY <1>6, <2>2 DEF WorkerStep, Claim, Fetch, Drop, Look, Put, Gather, Fail, Finish, Stop, tables
  <2>4. Aside(worker[v], worker'[v])
    BY <1>1, <1>3, <1>6, StepAside DEF OthersAside
  <2>5. QED
    BY <1>1, <1>2, <1>3, <2>1, <2>3, <2>4, AsideSees
<1>7. ASSUME WorkerStep(v)
      PROVE  Sees(v)'
  BY <1>1, <1>2, <1>7, OwnRecording, DropSees, LookSees, PutSees, GatherSees
<1>8. QED
  BY <1>4, <1>5, <1>6, <1>7, NonWorkers

(* Every step has a deletion on record that takes an app's target away. *)
LEMMA LostNext == IInv /\ [Next]_vars => LostIsCut'
<1> SUFFICES ASSUME IInv, [Next]_vars, NEW a \in Apps, app'[a] # None, target'[app'[a].target] = None
             PROVE  app'[a].target \in cut'
  BY DEF LostIsCut
<1>1. TypeOK /\ JobsInv /\ LostIsCut
  BY DEF IInv
<1>2. CASE UNCHANGED <<app, target, cut>>
  BY <1>1, <1>2 DEF LostIsCut
<1>3. ASSUME NEW c \in Connections, DeleteConnection(c)
      PROVE  app'[a].target \in cut'
  <2>1. app'[a] = app[a] /\ app[a].target \in Ids
    BY <1>1, <1>3 DEF DeleteConnection, TypeOK, AppRows
  <2>2. target[app[a].target] = None \/ app[a].target \in {i \in Ids : target[i] # None /\ target[i].conn = c}
    BY <1>3, <2>1 DEF DeleteConnection
  <2>3. QED
    BY <1>1, <1>3, <2>1, <2>2 DEF DeleteConnection, LostIsCut
<1>4. ASSUME NEW w \in Workers, Commit(w)
      PROVE  app'[a].target \in cut'
  <2>1. worker[w] \in Jobs /\ worker[w] # Idle /\ Recording(w)
    BY <1>1, <1>4, CommitShape, IdleIsNoJob
  <2>2. app'[a] = AppSeen(w, a) /\ AppSeen(w, a) \in AppRows
    BY <1>1, <1>4, <2>1, SeenType DEF Commit
  <2> DEFINE i == AppSeen(w, a).target
  <2>3. i \in Ids
    BY <2>2 DEF AppRows
  <2>4. CASE i \in worker[w].tx.doomed
    <3>1. i \notin Orphans(w)
      BY <1>4, <2>2 DEF Orphans
    <3>2. ~worker[w].tx.alone
      BY <1>4, <2>1, <2>4, <3>1 DEF IInv, AloneSees, Commit
    <3>3. QED
      BY <1>4, <2>2, <2>4, <3>2 DEF Commit
  <2>5. CASE i \notin worker[w].tx.doomed
    <3>1. TargetSeen(w, i) = None
      BY <1>4, <2>2, <2>3, <2>5 DEF Commit
    <3>2. worker[w].tx.targets[i] = None /\ target[i] = None
      BY <3>1 DEF TargetSeen
    <3>3. worker[w].tx.apps[a] = None
      BY <1>1, <2>1, <3>2 DEF JobsInv, Active, JobRows, AppSeen
    <3>4. AppSeen(w, a) = app[a]
      BY <2>2, <3>3 DEF AppSeen
    <3>5. i \in cut
      BY <1>1, <2>2, <3>2, <3>4 DEF LostIsCut
    <3>6. QED
      BY <1>4, <2>2, <3>5 DEF Commit
  <2>6. QED
    BY <2>4, <2>5
<1>5. ASSUME NEW w \in Workers, WorkerStep(w), ~Commit(w)
      PROVE  UNCHANGED <<app, target, cut>>
  BY <1>5 DEF WorkerStep, Claim, Fetch, Drop, Look, Put, Gather, Fail, Finish, Stop, tables
<1>6. QED
  BY <1>2, <1>3, <1>4, <1>5, NonWorkers

-----------------------------------------------------------------------------
(* Synchronisation *)

(* It starts so. *)
LEMMA InitInv == Init => IInv
<1> SUFFICES ASSUME Init PROVE IInv
  OBVIOUS
<1>1. \A w \in Workers : worker[w] = Idle
  BY DEF Init
<1>2. TypeOK
  <2>1. ops \in Seq([conn : Connections,
                     status : {"queued", "running", "stopping", "canceled", "completed", "failed"}])
    BY EmptySeq DEF Init
  <2>2. QED
    BY <1>1, <2>1 DEF Init, TypeOK
<1>3. JobsInv /\ JobsClaimed
  BY <1>1 DEF JobsInv, JobsClaimed, Active
<1>4. AloneIsAlone /\ AloneSees
  BY <1>1 DEF AloneIsAlone, AloneSees, Recording, Idle, InTx
<1>5. \A i \in Ids : Agree(i, None, None)
  BY <1>1 DEF Init, Agree, RowAt, AppAt, Active
<1>6. IdsAgree
  BY <1>5 DEF IdsAgree, Agreed
<1>7. LostIsCut /\ RunningIsWorkedOn
  BY DEF Init, LostIsCut, RunningIsWorkedOn
<1>8. QED
  BY <1>2, <1>3, <1>4, <1>6, <1>7 DEF IInv

(* A step that ends a commit of worker w well is that commit. *)
LEMMA WellEnded ==
  ASSUME IInv, [Next]_vars, NEW w \in Workers, worker[w].stage = "commit",
         worker'[w].stage = "finish", worker'[w].ok
  PROVE  Commit(w)
<1>1. TypeOK /\ JobsInv /\ worker[w] # Idle /\ worker[w] \in Jobs
  BY IdleIsNoJob DEF IInv, Idle
<1>2. worker'[w].stage # worker[w].stage /\ worker'[w] # Idle
  BY DEF Idle
<1>3. ASSUME NEW c \in Connections, DeleteConnection(c)
      PROVE  FALSE
  BY <1>1, <1>2, <1>3, DeleteShape
<1>4. ASSUME NEW u \in Workers, WorkerStep(u), u # w
      PROVE  FALSE
  BY <1>1, <1>2, <1>4, StepAside DEF OthersAside, Aside
<1>5. ASSUME Fail(w)
      PROVE  FALSE
  <2> DEFINE k == [worker[w] EXCEPT !.stage = "finish", !.ok = FALSE, !.list = NoListing, !.left = {},
                                    !.at = None, !.found = None, !.tx = NoTx]
  <2>1. worker'[w] = k
    BY <1>1, <1>5, FailShape DEF Becomes
  <2>2. k.ok = FALSE
    BY <1>1 DEF Jobs
  <2> HIDE DEF k
  <2>3. QED
    BY <2>1, <2>2
<1>6. ~Stop(w)
  BY <1>1, <1>2, StopShape DEF Becomes
<1>7. CASE WorkerStep(w)
  BY <1>1, <1>5, <1>6, <1>7 DEF WorkerStep, Claim, Fetch, Drop, Look, Put, Gather, Finish
<1>8. QED
  BY <1>2, <1>3, <1>4, <1>7, NonWorkers

(* The commit of a recording that is alone leaves what the server listed. *)
LEMMA CommitMirrors ==
  ASSUME IInv, NEW w \in Workers, Commit(w), worker[w].tx.alone,
         NEW c, c = Conn(w), NEW list, list = worker[w].list
  PROVE  Mirrors(c, list)'
<1>1. /\ TypeOK /\ JobsInv /\ worker[w] \in Jobs /\ worker[w] # Idle
      /\ Recording(w) /\ worker[w].stage = "commit"
  <2>1. TypeOK /\ JobsInv
    BY DEF IInv
  <2>2. QED
    BY <2>1, CommitShape, IdleIsNoJob
<1>2. Sees(w)
  BY <1>1 DEF IInv, AloneSees, Sees
<1> DEFINE tx == worker[w].tx
<1>3. /\ app' = [a \in Apps |-> AppSeen(w, a)]
      /\ target' = [i \in Ids |-> IF i \in tx.doomed THEN None ELSE TargetSeen(w, i)]
      /\ deployed' = [a \in Apps |-> IF tx.apps[a] = None THEN deployed[a] ELSE RecordOf(w, a)]
      /\ tx.doomed = Orphans(w)
  BY <1>1, <1>2 DEF Commit, Sees
<1>4. \A a \in Apps : ConnOf[a] = c => app'[a] = tx.apps[a]
  BY <1>1, <1>2, <1>3, AloneApps
<1>5. \A a \in Apps : tx.apps[a] # None <=> list[a] # None
  BY <1>1 DEF JobsInv, JobRest, JobRows, Active
<1>6. \A a \in Apps : tx.apps[a] # None =>
         /\ ConnOf[a] = c /\ tx.apps[a].status = list[a].status /\ tx.apps[a].target \in Ids
         /\ tx.targets[tx.apps[a].target] # None
  <2>1. TypeOK /\ JobsInv /\ w \in Workers /\ worker[w] # Idle /\ Sees(w)
    BY <1>1, <1>2
  <2>2. \A a \in Apps : worker[w].tx.apps[a] # None =>
           /\ ConnOf[a] = Conn(w) /\ worker[w].tx.apps[a].status = worker[w].list[a].status
           /\ worker[w].tx.apps[a].target \in Ids
           /\ worker[w].tx.targets[worker[w].tx.apps[a].target] # None
    BY ONLY <2>1, AloneApps
  <2>3. QED
    BY <1>1, <2>2
<1>7. ASSUME NEW a \in Apps, ConnOf[a] = c, list[a] # None
      PROVE  /\ app'[a] # None /\ app'[a].status = list[a].status
             /\ deployed'[a] # None /\ deployed'[a].target = app'[a].target
             /\ list[a].pinned => deployed'[a].point = app'[a].target
             /\ LET t == target'[app'[a].target]
                    there == {b \in Apps : /\ ConnOf[b] = c /\ list[b] # None
                                          /\ app'[b].target = app'[a].target} IN
                   /\ t # None /\ t.conn = c /\ t.status \in Statuses
                   /\ t.status = "Synced" <=> \A b \in there : list[b].status = "Synced"
                   /\ t.status = "OutOfSync" <=> \E b \in there : list[b].status = "OutOfSync"
  <2> DEFINE i == tx.apps[a].target
             there == {b \in Apps : ConnOf[b] = c /\ list[b] # None /\ app'[b].target = i}
  <2>1. /\ app'[a] = tx.apps[a] /\ tx.apps[a] # None /\ app'[a].status = list[a].status
        /\ i \in Ids /\ tx.targets[i] # None
    BY <1>4, <1>5, <1>6, <1>7
  <2>2. i \notin Orphans(w)
    BY <1>3, <2>1 DEF Orphans
  <2>3. target'[i] = tx.targets[i]
    BY <1>3, <2>1, <2>2 DEF TargetSeen
  <2>4. tx.targets[i].conn = c /\ Sums(tx.targets[i].status, PlacedOn(worker[w], i), list)
    BY <1>1, <1>2, <2>1 DEF Sees, JobMirrors
  <2>5. PlacedOn(worker[w], i) = there
    BY <1>4, <1>5, <1>6 DEF PlacedOn
  <2>6. deployed'[a] = RecordOf(w, a)
    BY <1>3, <2>1
  <2>7. /\ RecordOf(w, a).target = i /\ (list[a].pinned => RecordOf(w, a).point = i)
        /\ RecordOf(w, a) # None
    <3>1. deployed[a] # None => deployed[a].point \in Ids \cup {None}
      BY <1>1 DEF TypeOK, DeployedRows
    <3>2. RecordOf(w, a) \in DeployedRows
      BY <2>1, <3>1 DEF RecordOf, DeployedRows
    <3>3. QED
      BY <1>1, <2>1, <3>2 DEF RecordOf
  <2>8. Sums(target'[i].status, there, list)
    BY <2>3, <2>4, <2>5
  <2>9. app'[a].target = i
        /\ there = {b \in Apps : ConnOf[b] = c /\ list[b] # None /\ app'[b].target = app'[a].target}
    BY <2>1
  <2> HIDE DEF there, i
  <2>10. QED
    BY <2>1, <2>3, <2>4, <2>6, <2>7, <2>8, <2>9 DEF Sums
<1>8. \A a \in Apps : ConnOf[a] = c /\ list[a] = None => app'[a] = None
  BY <1>4, <1>5
<1>9. ASSUME NEW i \in Ids, target'[i] # None, target'[i].conn = c
      PROVE  \E a \in Apps : app'[a] # None /\ app'[a].target = i
  <2>1. i \notin Orphans(w) /\ target'[i] = TargetSeen(w, i)
    BY <1>3, <1>9
  <2>2. i \in Owned(w)
    BY <1>9, <2>1 DEF Owned
  <2>3. QED
    BY <1>3, <2>1, <2>2 DEF Orphans
<1>10. QED
  BY <1>7, <1>8, <1>9 DEF Mirrors

-----------------------------------------------------------------------------
(* Operations on pods *)

PodStatuses == {"asked", "queued", "running", "stopping", "canceled", "completed", "failed"}
PodRows == [kind : Kinds, target : Ids, place : Places, status : PodStatuses]
PodStages == {"look", "load", "call", "finish"}

(* Changing a status keeps the sequence of operations. *)
LEMMA PodChanged ==
  ASSUME NEW s \in Seq(PodRows), NEW o \in DOMAIN s, NEW st \in PodStatuses,
         NEW t, t = [s EXCEPT ![o].status = st]
  PROVE  /\ t \in Seq(PodRows) /\ DOMAIN t = DOMAIN s
         /\ \A p \in DOMAIN s :
               /\ t[p].kind = s[p].kind /\ t[p].place = s[p].place
               /\ t[p].status = IF p = o THEN st ELSE s[p].status
<1>1. s[o] \in PodRows
  BY ElementOf
<1>2. [s[o] EXCEPT !.status = st] \in PodRows
  BY <1>1 DEF PodRows
<1>3. t = [s EXCEPT ![o] = [s[o] EXCEPT !.status = st]]
  OBVIOUS
<1>4. DOMAIN s = 1..Len(s)
  BY LenProperties
<1>5. [s EXCEPT ![o] = [s[o] EXCEPT !.status = st]] \in Seq(PodRows)
  BY <1>2, <1>4, ExceptSeq
<1>6. \A p \in DOMAIN s : s[p] \in PodRows
  BY ElementOf
<1>7. QED
  BY <1>3, <1>5, <1>6 DEF PodRows

(* A worker at an operation, or at none. *)
LEMMA PodOf ==
  ASSUME PodTypeOK, NEW w \in Workers, pod[w] # Idle
  PROVE  /\ pod[w] \in [stage : PodStages, op : DOMAIN pods, ok : BOOLEAN]
         /\ pod[w].op \in DOMAIN pods
         /\ Op(w) \in PodRows
<1>1. pod[w] \in [stage : PodStages, op : DOMAIN pods, ok : BOOLEAN]
  BY DEF PodTypeOK, PodStages
<1>2. pods \in Seq(PodRows)
  BY DEF PodTypeOK, PodRows, PodStatuses
<1>3. pods[pod[w].op] \in PodRows
  BY <1>1, <1>2, ElementOf
<1>4. QED
  BY <1>1, <1>3 DEF Op

(* What the operations were is kept; none is shown as running that was not, *)
(* and none that was claimed waits again.                                   *)
PodsKept ==
    /\ pods' \in Seq(PodRows) /\ DOMAIN pods \subseteq DOMAIN pods'
    /\ \A o \in DOMAIN pods :
          /\ pods'[o].kind = pods[o].kind /\ pods'[o].place = pods[o].place
          /\ pods[o].status \notin {"asked", "queued"} =>
                /\ pods'[o].status \notin {"asked", "queued"}
                /\ pods'[o].status = "running" => pods[o].status = "running"

(* The other tables. *)
PodTables == kube' \in [Places -> SUBSET Kinds] /\ restarts' \subseteq Places /\ evidence' \subseteq Ids

(* Steps in which no worker moves, or some go idle. *)
LEMMA PodsSettle ==
  ASSUME PodInv, PodsKept, PodTables,
         \A w \in Workers : pod'[w] = pod[w] \/ pod'[w] = Idle, DOMAIN pod' = Workers,
         pod' = [w \in Workers |-> pod'[w]]
  PROVE  PodInv'
<1>1. PodTypeOK /\ PodsClaimed /\ LookedApart
  BY DEF PodInv
<1>2. ASSUME NEW w \in Workers, pod'[w] # Idle
      PROVE  /\ pod[w] # Idle /\ pod'[w] = pod[w] /\ pod[w].op \in DOMAIN pods
             /\ pod'[w] \in [stage : PodStages, op : DOMAIN pods', ok : BOOLEAN]
             /\ Op(w)'.kind = Op(w).kind /\ Op(w)'.place = Op(w).place
             /\ Op(w)'.status \notin {"asked", "queued"}
             /\ Op(w)'.status = "running" => Op(w).status = "running"
  <2>1. pod[w] # Idle /\ pod'[w] = pod[w]
    BY <1>2
  <2>2. pod[w].op \in DOMAIN pods /\ pod[w] \in [stage : PodStages, op : DOMAIN pods, ok : BOOLEAN]
    BY <1>1, <2>1, PodOf
  <2>3. Op(w).status \notin {"asked", "queued"}
    BY <1>1, <2>1 DEF PodsClaimed
  <2>4. QED
    BY <2>1, <2>2, <2>3 DEF PodsKept, Op
<1>3. PodTypeOK'
  <2>1. pod' \in [Workers -> {Idle} \cup [stage : PodStages, op : DOMAIN pods', ok : BOOLEAN]]
    BY <1>2
  <2>2. QED
    BY <2>1 DEF PodTypeOK, PodTables, PodsKept, PodRows, PodStatuses, PodStages
<1>4. PodsClaimed'
  <2>1. \A w \in Workers : pod'[w] # Idle => Op(w)'.status \notin {"asked", "queued"}
    BY <1>2
  <2>2. \A v, w \in Workers : v # w /\ pod'[v] # Idle /\ pod'[w] # Idle => pod'[v].op # pod'[w].op
    BY <1>1, <1>2 DEF PodsClaimed
  <2>3. QED
    BY <2>1, <2>2 DEF PodsClaimed
<1>5. LookedApart'
  <2> SUFFICES ASSUME NEW v \in Workers, NEW w \in Workers, v # w, pod'[v] # Idle, pod'[w] # Idle,
                      pod'[v].stage \in {"load", "call"}, pod'[w].stage \in {"load", "call"},
                      Op(v)'.kind = "restart", Op(w)'.kind = "restart", Op(v)'.place = Op(w)'.place,
                      Op(v)'.status = "running", Op(w)'.status = "running"
               PROVE  FALSE
    BY DEF LookedApart
  <2>1. QED
    BY <1>1, <1>2 DEF LookedApart
<1>6. QED
  BY <1>3, <1>4, <1>5 DEF PodInv

(* Steps of a worker with its operation: it looks no further than it has    *)
(* looked, or there was no other restart.                                   *)
LEMMA PodMoves ==
  ASSUME PodInv, UNCHANGED pods, PodTables, NEW w \in Workers, pod[w] # Idle,
         NEW k \in [stage : PodStages, op : {pod[w].op}, ok : BOOLEAN], pod' = [pod EXCEPT ![w] = k],
         k.stage \in {"load", "call"} =>
            \/ pod[w].stage \in {"load", "call"}
            \/ Op(w).kind = "restart" => ActiveRestarts(pod[w].op) = {}
  PROVE  PodInv'
<1>1. PodTypeOK /\ PodsClaimed /\ LookedApart
  BY DEF PodInv
<1>2. pod'[w] = k /\ k.op = pod[w].op /\ \A v \in Workers \ {w} : pod'[v] = pod[v]
  BY <1>1 DEF PodTypeOK
<1>3. Idle \notin [stage : PodStages, op : {pod[w].op}, ok : BOOLEAN]
  BY DEF Idle, PodStages
<1>4. \A v \in Workers : /\ pod'[v] # Idle => pod[v] # Idle /\ pod'[v].op = pod[v].op
                         /\ pod'[v] # Idle => Op(v)' = Op(v)
  BY <1>2, <1>3 DEF Op
<1>5. PodTypeOK'
  <2>1. k \in [stage : PodStages, op : DOMAIN pods, ok : BOOLEAN]
    BY <1>1, PodOf
  <2>2. pod' \in [Workers -> {Idle} \cup [stage : PodStages, op : DOMAIN pods, ok : BOOLEAN]]
    BY <1>1, <2>1 DEF PodTypeOK, PodStages
  <2>3. QED
    BY <1>1, <2>2 DEF PodTypeOK, PodTables, PodStages
<1>6. PodsClaimed'
  <2>1. \A v \in Workers : pod'[v] # Idle => Op(v)'.status \notin {"asked", "queued"}
    BY <1>1, <1>4 DEF PodsClaimed
  <2>2. \A u, v \in Workers : u # v /\ pod'[u] # Idle /\ pod'[v] # Idle => pod'[u].op # pod'[v].op
    BY <1>1, <1>4 DEF PodsClaimed
  <2>3. QED
    BY <2>1, <2>2 DEF PodsClaimed
<1>7. ASSUME NEW v \in Workers, v # w, pod[v] # Idle, k.stage \in {"load", "call"},
             pod[v].stage \in {"load", "call"}, Op(v).kind = "restart", Op(w).kind = "restart",
             Op(v).place = Op(w).place, Op(v).status = "running", Op(w).status = "running"
      PROVE  FALSE
  <2>1. CASE pod[w].stage \in {"load", "call"}
    BY <1>1, <1>7, <2>1 DEF LookedApart
  <2>2. CASE ActiveRestarts(pod[w].op) = {}
    <3>1. pod[v].op \in DOMAIN pods \ {pod[w].op}
      BY <1>1, <1>7, PodOf DEF PodsClaimed
    <3>2. pod[v].op \in ActiveRestarts(pod[w].op)
      BY <1>7, <3>1 DEF ActiveRestarts, Op
    <3>3. QED
      BY <2>2, <3>2
  <2>3. QED
    BY <1>7, <2>1, <2>2
<1>8. LookedApart'
  <2> SUFFICES ASSUME NEW u \in Workers, NEW v \in Workers, u # v, pod'[u] # Idle, pod'[v] # Idle,
                      pod'[u].stage \in {"load", "call"}, pod'[v].stage \in {"load", "call"},
                      Op(u)'.kind = "restart", Op(v)'.kind = "restart", Op(u)'.place = Op(v)'.place,
                      Op(u)'.status = "running", Op(v)'.status = "running"
               PROVE  FALSE
    BY DEF LookedApart
  <2>1. CASE u = w
    BY <1>2, <1>4, <1>7, <2>1
  <2>2. CASE v = w
    BY <1>2, <1>4, <1>7, <2>2
  <2>3. CASE u # w /\ v # w
    BY <1>1, <1>2, <1>4, <2>3 DEF LookedApart
  <2>4. QED
    BY <2>1, <2>2, <2>3
<1>9. QED
  BY <1>5, <1>6, <1>8 DEF PodInv

(* A worker that claims an operation is the first at it, and has looked for *)
(* nothing.                                                                 *)
LEMMA ClaimsPods ==
  ASSUME PodInv, NEW w \in Workers, NEW o \in DOMAIN pods, ClaimPods(w, o)
  PROVE  PodInv'
<1> DEFINE k == [stage |-> "look", op |-> o, ok |-> TRUE]
<1>1. PodTypeOK /\ PodsClaimed /\ LookedApart /\ pods \in Seq(PodRows)
  BY DEF PodInv, PodTypeOK, PodRows, PodStatuses
<1>2. pods[o].status = "queued" /\ pods' = [pods EXCEPT ![o].status = "running"]
  BY DEF ClaimPods, Become
<1>3. /\ pods' \in Seq(PodRows) /\ DOMAIN pods' = DOMAIN pods
      /\ \A p \in DOMAIN pods : /\ pods'[p].kind = pods[p].kind /\ pods'[p].place = pods[p].place
                                /\ pods'[p].status = IF p = o THEN "running" ELSE pods[p].status
  BY SMTT(30), <1>1, <1>2, PodChanged DEF PodStatuses
<1>4. pod' = [pod EXCEPT ![w] = k] /\ pod'[w] = k /\ \A v \in Workers \ {w} : pod'[v] = pod[v]
  BY <1>1 DEF ClaimPods, PodTypeOK
<1>5. ASSUME NEW v \in Workers, v # w, pod'[v] # Idle
      PROVE  /\ pod[v] # Idle /\ pod'[v] = pod[v] /\ pod[v].op # o /\ pod[v].op \in DOMAIN pods
             /\ Op(v)'.kind = Op(v).kind /\ Op(v)'.place = Op(v).place /\ Op(v)'.status = Op(v).status
  <2>1. pod[v] # Idle /\ pod'[v] = pod[v]
    BY <1>4, <1>5
  <2>2. pod[v].op # o
    BY <1>1, <1>2, <2>1 DEF PodsClaimed, Op
  <2>3. pod[v].op \in DOMAIN pods
    BY <1>1, <2>1, PodOf
  <2>4. QED
    BY <1>3, <2>1, <2>2, <2>3 DEF Op
<1>6. PodTypeOK'
  <2>1. k \in [stage : PodStages, op : DOMAIN pods, ok : BOOLEAN]
    BY DEF PodStages
  <2> HIDE DEF k
  <2>2. pod' \in [Workers -> {Idle} \cup [stage : PodStages, op : DOMAIN pods, ok : BOOLEAN]]
    BY <1>1, <1>4, <2>1 DEF PodTypeOK, PodStages
  <2>3. QED
    BY <1>1, <1>3, <2>2 DEF ClaimPods, PodTypeOK, PodRows, PodStatuses, PodStages
<1>7. PodsClaimed'
  <2>1. ASSUME NEW v \in Workers, pod'[v] # Idle
        PROVE  Op(v)'.status \notin {"asked", "queued"}
    BY <1>1, <1>3, <1>4, <1>5, <2>1 DEF PodsClaimed, Op
  <2>2. ASSUME NEW u \in Workers, NEW v \in Workers, u # v, pod'[u] # Idle, pod'[v] # Idle
        PROVE  pod'[u].op # pod'[v].op
    BY <1>1, <1>4, <1>5, <2>2 DEF PodsClaimed
  <2>3. QED
    BY <2>1, <2>2 DEF PodsClaimed
<1>8. LookedApart'
  <2> SUFFICES ASSUME NEW u \in Workers, NEW v \in Workers, u # v, pod'[u] # Idle, pod'[v] # Idle,
                      pod'[u].stage \in {"load", "call"}, pod'[v].stage \in {"load", "call"},
                      Op(u)'.kind = "restart", Op(v)'.kind = "restart", Op(u)'.place = Op(v)'.place,
                      Op(u)'.status = "running", Op(v)'.status = "running"
               PROVE  FALSE
    BY DEF LookedApart
  <2>1. u # w /\ v # w
    BY <1>4
  <2>2. QED
    BY <1>1, <1>5, <2>1 DEF LookedApart
<1>9. QED
  BY <1>6, <1>7, <1>8 DEF PodInv

(* Every step keeps operations on pods in order. *)
LEMMA PodsNext == TypeOK /\ PodInv /\ [PodNext]_allVars => PodInv'
<1> SUFFICES ASSUME TypeOK, PodInv, [PodNext]_allVars PROVE PodInv'
  OBVIOUS
<1>1. PodTypeOK /\ PodsClaimed /\ pods \in Seq(PodRows)
  BY DEF PodInv, PodTypeOK, PodRows, PodStatuses
<1>2. /\ kube \in [Places -> SUBSET Kinds] /\ restarts \subseteq Places /\ evidence \subseteq Ids
      /\ DOMAIN pod = Workers /\ pod = [w \in Workers |-> pod[w]]
  BY <1>1 DEF PodTypeOK
<1>3. ASSUME PodsKept, UNCHANGED pod, PodTables
      PROVE  PodInv'
  BY <1>2, <1>3, PodsSettle
<1>4. ASSUME UNCHANGED <<pods, pod>>, PodTables
      PROVE  PodInv'
  <2>1. PodsKept
    BY <1>1, <1>4 DEF PodsKept
  <2>2. QED
    BY <1>3, <1>4, <2>1
<1>5. CASE UNCHANGED podVars
  BY <1>2, <1>4, <1>5 DEF podVars, PodTables
<1>6. ASSUME NEW o \in DOMAIN pods, NEW st \in PodStatuses \ {"asked"}, Become(o, st),
             \/ st = "queued" /\ pods[o].status = "asked"
             \/ st \notin {"queued", "running"}
      PROVE  PodsKept
  <2>1. /\ pods' \in Seq(PodRows) /\ DOMAIN pods' = DOMAIN pods
        /\ \A p \in DOMAIN pods : /\ pods'[p].kind = pods[p].kind /\ pods'[p].place = pods[p].place
                                  /\ pods'[p].status = IF p = o THEN st ELSE pods[p].status
    BY SMTT(30), <1>1, <1>6, PodChanged DEF Become
  <2>2. QED
    BY <1>6, <2>1 DEF PodsKept
<1>7. ASSUME NEW p \in Places, NEW kinds \in SUBSET Kinds, Review(p, kinds)
      PROVE  PodInv'
  BY <1>2, <1>4, <1>7 DEF Review, PodTables
<1>8. ASSUME NEW kind \in Kinds, NEW i \in Ids, Ask(kind, i)
      PROVE  PodInv'
  <2> DEFINE place == [scope |-> target[i].scope, cluster |-> target[i].cluster]
             row == [kind |-> kind, target |-> i, place |-> place, status |-> "asked"]
  <2>1. place \in Places
    <3>1. target[i] \in TargetRows /\ target[i].cluster # None
      BY <1>8 DEF Ask, TypeOK
    <3>2. QED
      BY <3>1 DEF TargetRows, Places, Clusters
  <2>2. row \in PodRows
    BY <2>1 DEF PodRows, PodStatuses
  <2>3. pods' = Append(pods, row)
    BY <1>8 DEF Ask
  <2> HIDE DEF row
  <2>4. /\ Append(pods, row) \in Seq(PodRows) /\ DOMAIN pods = 1..Len(pods) /\ Len(pods) \in Nat
        /\ DOMAIN Append(pods, row) = 1..(Len(pods) + 1)
        /\ \A o \in DOMAIN pods : Append(pods, row)[o] = pods[o]
    BY <1>1, <2>2, AppendProperties, LenProperties
  <2>5. PodsKept
    BY <2>3, <2>4 DEF PodsKept
  <2>6. QED
    BY <1>2, <1>3, <1>8, <2>5 DEF Ask, PodTables
<1>9. ASSUME NEW o \in DOMAIN pods, Approve(o) \/ CancelPods(o) \/ RecoverPods(o)
      PROVE  PodInv'
  <2>1. /\ Approve(o) => Become(o, "queued") /\ pods[o].status = "asked"
        /\ CancelPods(o) => Become(o, "canceled") \/ Become(o, "stopping")
        /\ RecoverPods(o) => Become(o, "failed")
    BY DEF Approve, CancelPods, RecoverPods
  <2>2. PodsKept
    BY <1>6, <1>9, <2>1 DEF PodStatuses
  <2>3. QED
    BY <1>2, <1>3, <1>9, <2>2 DEF Approve, CancelPods, RecoverPods, PodTables
<1>10. ASSUME NEW i \in Ids, RecordEvidence(i)
       PROVE  PodInv'
  BY <1>2, <1>4, <1>10 DEF RecordEvidence, PodTables
<1>11. ASSUME NEW w \in Workers, NEW stage, At(w, stage)
       PROVE  /\ pod[w] # Idle /\ pod[w].stage = stage
              /\ pod[w] \in [stage : PodStages, op : DOMAIN pods, ok : BOOLEAN]
  BY <1>1, <1>11, PodOf DEF At
<1>12. ASSUME NEW w \in Workers, NEW stage \in {"look", "load", "call"}, At(w, stage), UNCHANGED pods, PodTables,
              NEW ok \in BOOLEAN, End(w, ok)
       PROVE  PodInv'
  <2> DEFINE k == [pod[w] EXCEPT !.stage = "finish", !.ok = ok]
  <2>1. pod' = [pod EXCEPT ![w] = k]
    BY <1>2, <1>12 DEF End
  <2>2. pod[w] # Idle /\ pod[w] \in [stage : PodStages, op : DOMAIN pods, ok : BOOLEAN]
    BY <1>11, <1>12
  <2>3. k \in [stage : PodStages, op : {pod[w].op}, ok : BOOLEAN] /\ k.stage = "finish"
    BY <2>2 DEF PodStages
  <2> HIDE DEF k
  <2>4. QED
    BY <1>12, <2>1, <2>2, <2>3, PodMoves
<1>13. ASSUME NEW w \in Workers, NEW stage \in {"look", "load"}, At(w, stage), UNCHANGED pods, PodTables,
              NEW next \in {"load", "call"}, Goto(w, next),
              stage = "look" /\ Op(w).kind = "restart" => ActiveRestarts(pod[w].op) = {}
       PROVE  PodInv'
  <2> DEFINE k == [pod[w] EXCEPT !.stage = next]
  <2>1. pod' = [pod EXCEPT ![w] = k]
    BY <1>2, <1>13 DEF Goto
  <2>2. /\ pod[w] # Idle /\ pod[w].stage = stage
        /\ pod[w] \in [stage : PodStages, op : DOMAIN pods, ok : BOOLEAN]
    BY <1>11, <1>13
  <2>3. k \in [stage : PodStages, op : {pod[w].op}, ok : BOOLEAN] /\ k.stage = next
    BY <2>2 DEF PodStages
  <2> HIDE DEF k
  <2>4. QED
    BY <1>13, <2>1, <2>2, <2>3, PodMoves
<1>14. ASSUME NEW w \in Workers, LookForRestarts(w)
       PROVE  PodInv'
  <2>1. At(w, "look") /\ UNCHANGED pods /\ PodTables
    BY <1>2, <1>14 DEF LookForRestarts, PodTables
  <2>2. CASE End(w, TRUE) \/ End(w, FALSE)
    BY <1>12, <2>1, <2>2
  <2>3. CASE Goto(w, "load") /\ (Op(w).kind = "restart" => ActiveRestarts(pod[w].op) = {})
    BY <1>13, <2>1, <2>3
  <2>4. QED
    BY <1>14, <2>2, <2>3 DEF LookForRestarts
<1>15. ASSUME NEW w \in Workers, LoadEnvironment(w)
       PROVE  PodInv'
  <2>1. At(w, "load") /\ UNCHANGED pods /\ PodTables
    BY <1>2, <1>15 DEF LoadEnvironment, PodTables
  <2>2. QED
    BY <1>12, <1>13, <1>15, <2>1 DEF LoadEnvironment
<1>16. ASSUME NEW w \in Workers, CallCluster(w)
       PROVE  PodInv'
  <2>1. At(w, "call") /\ UNCHANGED pods
    BY <1>16 DEF CallCluster
  <2>2. Op(w).place \in Places
    BY <1>1, <2>1, PodOf DEF At, PodRows
  <2>3. PodTables
    BY <1>2, <1>16, <2>2 DEF CallCluster, PodTables
  <2>4. PICK done \in BOOLEAN, answered \in BOOLEAN : End(w, done /\ answered)
    BY <1>16 DEF CallCluster
  <2>5. PICK ok \in BOOLEAN : ok <=> done /\ answered
    OBVIOUS
  <2>6. End(w, ok)
    BY <2>4, <2>5 DEF End
  <2>7. QED
    BY <1>12, <2>1, <2>3, <2>6
<1>17. ASSUME NEW w \in Workers, FinishPods(w)
       PROVE  PodInv'
  <2>1. pod[w] # Idle /\ pod[w].op \in DOMAIN pods
    BY <1>1, <1>17, PodOf DEF FinishPods, At
  <2>2. Become(pod[w].op, "completed") \/ Become(pod[w].op, "failed")
    BY <1>17 DEF FinishPods
  <2>3. PodsKept
    BY <1>6, <2>1, <2>2 DEF PodStatuses
  <2>4. pod' = [pod EXCEPT ![w] = Idle] /\ PodTables
    BY <1>2, <1>17 DEF FinishPods, PodTables
  <2>5. QED
    BY <1>2, <2>3, <2>4, PodsSettle
<1>18. ASSUME NEW w \in Workers, StopPods(w)
       PROVE  PodInv'
  <2>1. pod' = [pod EXCEPT ![w] = Idle] /\ UNCHANGED pods /\ PodTables
    BY <1>2, <1>18 DEF StopPods, PodTables
  <2>2. PodsKept
    BY <1>1, <2>1 DEF PodsKept
  <2>3. QED
    BY <1>2, <2>1, <2>2, PodsSettle
<1>19. QED
  BY <1>5, <1>7, <1>8, <1>9, <1>10, <1>14, <1>15, <1>16, <1>17, <1>18, ClaimsPods DEF PodNext, Sync, allVars

-----------------------------------------------------------------------------
(* Theorems *)

(* What happens to pods leaves the syncs alone. *)
LEMMA SyncsSteps == [PodNext]_allVars => [Next]_vars
  BY DEF PodNext, Sync, allVars, Review, Ask, Approve, CancelPods, RecoverPods, RecordEvidence, ClaimPods,
         LookForRestarts, LoadEnvironment, CallCluster, FinishPods, StopPods

(* The syncs beside pods are those of ArgoTargets: the composition adds to *)
(* what syncs do nothing but the workers they have to share.               *)
THEOREM SyncsCorrect == PodSpec => Spec
<1>1. PodInit => Init
  BY DEF PodInit
<1>2. QED
  BY <1>1, SyncsSteps, PTL DEF PodSpec, Spec

(* The invariant of the syncs. *)
THEOREM InvCorrect == Spec => []IInv
<1>1. IInv /\ [Next]_vars => IInv'
  <2> SUFFICES ASSUME IInv, [Next]_vars PROVE IInv'
    OBVIOUS
  <2>1. TypeOK' /\ JobsInv' /\ JobsClaimed' /\ AloneIsAlone' /\ AloneSees' /\ IdsAgree' /\ LostIsCut'
        /\ RunningIsWorkedOn'
    BY TypeNext, JobsNext, ClaimedNext, AloneNext, SeesNext, IdsNext, LostNext, RunningNext
  <2>2. QED
    BY <2>1 DEF IInv
<1>2. QED
  BY InitInv, <1>1, PTL DEF Spec

(* And with them, that of the operations on pods. *)
THEOREM PodInvCorrect == PodSpec => [](IInv /\ PodInv)
<1>1. PodInit => PodInv
  <2> SUFFICES ASSUME PodInit PROVE PodInv
    OBVIOUS
  <2>1. pods \in Seq([kind : Kinds, target : Ids, place : Places,
          status : {"asked", "queued", "running", "stopping", "canceled", "completed", "failed"}])
    BY EmptySeq DEF PodInit
  <2>2. \A w \in Workers : pod[w] = Idle
    BY DEF PodInit
  <2>3. PodTypeOK
    BY <2>1 DEF PodInit, PodTypeOK
  <2>4. PodsClaimed /\ LookedApart
    BY <2>2 DEF PodsClaimed, LookedApart
  <2>5. QED
    BY <2>3, <2>4 DEF PodInv
<1>2. IInv /\ PodInv /\ [PodNext]_allVars => PodInv'
  BY PodsNext DEF IInv
<1>3. QED
  BY SyncsCorrect, InvCorrect, <1>1, <1>2, PTL DEF PodSpec

(* Connections, tables, operations, jobs and requests have their types. *)
THEOREM TypeCorrect == PodSpec => [](TypeOK /\ PodTypeOK)
<1>1. IInv /\ PodInv => TypeOK /\ PodTypeOK
  BY DEF IInv, PodInv
<1>2. QED
  BY PodInvCorrect, <1>1, PTL

(* Whatever connections share targets, and whatever workers sync them, no   *)
(* app is found on a target of another place or of another named cluster,   *)
(* nor on none unless a deletion on record took it.                         *)
THEOREM AppHasItsTargetCorrect == PodSpec => []AppHasItsTarget
<1>1. IInv => AppHasItsTarget
  <2> SUFFICES ASSUME IInv, NEW a \in Apps, app[a] # None
               PROVE  LET t == target[app[a].target] IN
                      \/ t = None /\ app[a].target \in cut
                      \/ /\ t # None /\ t.scope = Scope[a]
                         /\ Cluster[a] # None => t.cluster \in {Cluster[a], None}
    BY DEF AppHasItsTarget
  <2> DEFINE i == app[a].target
  <2>1. i \in Ids
    BY DEF IInv, TypeOK, AppRows
  <2>2. CASE target[i] = None
    BY <2>2 DEF IInv, LostIsCut
  <2>3. CASE target[i] # None
    <3>1. target[i] \in TargetRows /\ RowAt(i, target[i]) /\ AppAt(i, a)
      BY <2>1, <2>3 DEF IInv, TypeOK, RowAt, AppAt
    <3>2. PICK scope, cluster : Agree(i, scope, cluster)
      BY <2>1 DEF IInv, IdsAgree, Agreed
    <3>3. /\ target[i].scope = scope /\ target[i].cluster \in {cluster, None}
          /\ Scope[a] = scope /\ Cluster[a] \in {cluster, None}
      BY <3>1, <3>2 DEF Agree
    <3>4. QED
      BY <2>3, <3>3
  <2>4. QED
    BY <2>2, <2>3
<1>2. QED
  BY PodInvCorrect, <1>1, PTL

(* No connection is left shown as syncing with no job that will end it,     *)
(* however syncs are canceled, recovered, overtaken or deleted under.       *)
THEOREM RunningHasASyncCorrect == PodSpec => []RunningHasASync
<1>1. IInv => RunningHasASync
  BY DEF IInv, RunningIsWorkedOn, RunningHasASync
<1>2. QED
  BY PodInvCorrect, <1>1, PTL

(* A sync that no other one disturbed leaves the connection as listed.      *)
THEOREM UndisturbedSyncMirrorsCorrect == PodSpec => UndisturbedSyncMirrors
<1> DEFINE Good(w) ==
        /\ worker[w].stage = "commit" /\ worker[w].tx.alone
        /\ worker'[w].stage = "finish" /\ worker'[w].ok
        => \A c \in {Conn(w)}, list \in {worker[w].list} : Mirrors(c, list)'
<1>1. IInv /\ [Next]_vars => [\A w \in Workers : Good(w)]_vars
  <2> SUFFICES ASSUME IInv, [Next]_vars, NEW w \in Workers PROVE Good(w)
    OBVIOUS
  <2> SUFFICES ASSUME worker[w].stage = "commit", worker[w].tx.alone,
                      worker'[w].stage = "finish", worker'[w].ok,
                      NEW c \in {Conn(w)}, NEW list \in {worker[w].list}
               PROVE  Mirrors(c, list)'
    OBVIOUS
  <2>1. Commit(w)
    BY WellEnded
  <2>2. QED
    BY <2>1, CommitMirrors
<1>2. QED
  BY SyncsCorrect, InvCorrect, <1>1, PTL DEF Spec, UndisturbedSyncMirrors

(* No two restarts of one deployment are under way with both operations     *)
(* shown as running, though nothing locks the deployment.                   *)
THEOREM RestartsApartCorrect == PodSpec => []RestartsApart
<1>1. PodInv => RestartsApart
  BY DEF PodInv, LookedApart, RestartsApart, At
<1>2. QED
  BY PodInvCorrect, <1>1, PTL
=============================================================================
