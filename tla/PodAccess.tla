------------------------------ MODULE PodAccess ------------------------------
(***************************************************************************)
(* Restarting the pods of a deployment target and reading their logs.  A   *)
(* user asks for either and an approval enqueues the operation, with the   *)
(* place the target was at when it was asked for: its scope and cluster.   *)
(* A control worker looks for another active restart of the same           *)
(* deployment, for the reviewed Kubernetes environment of the place, and   *)
(* calls the cluster.  Nothing locks a deployment: what keeps two restarts *)
(* apart is that an operation is shown as active before its worker looks.  *)
(*                                                                         *)
(* It is composed with the syncs of module ArgoTargets, which make, move   *)
(* and delete the targets and run in the same workers.  A target has one   *)
(* deployment and one pod.                                                 *)
(***************************************************************************)
EXTENDS ArgoTargets

CONSTANTS
    Enabled,   \* the kinds of calls the configuration lets workers make
    MaxPods    \* bound on the operations on pods

Kinds == {"restart", "logs"}
ASSUME PodAssumption == Enabled \subseteq Kinds /\ MaxPods \in Nat

VARIABLES
    kube,      \* kubernetes_environments: what is ready and reviewed at a place
    pods,      \* approvals and operation_runs on pods, in order of creation
    pod,       \* what each worker is at
    restarts,  \* the places that were restarted
    evidence   \* targets with a recorded pod_log_audit_recorded snapshot

podVars == <<kube, pods, pod, restarts, evidence>>
allVars == <<vars, podVars>>

Clusters == {Cluster[a] : a \in Apps} \ {None}
Places == [scope : {Scope[a] : a \in Apps}, cluster : Clusters]

PodTypeOK ==
    /\ kube \in [Places -> SUBSET Kinds]
    /\ pods \in Seq([kind : Kinds, target : Ids, place : Places,
          status : {"asked", "queued", "running", "stopping", "canceled", "completed", "failed"}])
    /\ pod \in [Workers -> {Idle} \cup [stage : {"look", "load", "call", "finish"},
                                        op : DOMAIN pods, ok : BOOLEAN]]
    /\ restarts \subseteq Places /\ evidence \subseteq Ids

PodInit ==
    /\ Init
    /\ kube = [p \in Places |-> {}] /\ pods = <<>>
    /\ pod = [w \in Workers |-> Idle]
    /\ restarts = {} /\ evidence = {}

-----------------------------------------------------------------------------
(* Requests *)

(* createKubernetesEnvironment inserts the row of a place or replaces it. *)
Review(p, kinds) ==
    /\ kube[p] # kinds
    /\ kube' = [kube EXCEPT ![p] = kinds]
    /\ UNCHANGED <<vars, pods, pod, restarts, evidence>>

(* Only a restart needs the review when it is asked for. *)
Ask(kind, i) ==
    /\ Len(pods) < MaxPods
    /\ target[i] # None /\ target[i].cluster # None
    /\ \E p \in {[scope |-> target[i].scope, cluster |-> target[i].cluster]} :
          /\ kind = "restart" => "restart" \in kube[p]
          /\ pods' = Append(pods, [kind |-> kind, target |-> i, place |-> p, status |-> "asked"])
    /\ UNCHANGED <<vars, kube, pod, restarts, evidence>>

Become(o, status) == pods' = [pods EXCEPT ![o].status = status]

Approve(o) ==
    /\ pods[o].status = "asked" /\ Become(o, "queued")
    /\ UNCHANGED <<vars, kube, pod, restarts, evidence>>

CancelPods(o) ==
    /\ pods[o].status \in {"queued", "running"}
    /\ Become(o, IF pods[o].status = "queued" THEN "canceled" ELSE "stopping")
    /\ UNCHANGED <<vars, kube, pod, restarts, evidence>>

(* The audits of the target's logs are over, well, and were some. *)
RecordEvidence(i) ==
    LET audits == {o \in DOMAIN pods : pods[o].kind = "logs" /\ pods[o].target = i /\ pods[o].status # "asked"} IN
    /\ target[i] # None /\ i \notin evidence
    /\ audits # {} /\ \A o \in audits : pods[o].status = "completed"
    /\ evidence' = evidence \cup {i}
    /\ UNCHANGED <<vars, kube, pods, pod, restarts>>

-----------------------------------------------------------------------------
(* Workers *)

At(w, stage) == pod[w] # Idle /\ pod[w].stage = stage
Op(w) == pods[pod[w].op]
Goto(w, stage) == pod' = [pod EXCEPT ![w].stage = stage]
End(w, ok) == pod' = [pod EXCEPT ![w].stage = "finish", ![w].ok = ok]

ClaimPods(w, o) ==
    /\ pod[w] = Idle /\ worker[w] = Idle
    /\ pods[o].status = "queued" /\ \A p \in 1..(o - 1) : pods[p].status # "queued"
    /\ Become(o, "running")
    /\ pod' = [pod EXCEPT ![w] = [stage |-> "look", op |-> o, ok |-> TRUE]]
    /\ UNCHANGED <<vars, kube, restarts, evidence>>

(* Mutant: an operation that waits in the queue is all it looks for. *)
ActiveRestartsQueued(o) ==
    {p \in DOMAIN pods \ {o} : /\ pods[p].kind = "restart" /\ pods[p].place = pods[o].place
                               /\ pods[p].status = "queued"}

(* ensureNoActiveKubernetesPodRestart *)
ActiveRestarts(o) ==
    {p \in DOMAIN pods \ {o} : /\ pods[p].kind = "restart" /\ pods[p].place = pods[o].place
                               /\ pods[p].status \in {"queued", "running"}}

LookForRestarts(w) ==
    /\ At(w, "look")
    /\ IF Op(w).kind \notin Enabled THEN End(w, TRUE)  \* only audited
       ELSE IF Op(w).kind = "restart" /\ ActiveRestarts(pod[w].op) # {} THEN End(w, FALSE)
       ELSE Goto(w, "load")
    /\ UNCHANGED <<vars, kube, pods, restarts, evidence>>

LoadEnvironment(w) ==
    /\ At(w, "load")
    /\ IF Op(w).kind \in kube[Op(w).place] THEN Goto(w, "call") ELSE End(w, FALSE)
    /\ UNCHANGED <<vars, kube, pods, restarts, evidence>>

(* The cluster may refuse, or restart and its answer be lost. *)
CallCluster(w) ==
    /\ At(w, "call")
    /\ \E done, answered \in BOOLEAN :
          /\ End(w, done /\ answered)
          /\ restarts' = IF done /\ Op(w).kind = "restart" THEN restarts \cup {Op(w).place} ELSE restarts
    /\ UNCHANGED <<vars, kube, pods, evidence>>

FinishPods(w) ==
    /\ At(w, "finish")
    /\ Become(pod[w].op, IF pod[w].ok THEN "completed" ELSE "failed")
    /\ pod' = [pod EXCEPT ![w] = Idle]
    /\ UNCHANGED <<vars, kube, restarts, evidence>>

(* The process ends, or a statement of the outcome fails. *)
StopPods(w) ==
    /\ pod[w] # Idle
    /\ pod' = [pod EXCEPT ![w] = Idle]
    /\ UNCHANGED <<vars, kube, pods, restarts, evidence>>

RecoverPods(o) ==
    /\ pods[o].status \in {"running", "stopping"} /\ Become(o, "failed")
    /\ UNCHANGED <<vars, kube, pod, restarts, evidence>>

(* A worker has one job at a time. *)
Sync == Next /\ UNCHANGED podVars /\ \A w \in Workers : pod[w] # Idle => worker'[w] = worker[w]

PodNext ==
    \/ Sync
    \/ \E p \in Places, kinds \in SUBSET Kinds : Review(p, kinds)
    \/ \E kind \in Kinds, i \in Ids : Ask(kind, i)
    \/ \E o \in DOMAIN pods : Approve(o) \/ CancelPods(o) \/ RecoverPods(o)
    \/ \E i \in Ids : RecordEvidence(i)
    \/ \E w \in Workers :
          \/ \E o \in DOMAIN pods : ClaimPods(w, o)
          \/ LookForRestarts(w) \/ LoadEnvironment(w) \/ CallCluster(w) \/ FinishPods(w) \/ StopPods(w)

PodSpec == PodInit /\ [][PodNext]_allVars

-----------------------------------------------------------------------------

(* Two workers restart one deployment at the same time only if one of the   *)
(* two operations was canceled, or recovered, while its worker went on.     *)
RestartsApart ==
    \A v, w \in Workers :
        v # w /\ At(v, "call") /\ At(w, "call") /\ Op(v).kind = "restart" /\ Op(w).kind = "restart"
        /\ Op(v).place = Op(w).place
        => Op(v).status # "running" \/ Op(w).status # "running"

=============================================================================
