---------------------------- MODULE MCPodAccess ----------------------------
(* A small instance of PodAccess, and of ArgoTargets with it, for TLC. *)
EXTENDS PodAccess, TLC

CONSTANTS c1, c2, a1, a2, a3, k1

(* The first server has an application that names its cluster and one that *)
(* does not, the second one in the same namespace and cluster.             *)
MCConnOf == (a1 :> c1) @@ (a2 :> c2) @@ (a3 :> c1)
MCCluster == (a1 :> k1) @@ (a2 :> k1) @@ (a3 :> None)
ConnOfApp == [a \in Apps |-> MCConnOf[a]]
ClusterOf == [a \in Apps |-> MCCluster[a]]
OneScope == [a \in Apps |-> "staging"]

Symmetry == Permutations(Workers)

(* Both connections are there when the first sync is asked for, which is   *)
(* that of the server with two applications.                               *)
ConnectedFirst ==
    /\ \A c \in Connections : connection'[c] = "absent" => ops' = <<>> /\ request' = request
    /\ Len(ops') = 1 => ops'[1].conn = c1

(* All applications are in sync and have a revision, but one at the first   *)
(* sync, which may be out of sync, or not known and without a revision.     *)
OneOddReport == \A w \in Workers, a \in Apps :
    Active(w)' /\ worker'[w].list[a] # None =>
        \/ worker'[w].list[a] = [status |-> "Synced", pinned |-> TRUE]
        \/ /\ a = a1 /\ worker'[w].op = 1
           /\ worker'[w].list[a] \in {[status |-> "OutOfSync", pinned |-> TRUE],
                                      [status |-> "Unknown", pinned |-> FALSE]}

(* At most one thing goes wrong or is done to a connection: a job fails, is *)
(* canceled or loses its worker, a connection is updated or deleted.        *)
Unlucky(i) ==
    \/ ops[i].status \in {"failed", "stopping", "canceled"}
    \/ ops[i].status = "running" /\ \A w \in Workers : ~(Active(w) /\ worker[w].op = i /\ worker[w].ok)
Edits == Cardinality(resaved) + Cardinality({c \in Connections : connection[c] = "deleted"})
         + Cardinality({h \in Handlers : request[h].stage = "save"})
OneEvent == Edits' + Cardinality({i \in DOMAIN ops' : Unlucky(i)'}) <= 1

(* Two workers are at work on the last two jobs only, after a sync that     *)
(* completed, and then nothing happens but that a worker fails.             *)
Together == Cardinality({w \in Workers : Active(w)}) = 2
Settled(i) == ops[i].status \notin {"queued", "running", "stopping"}
OverlapLast ==
    /\ Together' => /\ Len(ops') = MaxOps /\ ops'[1].status = "completed"
                    /\ Edits' = 0
                    /\ \A i \in DOMAIN ops' : Unlucky(i)' => \E w \in Workers : worker'[w].op = i
    /\ Together /\ ops' # ops => worker' # worker
    /\ Len(ops') > 1 => Settled(1)
    /\ \A h \in Handlers : request'[h] # Idle => Len(ops') <= 1

(* The last job shows what came of all this. *)
LastJobCounts == Len(ops) = MaxOps =>
    /\ Edits' <= Edits
    /\ Unlucky(MaxOps)' => Together

(* Pods are restarted when one sync has completed; only a deletion of the   *)
(* connection takes their target away.  One operation on pods completes, or *)
(* is still under way.                                                      *)
Podless == pods = <<>> /\ \A p \in Places : kube[p] = {}
PodsLast == ~Podless' =>
    /\ Len(ops') = 1 /\ ops'[1].status = "completed"
    /\ resaved' = {} /\ request' = request
    /\ app'[a3] = None /\ \A i \in Ids \ {1} : target'[i] = None
    /\ \A p \in Places : kube'[p] \subseteq Enabled
    /\ Cardinality({o \in DOMAIN pods' : pods'[o].status \in {"stopping", "canceled", "failed"}}) <= 1
    /\ ~Podless => app'[a1] \in {app[a1], None}
=============================================================================
