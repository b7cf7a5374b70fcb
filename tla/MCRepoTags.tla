----------------------------- MODULE MCRepoTags -----------------------------
(* A small instance of RepoTags for TLC. *)
EXTENDS RepoTags, TLC

Symmetry == Permutations(Callers) \cup Permutations(Workers)

(* Others create the tag before it is asked for, or delete it between jobs. *)
ElsewhereAtRest ==
    (tagged' # tagged /\ worker' = worker) =>
        ops = <<>> \/ (tagged /\ \A w \in Workers : worker[w] = Idle)

(* Webhooks arrive while refreshes run and nothing else waits: what they     *)
(* write and what lookups write is apart.                                    *)
HooksByRefreshes ==
    hooks' # hooks =>
        \A i \in DOMAIN ops : ops[i].job \in Active => ops[i].kind = "refresh" /\ ops[i].job = "running"

(* Snapshots are recorded when what was asked for is done. *)
RecordedLast ==
    \A h \in Callers : (request[h].pc # "snapshot" /\ request'[h].pc = "snapshot") =>
        /\ \A i \in DOMAIN ops : ops[i].job \notin Active
        /\ \A w \in Workers : worker[w] = Idle

FewOps == Len(ops') <= 4
FewCancels == Cardinality({i \in DOMAIN ops' : ops'[i].op = "canceled"}) <= 1
=============================================================================
