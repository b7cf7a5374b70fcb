----------------------------- MODULE MCRepoSync -----------------------------
(* A small instance of RepoSync for TLC. *)
EXTENDS RepoSync, TLC

Symmetry == Permutations(Handlers) \cup Permutations(Workers)

(* Workers start when the assets listen and nobody edits them any more:     *)
(* nothing that a worker does reads what an edit writes.                    *)
Started == \E i \in DOMAIN jobs : jobs[i].job \in {"running"} \cup Outcomes
Settled ==
    /\ \A t \in Targets : asset[t].exists => asset[t].hooked /\ asset[t].enabled
    /\ \A h \in Handlers : request[h].pc # "update" /\ (Len(jobs) >= 2 => request[h] = Idle)
EditsFirst == Started' => Settled'

(* Three jobs show what deliveries start, two are enough for two workers.   *)
FewJobs == Len(jobs') <= (IF Started' THEN 2 ELSE 3)
=============================================================================
