---------------------------- MODULE MCAgentTasks ----------------------------
(* A small instance of AgentTasks for TLC. *)
EXTENDS AgentTasks, TLC

Symmetry == Permutations(Handlers) \cup Permutations(Workers)

(* The asset and a verified global runtime are there before the first plan,  *)
(* and perhaps a runtime of the project that nobody verified.                *)
SetUpFirst ==
    /\ (runtimes' # runtimes \/ asset' # asset) => plans = <<>> /\ runtimes'["project"] # "verified"
    /\ plans' # plans => asset /\ runtimes["global"] = "verified"

(* Snapshots are recorded while no other request is under way. *)
RecordingApart ==
    \/ \A h \in Handlers : request'[h].pc \in {"idle", "compare", "insert"}
    \/ \A h \in Handlers : request'[h].pc \in {"idle", "approve", "execute"}

(* One is begun when it may get ready, with every plan there and no job      *)
(* claimed and not done; a second one is of the family of the first.         *)
RecordingCounts ==
    \A h \in Handlers : request[h] = Idle /\ request'[h].pc = "compare" =>
        /\ Terminal(request'[h].seen) /\ Len(plans) = MaxPlans
        /\ \A w \in Workers : worker[w] = Idle
        /\ rows # <<>> => request'[h].family = rows[1].family

FewCancels == Cardinality({i \in DOMAIN ops' : ops'[i].op = "canceled"}) <= 1
=============================================================================
