-------------------------- MODULE MCConfigVersions --------------------------
(* A small instance of ConfigVersions for TLC. *)
EXTENDS ConfigVersions, TLC

Symmetry == Permutations(Handlers) \cup Permutations(Workers)

(* The role is left, or the second remote made, while a commit is queued or *)
(* under way; somebody pushes during a commit or a refresh of the head.      *)
EditsMatter ==
    /\ config' # config \/ sole' # sole => config /\ sole /\ Underway({"commit"})
    /\ history' # history => Underway({"commit", "head"})

Busy(h) == request[h] # Idle \/ reader[h] # Idle

(* A connection is there before anything else happens.                       *)
ConnectedFirst ==
    connections' # connections => ops = <<>> /\ pin # 0 /\ \A h \in Handlers : ~Busy(h)

(* The operations of a behaviour are those of the repository, or those of    *)
(* the version, or a sort of the version's and one that hides it; a commit or *)
(* a rerun is there with one other, and only hidden refreshes make four.  Of  *)
(* operations that may hide others at most one is claimed, and none fails.    *)
OneStory ==
    LET kinds == {ops[i].kind : i \in DOMAIN ops}' IN
    /\ \/ kinds \subseteq {"commit", "head"} \/ kinds \subseteq RefreshKinds \cup {"rerun"}
       \/ kinds \subseteq {"refs", "other"} \/ kinds \subseteq {"rerun", "otherRerun"}
    /\ connections > 0 => kinds \subseteq RefreshKinds \cup {"rerun"}
    /\ kinds \cap {"commit", "rerun", "otherRerun"} # {} => Len(ops') <= 2
    /\ "other" \notin kinds => Len(ops') <= 3
    /\ kinds \cap Elsewhere # {} =>
          /\ \A i \in DOMAIN ops' : ops'[i].op \notin {"failed", "canceled"}
          /\ Cardinality({i \in DOMAIN ops' : ops'[i].job # "queued"}) <= 1
          /\ \A h \in Handlers : reader'[h] = Idle

(* Two handlers serve requests of one sort.                                  *)
Sort(pc) == IF pc \in {"lock", "head"} THEN "head" ELSE pc

OneSort ==
    \A g, h \in Handlers : g # h /\ Busy(g)' /\ Busy(h)' =>
        /\ request[g]' # Idle /\ request[h]' # Idle
        /\ Sort(request'[g].pc) = Sort(request'[h].pc)
        /\ request'[g].pc \in {"lock", "head", "refresh"}

(* Operators record what there is to record, once; they pin what is new,     *)
(* before it is refreshed.                                                   *)
RecordingCounts ==
    \A h \in Handlers :
        /\ reader[h] = Idle /\ reader'[h] # Idle => Refreshes # {} /\ rows = <<>>
        /\ request[h] = Idle /\ request'[h].pc = "review" => request'[h].family \notin reviews
        /\ request[h] = Idle /\ request'[h].pc = "pin" => pin # latest /\ Refreshes = {}

(* One operation is canceled, and one fails, is swept or loses its worker,   *)
(* beside those whose push is rejected.                                      *)
Rejected(w) == worker[w] # Idle /\ worker[w].pc = "push" /\ ~Accepted(worker[w].sha)
FewStops ==
    LET Stopped ==
            \/ \E i \in DOMAIN ops : ops[i].job = "failed"
            \/ \E i \in DOMAIN ops : ops[i].job = "running" /\ \A w \in Workers : worker[w] = Idle \/ worker[w].i # i
            \/ \E w \in Workers : worker[w] # Idle /\ ~worker[w].ok
    IN
    /\ Cardinality({i \in DOMAIN ops' : ops'[i].op = "canceled"}) <= 1
    /\ \A i \in DOMAIN ops :
          ops[i].job = "running" /\ ops'[i].job = "failed" /\ worker' = worker => ~Stopped
    /\ \A w \in Workers : worker[w] # Idle =>
          /\ worker'[w] = Idle /\ ops' = ops => ~Stopped
          /\ worker'[w] # Idle /\ ~worker'[w].ok /\ worker[w].ok => ~Stopped \/ Rejected(w)
=============================================================================
