-------------------------- MODULE AssetGraph_proof --------------------------
(***************************************************************************)
(* Theorems about AssetGraph, for any sources, syncers and handlers, and,  *)
(* in the second part, about ReviewEvidence, the rows that are recorded    *)
(* for assets, for any assets, recorders and retention.                    *)
(*                                                                         *)
(* Ghosts: nobody who could make an asset again for a source that is gone  *)
(* knows of it (Forgotten).  Repairs: a sync that is alone finds at each   *)
(* of its stages what it wrote before (Repairs), for whatever disturbs it  *)
(* takes it out of "alone".  Evidence: every row tells what its recorder   *)
(* read, in the order the attempts are done (RowsTell).                    *)
(***************************************************************************)
EXTENDS AssetGraph, ReviewEvidence, SequenceTheorems, TLAPS

USE StatusAssumption

IdMaps == UNION {[S -> 0..2] : S \in SUBSET Sources}

(* The assets a sync has been through have ids. *)
Tidy(k) ==
    k.pc \in {"assets", "relations"} =>
        /\ k.todo \subseteq DOMAIN k.specs
        /\ \A s \in DOMAIN k.specs :
              k.pc = "relations" \/ s \notin k.todo => s \in DOMAIN k.ids /\ k.ids[s] # 0

SyncsTidy == \A y \in Syncers : Tidy(sync[y])

(* A deletion does not know of its own source. *)
DeletesOther ==
    \A h \in Handlers : request[h] # Idle /\ request[h].pc = "delete" => request[h].of \notin DOMAIN request[h].specs

(* Of a source that is gone and that nobody knew of when it went, nobody    *)
(* knows now.                                                               *)
Forgotten ==
    \A s \in Sources : source[s] = "gone" /\ s \notin overlapped => asset[s] = 0 /\ ~Knows(s)

(* No relation is both manual and derived. *)
KeysApart == derived \cap manual = {}

(* Beside a sync that is alone there are no others, and no request that     *)
(* will change the graph.                                                   *)
AloneIsAlone ==
    \A y \in alone :
        /\ sync[y] # Idle
        /\ \A x \in Syncers \ {y} : sync[x] = Idle
        /\ \A h \in Handlers : request[h].pc \in {"idle", "add"}

(* The asset of a source that is there is as its row. *)
Shown(s) == asset[s] # 0 /\ shown[s] = status[s]
Owned == {Key(s, asset[s], "owns") : s \in Live}

(* What a sync that is alone has done at each of its stages. *)
Repairs(y) ==
    /\ sync[y].pc \in {"assets", "relations"} =>
          /\ DOMAIN sync[y].specs = Live /\ \A s \in Live : sync[y].specs[s] = status[s]
          /\ DOMAIN sync[y].ids \subseteq Live /\ \A s \in DOMAIN sync[y].ids : sync[y].ids[s] = asset[s]
    /\ sync[y].pc = "assets" =>
          \A s \in Live \ sync[y].todo : s \in DOMAIN sync[y].ids /\ Shown(s)
    /\ sync[y].pc = "relations" =>
          /\ \A s \in Live : s \in DOMAIN sync[y].ids /\ Shown(s)
          /\ \A s \in Live \ sync[y].todo : Key(s, asset[s], "owns") \in derived
    /\ sync[y].pc = "prune" =>
          /\ \A s \in Live : Shown(s)
          /\ sync[y].wanted = Owned /\ Owned \subseteq derived
          /\ sync[y].todo = derived \ Owned

IInv ==
    /\ TypeOK /\ SyncsTidy /\ DeletesOther /\ Forgotten /\ KeysApart /\ AloneIsAlone
    /\ \A y \in alone : Repairs(y)

-----------------------------------------------------------------------------
(* What the operators return *)

(* What is read of some sources is one of the specs. *)
LEMMA ReadIsSpecs ==
  ASSUME TypeOK, NEW S \in SUBSET Sources
  PROVE  Read(S) \in Specs /\ DOMAIN Read(S) = S /\ \A s \in S : Read(S)[s] = status[s]
<1>1. Read(S) \in [S -> 0..MaxStatus]
  BY DEF TypeOK, Read
<1>2. QED
  BY <1>1 DEF Read, Specs

(* Nothing is of no source. *)
LEMMA NothingIsEmpty ==
  Nothing \in Specs /\ Nothing \in IdMaps /\ DOMAIN Nothing = {}
<1>1. Nothing \in [{} -> 0..MaxStatus] /\ Nothing \in [{} -> 0..2]
  BY DEF Nothing
<1>2. QED
  BY <1>1 DEF Specs, IdMaps, Nothing

(* What specs and ids are. *)
LEMMA SpecsAre ==
  /\ \A f \in Specs : DOMAIN f \subseteq Sources /\ \A s \in DOMAIN f : f[s] \in 0..MaxStatus
  /\ \A f \in IdMaps : DOMAIN f \subseteq Sources /\ \A s \in DOMAIN f : f[s] \in 0..2
<1>1. ASSUME NEW f \in Specs
      PROVE  DOMAIN f \subseteq Sources /\ \A s \in DOMAIN f : f[s] \in 0..MaxStatus
  <2>1. PICK S \in SUBSET Sources : f \in [S -> 0..MaxStatus]
    BY DEF Specs
  <2>2. QED
    BY <2>1
<1>2. ASSUME NEW f \in IdMaps
      PROVE  DOMAIN f \subseteq Sources /\ \A s \in DOMAIN f : f[s] \in 0..2
  <2>1. PICK S \in SUBSET Sources : f \in [S -> 0..2]
    BY DEF IdMaps
  <2>2. QED
    BY <2>1
<1>3. QED
  BY <1>1, <1>2

(* Ids with one more are ids. *)
LEMMA IdsWith ==
  ASSUME NEW f \in IdMaps, NEW s \in Sources, NEW id \in 0..2
  PROVE  /\ [t \in DOMAIN f \cup {s} |-> IF t = s THEN id ELSE f[t]] \in IdMaps
         /\ s \in DOMAIN f => [f EXCEPT ![s] = id] \in IdMaps
<1>1. DOMAIN f \subseteq Sources /\ \A t \in DOMAIN f : f[t] \in 0..2
  BY SpecsAre
<1>2. PICK S \in SUBSET Sources : f \in [S -> 0..2]
  BY DEF IdMaps
<1>3. [t \in DOMAIN f \cup {s} |-> IF t = s THEN id ELSE f[t]] \in [DOMAIN f \cup {s} -> 0..2]
  BY <1>1
<1>4. s \in DOMAIN f => [f EXCEPT ![s] = id] \in [S -> 0..2]
  BY <1>2
<1>5. DOMAIN f \cup {s} \in SUBSET Sources
  BY <1>1
<1>6. [t \in DOMAIN f \cup {s} |-> IF t = s THEN id ELSE f[t]] \in IdMaps
  BY <1>3, <1>5 DEF IdMaps
<1>7. QED
  BY <1>2, <1>4, <1>6 DEF IdMaps

(* A sync's record, by what it is at. *)
LEMMA SyncForms ==
  ASSUME NEW k \in Syncs
  PROVE  /\ k.pc \in {"idle", "read", "assets", "relations", "prune"}
         /\ k = Idle <=> k.pc = "idle"
         /\ k.pc \in {"assets", "relations"} =>
               k \in [pc : {"assets", "relations"}, specs : Specs, ids : IdMaps, todo : SUBSET Sources]
         /\ k.pc = "prune" => k \in [pc : {"prune"}, wanted : SUBSET Keys, todo : SUBSET Keys]
<1>1. CASE k = Idle
  BY <1>1 DEF Idle
<1>2. CASE k \in [pc : {"read"}]
  BY <1>2 DEF Idle
<1>3. CASE k \in [pc : {"assets"}, specs : Specs, ids : IdMaps, todo : SUBSET Sources]
  BY <1>3 DEF Idle
<1>4. CASE k \in [pc : {"relations"}, specs : Specs, ids : IdMaps, todo : SUBSET Sources]
  BY <1>4 DEF Idle
<1>5. CASE k \in [pc : {"prune"}, wanted : SUBSET Keys, todo : SUBSET Keys]
  BY <1>5 DEF Idle
<1>6. QED
  BY <1>1, <1>2, <1>3, <1>4, <1>5 DEF Syncs, IdMaps

(* The records a sync goes through. *)
LEMMA SyncsHold ==
  /\ Idle \in Syncs /\ [pc |-> "read"] \in Syncs
  /\ \A p \in {"assets", "relations"}, f \in Specs, g \in IdMaps, S \in SUBSET Sources :
        [pc |-> p, specs |-> f, ids |-> g, todo |-> S] \in Syncs
  /\ \A K, L \in SUBSET Keys : [pc |-> "prune", wanted |-> K, todo |-> L] \in Syncs
BY DEF Syncs, IdMaps

(* A request's record, by what it is at. *)
LEMMA RequestForms ==
  ASSUME NEW r \in Requests
  PROVE  /\ r.pc \in {"idle", "delete", "add", "save", "remove"}
         /\ r = Idle <=> r.pc = "idle"
         /\ r.pc = "delete" => r.of \in Sources
         /\ r.pc \in {"add", "save", "remove"} => r.key \in Keys
         /\ r.pc \in {"delete", "save", "remove"} => r.specs \in Specs
<1>1. CASE r = Idle
  BY <1>1 DEF Idle
<1>2. CASE r \in [pc : {"delete"}, of : Sources, specs : Specs]
  BY <1>2 DEF Idle
<1>3. CASE r \in [pc : {"add"}, key : Keys]
  BY <1>3 DEF Idle
<1>4. CASE r \in [pc : {"save", "remove"}, key : Keys, specs : Specs]
  BY <1>4 DEF Idle
<1>5. QED
  BY <1>1, <1>2, <1>3, <1>4 DEF Requests

(* Ids of assets, and keys. *)
LEMMA IdsAndKeys ==
  ASSUME TypeOK
  PROVE  /\ \A s \in Sources : NewId(s) \in 1..2 /\ IdOf(s) \in 1..2
         /\ \A s \in Sources, id \in 1..2, type \in Types : Key(s, id, type) \in Keys
         /\ \A s, id, type : /\ Key(s, id, type).of = s /\ Key(s, id, type).id = id
                            /\ Key(s, id, type).type = type
BY DEF TypeOK, NewId, IdOf, Key, Keys

(* Forgetting rows leaves each sync where it is. *)
LEMMA ForgetIs ==
  ASSUME TypeOK, NEW keys \in SUBSET Keys, sync' = Forget(keys, sync)
  PROVE  /\ sync' \in [Syncers -> Syncs]
         /\ \A y \in Syncers :
               /\ sync'[y].pc = sync[y].pc
               /\ sync[y].pc # "prune" => sync'[y] = sync[y]
               /\ sync[y].pc = "prune" => /\ sync'[y].wanted = sync[y].wanted
                                          /\ sync'[y].todo = sync[y].todo \ keys
<1>1. ASSUME NEW y \in Syncers
      PROVE  /\ sync'[y] \in Syncs /\ sync'[y].pc = sync[y].pc
             /\ sync[y].pc # "prune" => sync'[y] = sync[y]
             /\ sync[y].pc = "prune" => /\ sync'[y].wanted = sync[y].wanted
                                        /\ sync'[y].todo = sync[y].todo \ keys
  <2>1. sync[y] \in Syncs
    BY DEF TypeOK
  <2>2. CASE sync[y].pc # "prune"
    BY <2>1, <2>2 DEF Forget
  <2>3. CASE sync[y].pc = "prune"
    <3>1. sync[y] \in [pc : {"prune"}, wanted : SUBSET Keys, todo : SUBSET Keys]
      BY <2>1, <2>3, SyncForms
    <3>2. sync'[y] = [pc |-> "prune", wanted |-> sync[y].wanted, todo |-> sync[y].todo \ keys]
      BY <2>3, <3>1 DEF Forget
    <3>3. sync'[y] \in Syncs
      BY <3>1, <3>2, SyncsHold
    <3>4. QED
      BY <2>3, <3>2, <3>3
  <2>4. QED
    BY <2>2, <2>3
<1>2. QED
  BY <1>1 DEF Forget

(* A sync with fields of it changed. *)
LEMMA TurnForms ==
  ASSUME NEW j \in [pc : {"assets", "relations"}, specs : Specs, ids : IdMaps, todo : SUBSET Sources],
         NEW S \in SUBSET Sources
  PROVE  /\ [j EXCEPT !.todo = S] = [pc |-> j.pc, specs |-> j.specs, ids |-> j.ids, todo |-> S]
         /\ [j EXCEPT !.pc = "relations", !.todo = S]
              = [pc |-> "relations", specs |-> j.specs, ids |-> j.ids, todo |-> S]
<1>1. [j EXCEPT !.pc = "relations", !.todo = S] = [[j EXCEPT !.pc = "relations"] EXCEPT !.todo = S]
  OBVIOUS
<1> DEFINE k == [j EXCEPT !.pc = "relations"]
<1>2. /\ k \in [pc : {"assets", "relations"}, specs : Specs, ids : IdMaps, todo : SUBSET Sources]
      /\ k.pc = "relations" /\ k.specs = j.specs /\ k.ids = j.ids
  OBVIOUS
<1> HIDE DEF k
<1>3. [k EXCEPT !.todo = S] = [pc |-> k.pc, specs |-> k.specs, ids |-> k.ids, todo |-> S]
  BY <1>2
<1>4. [j EXCEPT !.todo = S] = [pc |-> j.pc, specs |-> j.specs, ids |-> j.ids, todo |-> S]
  OBVIOUS
<1>5. QED
  BY <1>1, <1>2, <1>3, <1>4 DEF k

(* A sync on its way through assets and relations has specs, ids and sources *)
(* to go through.                                                            *)
LEMMA UnderWay ==
  ASSUME TypeOK, NEW y \in Syncers, sync[y].pc \in {"assets", "relations"}
  PROVE  /\ sync[y] \in [pc : {"assets", "relations"}, specs : Specs, ids : IdMaps, todo : SUBSET Sources]
         /\ sync[y].specs \in Specs /\ sync[y].ids \in IdMaps /\ sync[y].todo \in SUBSET Sources
<1>1. sync[y] \in Syncs
  BY DEF TypeOK
<1>2. sync[y] \in [pc : {"assets", "relations"}, specs : Specs, ids : IdMaps, todo : SUBSET Sources]
  BY <1>1, SyncForms
<1>3. QED
  BY <1>2

(* A step of a sync, to another record in which the assets it has been      *)
(* through have ids.                                                        *)
Turn(y, k) == k \in Syncs /\ Tidy(k) /\ sync' = [sync EXCEPT ![y] = k]

(* A sync that reads the sources knows of those that are live. *)
LEMMA ReadSourcesIs ==
  ASSUME TypeOK, NEW y \in Syncers, ReadSources(y)
  PROVE  \E k : /\ Turn(y, k) /\ k.pc = "assets" /\ k.specs = Read(Live) /\ k.todo = Live
                /\ k.ids = Nothing /\ DOMAIN k.specs = Live /\ DOMAIN k.ids = {}
<1> DEFINE k == [pc |-> "assets", specs |-> Read(Live), ids |-> Nothing, todo |-> Live]
<1>1. Live \in SUBSET Sources
  BY DEF Live
<1>2. Read(Live) \in Specs /\ DOMAIN Read(Live) = Live
  BY <1>1, ReadIsSpecs
<1>3. k \in Syncs
  BY <1>1, <1>2, NothingIsEmpty, SyncsHold
<1>4. Tidy(k)
  BY <1>2 DEF Tidy
<1>5. sync' = [sync EXCEPT ![y] = k]
  BY DEF ReadSources, Set
<1>6. k.pc = "assets" /\ k.specs = Read(Live) /\ k.todo = Live /\ k.ids = Nothing
  OBVIOUS
<1> HIDE DEF k
<1>7. QED
  BY <1>2, <1>3, <1>4, <1>5, <1>6, NothingIsEmpty DEF Turn

(* One that could not read them knows of none. *)
LEMMA ReadFailsIs ==
  ASSUME TypeOK, NEW y \in Syncers, ReadFails(y)
  PROVE  \E k : Turn(y, k) /\ k.pc = "assets" /\ DOMAIN k.specs = {} /\ k.todo = {}
<1> DEFINE k == [pc |-> "assets", specs |-> Nothing, ids |-> Nothing, todo |-> {}]
<1>1. k \in Syncs
  BY NothingIsEmpty, SyncsHold
<1>2. Tidy(k)
  BY NothingIsEmpty DEF Tidy
<1>3. sync' = [sync EXCEPT ![y] = k]
  BY DEF ReadFails, Set
<1>4. k.pc = "assets" /\ k.specs = Nothing /\ k.todo = {}
  OBVIOUS
<1> HIDE DEF k
<1>5. QED
  BY <1>1, <1>2, <1>3, <1>4, NothingIsEmpty DEF Turn

(* One that looks for an asset notes its id. *)
LEMMA LookForAssetIs ==
  ASSUME TypeOK, SyncsTidy, NEW y \in Syncers, NEW s \in Sources, LookForAsset(y, s)
  PROVE  \E k : /\ Turn(y, k) /\ k.pc = "assets" /\ k.specs = sync[y].specs /\ k.todo = sync[y].todo
                /\ sync[y].pc = "assets" /\ s \in sync[y].todo /\ s \in DOMAIN sync[y].specs
                /\ DOMAIN k.ids = DOMAIN sync[y].ids \cup {s} /\ k.ids[s] = asset[s]
                /\ \A t \in DOMAIN sync[y].ids : t # s => k.ids[t] = sync[y].ids[t]
<1> DEFINE g == [t \in DOMAIN sync[y].ids \cup {s} |-> IF t = s THEN asset[s] ELSE sync[y].ids[t]]
           k == [pc |-> "assets", specs |-> sync[y].specs, ids |-> g, todo |-> sync[y].todo]
<1>1. sync[y].pc = "assets" /\ s \in sync[y].todo
  BY DEF LookForAsset, At
<1>2. /\ sync[y] \in [pc : {"assets", "relations"}, specs : Specs, ids : IdMaps, todo : SUBSET Sources]
      /\ sync[y].specs \in Specs /\ sync[y].ids \in IdMaps /\ sync[y].todo \in SUBSET Sources
  BY <1>1, UnderWay
<1>a. [sync[y] EXCEPT !.ids = g] = k
  <2> HIDE DEF g
  <2>1. QED
    BY <1>1, <1>2
<1>3. sync' = [sync EXCEPT ![y] = k]
  BY <1>a DEF LookForAsset, Set
<1>4. g \in IdMaps
  BY <1>2, IdsWith DEF TypeOK
<1>5. /\ DOMAIN g = DOMAIN sync[y].ids \cup {s} /\ g[s] = asset[s]
      /\ \A t \in DOMAIN sync[y].ids : t # s => g[t] = sync[y].ids[t]
  OBVIOUS
<1> HIDE DEF g
<1>6. k \in Syncs
  BY <1>2, <1>4, SyncsHold
<1>7. k.pc = "assets" /\ k.specs = sync[y].specs /\ k.ids = g /\ k.todo = sync[y].todo
  OBVIOUS
<1> HIDE DEF k
<1>8. Tidy(sync[y])
  BY DEF SyncsTidy
<1>9. Tidy(k)
  BY <1>1, <1>5, <1>7, <1>8 DEF Tidy
<1>10. QED
  BY <1>1, <1>3, <1>5, <1>6, <1>7, <1>8, <1>9 DEF Turn, Tidy

(* One that writes an asset has its id, unless the insert fails. *)
LEMMA WriteAssetIs ==
  ASSUME TypeOK, SyncsTidy, NEW y \in Syncers, NEW s \in Sources, WriteAsset(y, s)
  PROVE  /\ sync[y].pc = "assets" /\ s \in sync[y].todo
         /\ s \in DOMAIN sync[y].specs /\ s \in DOMAIN sync[y].ids
         /\ asset' \in [Sources -> 0..2] /\ shown' \in [Sources -> 0..MaxStatus]
         /\ \A t \in Sources \ {s} : asset'[t] = asset[t] /\ shown'[t] = shown[t]
         /\ \/ sync' = [sync EXCEPT ![y] = Idle] /\ asset[s] # sync[y].ids[s]
            \/ \E k : /\ Turn(y, k) /\ k.pc = "assets" /\ k.specs = sync[y].specs /\ k.todo = sync[y].todo \ {s}
                      /\ DOMAIN k.ids = DOMAIN sync[y].ids /\ k.ids[s] # 0
                      /\ \A t \in DOMAIN sync[y].ids : t # s => k.ids[t] = sync[y].ids[t]
                      /\ asset[s] = sync[y].ids[s] => /\ asset'[s] = k.ids[s]
                                                      /\ shown'[s] = sync[y].specs[s]
<1> DEFINE found == sync[y].ids[s]
           id == IF found = 0 THEN NewId(s) ELSE found
           mine == asset[s] = found
           g == [sync[y].ids EXCEPT ![s] = id]
           k == [pc |-> "assets", specs |-> sync[y].specs, ids |-> g, todo |-> sync[y].todo \ {s}]
<1>1. sync[y].pc = "assets" /\ s \in sync[y].todo /\ s \in DOMAIN sync[y].ids
  BY DEF WriteAsset, At
<1>2. /\ sync[y] \in [pc : {"assets", "relations"}, specs : Specs, ids : IdMaps, todo : SUBSET Sources]
      /\ sync[y].specs \in Specs /\ sync[y].ids \in IdMaps /\ sync[y].todo \in SUBSET Sources
  BY <1>1, UnderWay
<1>3. Tidy(sync[y]) /\ s \in DOMAIN sync[y].specs
  BY <1>1 DEF SyncsTidy, Tidy
<1>4. found \in 0..2 /\ id \in 1..2 /\ id \in 0..2 /\ sync[y].specs[s] \in 0..MaxStatus
  BY <1>1, <1>2, <1>3, SpecsAre, IdsAndKeys
<1>a. g \in IdMaps
  BY <1>1, <1>2, <1>4, IdsWith
<1>b. [sync[y] EXCEPT !.ids[s] = id, !.todo = sync[y].todo \ {s}] = k
  <2> HIDE DEF id
  <2> DEFINE S == sync[y].todo \ {s}
  <2>1. S \in SUBSET Sources
    BY <1>2
  <2> DEFINE j == sync[y]
  <2>2. /\ j \in [pc : {"assets", "relations"}, specs : Specs, ids : IdMaps, todo : SUBSET Sources]
        /\ g \in IdMaps /\ g = [j.ids EXCEPT ![s] = id]
    BY <1>2, <1>a
  <2> HIDE DEF S, j, g
  <2>3. [j EXCEPT !.ids[s] = id, !.todo = S] = [pc |-> j.pc, specs |-> j.specs, ids |-> g, todo |-> S]
    <3>1. [j EXCEPT !.ids[s] = id, !.todo = S] = [j EXCEPT !.ids = g, !.todo = S]
      BY <2>2
    <3>2. [j EXCEPT !.ids = g, !.todo = S] = [[j EXCEPT !.ids = g] EXCEPT !.todo = S]
      BY <2>2
    <3> DEFINE l == [j EXCEPT !.ids = g]
    <3>3. /\ l \in [pc : {"assets", "relations"}, specs : Specs, ids : IdMaps, todo : SUBSET Sources]
          /\ l.pc = j.pc /\ l.specs = j.specs /\ l.ids = g
      BY <2>2
    <3> HIDE DEF l
    <3>4. [l EXCEPT !.todo = S] = [pc |-> l.pc, specs |-> l.specs, ids |-> l.ids, todo |-> S]
      BY <2>1, <3>3, TurnForms
    <3>5. QED
      BY <3>1, <3>2, <3>3, <3>4 DEF l
  <2>4. QED
    BY <1>1, <2>3 DEF S, j
<1>5. /\ asset' = IF found = 0 /\ mine THEN [asset EXCEPT ![s] = id] ELSE asset
      /\ shown' = IF mine THEN [shown EXCEPT ![s] = sync[y].specs[s]] ELSE shown
      /\ sync' = [sync EXCEPT ![y] = IF found = 0 /\ ~mine THEN Idle ELSE k]
  BY <1>b DEF WriteAsset, Set
<1>6. /\ g \in IdMaps /\ DOMAIN g = DOMAIN sync[y].ids /\ g[s] = id
      /\ \A t \in DOMAIN sync[y].ids : t # s => g[t] = sync[y].ids[t]
  BY <1>1, <1>2, <1>a, SpecsAre
<1>7. asset' \in [Sources -> 0..2] /\ shown' \in [Sources -> 0..MaxStatus]
      /\ (\A t \in Sources \ {s} : asset'[t] = asset[t] /\ shown'[t] = shown[t])
      /\ (mine => asset'[s] = id /\ shown'[s] = sync[y].specs[s])
  BY <1>4, <1>5 DEF TypeOK
<1> HIDE DEF g, id
<1>8. k \in Syncs
  BY <1>2, <1>6, SyncsHold
<1>9. k.pc = "assets" /\ k.specs = sync[y].specs /\ k.ids = g /\ k.todo = sync[y].todo \ {s}
  OBVIOUS
<1> HIDE DEF k
<1>10. Tidy(k)
  BY <1>1, <1>3, <1>4, <1>6, <1>9 DEF Tidy
<1>11. Turn(y, k) \/ (sync' = [sync EXCEPT ![y] = Idle] /\ ~mine)
  BY <1>5, <1>8, <1>10 DEF Turn
<1>12. QED
  BY <1>1, <1>3, <1>4, <1>6, <1>7, <1>9, <1>11

(* One that has been through the assets goes on to the relations. *)
LEMMA AssetsDoneIs ==
  ASSUME TypeOK, SyncsTidy, NEW y \in Syncers, AssetsDone(y)
  PROVE  /\ sync[y].pc = "assets" /\ sync[y].todo = {}
         /\ \E k : /\ Turn(y, k) /\ k.pc = "relations" /\ k.specs = sync[y].specs /\ k.ids = sync[y].ids
                   /\ k.todo = DOMAIN sync[y].specs
<1> DEFINE S == DOMAIN sync[y].specs
           k == [pc |-> "relations", specs |-> sync[y].specs, ids |-> sync[y].ids, todo |-> S]
<1>1. sync[y].pc = "assets" /\ sync[y].todo = {}
  BY DEF AssetsDone, At
<1>2. /\ sync[y] \in [pc : {"assets", "relations"}, specs : Specs, ids : IdMaps, todo : SUBSET Sources]
      /\ sync[y].specs \in Specs /\ sync[y].ids \in IdMaps
  BY <1>1, UnderWay
<1>3. S \in SUBSET Sources
  BY <1>2, SpecsAre
<1>4. sync' = [sync EXCEPT ![y] = k]
  <2>1. sync' = [sync EXCEPT ![y] = [sync[y] EXCEPT !.pc = "relations", !.todo = S]]
    BY DEF AssetsDone, Set
  <2> HIDE DEF S
  <2>2. [sync[y] EXCEPT !.pc = "relations", !.todo = S] = k
    BY <1>2, <1>3, TurnForms
  <2>3. QED
    BY <2>1, <2>2
<1>5. k \in Syncs
  BY <1>2, <1>3, SyncsHold
<1>6. k.pc = "relations" /\ k.specs = sync[y].specs /\ k.ids = sync[y].ids /\ k.todo = DOMAIN sync[y].specs
  OBVIOUS
<1> HIDE DEF k
<1>7. Tidy(k)
  BY <1>1, <1>6 DEF SyncsTidy, Tidy
<1>8. QED
  BY <1>1, <1>4, <1>5, <1>6, <1>7 DEF Turn

(* One that relates a source has it behind it. *)
LEMMA RelateIs ==
  ASSUME TypeOK, SyncsTidy, NEW y \in Syncers, NEW s \in Sources, Relate(y, s)
  PROVE  /\ sync[y].pc = "relations" /\ s \in DOMAIN sync[y].specs /\ s \in DOMAIN sync[y].ids
         /\ sync[y].ids[s] \in 1..2 /\ Key(s, sync[y].ids[s], "owns") \in Keys
         /\ \E k : /\ Turn(y, k) /\ k.pc = "relations" /\ k.specs = sync[y].specs /\ k.ids = sync[y].ids
                   /\ k.todo = sync[y].todo \ {s}
<1> DEFINE S == sync[y].todo \ {s}
           k == [pc |-> "relations", specs |-> sync[y].specs, ids |-> sync[y].ids, todo |-> S]
<1>1. sync[y].pc = "relations" /\ s \in sync[y].todo
  BY DEF Relate, At
<1>2. /\ sync[y] \in [pc : {"assets", "relations"}, specs : Specs, ids : IdMaps, todo : SUBSET Sources]
      /\ sync[y].specs \in Specs /\ sync[y].ids \in IdMaps /\ sync[y].todo \in SUBSET Sources
  BY <1>1, UnderWay
<1>3. s \in DOMAIN sync[y].specs /\ s \in DOMAIN sync[y].ids /\ sync[y].ids[s] # 0
  BY <1>1 DEF SyncsTidy, Tidy
<1>4. sync[y].ids[s] \in 1..2
  BY <1>2, <1>3, SpecsAre
<1>5. Key(s, sync[y].ids[s], "owns") \in Keys
  BY <1>4, IdsAndKeys DEF Types
<1>6. S \in SUBSET Sources
  BY <1>2
<1>7. sync' = [sync EXCEPT ![y] = k]
  <2>1. sync' = [sync EXCEPT ![y] = [sync[y] EXCEPT !.todo = S]]
    BY DEF Relate, Set
  <2> HIDE DEF S
  <2>2. [sync[y] EXCEPT !.todo = S] = k
    BY <1>1, <1>2, <1>6, TurnForms
  <2>3. QED
    BY <2>1, <2>2
<1>8. k \in Syncs
  BY <1>2, <1>6, SyncsHold
<1>9. k.pc = "relations" /\ k.specs = sync[y].specs /\ k.ids = sync[y].ids /\ k.todo = sync[y].todo \ {s}
  OBVIOUS
<1> HIDE DEF k
<1>10. Tidy(k)
  BY <1>1, <1>9 DEF SyncsTidy, Tidy
<1>11. QED
  BY <1>1, <1>3, <1>4, <1>5, <1>7, <1>8, <1>9, <1>10 DEF Turn

(* One that has related all of its sources wants those relations. *)
LEMMA LoadRelationsIs ==
  ASSUME TypeOK, SyncsTidy, NEW y \in Syncers, LoadRelations(y)
  PROVE  /\ sync[y].pc = "relations" /\ sync[y].todo = {}
         /\ \E k : /\ Turn(y, k) /\ k.pc = "prune" /\ k.wanted = Wanted(y) /\ k.todo = derived \ Wanted(y)
<1> DEFINE k == [pc |-> "prune", wanted |-> Wanted(y), todo |-> derived \ Wanted(y)]
<1>1. sync[y].pc = "relations" /\ sync[y].todo = {}
  BY DEF LoadRelations, At
<1>2. sync[y].specs \in Specs /\ sync[y].ids \in IdMaps
  BY <1>1, UnderWay
<1>3. ASSUME NEW s \in DOMAIN sync[y].specs
      PROVE  Key(s, sync[y].ids[s], "owns") \in Keys
  <2>1. s \in Sources /\ s \in DOMAIN sync[y].ids /\ sync[y].ids[s] # 0
    BY <1>1, <1>2, SpecsAre DEF SyncsTidy, Tidy
  <2>2. sync[y].ids[s] \in 1..2
    BY <1>2, <2>1, SpecsAre
  <2>3. QED
    BY <2>1, <2>2, IdsAndKeys DEF Types
<1>4. Wanted(y) \subseteq Keys
  BY <1>3 DEF Wanted
<1>5. derived \ Wanted(y) \subseteq Keys
  BY DEF TypeOK
<1>6. k \in Syncs
  BY <1>4, <1>5, SyncsHold
<1>7. sync' = [sync EXCEPT ![y] = k]
  BY DEF LoadRelations, Set, Prunable
<1>8. Tidy(k)
  BY DEF Tidy
<1>9. k.pc = "prune" /\ k.wanted = Wanted(y) /\ k.todo = derived \ Wanted(y)
  OBVIOUS
<1> HIDE DEF k
<1>10. QED
  BY <1>1, <1>6, <1>7, <1>8, <1>9 DEF Turn

-----------------------------------------------------------------------------
(* Types *)

(* A step of a sync leaves the syncs well typed. *)
LEMMA TurnTyped ==
  ASSUME TypeOK, SyncsTidy, NEW y \in Syncers, NEW k, Turn(y, k)
  PROVE  /\ sync' \in [Syncers -> Syncs] /\ SyncsTidy' /\ sync'[y] = k
         /\ \A x \in Syncers \ {y} : sync'[x] = sync[x]
BY DEF TypeOK, SyncsTidy, Turn

(* A sync that is done or begins is tidy. *)
LEMMA RestTidy ==
  /\ \A y \in Syncers : sync' = [sync EXCEPT ![y] = Idle] => Turn(y, Idle)
  /\ \A y \in Syncers : sync' = [sync EXCEPT ![y] = [pc |-> "read"]] => Turn(y, [pc |-> "read"])
BY SyncsHold DEF Turn, Tidy, Idle

(* Forgetting keeps the syncs tidy. *)
LEMMA ForgetTidy ==
  ASSUME TypeOK, SyncsTidy, NEW keys \in SUBSET Keys, sync' = Forget(keys, sync)
  PROVE  SyncsTidy'
<1>1. ASSUME NEW y \in Syncers
      PROVE  Tidy(sync'[y])
  <2>1. CASE sync[y].pc = "prune"
    BY <2>1, ForgetIs DEF Tidy
  <2>2. CASE sync[y].pc # "prune"
    BY <2>2, ForgetIs DEF SyncsTidy
  <2>3. QED
    BY <2>1, <2>2
<1>2. QED
  BY <1>1 DEF SyncsTidy

(* A sync within a transaction leaves a well typed graph. *)
LEMMA TransactionTyped ==
  ASSUME TypeOK, SyncsTidy, NEW specs \in Specs, NEW without \in SUBSET Sources,
         NEW deleted \in SUBSET Keys, NEW added \in SUBSET Keys,
         SyncInTransaction(specs, without, deleted, added)
  PROVE  /\ asset' \in [Sources -> 0..2] /\ shown' \in [Sources -> 0..MaxStatus]
         /\ derived' \subseteq Keys /\ manual' \subseteq Keys
         /\ sync' \in [Syncers -> Syncs] /\ SyncsTidy'
         /\ \A y \in Syncers : /\ sync'[y].pc = sync[y].pc
                               /\ sync[y].pc # "prune" => sync'[y] = sync[y]
<1> DEFINE wanted == {Key(s, IdOf(s), "owns") : s \in DOMAIN specs}
<1>1. wanted \subseteq Keys
  BY SpecsAre, IdsAndKeys DEF Types
<1>2. /\ derived' = wanted /\ manual' = ((manual \cup added) \ deleted) \ wanted
      /\ sync' = Forget((derived \ wanted) \cup deleted, sync)
  BY DEF SyncInTransaction
<1> HIDE DEF wanted
<1>3. asset' \in [Sources -> 0..2]
  BY IdsAndKeys DEF SyncInTransaction, TypeOK
<1>4. shown' \in [Sources -> 0..MaxStatus]
  BY SpecsAre DEF SyncInTransaction, TypeOK
<1>5. (derived \ wanted) \cup deleted \in SUBSET Keys
  BY DEF TypeOK
<1>6. derived' \subseteq Keys /\ manual' \subseteq Keys
  BY <1>1, <1>2 DEF TypeOK
<1>7. QED
  BY <1>2, <1>3, <1>4, <1>5, <1>6, ForgetIs, ForgetTidy

(* Every step of a sync keeps the types. *)
LEMMA StepTyped ==
  ASSUME TypeOK, SyncsTidy, NEW y \in Syncers, Step(y)
  PROVE  TypeOK' /\ SyncsTidy'
<1>1. CASE \E s \in Sources : CreateSource(y, s)
  BY <1>1, RestTidy, TurnTyped DEF CreateSource, Begin, BeginAlone, TypeOK, graph
<1>2. CASE \E s \in Sources : ChangeSource(y, s)
  <2>1. PICK s \in Sources : ChangeSource(y, s)
    BY <1>2
  <2>2. status' \in [Sources -> 0..MaxStatus]
    BY <2>1 DEF ChangeSource, TypeOK
  <2>3. QED
    BY <2>1, <2>2, RestTidy, TurnTyped DEF ChangeSource, Begin, BeginAlone, TypeOK, graph
<1>3. CASE StartSync(y)
  BY <1>3, RestTidy, TurnTyped DEF StartSync, Begin, BeginAlone, TypeOK, graph, sourceRows
<1>4. CASE ReadSources(y)
  BY <1>4, ReadSourcesIs, TurnTyped DEF ReadSources, TypeOK, graph, sourceRows
<1>5. CASE ReadFails(y)
  BY <1>5, ReadFailsIs, TurnTyped DEF ReadFails, TypeOK, graph, sourceRows
<1>6. CASE \E s \in Sources : LookForAsset(y, s)
  BY <1>6, LookForAssetIs, TurnTyped DEF LookForAsset, TypeOK, graph, sourceRows
<1>7. CASE \E s \in Sources : WriteAsset(y, s)
  <2>1. PICK s \in Sources : WriteAsset(y, s)
    BY <1>7
  <2>2. asset' \in [Sources -> 0..2] /\ shown' \in [Sources -> 0..MaxStatus]
    BY <2>1, WriteAssetIs
  <2>3. \E k : Turn(y, k)
    BY <2>1, WriteAssetIs, RestTidy
  <2>4. sync' \in [Syncers -> Syncs] /\ SyncsTidy'
    BY <2>3, TurnTyped
  <2>5. QED
    BY <2>1, <2>2, <2>4 DEF WriteAsset, TypeOK, sourceRows
<1>8. CASE \E s \in Sources : Relate(y, s)
  BY <1>8, RelateIs, TurnTyped DEF Relate, TypeOK, sourceRows
<1>9. CASE AssetsDone(y)
  BY <1>9, AssetsDoneIs, TurnTyped DEF AssetsDone, TypeOK, graph, sourceRows
<1>10. CASE LoadRelations(y)
  BY <1>10, LoadRelationsIs, TurnTyped DEF LoadRelations, TypeOK, graph, sourceRows
<1>11. CASE \E key \in Keys : Prune(y, key)
  <2>1. PICK key \in Keys : Prune(y, key)
    BY <1>11
  <2>2. {key} \in SUBSET Keys /\ sync' = Forget({key}, sync)
    BY <2>1 DEF Prune
  <2>3. sync' \in [Syncers -> Syncs] /\ SyncsTidy'
    BY <2>2, ForgetIs, ForgetTidy
  <2>4. QED
    BY <2>1, <2>3 DEF Prune, TypeOK, sourceRows
<1>12. CASE EndSync(y)
  BY <1>12, RestTidy, TurnTyped DEF EndSync, Set, TypeOK, graph, sourceRows
<1>13. CASE SyncFails(y)
  BY <1>13, RestTidy, TurnTyped DEF SyncFails, Set, TypeOK, graph, sourceRows
<1>14. QED
  BY <1>1, <1>2, <1>3, <1>4, <1>5, <1>6, <1>7, <1>8, <1>9, <1>10, <1>11, <1>12, <1>13 DEF Step

(* A request that goes on holds what it read. *)
LEMMA RequestsHold ==
  /\ Idle \in Requests
  /\ \A s \in Sources, f \in Specs : [pc |-> "delete", of |-> s, specs |-> f] \in Requests
  /\ \A key \in Keys : [pc |-> "add", key |-> key] \in Requests
  /\ \A key \in Keys, f \in Specs, p \in {"save", "remove"} : [pc |-> p, key |-> key, specs |-> f] \in Requests
BY DEF Requests

(* Every step of a request keeps the types. *)
LEMMA ServeTyped ==
  ASSUME TypeOK, SyncsTidy, NEW h \in Handlers, Serve(h)
  PROVE  TypeOK' /\ SyncsTidy'
<1>a. request[h] \in Requests /\ Live \in SUBSET Sources /\ Read(Live) \in Specs
  BY ReadIsSpecs DEF TypeOK, Live
<1>1. CASE \E s \in Sources : DeleteSource(h, s)
  <2>1. PICK s \in Sources : DeleteSource(h, s)
    BY <1>1
  <2>2. Read(ReadWithout(s)) \in Specs
    BY ReadIsSpecs DEF ReadWithout, Live
  <2>3. request' \in [Handlers -> Requests]
    BY <2>1, <2>2, RequestsHold DEF DeleteSource, Goto, TypeOK
  <2>4. QED
    BY <2>1, <2>3 DEF DeleteSource, TypeOK, graph, sourceRows, SyncsTidy
<1>2. CASE CommitDelete(h)
  <2> DEFINE s == request[h].of
             dead == {key \in derived \cup manual : key.of = s /\ key.id = asset[s]}
  <2>1. s \in Sources /\ request[h].specs \in Specs
    BY <1>a, <1>2, RequestForms DEF CommitDelete
  <2>2. /\ source' = [source EXCEPT ![s] = "gone"] /\ SyncInTransaction(request[h].specs, {s}, dead, {})
        /\ overlapped' = overlapped \cup {t \in Sources : t = s /\ Knows(s)}
    BY <1>2 DEF CommitDelete
  <2>3. dead \in SUBSET Keys /\ {s} \in SUBSET Sources /\ {} \in SUBSET Keys
    BY <2>1 DEF TypeOK
  <2>4. request' \in [Handlers -> Requests] /\ UNCHANGED status /\ alone' = {}
    BY <1>2, RequestsHold DEF CommitDelete, Goto, TypeOK
  <2>5. source' \in [Sources -> {"unborn", "live", "gone"}] /\ overlapped' \subseteq Sources
    BY <2>1, <2>2 DEF TypeOK
  <2> HIDE DEF s, dead
  <2>6. QED
    BY <2>1, <2>2, <2>3, <2>4, <2>5, TransactionTyped DEF TypeOK
<1>3. CASE \E s \in Sources, type \in Types : LoadAssets(h, s, type)
  <2>1. PICK s \in Sources, type \in Types : LoadAssets(h, s, type)
    BY <1>3
  <2>2. asset[s] \in 1..2
    BY <2>1 DEF LoadAssets, TypeOK
  <2>3. request' \in [Handlers -> Requests]
    BY <2>1, <2>2, IdsAndKeys, RequestsHold DEF LoadAssets, Goto, TypeOK
  <2>4. QED
    BY <2>1, <2>3 DEF LoadAssets, TypeOK, graph, sourceRows, SyncsTidy
<1>4. CASE SaveRelation(h)
  <2>1. request[h].key \in Keys
    BY <1>a, <1>4, RequestForms DEF SaveRelation
  <2>2. request' \in [Handlers -> Requests]
    BY <1>a, <1>4, <2>1, RequestsHold DEF SaveRelation, Goto, TypeOK
  <2>3. QED
    BY <1>4, <2>2 DEF SaveRelation, TypeOK, graph, sourceRows, SyncsTidy
<1>5. CASE CommitRelation(h)
  <2>1. request[h].key \in Keys /\ request[h].specs \in Specs
    BY <1>a, <1>5, RequestForms DEF CommitRelation
  <2>2. SyncInTransaction(request[h].specs, {}, {}, {request[h].key})
    BY <1>5 DEF CommitRelation
  <2>3. {request[h].key} \in SUBSET Keys /\ {} \in SUBSET Keys /\ {} \in SUBSET Sources
    BY <2>1
  <2>4. request' \in [Handlers -> Requests] /\ UNCHANGED <<source, status, overlapped>> /\ alone' = {}
    BY <1>5, RequestsHold DEF CommitRelation, Goto, TypeOK, sourceRows
  <2>5. QED
    BY <2>1, <2>2, <2>3, <2>4, TransactionTyped DEF TypeOK
<1>6. CASE \E key \in Keys : RemoveRelation(h, key)
  <2>1. PICK key \in Keys : RemoveRelation(h, key)
    BY <1>6
  <2>2. request' \in [Handlers -> Requests]
    BY <1>a, <2>1, RequestsHold DEF RemoveRelation, Goto, TypeOK
  <2>3. QED
    BY <2>1, <2>2 DEF RemoveRelation, TypeOK, graph, sourceRows, SyncsTidy
<1>7. CASE CommitRemoval(h)
  <2>1. request[h].key \in Keys /\ request[h].specs \in Specs
    BY <1>a, <1>7, RequestForms DEF CommitRemoval
  <2>2. SyncInTransaction(request[h].specs, {}, {request[h].key}, {})
    BY <1>7 DEF CommitRemoval
  <2>3. {request[h].key} \in SUBSET Keys /\ {} \in SUBSET Keys /\ {} \in SUBSET Sources
    BY <2>1
  <2>4. request' \in [Handlers -> Requests] /\ UNCHANGED <<source, status, overlapped>> /\ alone' = {}
    BY <1>7, RequestsHold DEF CommitRemoval, Goto, TypeOK, sourceRows
  <2>5. QED
    BY <2>1, <2>2, <2>3, <2>4, TransactionTyped DEF TypeOK
<1>8. CASE RequestFails(h)
  BY <1>8, RequestsHold DEF RequestFails, Goto, TypeOK, graph, sourceRows, SyncsTidy
<1>9. QED
  BY <1>1, <1>2, <1>3, <1>4, <1>5, <1>6, <1>7, <1>8 DEF Serve

(* A heartbeat keeps the types. *)
LEMMA HeartbeatTyped ==
  ASSUME TypeOK, SyncsTidy, Heartbeat
  PROVE  TypeOK' /\ SyncsTidy'
<1>1. derived \in SUBSET Keys /\ sync' = Forget(derived, sync)
  BY DEF TypeOK, Heartbeat
<1>2. QED
  BY <1>1, ForgetIs, ForgetTidy DEF Heartbeat, TypeOK, sourceRows

(* Types are kept, and so is the order of each sync. *)
LEMMA TypesKept ==
  ASSUME TypeOK, SyncsTidy, [Next]_vars
  PROVE  TypeOK' /\ SyncsTidy'
<1>1. CASE UNCHANGED vars
  BY <1>1 DEF vars, sourceRows, graph, TypeOK, SyncsTidy
<1>2. QED
  BY <1>1, StepTyped, ServeTyped, HeartbeatTyped DEF Next

-----------------------------------------------------------------------------
(* Who knows of a source *)

(* A sync that goes on knows of no more sources than it reads.              *)
LEMMA TurnKnows ==
  ASSUME TypeOK, NEW y \in Syncers, NEW k, Turn(y, k), request' = request, NEW s,
         k.pc \in {"assets", "relations"} /\ s \in DOMAIN k.specs => Knows(s)
  PROVE  Knows(s)' => Knows(s)
BY DEF Knows, Turn, TypeOK

(* A request that goes on knows of no more sources than it reads. *)
LEMMA ServeKnows ==
  ASSUME TypeOK, NEW h \in Handlers, NEW r, request' = [request EXCEPT ![h] = r], NEW s,
         \A y \in Syncers : sync'[y].pc = sync[y].pc /\ (sync[y].pc # "prune" => sync'[y] = sync[y]),
         /\ r.pc \in {"save", "remove", "delete"} /\ s \in DOMAIN r.specs /\ ~(r.pc = "delete" /\ r.of = s)
            => Knows(s)
  PROVE  Knows(s)' => Knows(s)
<1>1. SUFFICES ASSUME Knows(s)' PROVE Knows(s)
  OBVIOUS
<1>2. CASE \E y \in Syncers : sync'[y].pc \in {"assets", "relations"} /\ s \in DOMAIN sync'[y].specs
  BY <1>2 DEF Knows
<1>3. CASE \E g \in Handlers : request'[g].pc \in {"save", "remove", "delete"}
              /\ s \in DOMAIN request'[g].specs /\ ~(request'[g].pc = "delete" /\ request'[g].of = s)
  <2>1. PICK g \in Handlers : request'[g].pc \in {"save", "remove", "delete"}
              /\ s \in DOMAIN request'[g].specs /\ ~(request'[g].pc = "delete" /\ request'[g].of = s)
    BY <1>3
  <2>2. CASE g = h
    BY <2>1, <2>2 DEF TypeOK
  <2>3. CASE g # h
    BY <2>1, <2>3 DEF Knows, TypeOK
  <2>4. QED
    BY <2>2, <2>3
<1>4. QED
  BY <1>1, <1>2, <1>3 DEF Knows

(* A sync makes no asset of a source that it does not know of. *)
LEMMA StepForgets ==
  ASSUME TypeOK, SyncsTidy, Forgotten, NEW y \in Syncers, Step(y)
  PROVE  Forgotten'
<1> SUFFICES ASSUME NEW s \in Sources, source'[s] = "gone", s \notin overlapped'
             PROVE  asset'[s] = 0 /\ ~Knows(s)'
  BY DEF Forgotten
<1>1. ASSUME NEW t \in Sources, CreateSource(y, t)
      PROVE  asset'[s] = 0 /\ ~Knows(s)'
  <2>1. source[s] = "gone" /\ overlapped' = overlapped /\ request' = request /\ asset' = asset
    BY <1>1 DEF CreateSource, TypeOK, graph
  <2>2. Turn(y, [pc |-> "read"])
    BY <1>1, RestTidy DEF CreateSource, Begin
  <2>3. QED
    BY <2>1, <2>2, TurnKnows DEF Forgotten
<1>2. ASSUME source' = source, overlapped' = overlapped, request' = request, asset' = asset,
             NEW k, Turn(y, k), k.pc \in {"assets", "relations"} => s \notin DOMAIN k.specs \/ Knows(s)
      PROVE  asset'[s] = 0 /\ ~Knows(s)'
  BY <1>2, TurnKnows DEF Forgotten
<1>3. CASE \E t \in Sources : ChangeSource(y, t)
  <2>1. Turn(y, [pc |-> "read"])
    BY <1>3, RestTidy DEF ChangeSource, Begin
  <2>2. QED
    BY <1>2, <1>3, <2>1 DEF ChangeSource, graph
<1>4. CASE StartSync(y)
  <2>1. Turn(y, [pc |-> "read"])
    BY <1>4, RestTidy DEF StartSync, Begin
  <2>2. QED
    BY <1>2, <1>4, <2>1 DEF StartSync, graph, sourceRows
<1>5. CASE ReadSources(y)
  <2>1. source' = source /\ overlapped' = overlapped /\ request' = request /\ asset' = asset
    BY <1>5 DEF ReadSources, graph, sourceRows
  <2>2. PICK k : Turn(y, k) /\ DOMAIN k.specs = Live
    BY <1>5, ReadSourcesIs
  <2>3. s \notin DOMAIN k.specs
    BY <2>1, <2>2 DEF Live
  <2>4. QED
    BY <1>2, <2>1, <2>2, <2>3
<1>6. CASE ReadFails(y)
  <2>1. source' = source /\ overlapped' = overlapped /\ request' = request /\ asset' = asset
    BY <1>6 DEF ReadFails, graph, sourceRows
  <2>2. PICK k : Turn(y, k) /\ DOMAIN k.specs = {}
    BY <1>6, ReadFailsIs
  <2>3. QED
    BY <1>2, <2>1, <2>2
<1>7. ASSUME NEW t \in Sources, LookForAsset(y, t)
      PROVE  asset'[s] = 0 /\ ~Knows(s)'
  <2>1. source' = source /\ overlapped' = overlapped /\ request' = request /\ asset' = asset
    BY <1>7 DEF LookForAsset, graph, sourceRows
  <2>2. PICK k : Turn(y, k) /\ k.specs = sync[y].specs /\ sync[y].pc = "assets"
    BY <1>7, LookForAssetIs
  <2>3. QED
    BY <1>2, <2>1, <2>2 DEF Knows
<1>8. ASSUME NEW t \in Sources, WriteAsset(y, t)
      PROVE  asset'[s] = 0 /\ ~Knows(s)'
  <2>1. source' = source /\ overlapped' = overlapped /\ request' = request
    BY <1>8 DEF WriteAsset, sourceRows
  <2>2. /\ sync[y].pc = "assets" /\ t \in DOMAIN sync[y].specs
        /\ \A x \in Sources \ {t} : asset'[x] = asset[x]
        /\ \/ sync' = [sync EXCEPT ![y] = Idle]
           \/ \E k : Turn(y, k) /\ k.specs = sync[y].specs
    BY <1>8, WriteAssetIs
  <2>3. Knows(t)
    BY <2>2 DEF Knows
  <2>4. s # t /\ asset'[s] = 0 /\ ~Knows(s)
    BY <2>1, <2>2, <2>3 DEF Forgotten
  <2>5. PICK k : Turn(y, k) /\ (k.pc = "idle" \/ k.specs = sync[y].specs)
    BY <2>2, RestTidy DEF Idle
  <2>6. k.pc \in {"assets", "relations"} /\ s \in DOMAIN k.specs => Knows(s)
    BY <2>2, <2>5 DEF Knows
  <2>7. QED
    BY <2>1, <2>4, <2>5, <2>6, TurnKnows
<1>9. ASSUME NEW t \in Sources, Relate(y, t)
      PROVE  asset'[s] = 0 /\ ~Knows(s)'
  <2>1. source' = source /\ overlapped' = overlapped /\ request' = request /\ asset' = asset
    BY <1>9 DEF Relate, sourceRows
  <2>2. PICK k : Turn(y, k) /\ k.specs = sync[y].specs /\ sync[y].pc = "relations"
    BY <1>9, RelateIs
  <2>3. QED
    BY <1>2, <2>1, <2>2 DEF Knows
<1>10. CASE AssetsDone(y)
  <2>1. source' = source /\ overlapped' = overlapped /\ request' = request /\ asset' = asset
    BY <1>10 DEF AssetsDone, graph, sourceRows
  <2>2. PICK k : Turn(y, k) /\ k.specs = sync[y].specs /\ sync[y].pc = "assets"
    BY <1>10, AssetsDoneIs
  <2>3. QED
    BY <1>2, <2>1, <2>2 DEF Knows
<1>11. CASE LoadRelations(y)
  <2>1. source' = source /\ overlapped' = overlapped /\ request' = request /\ asset' = asset
    BY <1>11 DEF LoadRelations, graph, sourceRows
  <2>2. PICK k : Turn(y, k) /\ k.pc = "prune"
    BY <1>11, LoadRelationsIs
  <2>3. QED
    BY <1>2, <2>1, <2>2
<1>12. ASSUME NEW key \in Keys, Prune(y, key)
       PROVE  asset'[s] = 0 /\ ~Knows(s)'
  <2>1. source' = source /\ overlapped' = overlapped /\ request' = request /\ asset' = asset
    BY <1>12 DEF Prune, sourceRows
  <2>2. {key} \in SUBSET Keys /\ sync' = Forget({key}, sync)
    BY <1>12 DEF Prune
  <2>3. \A x \in Syncers : sync'[x].pc = sync[x].pc /\ (sync[x].pc # "prune" => sync'[x] = sync[x])
    BY <2>2, ForgetIs
  <2>4. Knows(s)' => Knows(s)
    BY <2>1, <2>3 DEF Knows
  <2>5. QED
    BY <2>1, <2>4 DEF Forgotten
<1>13. CASE EndSync(y) \/ SyncFails(y)
  <2>1. source' = source /\ overlapped' = overlapped /\ request' = request /\ asset' = asset
    BY <1>13 DEF EndSync, SyncFails, graph, sourceRows
  <2>2. Turn(y, Idle) /\ Idle.pc = "idle"
    BY <1>13, RestTidy DEF EndSync, SyncFails, Set, Idle
  <2>3. QED
    BY <1>2, <2>1, <2>2
<1>14. QED
  BY <1>1, <1>3, <1>4, <1>5, <1>6, <1>7, <1>8, <1>9, <1>10, <1>11, <1>12, <1>13 DEF Step

(* A transaction makes assets of the sources it knows of only. *)
LEMMA TransactionMakes ==
  ASSUME NEW specs, NEW without, NEW deleted, NEW added, SyncInTransaction(specs, without, deleted, added),
         NEW s \in Sources, s \notin DOMAIN specs
  PROVE  asset'[s] = IF s \in without THEN 0 ELSE asset[s]
BY DEF SyncInTransaction

(* Requests that commit forget what they knew. *)
LEMMA CommitForgets ==
  ASSUME TypeOK, SyncsTidy, Forgotten, NEW h \in Handlers, NEW specs \in Specs,
         NEW without \in SUBSET Sources, NEW deleted \in SUBSET Keys, NEW added \in SUBSET Keys,
         SyncInTransaction(specs, without, deleted, added), Goto(h, Idle),
         NEW s \in Sources, s \in DOMAIN specs => Knows(s),
         source[s] = "gone" /\ s \notin overlapped
  PROVE  asset'[s] = 0 /\ ~Knows(s)'
<1>1. asset[s] = 0 /\ ~Knows(s)
  BY DEF Forgotten
<1>2. asset'[s] = 0
  BY <1>1, TransactionMakes
<1>3. \A y \in Syncers : sync'[y].pc = sync[y].pc /\ (sync[y].pc # "prune" => sync'[y] = sync[y])
  BY TransactionTyped
<1>a. Idle.pc = "idle"
  BY DEF Idle
<1>4. Knows(s)' => Knows(s)
  BY <1>3, <1>a, ServeKnows DEF Goto
<1>5. QED
  BY <1>1, <1>2, <1>4

(* So do all requests. *)
LEMMA ServeForgets ==
  ASSUME TypeOK, SyncsTidy, DeletesOther, Forgotten, NEW h \in Handlers, Serve(h)
  PROVE  Forgotten'
<1> SUFFICES ASSUME NEW s \in Sources, source'[s] = "gone", s \notin overlapped'
             PROVE  asset'[s] = 0 /\ ~Knows(s)'
  BY DEF Forgotten
<1>a. request[h] \in Requests
  BY DEF TypeOK
<1>1. ASSUME source' = source, overlapped' = overlapped, sync' = sync, asset' = asset,
             NEW r, Goto(h, r), r.pc \in {"idle", "add"} \/ s \notin DOMAIN r.specs
      PROVE  asset'[s] = 0 /\ ~Knows(s)'
  <2>1. Knows(s)' => Knows(s)
    BY <1>1, ServeKnows DEF Goto
  <2>2. QED
    BY <1>1, <2>1 DEF Forgotten
<1>2. source' = source => s \notin DOMAIN Read(Live)
  BY DEF Read, Live
<1>3. ASSUME NEW t \in Sources, DeleteSource(h, t)
      PROVE  asset'[s] = 0 /\ ~Knows(s)'
  <2> DEFINE r == [pc |-> "delete", of |-> t, specs |-> Read(ReadWithout(t))]
  <2>1. source' = source /\ overlapped' = overlapped /\ sync' = sync /\ asset' = asset /\ Goto(h, r)
    BY <1>3 DEF DeleteSource, sourceRows, graph
  <2>2. s \notin DOMAIN r.specs
    BY <2>1 DEF Read, ReadWithout, Live
  <2> HIDE DEF r
  <2>3. QED
    BY <1>1, <2>1, <2>2
<1>4. CASE CommitDelete(h)
  <2> DEFINE t == request[h].of
             dead == {key \in derived \cup manual : key.of = t /\ key.id = asset[t]}
  <2>1. t \in Sources /\ request[h].specs \in Specs /\ t \notin DOMAIN request[h].specs /\ request[h] # Idle
        /\ request[h].pc = "delete"
    BY <1>a, <1>4, RequestForms DEF CommitDelete, DeletesOther, Idle
  <2>2. /\ source' = [source EXCEPT ![t] = "gone"] /\ SyncInTransaction(request[h].specs, {t}, dead, {})
        /\ overlapped' = overlapped \cup {x \in Sources : x = t /\ Knows(t)} /\ Goto(h, Idle)
    BY <1>4 DEF CommitDelete
  <2>3. dead \in SUBSET Keys /\ {t} \in SUBSET Sources /\ {} \in SUBSET Keys
    BY <2>1 DEF TypeOK
  <2> HIDE DEF t, dead
  <2>4. CASE s = t
    <3>1. ~Knows(s)
      BY <2>2, <2>4
    <3>2. asset'[s] = 0
      BY <2>1, <2>2, <2>4, TransactionMakes
    <3>3. \A y \in Syncers : sync'[y].pc = sync[y].pc /\ (sync[y].pc # "prune" => sync'[y] = sync[y])
      BY <2>1, <2>2, <2>3, TransactionTyped
    <3>a. Idle.pc = "idle"
      BY DEF Idle
    <3>4. Knows(s)' => Knows(s)
      BY <2>2, <3>3, <3>a, ServeKnows DEF Goto
    <3>5. QED
      BY <3>1, <3>2, <3>4
  <2>5. CASE s # t
    <3>1. source[s] = "gone" /\ s \notin overlapped
      BY <2>2, <2>5 DEF TypeOK
    <3>2. s \in DOMAIN request[h].specs => Knows(s)
      BY <2>1, <2>5 DEF Knows, t
    <3>3. QED
      BY <2>1, <2>2, <2>3, <3>1, <3>2, CommitForgets
  <2>6. QED
    BY <2>4, <2>5
<1>5. ASSUME NEW t \in Sources, NEW type \in Types, LoadAssets(h, t, type)
      PROVE  asset'[s] = 0 /\ ~Knows(s)'
  <2> DEFINE r == [pc |-> "add", key |-> Key(t, asset[t], type)]
  <2>1. source' = source /\ overlapped' = overlapped /\ sync' = sync /\ asset' = asset /\ Goto(h, r)
    BY <1>5 DEF LoadAssets, sourceRows, graph
  <2>2. r.pc = "add"
    OBVIOUS
  <2> HIDE DEF r
  <2>3. QED
    BY <1>1, <2>1, <2>2
<1>6. CASE SaveRelation(h)
  <2> DEFINE r == [pc |-> "save", key |-> request[h].key, specs |-> Read(Live)]
  <2>1. source' = source /\ overlapped' = overlapped /\ sync' = sync /\ asset' = asset /\ Goto(h, r)
    BY <1>6 DEF SaveRelation, sourceRows, graph
  <2>2. r.specs = Read(Live)
    OBVIOUS
  <2> HIDE DEF r
  <2>3. QED
    BY <1>1, <1>2, <2>1, <2>2
<1>7. ASSUME NEW key \in Keys, RemoveRelation(h, key)
      PROVE  asset'[s] = 0 /\ ~Knows(s)'
  <2> DEFINE r == [pc |-> "remove", key |-> key, specs |-> Read(Live)]
  <2>1. source' = source /\ overlapped' = overlapped /\ sync' = sync /\ asset' = asset /\ Goto(h, r)
    BY <1>7 DEF RemoveRelation, sourceRows, graph
  <2>2. r.specs = Read(Live)
    OBVIOUS
  <2> HIDE DEF r
  <2>3. QED
    BY <1>1, <1>2, <2>1, <2>2
<1>8. CASE CommitRelation(h) \/ CommitRemoval(h)
  <2>1. /\ request[h].key \in Keys /\ request[h].specs \in Specs /\ request[h].pc \in {"save", "remove"}
        /\ UNCHANGED <<source, overlapped>> /\ Goto(h, Idle)
    BY <1>a, <1>8, RequestForms DEF CommitRelation, CommitRemoval, sourceRows
  <2>2. s \in DOMAIN request[h].specs => Knows(s)
    BY <2>1 DEF Knows
  <2>3. {request[h].key} \in SUBSET Keys /\ {} \in SUBSET Keys /\ {} \in SUBSET Sources
    BY <2>1
  <2>4. \/ SyncInTransaction(request[h].specs, {}, {}, {request[h].key})
        \/ SyncInTransaction(request[h].specs, {}, {request[h].key}, {})
    BY <1>8 DEF CommitRelation, CommitRemoval
  <2>5. QED
    BY <2>1, <2>2, <2>3, <2>4, CommitForgets
<1>9. CASE RequestFails(h)
  BY <1>1, <1>9 DEF RequestFails, Idle, sourceRows, graph
<1>10. QED
  BY <1>3, <1>4, <1>5, <1>6, <1>7, <1>8, <1>9 DEF Serve

(* A source that is gone and that nobody knew of stays so. *)
LEMMA ForgottenKept ==
  ASSUME TypeOK, SyncsTidy, DeletesOther, Forgotten, [Next]_vars
  PROVE  Forgotten'
<1>1. CASE UNCHANGED vars
  BY <1>1 DEF vars, sourceRows, graph, Forgotten, Knows
<1>2. CASE Heartbeat
  <2>1. /\ source' = source /\ overlapped' = overlapped /\ request' = request /\ asset' = asset
        /\ derived \in SUBSET Keys /\ sync' = Forget(derived, sync)
    BY <1>2 DEF Heartbeat, sourceRows, TypeOK
  <2>2. \A x \in Syncers : sync'[x].pc = sync[x].pc /\ (sync[x].pc # "prune" => sync'[x] = sync[x])
    BY <2>1, ForgetIs
  <2>3. QED
    BY <2>1, <2>2 DEF Forgotten, Knows
<1>3. QED
  BY <1>1, <1>2, StepForgets, ServeForgets DEF Next

(* A deletion never reads its own source. *)
LEMMA DeletesOtherKept ==
  ASSUME TypeOK, DeletesOther, [Next]_vars
  PROVE  DeletesOther'
<1>1. CASE request' = request
  BY <1>1 DEF DeletesOther
<1>2. ASSUME NEW h \in Handlers, NEW r, request' = [request EXCEPT ![h] = r],
             r.pc = "delete" => r.of \notin DOMAIN r.specs
      PROVE  DeletesOther'
  BY <1>2 DEF DeletesOther, TypeOK
<1>3. ASSUME NEW h \in Handlers, NEW s \in Sources, DeleteSource(h, s)
      PROVE  DeletesOther'
  <2> DEFINE r == [pc |-> "delete", of |-> s, specs |-> Read(ReadWithout(s))]
  <2>1. request' = [request EXCEPT ![h] = r] /\ r.of \notin DOMAIN r.specs
    BY <1>3 DEF DeleteSource, Goto, Read, ReadWithout
  <2> HIDE DEF r
  <2>2. QED
    BY <1>2, <2>1
<1>4. ASSUME NEW h \in Handlers, Serve(h)
      PROVE  DeletesOther'
  BY <1>2, <1>3, <1>4 DEF Serve, CommitDelete, LoadAssets, SaveRelation, CommitRelation, RemoveRelation,
       CommitRemoval, RequestFails, Goto, Idle
<1>5. ASSUME NEW y \in Syncers, Step(y)
      PROVE  request' = request
  BY <1>5 DEF Step, CreateSource, ChangeSource, StartSync, ReadSources, ReadFails, LookForAsset, WriteAsset,
       Relate, AssetsDone, LoadRelations, Prune, EndSync, SyncFails
<1>6. QED
  BY <1>1, <1>4, <1>5 DEF Next, Heartbeat, vars

-----------------------------------------------------------------------------
(* Relations are manual or derived *)

(* No step makes a relation both. *)
LEMMA KeysApartKept ==
  ASSUME TypeOK, KeysApart, [Next]_vars
  PROVE  KeysApart'
<1>1. CASE derived' = derived /\ manual' = manual
  BY <1>1 DEF KeysApart
<1>2. ASSUME NEW specs, NEW without, NEW deleted, NEW added, SyncInTransaction(specs, without, deleted, added)
      PROVE  KeysApart'
  BY <1>2 DEF SyncInTransaction, KeysApart
<1>3. ASSUME NEW y \in Syncers, Step(y)
      PROVE  KeysApart'
  <2>1. CASE \E s \in Sources : Relate(y, s)
    BY <2>1 DEF Relate, KeysApart
  <2>2. CASE \E key \in Keys : Prune(y, key)
    BY <2>2 DEF Prune, KeysApart
  <2>3. CASE \E s \in Sources : WriteAsset(y, s)
    BY <1>1, <2>3 DEF WriteAsset
  <2>4. QED
    BY <1>1, <1>3, <2>1, <2>2, <2>3 DEF Step, CreateSource, ChangeSource, StartSync, ReadSources, ReadFails,
         LookForAsset, AssetsDone, LoadRelations, EndSync, SyncFails, graph
<1>4. ASSUME NEW h \in Handlers, Serve(h)
      PROVE  KeysApart'
  <2>1. CASE CommitDelete(h) \/ CommitRelation(h) \/ CommitRemoval(h)
    BY <1>2, <2>1 DEF CommitDelete, CommitRelation, CommitRemoval
  <2>2. QED
    BY <1>1, <1>4, <2>1 DEF Serve, DeleteSource, LoadAssets, SaveRelation, RemoveRelation, RequestFails, graph
<1>5. QED
  BY <1>1, <1>3, <1>4 DEF Next, Heartbeat, KeysApart, vars, graph

-----------------------------------------------------------------------------
(* A sync that is alone *)

(* A step of a sync is that of the one that is alone, if one is. *)
LEMMA AloneTurn ==
  ASSUME IInv, NEW y \in Syncers, sync[y] # Idle, alone' \subseteq alone, request' = request,
         \A x \in Syncers \ {y} : sync[x] = Idle => sync'[x] = Idle,
         y \in alone' => sync'[y] # Idle /\ Repairs(y)'
  PROVE  AloneIsAlone' /\ \A z \in alone' : Repairs(z)'
<1>1. \A z \in alone' : z = y
  BY DEF IInv, AloneIsAlone, TypeOK
<1>2. \A z \in alone' : z \in alone
  OBVIOUS
<1>3. QED
  BY <1>1, <1>2 DEF IInv, AloneIsAlone

(* A sync begins: nothing is under way beside it, or it is not alone. *)
LEMMA AloneBegins ==
  ASSUME IInv, NEW y \in Syncers, Begin(y), BeginAlone(y), request' = request
  PROVE  AloneIsAlone' /\ \A z \in alone' : Repairs(z)'
<1>1. /\ sync'[y] = [pc |-> "read"] /\ \A x \in Syncers \ {y} : sync'[x] = sync[x]
  BY DEF Begin, IInv, TypeOK
<1>2. alone' \subseteq {y}
  BY DEF BeginAlone
<1>3. sync'[y].pc = "read" /\ sync'[y] # Idle
  BY <1>1 DEF Idle
<1>4. Repairs(y)'
  BY <1>3 DEF Repairs
<1>5. alone' # {} => /\ \A x \in Syncers : sync[x] = Idle
                     /\ \A h \in Handlers : request[h].pc = "idle"
  BY DEF BeginAlone, Idle
<1>6. QED
  BY <1>1, <1>2, <1>3, <1>4, <1>5 DEF AloneIsAlone

(* It reads the sources that are live.                                     *)
LEMMA AloneReads ==
  ASSUME IInv, NEW y \in Syncers, ReadSources(y)
  PROVE  sync'[y] # Idle /\ Repairs(y)'
<1>1. PICK k : Turn(y, k) /\ k.pc = "assets" /\ k.specs = Read(Live) /\ k.todo = Live /\ DOMAIN k.ids = {}
  BY ReadSourcesIs DEF IInv
<1>2. sync'[y] = k /\ UNCHANGED <<source, status, asset, shown, derived>>
  BY <1>1 DEF Turn, IInv, TypeOK, ReadSources, sourceRows, graph
<1>3. Live' = Live
  BY <1>2 DEF Live
<1>4. QED
  BY <1>1, <1>2, <1>3 DEF Repairs, Read, Idle

(* It finds the id of an asset, and nobody makes another.                   *)
LEMMA AloneLooks ==
  ASSUME IInv, NEW y \in alone, NEW s \in Sources, LookForAsset(y, s)
  PROVE  sync'[y] # Idle /\ Repairs(y)'
<1>0. y \in Syncers /\ Repairs(y)
  BY DEF IInv, TypeOK
<1>1. PICK k : /\ Turn(y, k) /\ k.pc = "assets" /\ k.specs = sync[y].specs /\ k.todo = sync[y].todo
               /\ sync[y].pc = "assets" /\ s \in sync[y].todo /\ s \in DOMAIN sync[y].specs
               /\ DOMAIN k.ids = DOMAIN sync[y].ids \cup {s} /\ k.ids[s] = asset[s]
               /\ \A t \in DOMAIN sync[y].ids : t # s => k.ids[t] = sync[y].ids[t]
  BY <1>0, LookForAssetIs DEF IInv
<1>2. sync'[y] = k /\ UNCHANGED <<source, status, asset, shown, derived>>
  BY <1>0, <1>1 DEF Turn, IInv, TypeOK, LookForAsset, sourceRows, graph
<1>3. Live' = Live
  BY <1>2 DEF Live
<1>4. QED
  BY <1>0, <1>1, <1>2, <1>3 DEF Repairs, Shown, Idle

(* It writes the asset it found.                                            *)
LEMMA AloneWrites ==
  ASSUME IInv, NEW y \in alone, NEW s \in Sources, WriteAsset(y, s)
  PROVE  sync'[y] # Idle /\ Repairs(y)'
<1>0. y \in Syncers /\ Repairs(y)
  BY DEF IInv, TypeOK
<1>1. /\ sync[y].pc = "assets" /\ s \in sync[y].todo /\ s \in DOMAIN sync[y].specs /\ s \in DOMAIN sync[y].ids
      /\ \A t \in Sources \ {s} : asset'[t] = asset[t] /\ shown'[t] = shown[t]
  BY <1>0, WriteAssetIs DEF IInv
<1>2. asset[s] = sync[y].ids[s] /\ s \in Live /\ sync[y].specs[s] = status[s]
  BY <1>0, <1>1 DEF Repairs
<1>3. PICK k : /\ Turn(y, k) /\ k.pc = "assets" /\ k.specs = sync[y].specs /\ k.todo = sync[y].todo \ {s}
               /\ DOMAIN k.ids = DOMAIN sync[y].ids /\ k.ids[s] # 0
               /\ \A t \in DOMAIN sync[y].ids : t # s => k.ids[t] = sync[y].ids[t]
               /\ asset'[s] = k.ids[s] /\ shown'[s] = sync[y].specs[s]
  BY <1>0, <1>2, WriteAssetIs DEF IInv
<1>4. sync'[y] = k /\ UNCHANGED <<source, status>>
  BY <1>0, <1>3 DEF Turn, IInv, TypeOK, WriteAsset, sourceRows
<1>5. Live' = Live /\ Live \subseteq Sources
  BY <1>4 DEF Live
<1>6. ASSUME NEW t \in Live, t \in DOMAIN k.ids
      PROVE  k.ids[t] = asset'[t]
  BY <1>0, <1>1, <1>3, <1>5, <1>6 DEF Repairs
<1>7. ASSUME NEW t \in Live \ k.todo
      PROVE  t \in DOMAIN k.ids /\ Shown(t)'
  <2>1. CASE t = s
    BY <1>1, <1>2, <1>3, <1>4, <2>1 DEF Shown
  <2>2. CASE t # s
    BY <1>0, <1>1, <1>3, <1>4, <1>5, <2>2 DEF Repairs, Shown
  <2>3. QED
    BY <2>1, <2>2
<1>8. /\ DOMAIN k.specs = Live /\ \A t \in Live : k.specs[t] = status[t]
      /\ DOMAIN k.ids \subseteq Live
  BY <1>0, <1>1, <1>3 DEF Repairs
<1>9. QED
  BY <1>3, <1>4, <1>5, <1>6, <1>7, <1>8 DEF Repairs, Idle

(* In the end every live source has an asset as its row.                    *)
LEMMA AloneIsDoneWithAssets ==
  ASSUME IInv, NEW y \in alone, AssetsDone(y)
  PROVE  sync'[y] # Idle /\ Repairs(y)'
<1>0. y \in Syncers /\ Repairs(y)
  BY DEF IInv, TypeOK
<1>1. PICK k : /\ Turn(y, k) /\ k.pc = "relations" /\ k.specs = sync[y].specs /\ k.ids = sync[y].ids
               /\ k.todo = DOMAIN sync[y].specs /\ sync[y].pc = "assets" /\ sync[y].todo = {}
  BY <1>0, AssetsDoneIs DEF IInv
<1>2. sync'[y] = k /\ UNCHANGED <<source, status, asset, shown, derived>>
  BY <1>0, <1>1 DEF Turn, IInv, TypeOK, AssetsDone, sourceRows, graph
<1>3. Live' = Live
  BY <1>2 DEF Live
<1>4. QED
  BY <1>0, <1>1, <1>2, <1>3 DEF Repairs, Shown, Idle

(* It relates a source by the id of its asset.                              *)
LEMMA AloneRelates ==
  ASSUME IInv, NEW y \in alone, NEW s \in Sources, Relate(y, s)
  PROVE  sync'[y] # Idle /\ Repairs(y)'
<1>0. y \in Syncers /\ Repairs(y)
  BY DEF IInv, TypeOK
<1>1. PICK k : /\ Turn(y, k) /\ k.pc = "relations" /\ k.specs = sync[y].specs /\ k.ids = sync[y].ids
               /\ k.todo = sync[y].todo \ {s} /\ sync[y].pc = "relations"
               /\ s \in DOMAIN sync[y].specs /\ s \in DOMAIN sync[y].ids
  BY <1>0, RelateIs DEF IInv
<1>2. /\ sync'[y] = k /\ UNCHANGED <<source, status, asset, shown>>
      /\ derived' = derived \cup {Key(s, sync[y].ids[s], "owns")}
  BY <1>0, <1>1 DEF Turn, IInv, TypeOK, Relate, sourceRows
<1>3. Live' = Live /\ sync[y].ids[s] = asset[s]
  BY <1>0, <1>1, <1>2 DEF Live, Repairs
<1>4. \A t \in Live \ k.todo : Key(t, asset[t], "owns") \in derived'
  BY <1>0, <1>1, <1>2, <1>3 DEF Repairs
<1>5. QED
  BY <1>0, <1>1, <1>2, <1>3, <1>4 DEF Repairs, Shown, Idle

(* It wants the relations of the live sources, all of them there.           *)
LEMMA AloneLoads ==
  ASSUME IInv, NEW y \in alone, LoadRelations(y)
  PROVE  sync'[y] # Idle /\ Repairs(y)'
<1>0. y \in Syncers /\ Repairs(y)
  BY DEF IInv, TypeOK
<1>1. PICK k : /\ Turn(y, k) /\ k.pc = "prune" /\ k.wanted = Wanted(y) /\ k.todo = derived \ Wanted(y)
               /\ sync[y].pc = "relations" /\ sync[y].todo = {}
  BY <1>0, LoadRelationsIs DEF IInv
<1>2. sync'[y] = k /\ UNCHANGED <<source, status, asset, shown, derived>>
  BY <1>0, <1>1 DEF Turn, IInv, TypeOK, LoadRelations, sourceRows, graph
<1>3. Live' = Live /\ Owned' = Owned
  BY <1>2 DEF Live, Owned
<1>4. DOMAIN sync[y].specs = Live /\ \A s \in Live : sync[y].ids[s] = asset[s]
  BY <1>0, <1>1 DEF Repairs
<1>5. Wanted(y) = Owned
  BY <1>4 DEF Wanted, Owned
<1>6. Owned \subseteq derived /\ \A s \in Live : Shown(s)
  BY <1>0, <1>1 DEF Repairs, Owned
<1>7. QED
  BY <1>1, <1>2, <1>3, <1>5, <1>6 DEF Repairs, Shown, Idle

(* It deletes a derived relation that it does not want.                     *)
LEMMA AlonePrunes ==
  ASSUME IInv, NEW y \in alone, NEW key \in Keys, Prune(y, key)
  PROVE  sync'[y] # Idle /\ Repairs(y)'
<1>0. y \in Syncers /\ Repairs(y) /\ TypeOK
  BY DEF IInv, TypeOK
<1>1. /\ sync[y].pc = "prune" /\ key \in sync[y].todo /\ derived' = derived \ {key}
      /\ UNCHANGED <<source, status, asset, shown>> /\ {key} \in SUBSET Keys /\ sync' = Forget({key}, sync)
  BY DEF Prune, At, sourceRows
<1>2. sync'[y].pc = "prune" /\ sync'[y].wanted = sync[y].wanted /\ sync'[y].todo = sync[y].todo \ {key}
  BY <1>0, <1>1, ForgetIs
<1>3. Live' = Live /\ Owned' = Owned
  BY <1>1 DEF Live, Owned
<1>4. /\ \A s \in Live : Shown(s)
      /\ sync[y].wanted = Owned /\ Owned \subseteq derived /\ sync[y].todo = derived \ Owned
  BY <1>0, <1>1 DEF Repairs
<1>5. \A s \in Live' : Shown(s)'
  BY <1>1, <1>3, <1>4 DEF Shown
<1>6. /\ sync'[y].wanted = Owned' /\ Owned' \subseteq derived'
      /\ sync'[y].todo = derived' \ Owned'
  BY <1>1, <1>2, <1>3, <1>4
<1>7. QED
  BY <1>2, <1>5, <1>6 DEF Repairs, Idle

(* Every step of a sync leaves one that is alone as it is to be. *)
LEMMA StepAlone ==
  ASSUME IInv, NEW y \in Syncers, Step(y)
  PROVE  AloneIsAlone' /\ \A z \in alone' : Repairs(z)'
<1>a. TypeOK /\ SyncsTidy
  BY DEF IInv
<1>b. ASSUME NEW k, Turn(y, k)
      PROVE  sync'[y] = k /\ \A x \in Syncers \ {y} : sync'[x] = sync[x]
  BY <1>a, <1>b, TurnTyped
<1>1. CASE (\E s \in Sources : CreateSource(y, s) \/ ChangeSource(y, s)) \/ StartSync(y)
  BY <1>1, AloneBegins DEF CreateSource, ChangeSource, StartSync
<1>2. CASE ReadSources(y)
  <2>1. sync[y] # Idle /\ alone' = alone /\ request' = request
    BY <1>2 DEF ReadSources, At, Idle
  <2>2. \A x \in Syncers \ {y} : sync'[x] = sync[x]
    BY <1>a, <1>b, <1>2, ReadSourcesIs
  <2>3. QED
    BY <1>2, <2>1, <2>2, AloneReads, AloneTurn
<1>3. CASE ReadFails(y)
  <2>1. sync[y] # Idle /\ alone' = alone \ {y} /\ request' = request
    BY <1>3 DEF ReadFails, At, Idle
  <2>2. \A x \in Syncers \ {y} : sync'[x] = sync[x]
    BY <1>a, <1>b, <1>3, ReadFailsIs
  <2>3. QED
    BY <2>1, <2>2, AloneTurn
<1>4. ASSUME NEW s \in Sources, LookForAsset(y, s)
      PROVE  AloneIsAlone' /\ \A z \in alone' : Repairs(z)'
  <2>1. sync[y] # Idle /\ alone' = alone /\ request' = request
    BY <1>4 DEF LookForAsset, At, Idle
  <2>2. \A x \in Syncers \ {y} : sync'[x] = sync[x]
    BY <1>a, <1>b, <1>4, LookForAssetIs
  <2>3. QED
    BY <1>4, <2>1, <2>2, AloneLooks, AloneTurn
<1>5. ASSUME NEW s \in Sources, WriteAsset(y, s)
      PROVE  AloneIsAlone' /\ \A z \in alone' : Repairs(z)'
  <2>1. sync[y] # Idle /\ alone' = alone /\ request' = request
    BY <1>5 DEF WriteAsset, At, Idle
  <2>2. \A x \in Syncers \ {y} : sync'[x] = sync[x]
    BY <1>a, <1>b, <1>5, WriteAssetIs, RestTidy
  <2>3. QED
    BY <1>5, <2>1, <2>2, AloneWrites, AloneTurn
<1>6. ASSUME NEW s \in Sources, Relate(y, s)
      PROVE  AloneIsAlone' /\ \A z \in alone' : Repairs(z)'
  <2>1. sync[y] # Idle /\ alone' = alone /\ request' = request
    BY <1>6 DEF Relate, At, Idle
  <2>2. \A x \in Syncers \ {y} : sync'[x] = sync[x]
    BY <1>a, <1>b, <1>6, RelateIs
  <2>3. QED
    BY <1>6, <2>1, <2>2, AloneRelates, AloneTurn
<1>7. CASE AssetsDone(y)
  <2>1. sync[y] # Idle /\ alone' = alone /\ request' = request
    BY <1>7 DEF AssetsDone, At, Idle
  <2>2. \A x \in Syncers \ {y} : sync'[x] = sync[x]
    BY <1>a, <1>b, <1>7, AssetsDoneIs
  <2>3. QED
    BY <1>7, <2>1, <2>2, AloneIsDoneWithAssets, AloneTurn
<1>8. CASE LoadRelations(y)
  <2>1. sync[y] # Idle /\ alone' = alone /\ request' = request
    BY <1>8 DEF LoadRelations, At, Idle
  <2>2. \A x \in Syncers \ {y} : sync'[x] = sync[x]
    BY <1>a, <1>b, <1>8, LoadRelationsIs
  <2>3. QED
    BY <1>8, <2>1, <2>2, AloneLoads, AloneTurn
<1>9. ASSUME NEW key \in Keys, Prune(y, key)
      PROVE  AloneIsAlone' /\ \A z \in alone' : Repairs(z)'
  <2>1. sync[y] # Idle /\ alone' = alone /\ request' = request
    BY <1>9 DEF Prune, At, Idle
  <2>2. \A x \in Syncers \ {y} : sync[x] = Idle => sync'[x] = Idle
    <3>1. {key} \in SUBSET Keys /\ sync' = Forget({key}, sync) /\ Idle.pc # "prune"
      BY <1>9 DEF Prune, Idle
    <3>2. QED
      <4>1. ASSUME NEW x \in Syncers, sync[x] = Idle
            PROVE  sync'[x] = sync[x]
        BY <1>a, <3>1, <4>1, ForgetIs
      <4>2. QED
        BY <4>1
  <2>3. QED
    BY <1>9, <2>1, <2>2, AlonePrunes, AloneTurn
<1>10. CASE EndSync(y) \/ SyncFails(y)
  <2>1. sync[y] # Idle /\ alone' = alone \ {y} /\ request' = request
    BY <1>10 DEF EndSync, SyncFails, At, Idle
  <2>2. \A x \in Syncers \ {y} : sync'[x] = sync[x]
    BY <1>a, <1>b, <1>10, RestTidy DEF EndSync, SyncFails, Set
  <2>3. QED
    BY <2>1, <2>2, AloneTurn
<1>11. QED
  BY <1>1, <1>2, <1>3, <1>4, <1>5, <1>6, <1>7, <1>8, <1>9, <1>10 DEF Step

(* And so does every step at all. *)
LEMMA AloneKept ==
  ASSUME IInv, [Next]_vars
  PROVE  AloneIsAlone' /\ \A z \in alone' : Repairs(z)'
<1>1. CASE alone' = {}
  BY <1>1 DEF AloneIsAlone
<1>2. ASSUME UNCHANGED <<source, status, asset, shown, derived, sync, alone>>,
             \A h \in Handlers : request'[h].pc \in {request[h].pc, "idle", "add"}
      PROVE  AloneIsAlone' /\ \A z \in alone' : Repairs(z)'
  <2>1. AloneIsAlone'
    BY <1>2 DEF IInv, AloneIsAlone
  <2>2. Live' = Live
    BY <1>2 DEF Live
  <2>3. Owned' = Owned
    BY <1>2, <2>2 DEF Owned
  <2>4. ASSUME NEW z \in alone
        PROVE  Repairs(z)'
    <3>1. Repairs(z)
      BY DEF IInv
    <3>2. QED
      BY <1>2, <2>2, <2>3, <3>1 DEF Repairs, Shown
  <2>5. QED
    BY <1>2, <2>1, <2>4
<1>3. ASSUME NEW h \in Handlers, Serve(h)
      PROVE  AloneIsAlone' /\ \A z \in alone' : Repairs(z)'
  <2>1. CASE (\E s \in Sources, type \in Types : LoadAssets(h, s, type)) \/ RequestFails(h)
    <3>1. UNCHANGED <<source, status, asset, shown, derived, sync, alone>>
      BY <2>1 DEF LoadAssets, RequestFails, sourceRows, graph
    <3>2. \A g \in Handlers : request'[g].pc \in {request[g].pc, "idle", "add"}
      BY <2>1 DEF LoadAssets, RequestFails, Goto, Idle, IInv, TypeOK
    <3>3. QED
      BY <1>2, <3>1, <3>2
  <2>2. QED
    BY <1>1, <1>3, <2>1 DEF Serve, DeleteSource, CommitDelete, SaveRelation, CommitRelation, RemoveRelation, CommitRemoval
<1>4. CASE UNCHANGED vars
  BY <1>2, <1>4 DEF vars, sourceRows, graph
<1>5. QED
  BY <1>1, <1>3, <1>4, StepAlone DEF Next, Heartbeat

-----------------------------------------------------------------------------
(* The theorems *)

(* The invariant holds in every behaviour: syncs, requests and heartbeats   *)
(* in any order, with failures, preserve it.                                *)
THEOREM InvCorrect == Spec => []IInv
<1>1. Init => IInv
  <2> SUFFICES ASSUME Init PROVE IInv
    OBVIOUS
  <2>1. Idle \in Syncs /\ Idle \in Requests /\ 0 \in 0..MaxStatus
    BY SyncsHold, RequestsHold
  <2>2. TypeOK
    BY <2>1 DEF Init, TypeOK
  <2>3. SyncsTidy /\ DeletesOther /\ Forgotten /\ KeysApart
    BY DEF Init, SyncsTidy, Tidy, DeletesOther, Forgotten, KeysApart, Idle
  <2>4. AloneIsAlone /\ \A y \in alone : Repairs(y)
    BY DEF Init, AloneIsAlone
  <2>5. QED
    BY <2>2, <2>3, <2>4 DEF IInv
<1>2. IInv /\ [Next]_vars => IInv'
  <2> SUFFICES ASSUME IInv, [Next]_vars PROVE IInv'
    OBVIOUS
  <2>1. TypeOK' /\ SyncsTidy'
    BY TypesKept DEF IInv
  <2>2. DeletesOther' /\ Forgotten' /\ KeysApart'
    BY DeletesOtherKept, ForgottenKept, KeysApartKept DEF IInv
  <2>3. AloneIsAlone' /\ \A z \in alone' : Repairs(z)'
    BY AloneKept
  <2>4. QED
    BY <2>1, <2>2, <2>3 DEF IInv
<1>3. QED
  BY <1>1, <1>2, PTL DEF Spec

(* The tables, syncs and requests have their types. *)
THEOREM TypeCorrect == Spec => []TypeOK
<1>1. IInv => TypeOK
  BY DEF IInv
<1>2. QED
  BY <1>1, InvCorrect, PTL

(* A source that is gone has an asset only if somebody who had read it was  *)
(* still at it when it was deleted.                                         *)
THEOREM GhostNeedsOverlapCorrect == Spec => []GhostNeedsOverlap
<1>1. IInv => GhostNeedsOverlap
  BY DEF IInv, Forgotten, GhostNeedsOverlap
<1>2. QED
  BY <1>1, InvCorrect, PTL

(* A sync that nothing disturbs leaves an exact graph, whatever it found.   *)
THEOREM UndisturbedSyncRepairsCorrect == Spec => UndisturbedSyncRepairs
<1>1. ASSUME IInv, NEW y \in alone, EndSync(y)
      PROVE  Exact'
  <2>1. Repairs(y) /\ sync[y].pc = "prune" /\ sync[y].todo = {}
    BY <1>1 DEF IInv, EndSync, At
  <2>2. UNCHANGED <<source, status, asset, shown, derived>>
    BY <1>1 DEF EndSync, sourceRows, graph
  <2>3. Live' = Live /\ Live \subseteq Sources
    BY <2>2 DEF Live
  <2>4. (\A s \in Live : Shown(s)) /\ derived = Owned
    BY <2>1 DEF Repairs
  <2>5. \A s \in Live' : asset'[s] # 0 /\ shown'[s] = status'[s]
    BY <2>2, <2>3, <2>4 DEF Shown
  <2>6. derived' = {Key(s, asset'[s], "owns") : s \in Live'}
    BY <2>2, <2>3, <2>4 DEF Owned
  <2>7. \A key \in derived' : ~Dangling(key)'
    BY <2>6 DEF Key, Dangling
  <2>8. QED
    BY <2>5, <2>6, <2>7 DEF Exact
<1>2. IInv /\ [Next]_vars => [\A y \in alone : EndSync(y) => Exact']_vars
  BY <1>1
<1>3. QED
  BY <1>2, InvCorrect, PTL DEF Spec, UndisturbedSyncRepairs

(* A manual relation goes only by a user, with its source, when it becomes  *)
(* derived, or by a sync that loaded it before and overlapped.              *)
THEOREM ManualStaysCorrect == Spec => ManualStays
<1> DEFINE Reason(key) ==
      \/ key \in derived'
      \/ \E h \in Handlers : request[h] # Idle /\ request[h].pc = "remove" /\ request[h].key = key
      \/ source'[key.of] = "gone"
      \/ \E y \in Syncers \ alone : At(y, "prune") /\ key \in sync[y].todo
<1>1. ASSUME IInv, Next, NEW key \in manual, key \notin manual'
      PROVE  Reason(key)
  <2>1. ASSUME NEW y \in Syncers, Step(y)
        PROVE  Reason(key)
    <3>1. CASE \E s \in Sources : Relate(y, s)
      BY <1>1, <3>1 DEF Relate
    <3>2. CASE \E k \in Keys : Prune(y, k)
      <4>1. sync[y].pc = "prune" /\ key \in sync[y].todo
        BY <1>1, <3>2 DEF Prune, At
      <4>2. y \notin alone
        BY <1>1, <4>1 DEF IInv, Repairs, KeysApart
      <4>3. QED
        BY <4>1, <4>2 DEF At
    <3>3. QED
      BY <1>1, <2>1, <3>1, <3>2 DEF Step, CreateSource, ChangeSource, StartSync, ReadSources, ReadFails,
           LookForAsset, WriteAsset, AssetsDone, LoadRelations, EndSync, SyncFails, graph
  <2>2. ASSUME NEW specs, NEW without, NEW deleted, NEW added, SyncInTransaction(specs, without, deleted, added)
        PROVE  key \in derived' \/ key \in deleted
    BY <1>1, <2>2 DEF SyncInTransaction
  <2>3. ASSUME NEW h \in Handlers, Serve(h)
        PROVE  Reason(key)
    <3>1. CASE CommitDelete(h)
      <4> DEFINE s == request[h].of
                 dead == {k \in derived \cup manual : k.of = s /\ k.id = asset[s]}
      <4>1. /\ source' = [source EXCEPT ![s] = "gone"] /\ SyncInTransaction(request[h].specs, {s}, dead, {})
            /\ request[h].pc = "delete"
        BY <3>1 DEF CommitDelete
      <4>2. s \in Sources
        BY <1>1, <4>1, RequestForms DEF IInv, TypeOK
      <4>3. key \in derived' \/ key \in dead
        BY <2>2, <4>1
      <4>4. key \in dead => source'[key.of] = "gone"
        BY <1>1, <4>1, <4>2 DEF IInv, TypeOK
      <4>5. QED
        BY <4>3, <4>4
    <3>2. CASE CommitRelation(h)
      BY <2>2, <3>2 DEF CommitRelation
    <3>3. CASE CommitRemoval(h)
      <4>1. request[h].pc = "remove" /\ (key \in derived' \/ key = request[h].key)
        BY <2>2, <3>3 DEF CommitRemoval
      <4>2. QED
        BY <4>1 DEF Idle
    <3>4. QED
      BY <1>1, <2>3, <3>1, <3>2, <3>3 DEF Serve, DeleteSource, LoadAssets, SaveRelation, RemoveRelation,
           RequestFails, graph
  <2>4. QED
    BY <1>1, <2>1, <2>3 DEF Next, Heartbeat
<1>2. IInv /\ [Next]_vars => [\A key \in manual \ manual' : Reason(key)]_vars
  BY <1>1
<1>3. QED
  BY <1>2, InvCorrect, PTL DEF Spec, ManualStays

-----------------------------------------------------------------------------
(* ReviewEvidence: the snapshots on the assets of a review *)

HIDE StatusAssumption
USE ConfigAssumption, BoundAssumption

(* What a row tells of the ledger: a review, that the attempts before are    *)
(* done; the arming, that those before the last are; a guard, that it is of  *)
(* the last attempt; any of them may be of an earlier ledger.                *)
Tells(x, kind) ==
    \/ rewritten
    \/ /\ kind = Reviewed /\ x \in Ops => Ready(x)
       /\ kind = Armed /\ x = Approval => Ready(Open)
       /\ kind = Guarded /\ x \in Ops => x = Open

WrittenTells == \A x \in Assets : \A i \in 1..Len(rows[x]) : Tells(x, rows[x][i])
PendingTells ==
    \A r \in Recorders : pending[r] # None => Tells(pending[r].asset, pending[r].status)

RowsTell == WrittenTells /\ PendingTells

EvidenceInv == EvidenceTypeOK /\ RowsTell

(* The operations, and the approval, have assets of their own. *)
LEMMA Names ==
  /\ Branch \in Ops /\ Commit \in Ops /\ Open \in Ops /\ Approval \notin Ops
  /\ Branch # Commit /\ Branch # Open /\ Commit # Open
  /\ \A x \in Assets : x \in Ops \/ x = Approval
  /\ Before[Branch] = {} /\ Before[Commit] = {Branch} /\ Before[Open] = {Branch, Commit}
  BY DEF Ops, Assets, Approval, Branch, Commit, Open, Before

(* The kinds of rows that tell something of the ledger are none of those     *)
(* that are required, and no status of an attempt.                         *)
LEMMA Telling ==
  /\ Reviewed # Armed /\ Reviewed # Guarded /\ Armed # Guarded
  /\ Reviewed \in Rows /\ Armed \in Rows /\ Guarded \in Rows
  /\ AttemptStatuses \subseteq Rows
  /\ \A s \in AttemptStatuses : s \notin {Reviewed, Armed, Guarded}
  BY DEF Reviewed, Armed, Guarded, Rows, AttemptStatuses

Silent == Rows \ {Reviewed, Armed, Guarded}

(* Every endpoint for evidence decides on a row that tells nothing. *)
LEMMA SilentEvidence ==
  ASSUME EvidenceTypeOK, NEW r \in Recorders, NEW o \in Ops, RecordEvidence(r, o)
  PROVE  \E kind \in Silent : Decide(r, o, kind)
<1>1. attempt[o] \in Silent
  BY Telling DEF EvidenceTypeOK, Silent
<1>2. /\ "activation_metadata_ready" \in Silent /\ "activation_blocked" \in Silent
      /\ "credential_contract_ready" \in Silent /\ "request_envelope_contract_ready" \in Silent
      /\ "idempotency_metadata_ready" \in Silent /\ "request_validation_metadata_ready" \in Silent
      /\ "request_materialization_contract_ready" \in Silent
      /\ "branch_policy_metadata_ready" \in Silent /\ "runtime_contract_ready" \in Silent
      /\ "adapter_rehearsal_ready" \in Silent /\ "adapter_rehearsal_contract_ready" \in Silent
      /\ "adapter_blueprint_contract_ready" \in Silent
  BY DEF Silent, Rows, RequiredEvidence, Reviewed, Armed, Guarded
<1>3. /\ "live_adapter_contract_metadata_ready" \in Silent /\ "invocation_contract_ready" \in Silent
      /\ "execution_lock_metadata_ready" \in Silent /\ "send_metadata_ready" \in Silent
      /\ "send_blocked" \in Silent /\ "transport_metadata_ready" \in Silent
      /\ "retry_backoff_metadata_ready" \in Silent /\ "response_metadata_ready" \in Silent
      /\ "response_blocked" \in Silent /\ "result_recording_metadata_ready" \in Silent
      /\ "provider_call_boundary_metadata_ready" \in Silent /\ "transaction_metadata_ready" \in Silent
  BY DEF Silent, Rows, RequiredEvidence, Reviewed, Armed, Guarded
<1>4. CASE RecordAttempt(r, o)
  BY <1>1, <1>4 DEF RecordAttempt, AttemptEvidence
<1>5. CASE RecordActivation(r, o) \/ RecordCredential(r, o) \/ RecordRequestEnvelope(r, o)
           \/ RecordIdempotency(r, o) \/ RecordRequestValidation(r, o)
  BY <1>2, <1>5 DEF RecordActivation, ActivationEvidence, RecordCredential, CredentialEvidence,
     RecordRequestEnvelope, RequestEnvelopeEvidence, RecordIdempotency, IdempotencyEvidence,
     RecordRequestValidation, RequestValidationEvidence
<1>6. CASE RecordRequestMaterialization(r, o) \/ RecordBranchPolicy(r, o) \/ RecordRuntime(r, o)
           \/ RecordAdapterRehearsal(r, o) \/ RecordAdapterBlueprint(r, o)
  BY <1>2, <1>6 DEF RecordRequestMaterialization, RequestMaterializationEvidence,
     RecordBranchPolicy, BranchPolicyEvidence, RecordRuntime, RuntimeEvidence,
     RecordAdapterRehearsal, AdapterRehearsalEvidence, RecordAdapterBlueprint,
     AdapterBlueprintEvidence
<1>7. CASE RecordLiveAdapterContract(r, o) \/ RecordInvocation(r, o) \/ RecordExecutionLock(r, o)
           \/ RecordSend(r, o) \/ RecordTransport(r, o) \/ RecordRetryBackoff(r, o)
  BY <1>3, <1>7 DEF RecordLiveAdapterContract, LiveAdapterContractEvidence, RecordInvocation,
     InvocationEvidence, RecordExecutionLock, ExecutionLockEvidence, RecordSend, SendEvidence,
     RecordTransport, TransportEvidence, RecordRetryBackoff, RetryBackoffEvidence
<1>8. CASE RecordResponse(r, o) \/ RecordResultRecording(r, o)
           \/ RecordProviderCallBoundary(r, o) \/ RecordTransaction(r, o)
  BY <1>3, <1>8 DEF RecordResponse, ResponseEvidence, RecordResultRecording,
     ResultRecordingEvidence, RecordProviderCallBoundary, ProviderCallBoundaryEvidence,
     RecordTransaction, TransactionEvidence
<1>9. QED
  BY <1>4, <1>5, <1>6, <1>7, <1>8 DEF RecordEvidence

(* What is observed was written, and tells what it told. *)
LEMMA ObservedTells ==
  ASSUME RowsTell, NEW x \in Assets, NEW kind, Observed(x, kind)
  PROVE  Tells(x, kind)
  BY DEF Observed, RowsTell, WrittenTells, PendingTells

(* Whoever records decides on a row that tells the truth. *)
LEMMA Decided ==
  ASSUME EvidenceInv, NEW r \in Recorders, Record(r)
  PROVE  \E x \in Assets, kind \in Rows : Decide(r, x, kind) /\ Tells(x, kind)
<1>1. \A o \in Ops : o \in Assets
  BY DEF Assets
<1>2. ASSUME NEW o \in Ops, RecordEvidence(r, o)
      PROVE  \E x \in Assets, kind \in Rows : Decide(r, x, kind) /\ Tells(x, kind)
  BY <1>1, <1>2, SilentEvidence DEF EvidenceInv, Silent, Tells
<1>3. ASSUME NEW o \in Ops, ReviewEvidenceOf(r, o)
      PROVE  \E x \in Assets, kind \in Rows : Decide(r, x, kind) /\ Tells(x, kind)
  <2>1. Decide(r, o, Reviewed) /\ Ready(o)
    BY <1>3 DEF ReviewEvidenceOf, Candidate
  <2>2. Tells(o, Reviewed)
    BY <2>1, Telling DEF Tells
  <2>3. QED
    BY <1>1, <2>1, <2>2, Telling
<1>4. ASSUME NEW o \in Ops, RecordGuard(r, o)
      PROVE  \E x \in Assets, kind \in Rows : Decide(r, x, kind) /\ Tells(x, kind)
  <2>1. Decide(r, o, Guarded) /\ attempt[o] = "running" /\ Observed(Approval, Armed)
    BY <1>4 DEF RecordGuard, GuardEvidence
  <2>2. Tells(Approval, Armed)
    BY <2>1, ObservedTells DEF EvidenceInv, Assets
  <2>3. rewritten \/ (attempt[Branch] = "completed" /\ attempt[Commit] = "completed")
    BY <2>2, Names DEF Tells, Ready
  <2>4. rewritten \/ o = Open
    BY <2>1, <2>3 DEF Ops
  <2>5. Tells(o, Guarded)
    BY <2>4, Telling DEF Tells
  <2>6. QED
    BY <1>1, <2>1, <2>5, Telling
<1>5. ASSUME RecordArming(r)
      PROVE  \E x \in Assets, kind \in Rows : Decide(r, x, kind) /\ Tells(x, kind)
  <2>1. Decide(r, Approval, Armed) /\ Observed(Open, Reviewed)
    BY <1>5, Names DEF RecordArming, MayArm
  <2>2. Tells(Open, Reviewed)
    BY <1>1, <2>1, ObservedTells, Names DEF EvidenceInv
  <2>3. Tells(Approval, Armed)
    BY <2>2, Names, Telling DEF Tells
  <2>4. QED
    BY <2>1, <2>3, Telling DEF Assets
<1>6. QED
  BY <1>2, <1>3, <1>4, <1>5 DEF Record, RecordReview, RecordCurrentReview

-----------------------------------------------------------------------------
(* Steps *)

Quiet ==
    \/ \E r \in Recorders : Record(r) \/ Write(r) \/ Abandon(r)
    \/ AssetsAppear \/ PassPeriod \/ Cleanup

Moves == (\E o \in Ops : Claim(o) \/ LocalResult(o)) \/ StaleSave \/ ApproveAgain

(* Recording, writing and deleting leave the ledger as it is. *)
LEMMA QuietStep ==
  ASSUME Quiet
  PROVE  UNCHANGED <<attempt, approval, revivals, rewritten>>
<1>1. ASSUME NEW r \in Recorders, Record(r)
      PROVE  \E x, kind : Decide(r, x, kind)
  BY <1>1 DEF Record, RecordEvidence, RecordReview, RecordCurrentReview, ReviewEvidenceOf,
     RecordGuard, GuardEvidence, RecordArming,
     RecordAttempt, AttemptEvidence, RecordActivation, ActivationEvidence, RecordCredential,
     CredentialEvidence, RecordRequestEnvelope, RequestEnvelopeEvidence, RecordIdempotency,
     IdempotencyEvidence, RecordRequestValidation, RequestValidationEvidence,
     RecordRequestMaterialization, RequestMaterializationEvidence,
     RecordBranchPolicy, BranchPolicyEvidence, RecordRuntime, RuntimeEvidence,
     RecordAdapterRehearsal, AdapterRehearsalEvidence, RecordAdapterBlueprint,
     AdapterBlueprintEvidence, RecordLiveAdapterContract, LiveAdapterContractEvidence,
     RecordInvocation, InvocationEvidence, RecordExecutionLock, ExecutionLockEvidence,
     RecordSend, SendEvidence, RecordTransport, TransportEvidence, RecordRetryBackoff,
     RetryBackoffEvidence, RecordResponse, ResponseEvidence, RecordResultRecording,
     ResultRecordingEvidence, RecordProviderCallBoundary, ProviderCallBoundaryEvidence,
     RecordTransaction, TransactionEvidence
<1>2. QED
  BY <1>1 DEF Quiet, Decide, Write, Abandon, AssetsAppear, PassPeriod, Cleanup,
     StartCleanup, DeleteBatch, CleanupFails, Delete, ledger, standing

(* The ledger moves on, and no row is read or written. *)
LEMMA MovesStep ==
  ASSUME EvidenceTypeOK, Moves
  PROVE  /\ UNCHANGED <<assets, rows, expired, pending, periods, cleaning>>
         /\ attempt' \in [Ops -> AttemptStatuses] /\ approval' \in {"approved", "pending"}
         /\ revivals' \in 0..MaxRevivals /\ rewritten' \in BOOLEAN
         /\ \/ rewritten'
            \/ ~rewritten /\ \A o \in Ops : attempt[o] = "completed" => attempt'[o] = "completed"
<1>1. /\ attempt \in [Ops -> AttemptStatuses] /\ approval \in {"approved", "pending"}
      /\ revivals \in 0..MaxRevivals /\ rewritten \in BOOLEAN
  BY DEF EvidenceTypeOK
<1>2. /\ "planned" \in AttemptStatuses /\ "running" \in AttemptStatuses
      /\ "completed" \in AttemptStatuses /\ "failed" \in AttemptStatuses
  BY DEF AttemptStatuses
<1>3. CASE \E o \in Ops : Claim(o)
  BY <1>1, <1>2, <1>3 DEF Claim, Candidate, standing, evidence, retention
<1>4. CASE \E o \in Ops : LocalResult(o)
  BY <1>1, <1>2, <1>4 DEF LocalResult, standing, evidence, retention
<1>5. CASE StaleSave
  BY <1>1, <1>5 DEF StaleSave, evidence, retention
<1>6. CASE ApproveAgain
  BY <1>1, <1>2, <1>6 DEF ApproveAgain, evidence, retention
<1>7. QED
  BY <1>3, <1>4, <1>5, <1>6 DEF Moves

(* What a row tells stays true. *)
LEMMA TellsOn ==
  ASSUME EvidenceTypeOK, EvidenceNext, NEW x, NEW kind, Tells(x, kind)
  PROVE  Tells(x, kind)'
<1>1. CASE Quiet
  BY <1>1, QuietStep DEF Tells, Ready
<1>2. CASE Moves
  <2>1. CASE rewritten'
    BY <2>1 DEF Tells
  <2>2. CASE ~rewritten /\ \A o \in Ops : attempt[o] = "completed" => attempt'[o] = "completed"
    <3>1. \A o \in Ops : \A p \in Before[o] : p \in Ops
      BY DEF Ops, Before
    <3>2. \A o \in Ops : Ready(o) => Ready(o)'
      BY <2>2, <3>1 DEF Ready
    <3>3. QED
      BY <2>2, <3>2, Names DEF Tells
  <2>3. QED
    BY <1>2, <2>1, <2>2, MovesStep
<1>3. QED
  BY <1>1, <1>2 DEF EvidenceNext, Quiet, Moves

(* The rows of an asset after a row more, or after the oldest are deleted. *)
LEMMA Appended ==
  ASSUME EvidenceTypeOK, NEW x \in Assets, NEW kind \in Rows
  PROVE  LET more == Append(rows[x], kind) IN
         /\ more \in Seq(Rows) /\ Len(more) = Len(rows[x]) + 1 /\ Len(rows[x]) \in Nat
         /\ \A i \in 1..Len(more) : more[i] = kind \/ \E j \in 1..Len(rows[x]) : more[i] = rows[x][j]
<1> DEFINE s == rows[x]
<1>1. s \in Seq(Rows) /\ Len(s) \in Nat
  BY LenProperties DEF EvidenceTypeOK
<1> HIDE DEF s
<1>2. /\ Append(s, kind) \in Seq(Rows) /\ Len(Append(s, kind)) = Len(s) + 1
      /\ \A i \in 1..Len(s) : Append(s, kind)[i] = s[i]
      /\ Append(s, kind)[Len(s) + 1] = kind
  BY <1>1, AppendProperties
<1>3. \A i \in 1..Len(Append(s, kind)) : i \in 1..Len(s) \/ i = Len(s) + 1
  BY <1>1, <1>2
<1>4. QED
  BY <1>1, <1>2, <1>3 DEF s

(* Retention leaves the newest rows of an asset, as they were. *)
LEMMA Deleted ==
  ASSUME EvidenceTypeOK, NEW x \in Assets, NEW n \in 0..Len(rows[x])
  PROVE  LET fewer == SubSeq(rows[x], n + 1, Len(rows[x])) IN
         /\ fewer \in Seq(Rows) /\ Len(fewer) = Len(rows[x]) - n /\ Len(rows[x]) \in Nat
         /\ \A i \in 1..Len(fewer) : \E j \in 1..Len(rows[x]) : fewer[i] = rows[x][j]
<1> DEFINE s == rows[x]
           m == n + 1
           fewer == SubSeq(s, m, Len(s))
<1>1. s \in Seq(Rows) /\ Len(s) \in Nat
  BY LenProperties DEF EvidenceTypeOK
<1>2. n \in Int /\ 0 <= n /\ n <= Len(s) /\ m = n + 1 /\ m \in Int
  BY <1>1
<1> HIDE DEF s, m
<1>3. \A i \in m..Len(s) : s[i] \in Rows
  BY <1>1, <1>2, ElementOfSeq
<1>4. /\ fewer \in Seq(Rows)
      /\ Len(fewer) = IF m <= Len(s) THEN Len(s) - m + 1 ELSE 0
      /\ \A i \in 1..(Len(s) - m + 1) : fewer[i] = s[m + i - 1]
  BY <1>1, <1>2, <1>3, SubSeqProperties
<1> HIDE DEF fewer
<1>5. Len(fewer) = Len(s) - n
  BY <1>1, <1>2, <1>4
<1>6. \A i \in 1..Len(fewer) : i \in 1..(Len(s) - m + 1) /\ m + i - 1 \in 1..Len(s)
  BY <1>1, <1>2, <1>5
<1>7. \A i \in 1..Len(fewer) : \E j \in 1..Len(s) : fewer[i] = s[j]
  BY <1>4, <1>6
<1>8. QED
  BY <1>1, <1>4, <1>5, <1>7 DEF s, m, fewer

(* A batch takes rows that have expired. *)
LEMMA BatchesExpired ==
  ASSUME EvidenceTypeOK, NEW v \in Batches
  PROVE  \A x \in Assets : v[x] \in Nat /\ v[x] <= expired[x] /\ expired[x] \in Nat
                           /\ expired[x] <= Len(rows[x]) /\ Len(rows[x]) \in Nat
<1>1. \A x \in Assets : expired[x] \in Nat /\ expired[x] <= Len(rows[x]) /\ Len(rows[x]) \in Nat
  BY LenProperties DEF EvidenceTypeOK
<1>2. \A x \in Assets : Expendable(x) \in Nat /\ Expendable(x) <= expired[x]
  BY <1>1 DEF Expendable
<1>3. \A x \in Assets : v[x] \in Nat /\ v[x] <= Expendable(x)
  <2> DEFINE all == [x \in Assets |-> Expendable(x)]
  <2>1. \A x \in Assets : all[x] = Expendable(x)
    OBVIOUS
  <2>2. v = all \/ (v \in [Assets -> 0..BatchSize] /\ \A x \in Assets : v[x] <= all[x])
    BY DEF Batches, Fill
  <2> HIDE DEF all
  <2>3. QED
    BY <1>2, <2>1, <2>2
<1>4. QED
  BY <1>1, <1>2, <1>3

-----------------------------------------------------------------------------
(* What each step leaves of the invariant *)

(* A recorder decides. *)
LEMMA DecideKeeps ==
  ASSUME EvidenceInv, EvidenceNext, NEW r \in Recorders, Record(r)
  PROVE  EvidenceInv'
<1>1. PICK x \in Assets, kind \in Rows : Decide(r, x, kind) /\ Tells(x, kind)
  BY Decided
<1>2. /\ pending' = [pending EXCEPT ![r] = [asset |-> x, status |-> kind]]
      /\ UNCHANGED <<attempt, approval, revivals, rewritten, assets, rows, expired, periods, cleaning>>
  BY <1>1 DEF Decide, ledger, standing, evidence, retention
<1>3. pending' \in [Recorders -> {None} \cup [asset : Assets, status : Rows]]
  BY <1>2 DEF EvidenceInv, EvidenceTypeOK
<1>4. EvidenceTypeOK'
  BY <1>2, <1>3 DEF EvidenceInv, EvidenceTypeOK
<1>5. \A y, s : Tells(y, s) <=> Tells(y, s)'
  BY <1>2 DEF Tells, Ready
<1>6. \A q \in Recorders : pending'[q] # None => Tells(pending'[q].asset, pending'[q].status)
  BY <1>1, <1>2 DEF EvidenceInv, EvidenceTypeOK, RowsTell, WrittenTells, PendingTells
<1>7. \A y \in Assets : \A i \in 1..Len(rows[y]) : Tells(y, rows[y][i])
  BY DEF EvidenceInv, RowsTell, WrittenTells, PendingTells
<1>8. RowsTell'
  BY <1>2, <1>5, <1>6, <1>7 DEF RowsTell, WrittenTells, PendingTells
<1>9. QED
  BY <1>4, <1>8 DEF EvidenceInv

(* A recorder is done: it wrote, or gave up. *)
LEMMA DoneKeeps ==
  ASSUME EvidenceInv, EvidenceNext, NEW r \in Recorders, pending' = [pending EXCEPT ![r] = None],
         UNCHANGED <<attempt, approval, revivals, rewritten>>
  PROVE  /\ pending' \in [Recorders -> {None} \cup [asset : Assets, status : Rows]]
         /\ PendingTells'
<1>1. \A y, s : Tells(y, s) <=> Tells(y, s)'
  BY DEF Tells, Ready
<1>2. QED
  BY <1>1 DEF EvidenceInv, EvidenceTypeOK, RowsTell, WrittenTells, PendingTells

(* A row that is written tells what its recorder had found. *)
LEMMA WriteKeeps ==
  ASSUME EvidenceInv, EvidenceNext, NEW r \in Recorders, Write(r)
  PROVE  EvidenceInv'
<1>1. UNCHANGED <<attempt, approval, revivals, rewritten, assets, expired, periods, cleaning>>
  BY DEF Write, ledger, standing, retention
<1>2. pending' = [pending EXCEPT ![r] = None] /\ pending[r] # None
  BY DEF Write
<1>3. /\ pending' \in [Recorders -> {None} \cup [asset : Assets, status : Rows]]
      /\ PendingTells'
  BY <1>1, <1>2, DoneKeeps
<1>4. \A y, s : Tells(y, s) <=> Tells(y, s)'
  BY <1>1 DEF Tells, Ready
<1>5. PICK x, kind : x = pending[r].asset /\ kind = pending[r].status
  OBVIOUS
<1>6. x \in Assets /\ kind \in Rows /\ Tells(x, kind)
  BY <1>2, <1>5 DEF EvidenceInv, EvidenceTypeOK, RowsTell, WrittenTells, PendingTells
<1>7. \/ UNCHANGED rows
      \/ Len(rows[x]) < MaxRows /\ rows' = [rows EXCEPT ![x] = Append(@, kind)]
  BY <1>5 DEF Write
<1>8. rows \in [Assets -> Seq(Rows)] /\ expired \in [Assets -> Nat]
  BY DEF EvidenceInv, EvidenceTypeOK
<1>9. \A y \in Assets : /\ expired[y] <= Len(rows[y]) /\ Len(rows[y]) <= MaxRows
                        /\ \A i \in 1..Len(rows[y]) : Tells(y, rows[y][i])
  BY DEF EvidenceInv, EvidenceTypeOK, RowsTell, WrittenTells, PendingTells
<1>10. /\ rows' \in [Assets -> Seq(Rows)]
       /\ \A y \in Assets : /\ expired[y] <= Len(rows'[y]) /\ Len(rows'[y]) <= MaxRows
                            /\ \A i \in 1..Len(rows'[y]) : Tells(y, rows'[y][i])
  <2>1. CASE UNCHANGED rows
    BY <2>1, <1>8, <1>9
  <2>2. CASE Len(rows[x]) < MaxRows /\ rows' = [rows EXCEPT ![x] = Append(@, kind)]
    <3> DEFINE more == Append(rows[x], kind)
    <3>1. /\ more \in Seq(Rows) /\ Len(more) = Len(rows[x]) + 1 /\ Len(rows[x]) \in Nat
          /\ \A i \in 1..Len(more) : more[i] = kind \/ \E j \in 1..Len(rows[x]) : more[i] = rows[x][j]
      BY <1>6, Appended DEF EvidenceInv
    <3>2. rows' = [rows EXCEPT ![x] = more]
      BY <2>2
    <3> HIDE DEF more
    <3>3. rows'[x] = more /\ \A y \in Assets : y # x => rows'[y] = rows[y]
      BY <1>6, <1>8, <3>2
    <3>4. expired[x] \in Nat /\ MaxRows \in Nat
      BY <1>6, <1>8
    <3>5. Len(more) <= MaxRows /\ expired[x] <= Len(more)
      BY <2>2, <3>1, <3>4, <1>6, <1>9
    <3>6. \A i \in 1..Len(more) : Tells(x, more[i])
      BY <1>6, <1>9, <3>1
    <3>7. rows' \in [Assets -> Seq(Rows)]
      BY <1>6, <1>8, <3>1, <3>2
    <3>8. QED
      BY <1>9, <3>3, <3>5, <3>6, <3>7
  <2>3. QED
    BY <1>7, <2>1, <2>2
<1>11. EvidenceTypeOK'
  BY <1>1, <1>3, <1>10 DEF EvidenceInv, EvidenceTypeOK
<1>12. RowsTell'
  BY <1>1, <1>3, <1>4, <1>10 DEF RowsTell, WrittenTells, PendingTells
<1>13. QED
  BY <1>11, <1>12 DEF EvidenceInv

(* A batch of a cleanup leaves the newer rows of each asset. *)
LEMMA DeleteKeeps ==
  ASSUME EvidenceInv, EvidenceNext, DeleteBatch
  PROVE  EvidenceInv'
<1>1. PICK v \in Batches : Delete(v) /\ cleaning' = (Sum(v) = BatchSize)
  BY DEF DeleteBatch
<1>2. /\ UNCHANGED <<attempt, approval, revivals, rewritten, assets, pending, periods>>
      /\ cleaning' \in BOOLEAN
      /\ rows' = [x \in Assets |-> SubSeq(rows[x], v[x] + 1, Len(rows[x]))]
      /\ expired' = [x \in Assets |-> expired[x] - v[x]]
  BY <1>1 DEF Delete, ledger, standing
<1>3. \A y, s : Tells(y, s) <=> Tells(y, s)'
  BY <1>2 DEF Tells, Ready
<1>4. \A x \in Assets : /\ v[x] \in Nat /\ v[x] <= expired[x] /\ expired[x] \in Nat
                        /\ expired[x] <= Len(rows[x]) /\ Len(rows[x]) \in Nat
  BY BatchesExpired DEF EvidenceInv
<1>5. \A x \in Assets : v[x] \in 0..Len(rows[x])
  BY <1>4
<1>6. \A x \in Assets :
        /\ rows'[x] \in Seq(Rows) /\ Len(rows'[x]) = Len(rows[x]) - v[x]
        /\ \A i \in 1..Len(rows'[x]) : \E j \in 1..Len(rows[x]) : rows'[x][i] = rows[x][j]
  <2> SUFFICES ASSUME NEW x \in Assets
               PROVE  /\ rows'[x] \in Seq(Rows) /\ Len(rows'[x]) = Len(rows[x]) - v[x]
                      /\ \A i \in 1..Len(rows'[x]) :
                            \E j \in 1..Len(rows[x]) : rows'[x][i] = rows[x][j]
    OBVIOUS
  <2>1. rows'[x] = SubSeq(rows[x], v[x] + 1, Len(rows[x]))
    BY <1>2
  <2>2. PICK n \in 0..Len(rows[x]) : n = v[x]
    BY <1>5
  <2>3. /\ SubSeq(rows[x], n + 1, Len(rows[x])) \in Seq(Rows)
        /\ Len(SubSeq(rows[x], n + 1, Len(rows[x]))) = Len(rows[x]) - n
        /\ \A i \in 1..Len(SubSeq(rows[x], n + 1, Len(rows[x]))) :
              \E j \in 1..Len(rows[x]) :
                 SubSeq(rows[x], n + 1, Len(rows[x]))[i] = rows[x][j]
    BY Deleted DEF EvidenceInv
  <2>4. QED
    BY <2>1, <2>2, <2>3
<1>7. \A x \in Assets : Len(rows[x]) <= MaxRows /\ \A i \in 1..Len(rows[x]) : Tells(x, rows[x][i])
  BY DEF EvidenceInv, EvidenceTypeOK, RowsTell, WrittenTells, PendingTells
<1>8. \A x \in Assets : /\ expired'[x] = expired[x] - v[x] /\ expired'[x] \in Nat
                        /\ expired'[x] <= Len(rows'[x]) /\ Len(rows'[x]) <= MaxRows
  <2>1. \A x \in Assets : expired'[x] = expired[x] - v[x]
    BY <1>2
  <2>2. \A x \in Assets : Len(rows'[x]) = Len(rows[x]) - v[x] /\ Len(rows[x]) <= MaxRows
    BY <1>6, <1>7
  <2>3. QED
    BY <1>4, <2>1, <2>2
<1>9. rows' \in [Assets -> Seq(Rows)] /\ expired' \in [Assets -> Nat]
  BY <1>2, <1>6, <1>8
<1>10. EvidenceTypeOK'
  BY <1>2, <1>8, <1>9 DEF EvidenceInv, EvidenceTypeOK
<1>11. WrittenTells'
  <2> SUFFICES ASSUME NEW x \in Assets, NEW i \in 1..Len(rows'[x]) PROVE Tells(x, rows[x][i])'
    BY DEF WrittenTells
  <2>1. Tells(x, rows'[x][i])
    BY <1>6, <1>7
  <2>2. QED
    BY <1>2, <2>1 DEF Tells, Ready
<1>12. PendingTells'
  BY <1>2, <1>3 DEF EvidenceInv, RowsTell, PendingTells
<1>13. QED
  BY <1>10, <1>11, <1>12 DEF EvidenceInv, RowsTell, WrittenTells, PendingTells

(* A cleanup that starts or fails deletes nothing. *)
LEMMA CleanupKeeps ==
  ASSUME EvidenceInv, EvidenceNext, StartCleanup \/ CleanupFails
  PROVE  EvidenceInv'
<1>1. /\ UNCHANGED <<attempt, approval, revivals, rewritten, assets, rows, expired, pending, periods>>
      /\ cleaning' \in BOOLEAN
  BY DEF StartCleanup, CleanupFails, ledger, standing, evidence
<1>2. EvidenceTypeOK'
  BY <1>1 DEF EvidenceInv, EvidenceTypeOK
<1>3. \A y, s : Tells(y, s) <=> Tells(y, s)'
  BY <1>1 DEF Tells, Ready
<1>4. QED
  BY <1>1, <1>2, <1>3 DEF EvidenceInv, RowsTell, WrittenTells, PendingTells

(* A period passes: every row of an asset is older than the cutoff. *)
LEMMA PassKeeps ==
  ASSUME EvidenceInv, EvidenceNext, PassPeriod
  PROVE  EvidenceInv'
<1>1. /\ UNCHANGED <<attempt, approval, revivals, rewritten, assets, rows, pending, cleaning>>
      /\ expired' = [x \in Assets |-> Len(rows[x])] /\ periods' \in 0..MaxPeriods
  BY DEF PassPeriod, ledger, standing, EvidenceInv, EvidenceTypeOK
<1>2. \A x \in Assets : Len(rows[x]) \in Nat
  BY LenProperties DEF EvidenceInv, EvidenceTypeOK
<1>3. expired' \in [Assets -> Nat] /\ \A x \in Assets : expired'[x] = Len(rows[x])
  BY <1>1, <1>2
<1>4. EvidenceTypeOK'
  BY <1>1, <1>2, <1>3 DEF EvidenceInv, EvidenceTypeOK
<1>5. \A y, s : Tells(y, s) <=> Tells(y, s)'
  BY <1>1 DEF Tells, Ready
<1>6. QED
  BY <1>1, <1>4, <1>5 DEF EvidenceInv, RowsTell, WrittenTells, PendingTells

(* The ledger or the approval moves on. *)
LEMMA MovesKeeps ==
  ASSUME EvidenceInv, EvidenceNext, Moves
  PROVE  EvidenceInv'
<1>1. /\ UNCHANGED <<assets, rows, expired, pending, periods, cleaning>>
      /\ attempt' \in [Ops -> AttemptStatuses] /\ approval' \in {"approved", "pending"}
      /\ revivals' \in 0..MaxRevivals /\ rewritten' \in BOOLEAN
  BY MovesStep DEF EvidenceInv
<1>2. EvidenceTypeOK'
  BY <1>1 DEF EvidenceInv, EvidenceTypeOK
<1>3. \A y, s : Tells(y, s) => Tells(y, s)'
  BY TellsOn DEF EvidenceInv
<1>4. QED
  BY <1>1, <1>2, <1>3 DEF EvidenceInv, RowsTell, WrittenTells, PendingTells

(* An attempt's asset is there. *)
LEMMA AppearKeeps ==
  ASSUME EvidenceInv, EvidenceNext, AssetsAppear
  PROVE  EvidenceInv'
<1>1. /\ UNCHANGED <<attempt, approval, revivals, rewritten, rows, expired, pending, periods, cleaning>>
      /\ assets' = Assets
  BY DEF AssetsAppear, ledger, standing, evidence, retention
<1>2. \A y, s : Tells(y, s) <=> Tells(y, s)'
  BY <1>1 DEF Tells, Ready
<1>3. EvidenceTypeOK'
  BY <1>1 DEF EvidenceInv, EvidenceTypeOK
<1>4. QED
  BY <1>1, <1>2, <1>3 DEF EvidenceInv, RowsTell, WrittenTells, PendingTells

(* A recorder that gives up writes nothing. *)
LEMMA AbandonKeeps ==
  ASSUME EvidenceInv, EvidenceNext, NEW r \in Recorders, Abandon(r)
  PROVE  EvidenceInv'
<1>1. /\ pending' = [pending EXCEPT ![r] = None]
      /\ UNCHANGED <<attempt, approval, revivals, rewritten, assets, rows, expired, periods, cleaning>>
  BY DEF Abandon, ledger, standing, evidence, retention
<1>2. /\ pending' \in [Recorders -> {None} \cup [asset : Assets, status : Rows]]
      /\ PendingTells'
  BY <1>1, DoneKeeps
<1>3. \A y, s : Tells(y, s) <=> Tells(y, s)'
  BY <1>1 DEF Tells, Ready
<1>4. EvidenceTypeOK'
  BY <1>1, <1>2 DEF EvidenceInv, EvidenceTypeOK
<1>5. QED
  BY <1>1, <1>2, <1>3, <1>4 DEF EvidenceInv, RowsTell, WrittenTells, PendingTells

(* A step that changes nothing. *)
LEMMA StutterKeeps ==
  ASSUME EvidenceInv, UNCHANGED evidenceVars
  PROVE  EvidenceInv'
<1>1. UNCHANGED <<attempt, approval, revivals, rewritten, assets, rows, expired, pending, periods, cleaning>>
  BY DEF evidenceVars, ledger, standing
<1>2. EvidenceTypeOK'
  BY <1>1 DEF EvidenceInv, EvidenceTypeOK
<1>3. \A y, s : Tells(y, s) <=> Tells(y, s)'
  BY <1>1 DEF Tells, Ready
<1>4. QED
  BY <1>1, <1>2, <1>3 DEF EvidenceInv, RowsTell, WrittenTells, PendingTells

(* There are no rows at first. *)
LEMMA EvidenceInvInit == EvidenceInit => EvidenceInv
<1> SUFFICES ASSUME EvidenceInit PROVE EvidenceInv
  OBVIOUS
<1>1. \A x \in Assets : rows[x] = <<>> /\ expired[x] = 0 /\ rows[x] \in Seq(Rows) /\ Len(rows[x]) = 0
  BY EmptySeq DEF EvidenceInit
<1>2. rows \in [Assets -> Seq(Rows)] /\ expired \in [Assets -> Nat]
  BY <1>1 DEF EvidenceInit
<1>3. attempt \in [Ops -> AttemptStatuses]
  BY DEF EvidenceInit, AttemptStatuses
<1>4. \A r \in Recorders : pending[r] = None
  BY DEF EvidenceInit
<1>5. EvidenceTypeOK
  <2>1. /\ revivals \in 0..MaxRevivals /\ periods \in 0..MaxPeriods
        /\ \A x \in Assets : expired[x] <= Len(rows[x]) /\ Len(rows[x]) <= MaxRows
    BY <1>1 DEF EvidenceInit
  <2>2. pending \in [Recorders -> {None} \cup [asset : Assets, status : Rows]]
    BY DEF EvidenceInit
  <2>3. QED
    BY <1>2, <1>3, <2>1, <2>2 DEF EvidenceInit, EvidenceTypeOK
<1>6. QED
  BY <1>1, <1>4, <1>5 DEF EvidenceInv, RowsTell, WrittenTells, PendingTells

(* The inductive invariant holds in every reachable state. *)
THEOREM EvidenceInvCorrect == EvidenceSpec => []EvidenceInv
<1>1. EvidenceInv /\ [EvidenceNext]_evidenceVars => EvidenceInv'
  <2> SUFFICES ASSUME EvidenceInv, EvidenceNext PROVE EvidenceInv'
    BY StutterKeeps
  <2>1. CASE \E r \in Recorders : Record(r) \/ Write(r) \/ Abandon(r)
    BY <2>1, DecideKeeps, WriteKeeps, AbandonKeeps
  <2>2. CASE Moves
    BY <2>2, MovesKeeps
  <2>3. CASE AssetsAppear \/ PassPeriod \/ Cleanup
    BY <2>3, AppearKeeps, PassKeeps, DeleteKeeps, CleanupKeeps DEF Cleanup
  <2>4. QED
    BY <2>1, <2>2, <2>3 DEF EvidenceNext, Moves
<1>2. QED
  BY <1>1, EvidenceInvInit, PTL DEF EvidenceSpec

(* Every variable stays in its type: what has expired of an asset's rows is   *)
(* there, and no asset has more rows than the bound.                          *)
THEOREM EvidenceTypeCorrect == EvidenceSpec => []EvidenceTypeOK
<1>1. EvidenceInv => EvidenceTypeOK
  BY DEF EvidenceInv
<1>2. QED
  BY <1>1, EvidenceInvCorrect, PTL

(* An attempt is reviewed only when all the attempts before it are done. *)
THEOREM ReviewedInOrderCorrect == EvidenceSpec => []ReviewedInOrder
<1>1. EvidenceInv => ReviewedInOrder
  <2> SUFFICES ASSUME EvidenceInv, NEW o \in Ops, Observed(o, Reviewed) PROVE Ready(o) \/ rewritten
    BY DEF ReviewedInOrder
  <2>1. Tells(o, Reviewed)
    BY ObservedTells DEF EvidenceInv, Assets
  <2>2. QED
    BY <2>1 DEF Tells
<1>2. QED
  BY <1>1, EvidenceInvCorrect, PTL

(* Nobody can execute live before the ledger is recorded again. *)
THEOREM NobodyMayExecuteCorrect == EvidenceSpec => []NobodyMayExecute
<1>1. EvidenceInv => NobodyMayExecute
  <2> SUFFICES ASSUME EvidenceInv, ~rewritten, NEW o \in Ops
               PROVE  ~MayExecute(o) /\ (Observed(o, Guarded) => o = Open)
    BY DEF NobodyMayExecute
  <2>1. ASSUME MayExecute(o) PROVE FALSE
    <3>1. o = Branch /\ attempt[Branch] = "running" /\ Observed(Approval, Armed)
      BY <2>1 DEF MayExecute
    <3>2. Tells(Approval, Armed)
      BY <3>1, ObservedTells DEF EvidenceInv, Assets
    <3>3. attempt[Branch] = "completed"
      BY <3>2, Names DEF Tells, Ready
    <3>4. QED
      BY <3>1, <3>3
  <2>2. ASSUME Observed(o, Guarded) PROVE o = Open
    <3>1. Tells(o, Guarded)
      BY <2>2, ObservedTells DEF EvidenceInv, Assets
    <3>2. QED
      BY <3>1 DEF Tells
  <2>3. QED
    BY <2>1, <2>2
<1>2. QED
  BY <1>1, EvidenceInvCorrect, PTL
=============================================================================
