------------------------ MODULE ReviewLedger_proof ------------------------
(***************************************************************************)
(* Theorems about ReviewLedger, for any gateways, handlers and faults,     *)
(* and, in the second part, about RepoTags, for any runs, callers and      *)
(* workers.                                                                *)
(*                                                                         *)
(* IInv is the inductive invariant, a conjunction of named parts, each     *)
(* preserved on the strength of those before it: who holds a lock (Locks), *)
(* the ledger by itself (Ledger), what a handler under way knows of it     *)
(* (UnderWay), what is at GitHub (AtProvider), and who answers for a       *)
(* branch that exists there (Accounted).                                   *)
(*                                                                         *)
(* TagInv is that of RepoTags: workers have operations that were claimed   *)
(* (Claimed), a run that shows "running" has one whose outcome is to come  *)
(* (Carried), a tag is finished after it was followed up (Followed),       *)
(* nothing tells of a tag that never was there (Seen), and writers of the  *)
(* Actions rows who met nobody know all of them (Apart).                   *)
(***************************************************************************)
EXTENDS ReviewLedger, RepoTags, SequenceTheorems, FiniteSetTheorems,
        WellFoundedInduction, TLAPS

Commit == "commit_starter_files"
Open == "open_review_request"

(* A handler under way has its gateway's lock: so a gateway has one. *)
Locks == \A h \in Handlers : pc[h] # "idle" => lock[Home[h]] = h

Ledger ==
    /\ attempt[Branch].dependency = "independent"
    /\ attempt[Branch].armed => attempt[Branch].status # "planned"
    /\ \A o \in Ops \ {Branch} : attempt[o].armed => attempt[o].status = "completed"
    /\ DependencyAgreement
    /\ InOrder

UnderWay ==
    /\ recorder # None => attempt[Branch].status \in Settled
    /\ \A h \in Handlers :
          /\ pc[h] \in Calls => attempt[Branch].armed
          /\ pc[h] \in {"clean", "clean_record"} => attempt[Branch].status = "failed"
    /\ AnswerFindsAttempt

(* h works on a branch it has made, or is about to record that all is done. *)
Owner(h) == pc[h] \in {"files", "review", "delete"} \/ (pc[h] = "record" /\ out[h].ok)

Complete == [branch |-> TRUE, files |-> TRUE, review |-> TRUE]

(* GitHub refuses a branch that exists, so it has one owner, of any gateway, *)
(* as long as the attempt runs: cleanups come only after it has failed.      *)
AtProvider ==
    /\ \A h \in Handlers :
          /\ pc[h] = "record" /\ out[h].ok => out[h].called
          /\ attempt[Branch].status = "running" =>
                /\ Owner(h) => provider.branch
                /\ pc[h] = "review" => provider.files
                /\ pc[h] = "record" /\ out[h].ok => provider = Complete
                /\ \A i \in Handlers : Owner(h) /\ Owner(i) => h = i
          /\ attempt[Branch].status = "completed" /\ attempt[Branch].called => ~Owner(h)
    /\ attempt[Branch].called => attempt[Branch].status \in Settled
    /\ CompletedIsOpen

(* A branch that h made is h's to delete, to record or to flag. *)
Mine(h) ==
    /\ made[h] => pc[h] \in {"files", "review", "delete", "record"}
    /\ pc[h] \in {"files", "review", "delete"} => made[h]
    /\ pc[h] = "record" /\ made[h] /\ ~out[h].ok => out[h].required

Excused == blind # {} \/ \E h \in Handlers : made[h]

Shown == LET a == attempt[Branch] IN
    (a.status = "failed" /\ a.required) \/ (a.status = "completed" /\ a.called)

(* A cleanup may take the flag away only when there is nothing to clean up. *)
Accounted ==
    /\ \A h \in Handlers :
          /\ Mine(h)
          /\ pc[h] = "clean_record" /\ ~out[h].required /\ provider.branch => Excused
    /\ provider.branch => Excused \/ Shown

IInv == TypeOK /\ Locks /\ Ledger /\ UnderWay /\ AtProvider /\ Accounted

-----------------------------------------------------------------------------
(* The three attempts and what each waits for. *)
LEMMA Attempts3 ==
    /\ Branch \in Ops /\ Commit \in Ops /\ Open \in Ops
    /\ \A o \in Ops : o = Branch \/ o = Commit \/ o = Open
    /\ Branch # Commit /\ Branch # Open /\ Commit # Open
    /\ Predecessor[Branch] = "none" /\ Predecessor[Commit] = Branch
    /\ Predecessor[Open] = Commit
    /\ "none" \notin Ops
BY DEF Ops, Branch, Commit, Open, Predecessor

(* What a handler that is not arming or recording leaves alone. *)
LEMMA LedgerKept ==
    ASSUME NEW h \in Handlers,
           \/ BeginExecution(h) \/ BeginCleanup(h) \/ Refuse(h) \/ ReadInput(h)
           \/ ReadBase(h) \/ CreateBranch(h) \/ CommitFiles(h) \/ OpenReview(h)
           \/ DeleteBranch(h) \/ RecordRefused(h) \/ ReadCleanup(h) \/ Cleanup(h)
           \/ Abandon(h)
    PROVE  attempt' = attempt /\ recorder' = recorder
BY DEF BeginExecution, BeginCleanup, Refuse, ReadInput, ReadBase, CreateBranch, CommitFiles,
       OpenReview, DeleteBranch, RecordRefused, ReadCleanup, Cleanup, Abandon, ledger

-----------------------------------------------------------------------------
(* Type correctness *)

(* The ledger starts well typed. *)
LEMMA InitTypeOK == ASSUME Init PROVE TypeOK
BY FaultAssumption DEF Init, TypeOK, Attempts, Dependencies, Results, NoResult, Nothing, Labels, Calls

(* A handler that ends keeps the types. *)
LEMMA TypeOKEnd ==
    ASSUME TypeOK, NEW h \in Handlers, End(h)
    PROVE  /\ lock' \in [Gateways -> Handlers \cup {None}]
           /\ pc' \in [Handlers -> Labels]
           /\ made' \in [Handlers -> BOOLEAN]
           /\ out' \in [Handlers -> Results]
BY DEF TypeOK, End, NoResult, Results, Labels

(* So does one that moves to another step. *)
LEMMA TypeOKMoves ==
    ASSUME TypeOK, NEW h \in Handlers
    PROVE  /\ \A label \in Labels : Goto(h, label) =>
                 pc' \in [Handlers -> Labels] /\ made' \in [Handlers -> BOOLEAN]
           /\ \A ok, called, required, cleaned \in BOOLEAN :
                 Answer(h, ok, called, required, cleaned) => out' \in [Handlers -> Results]
<1>1. ASSUME NEW label \in Labels, Goto(h, label)
      PROVE  pc' \in [Handlers -> Labels] /\ made' \in [Handlers -> BOOLEAN]
  BY <1>1 DEF TypeOK, Goto
<1>2. ASSUME NEW ok \in BOOLEAN, NEW called \in BOOLEAN, NEW required \in BOOLEAN,
             NEW cleaned \in BOOLEAN, Answer(h, ok, called, required, cleaned)
      PROVE  out' \in [Handlers -> Results]
  <2>1. [ok |-> ok, called |-> called, required |-> required, cleaned |-> cleaned] \in Results
    BY DEF Results
  <2> QED BY <1>2, <2>1 DEF TypeOK, Answer
<1> QED BY <1>1, <1>2

Providers == [branch : BOOLEAN, files : BOOLEAN, review : BOOLEAN]

(* The calls to GitHub keep its state well typed. *)
LEMMA ProviderTypes ==
    ASSUME TypeOK
    PROVE  /\ Nothing \in Providers
           /\ [provider EXCEPT !.branch = TRUE] \in Providers
           /\ [provider EXCEPT !.files = TRUE] \in Providers
           /\ [provider EXCEPT !.review = TRUE] \in Providers
           /\ Partly("files") \subseteq Providers /\ Partly("review") \subseteq Providers
           /\ \A ok \in BOOLEAN : Deletes(ok) => provider' \in Providers
<1>1. provider \in Providers BY DEF TypeOK, Providers
<1>2. Nothing \in Providers BY DEF Nothing, Providers
<1>3. /\ [provider EXCEPT !.branch = TRUE] \in Providers
      /\ [provider EXCEPT !.files = TRUE] \in Providers
      /\ [provider EXCEPT !.review = TRUE] \in Providers
  BY <1>1 DEF Providers
<1>4. Partly("files") \subseteq Providers
  <2>1. [provider EXCEPT !["files"] = TRUE] \in Providers BY <1>1 DEF Providers
  <2> QED BY <1>1, <2>1 DEF Partly
<1>5. Partly("review") \subseteq Providers
  <2>1. [provider EXCEPT !["review"] = TRUE] \in Providers BY <1>1 DEF Providers
  <2> QED BY <1>1, <2>1 DEF Partly
<1>6. ASSUME NEW ok \in BOOLEAN, Deletes(ok) PROVE provider' \in Providers
  BY <1>1, <1>2, <1>6 DEF Deletes
<1> QED BY <1>2, <1>3, <1>4, <1>5, <1>6

Ways == {"answer lost", "unrecorded", "unreachable"}

(* The bounds and the record of blind spots stay well typed. *)
LEMMA HistoryTypes ==
    ASSUME TypeOK
    PROVE  /\ faults < MaxFaults => faults + 1 \in 0..MaxFaults
           /\ \A way \in Ways : blind \cup {way} \subseteq Ways
           /\ \A hs : Unrecorded(hs) => blind' \subseteq Ways
<1>1. faults < MaxFaults => faults + 1 \in 0..MaxFaults
  <2>1. faults \in 0..MaxFaults BY DEF TypeOK
  <2> QED BY <2>1, FaultAssumption
<1>2. blind \subseteq Ways BY DEF TypeOK, Ways
<1>3. "unrecorded" \in Ways BY DEF Ways
<1> QED BY <1>1, <1>2, <1>3 DEF Unrecorded

(* The labels the actions use are labels. *)
LEMMA KnownLabels == Calls \cup {"idle", "input", "arm", "clean_input", "clean", "clean_record"} \subseteq Labels
                     /\ {"base", "create", "files", "review", "delete", "record"} \subseteq Calls
BY DEF Labels, Calls

(* The saved values of a transaction are rows of the table. *)
LEMMA RowTypes ==
    ASSUME TypeOK, NEW o \in Ops, NEW r \in Results, NEW status \in {"planned"} \cup Settled
    PROVE  /\ WithResult(o, r) \in Attempts
           /\ Dependent(o, r) \in Attempts
           /\ [attempt[o] EXCEPT !.status = status] \in Attempts
           /\ [attempt[o] EXCEPT !.dependency = PassOn(o, status)] \in Attempts
<1>1. attempt[o] \in Attempts BY DEF TypeOK
<1>2. \A s \in {"planned"} \cup Settled : PassOn(o, s) \in Dependencies
  BY <1>1 DEF PassOn, Attempts, Dependencies
<1>3. WithResult(o, r) \in Attempts
  BY <1>1 DEF WithResult, Attempts, Results, Settled
<1>4. \A s \in {"planned"} \cup Settled :
          [attempt[o] EXCEPT !.dependency = PassOn(o, s)] \in Attempts
  BY <1>1, <1>2 DEF Attempts
<1>5. Dependent(o, r) \in Attempts
  BY <1>1, <1>3, <1>4 DEF Dependent, Attempts, Dependencies, Settled
<1>6. [attempt[o] EXCEPT !.status = status] \in Attempts
  BY <1>1 DEF Attempts
<1> QED BY <1>3, <1>4, <1>5, <1>6

(* What is recorded without a call to GitHub keeps the types. *)
LEMMA ByHandTypeOK == ASSUME TypeOK, ByHand PROVE TypeOK'
<1>1. ASSUME NEW o \in Ops, Claim(o) PROVE TypeOK'
  <2>1. attempt[o] \in Attempts BY DEF TypeOK
  <2>2. [attempt[o] EXCEPT !.status = "running"] \in Attempts BY <2>1 DEF Attempts
  <2>3. attempt' \in [Ops -> Attempts] BY <1>1, <2>2 DEF Claim, TypeOK
  <2> QED BY <1>1, <2>3 DEF TypeOK, Claim, handler
<1>2. ASSUME NEW o \in Ops, NEW result \in {"success", "retryable", "failed"},
             LocalResult(o, result)
      PROVE  TypeOK'
  <2>1. StatusFor(result) \in {"planned"} \cup Settled BY DEF StatusFor, Settled
  <2>2. \A p \in Ops : /\ attempt[p] \in Attempts
                       /\ [attempt[p] EXCEPT !.dependency = PassOn(p, StatusFor(result))] \in Attempts
                       /\ [attempt[p] EXCEPT !.status = StatusFor(result)] \in Attempts
    <3>1. \A p \in Ops : attempt[p] \in Attempts BY DEF TypeOK
    <3>2. NoResult \in Results BY DEF NoResult, Results
    <3> QED BY <3>1, <3>2, <2>1, RowTypes
  <2>3. attempt' \in [Ops -> Attempts]
    BY <1>2, <2>2 DEF LocalResult
  <2> QED BY <1>2, <2>3 DEF LocalResult, TypeOK, handler
<1> QED BY <1>1, <1>2 DEF ByHand

(* Every step of a handler keeps the types. *)
LEMMA HandlerTypeOK ==
    ASSUME TypeOK, NEW h \in Handlers,
           BeginExecution(h) \/ BeginCleanup(h) \/ HandlerStep(h) \/ Abandon(h)
    PROVE  TypeOK'
<1> USE HandlerAssumption, FaultAssumption
<1>1. CASE BeginExecution(h)
  BY <1>1, TypeOKMoves, KnownLabels DEF TypeOK, BeginExecution, Acquire, ledger
<1>2. CASE BeginCleanup(h)
  BY <1>2, TypeOKMoves, KnownLabels DEF TypeOK, BeginCleanup, Acquire, ledger
<1>3. CASE Refuse(h)
  BY <1>3, TypeOKEnd DEF TypeOK, Refuse, ledger
<1>4. CASE ReadInput(h)
  BY <1>4, TypeOKMoves, KnownLabels DEF TypeOK, ReadInput, ledger
<1>5. CASE Arm(h)
  <2>0. attempt[Branch] \in Attempts BY Attempts3 DEF TypeOK
  <2>1. [attempt[Branch] EXCEPT !.armed = TRUE] \in Attempts BY <2>0 DEF Attempts
  <2>2. attempt' \in [Ops -> Attempts] BY <1>5, <2>1, Attempts3 DEF TypeOK, Arm
  <2> QED BY <1>5, <2>2, TypeOKMoves, KnownLabels DEF TypeOK, Arm
<1>6. CASE ReadBase(h)
  BY <1>6, TypeOKMoves, KnownLabels DEF TypeOK, ReadBase, ledger
<1>7. CASE CreateBranch(h)
  <2>1. provider' \in Providers BY <1>7, ProviderTypes DEF CreateBranch, TypeOK, Providers
  <2>2. /\ pc' \in [Handlers -> Labels] /\ made' \in [Handlers -> BOOLEAN]
        /\ out' \in [Handlers -> Results]
    <3>1. /\ pc \in [Handlers -> Labels] /\ made \in [Handlers -> BOOLEAN]
          /\ out \in [Handlers -> Results]
      BY DEF TypeOK
    <3>2. CASE pc' = [pc EXCEPT ![h] = "files"] /\ made' = [made EXCEPT ![h] = TRUE] /\ UNCHANGED out
      BY <3>1, <3>2, KnownLabels
    <3>3. CASE Goto(h, "record") /\ Answer(h, FALSE, TRUE, FALSE, FALSE)
      BY <3>3, TypeOKMoves, KnownLabels
    <3> QED BY <1>7, <3>2, <3>3 DEF CreateBranch
  <2>3. faults' \in 0..MaxFaults BY <1>7, HistoryTypes DEF CreateBranch, TypeOK
  <2>4. blind' \subseteq Ways BY <1>7, HistoryTypes DEF CreateBranch, TypeOK, Ways
  <2> QED BY <1>7, <2>1, <2>2, <2>3, <2>4 DEF Ways, CreateBranch, TypeOK, Providers, ledger
<1>8. CASE CommitFiles(h)
  BY <1>8, ProviderTypes, TypeOKMoves, KnownLabels DEF TypeOK, CommitFiles, Providers, ledger
<1>9. CASE OpenReview(h)
  BY <1>9, ProviderTypes, TypeOKMoves, KnownLabels DEF TypeOK, OpenReview, Providers, ledger
<1>10. CASE DeleteBranch(h)
  <2>1. /\ provider' \in Providers /\ out' \in [Handlers -> Results]
        /\ made' \in [Handlers -> BOOLEAN]
    <3>1. PICK ok \in BOOLEAN : /\ Deletes(ok) /\ Answer(h, FALSE, TRUE, ~ok, ok)
                                /\ made' = [made EXCEPT ![h] = ~ok]
      BY <1>10 DEF DeleteBranch
    <3>2. made \in [Handlers -> BOOLEAN] BY DEF TypeOK
    <3>3. provider' \in Providers BY <3>1, ProviderTypes
    <3>4. out' \in [Handlers -> Results] BY <3>1, TypeOKMoves
    <3>5. made' \in [Handlers -> BOOLEAN] BY <3>1, <3>2
    <3> QED BY <3>3, <3>4, <3>5
  <2> QED BY <1>10, <2>1, KnownLabels DEF DeleteBranch, TypeOK, Providers, ledger
<1>11. CASE Record(h)
  <2>1. out[h] \in Results BY DEF TypeOK
  <2>2. \A o \in Ops : WithResult(o, out[h]) \in Attempts /\ Dependent(o, out[h]) \in Attempts
    BY <2>1, RowTypes
  <2>3. attempt' \in [Ops -> Attempts] BY <1>11, <2>2 DEF Record
  <2>4. recorder' \in Gateways \cup {None} BY <1>11 DEF Record
  <2> QED BY <1>11, <2>3, <2>4, TypeOKEnd DEF TypeOK, Record
<1>12. CASE RecordRefused(h)
  BY <1>12, TypeOKEnd, HistoryTypes DEF TypeOK, RecordRefused, Ways, ledger
<1>13. CASE ReadCleanup(h)
  BY <1>13, TypeOKMoves, KnownLabels DEF TypeOK, ReadCleanup, ledger
<1>14. CASE Cleanup(h)
  <2>1. provider' \in Providers BY <1>14, ProviderTypes DEF Cleanup, TypeOK, Providers
  <2>2. /\ pc' \in [Handlers -> Labels] /\ made' \in [Handlers -> BOOLEAN]
        /\ out' \in [Handlers -> Results]
    BY <1>14, TypeOKMoves, KnownLabels DEF Cleanup
  <2>3. faults' \in 0..MaxFaults BY <1>14, HistoryTypes DEF Cleanup, TypeOK
  <2>4. blind' \subseteq Ways BY <1>14, HistoryTypes DEF Cleanup, TypeOK, Ways
  <2> QED BY <1>14, <2>1, <2>2, <2>3, <2>4 DEF Ways, Cleanup, TypeOK, Providers, ledger
<1>15. CASE RecordCleanup(h)
  <2>1. out[h] \in Results /\ attempt[Branch] \in Attempts BY Attempts3 DEF TypeOK
  <2>2. [attempt[Branch] EXCEPT !.required = out[h].required, !.cleaned = out[h].cleaned]
           \in Attempts
    BY <2>1 DEF Attempts, Results
  <2>3. attempt' \in [Ops -> Attempts] BY <1>15, <2>2, Attempts3 DEF RecordCleanup, TypeOK
  <2> QED BY <1>15, <2>3, TypeOKEnd DEF TypeOK, RecordCleanup
<1>16. CASE Abandon(h)
  BY <1>16, TypeOKEnd, HistoryTypes DEF TypeOK, Abandon, Ways, ledger
<1> QED
  BY <1>1, <1>2, <1>3, <1>4, <1>5, <1>6, <1>7, <1>8, <1>9, <1>10, <1>11, <1>12, <1>13,
     <1>14, <1>15, <1>16 DEF HandlerStep, Execution

(* Every step keeps the types. *)
LEMMA NextTypeOK == ASSUME TypeOK, [Next]_vars PROVE TypeOK'
<1>1. ASSUME NEW g \in Gateways, Crash(g) PROVE TypeOK'
  <2>1. /\ lock' \in [Gateways -> Handlers \cup {None}] /\ pc' \in [Handlers -> Labels]
        /\ made' \in [Handlers -> BOOLEAN]
    BY <1>1 DEF TypeOK, Crash, Labels
  <2>2. out' \in [Handlers -> Results] BY <1>1 DEF TypeOK, Crash, NoResult, Results
  <2>3. faults' \in 0..MaxFaults /\ blind' \subseteq Ways
    BY <1>1, HistoryTypes DEF TypeOK, Crash
  <2> QED BY <1>1, <2>1, <2>2, <2>3 DEF TypeOK, Crash, Ways, ledger
<1>2. CASE UNCHANGED vars
  BY <1>2 DEF TypeOK, vars, ledger, handler
<1> QED BY <1>1, <1>2, ByHandTypeOK, HandlerTypeOK DEF Next

(* The type invariant holds of every reachable state. *)
THEOREM TypeCorrect == Spec => []TypeOK
<1> QED BY InitTypeOK, NextTypeOK, PTL DEF Spec

-----------------------------------------------------------------------------
(* Who holds a lock *)

Move(h) == /\ pc[h] # "idle" /\ lock' = lock
           /\ \E label \in Labels : pc' = [pc EXCEPT ![h] = label]

(* A handler under way moves on, or ends. *)
LEMMA StepMoves ==
    ASSUME NEW h \in Handlers, HandlerStep(h) \/ Abandon(h)
    PROVE  Move(h) \/ (pc[h] # "idle" /\ End(h))
<1> USE KnownLabels
<1>1. CASE Refuse(h) BY <1>1 DEF Refuse
<1>2. CASE ReadInput(h) BY <1>2 DEF ReadInput, Goto, Move
<1>3. CASE Arm(h) BY <1>3 DEF Arm, Goto, Move
<1>4. CASE ReadBase(h) BY <1>4 DEF ReadBase, Goto, Move
<1>5. CASE CreateBranch(h) BY <1>5 DEF CreateBranch, Goto, Move
<1>6. CASE CommitFiles(h) BY <1>6 DEF CommitFiles, Goto, Move
<1>7. CASE OpenReview(h) BY <1>7 DEF OpenReview, Goto, Move
<1>8. CASE DeleteBranch(h) BY <1>8 DEF DeleteBranch, Goto, Move
<1>9. CASE Record(h) BY <1>9 DEF Record
<1>10. CASE RecordRefused(h) BY <1>10 DEF RecordRefused
<1>11. CASE ReadCleanup(h) BY <1>11 DEF ReadCleanup, Goto, Move
<1>12. CASE Cleanup(h) BY <1>12 DEF Cleanup, Goto, Move
<1>13. CASE RecordCleanup(h) BY <1>13 DEF RecordCleanup
<1>14. CASE Abandon(h) BY <1>14 DEF Abandon, Calls
<1> QED
  BY <1>1, <1>2, <1>3, <1>4, <1>5, <1>6, <1>7, <1>8, <1>9, <1>10, <1>11, <1>12, <1>13, <1>14
     DEF HandlerStep, Execution

(* Every step keeps a gateway's lock with the handler at work. *)
LEMMA NextLocks == ASSUME TypeOK, Locks, [Next]_vars PROVE Locks'
<1> USE HandlerAssumption
<1>0. pc \in [Handlers -> Labels] /\ lock \in [Gateways -> Handlers \cup {None}] BY DEF TypeOK
<1>1. CASE ByHand
  BY <1>1 DEF ByHand, Claim, LocalResult, handler, Locks
<1>2. ASSUME NEW h \in Handlers, BeginExecution(h) \/ BeginCleanup(h) PROVE Locks'
  <2>1. /\ lock[Home[h]] = None /\ lock' = [lock EXCEPT ![Home[h]] = h]
        /\ \E label : pc' = [pc EXCEPT ![h] = label]
    BY <1>2 DEF BeginExecution, BeginCleanup, Acquire, Goto
  <2> QED BY <1>0, <2>1 DEF Locks
<1>3. ASSUME NEW h \in Handlers, HandlerStep(h) \/ Abandon(h) PROVE Locks'
  <2>1. CASE Move(h) BY <1>0, <2>1 DEF Move, Locks
  <2>2. CASE pc[h] # "idle" /\ End(h)
    <3>1. lock' = [lock EXCEPT ![Home[h]] = None] /\ pc' = [pc EXCEPT ![h] = "idle"]
      BY <2>2 DEF End
    <3> QED BY <1>0, <2>2, <3>1 DEF Locks
  <2> QED BY <1>3, <2>1, <2>2, StepMoves
<1>4. ASSUME NEW g \in Gateways, Crash(g) PROVE Locks'
  BY <1>0, <1>4 DEF Crash, Locks
<1>5. CASE UNCHANGED vars BY <1>5 DEF vars, handler, Locks
<1> QED BY <1>1, <1>2, <1>3, <1>4, <1>5 DEF Next

-----------------------------------------------------------------------------
(* The ledger by itself *)

Told(status) == CASE status = "completed" -> "dependency_satisfied"
                  [] status = "failed" -> "dependency_failed"
                  [] OTHER -> "waiting_for_dependency"

Begun(o) == attempt[o].status \in Settled \cup {"running"}

(* The ledger of three attempts, spelled out. *)
LEMMA LedgerSpelled ==
    Ledger <=>
      /\ attempt[Branch].dependency = "independent"
      /\ attempt[Branch].armed => attempt[Branch].status # "planned"
      /\ attempt[Commit].armed => attempt[Commit].status = "completed"
      /\ attempt[Open].armed => attempt[Open].status = "completed"
      /\ attempt[Commit].dependency = Told(attempt[Branch].status)
      /\ attempt[Open].dependency = Told(attempt[Commit].status)
      /\ Begun(Commit) => attempt[Branch].status = "completed"
      /\ Begun(Open) => attempt[Commit].status = "completed"
BY Attempts3 DEF Ledger, DependencyAgreement, InOrder, Told, Begun

(* The same of the next state. *)
LEMMA LedgerSpelledNext ==
    Ledger' <=>
      /\ attempt'[Branch].dependency = "independent"
      /\ attempt'[Branch].armed => attempt'[Branch].status # "planned"
      /\ attempt'[Commit].armed => attempt'[Commit].status = "completed"
      /\ attempt'[Open].armed => attempt'[Open].status = "completed"
      /\ attempt'[Commit].dependency = Told(attempt'[Branch].status)
      /\ attempt'[Open].dependency = Told(attempt'[Commit].status)
      /\ Begun(Commit)' => attempt'[Branch].status = "completed"
      /\ Begun(Open)' => attempt'[Commit].status = "completed"
BY Attempts3 DEF Ledger, DependencyAgreement, InOrder, Told, Begun

(* A ledger of planned attempts is in order. *)
LEMMA InitLedger == ASSUME Init PROVE Ledger
BY LedgerSpelled, Attempts3 DEF Init, Told, Begun, Settled

(* A claim keeps the ledger in order. *)
LEMMA ClaimLedger == ASSUME TypeOK, Ledger, NEW o \in Ops, Claim(o) PROVE Ledger'
<1>1. \A p \in Ops : attempt[p] \in Attempts BY DEF TypeOK
<1>2. /\ attempt[o].status = "planned" /\ Ready(o) /\ ~attempt[o].armed
      /\ attempt' = [attempt EXCEPT ![o] = [attempt[o] EXCEPT !.status = "running"]]
  BY DEF Claim
<1>3. attempt'[o] = [attempt[o] EXCEPT !.status = "running"]
  BY <1>2 DEF TypeOK
<1>4. /\ attempt'[o].status = "running" /\ attempt'[o].dependency = attempt[o].dependency
      /\ attempt'[o].armed = attempt[o].armed
  BY <1>1, <1>3 DEF Attempts
<1>5. \A p \in Ops : p # o => attempt'[p] = attempt[p]
  BY <1>2 DEF TypeOK
<1>6. CASE o = Branch
  BY <1>2, <1>4, <1>5, <1>6, Attempts3, LedgerSpelled, LedgerSpelledNext DEF Told, Begun, Settled
<1>7. CASE o = Commit
  BY <1>2, <1>4, <1>5, <1>7, Attempts3, LedgerSpelled, LedgerSpelledNext
     DEF Told, Begun, Settled, Ready
<1>8. CASE o = Open
  BY <1>2, <1>4, <1>5, <1>8, Attempts3, LedgerSpelled, LedgerSpelledNext
     DEF Told, Begun, Settled, Ready
<1> QED BY <1>6, <1>7, <1>8, Attempts3

(* So does a result recorded without a call. *)
LEMMA LocalResultLedger ==
    ASSUME TypeOK, Ledger, NEW o \in Ops, NEW result \in {"success", "retryable", "failed"},
           LocalResult(o, result)
    PROVE  Ledger'
<1>1. \A p \in Ops : attempt[p] \in Attempts BY DEF TypeOK
<1>2. /\ attempt[o].status = "running" /\ ~attempt[o].armed
  BY DEF LocalResult, Recordable
<1>3. \A p \in Ops : attempt'[p] =
          CASE p = o -> [attempt[o] EXCEPT !.status = StatusFor(result)]
            [] Predecessor[p] = o /\ ~attempt[p].armed ->
                  [attempt[p] EXCEPT !.dependency = PassOn(p, StatusFor(result))]
            [] OTHER -> attempt[p]
  BY DEF LocalResult
<1>4. /\ attempt'[o].status = StatusFor(result) /\ ~attempt'[o].armed
      /\ attempt'[o].dependency = attempt[o].dependency
  <2>. Predecessor[o] # o BY Attempts3
  <2>1. attempt'[o] = [attempt[o] EXCEPT !.status = StatusFor(result)] BY <1>3
  <2>2. attempt[o] \in Attempts BY <1>1
  <2> QED BY <1>2, <2>1, <2>2 DEF Attempts
<1>5. \A p \in Ops : p # o =>
          attempt'[p].status = attempt[p].status /\ attempt'[p].armed = attempt[p].armed
  BY <1>1, <1>3 DEF Attempts
<1>6. \A p \in Ops : p # o /\ Predecessor[p] # o => attempt'[p].dependency = attempt[p].dependency
  BY <1>3
<1>7. \A p \in Ops : p # o /\ Predecessor[p] = o /\ ~attempt[p].armed =>
          attempt'[p].dependency = PassOn(p, StatusFor(result))
  BY <1>1, <1>3 DEF Attempts
<1>8. StatusFor(result) \in {"planned"} \cup Settled BY DEF StatusFor, Settled
<1>9. CASE o = Branch
  BY <1>2, <1>4, <1>5, <1>6, <1>7, <1>8, <1>9, Attempts3, LedgerSpelled, LedgerSpelledNext
     DEF Told, Begun, Settled, PassOn
<1>10. CASE o = Commit
  BY <1>2, <1>4, <1>5, <1>6, <1>7, <1>8, <1>10, Attempts3, LedgerSpelled, LedgerSpelledNext
     DEF Told, Begun, Settled, PassOn
<1>11. CASE o = Open
  BY <1>2, <1>4, <1>5, <1>6, <1>7, <1>8, <1>11, Attempts3, LedgerSpelled, LedgerSpelledNext
     DEF Told, Begun, Settled, PassOn
<1> QED BY <1>9, <1>10, <1>11, Attempts3

(* So does the result of a call. *)
LEMMA RecordLedger == ASSUME TypeOK, Ledger, NEW h \in Handlers, Record(h) PROVE Ledger'
<1>1. \A p \in Ops : attempt[p] \in Attempts /\ attempt[p].status \in {"planned", "running"} \cup Settled
  BY DEF TypeOK, Attempts
<1>2. attempt[Branch].status = "running" BY DEF Record
<1>3. /\ attempt[Commit].status = "planned" /\ attempt[Open].status = "planned"
      /\ ~attempt[Commit].armed /\ ~attempt[Open].armed
      /\ attempt[Commit].dependency = "waiting_for_dependency"
      /\ attempt[Open].dependency = "waiting_for_dependency"
  BY <1>1, <1>2, Attempts3, LedgerSpelled DEF Told, Begun, Settled
<1>4. /\ attempt'[Branch] = WithResult(Branch, out[h])
      /\ attempt'[Commit] = Dependent(Commit, out[h])
      /\ attempt'[Open] = Dependent(Open, out[h])
  BY Attempts3 DEF Record
<1>5. \A p \in Ops : LET a == WithResult(p, out[h]) IN
          /\ a.status = IF out[h].ok THEN "completed" ELSE "failed"
          /\ a.dependency = attempt[p].dependency
          /\ a.armed
  BY <1>1 DEF WithResult, Attempts
<1>6. CASE out[h].ok
  <2>1. \A p \in {Commit, Open} :
            attempt'[p] = [WithResult(p, out[h]) EXCEPT !.dependency = "dependency_satisfied"]
    BY <1>3, <1>4, <1>6 DEF Dependent, Settled
  <2>2. \A p \in {Commit, Open} : WithResult(p, out[h]) \in Attempts
    BY RowTypes, Attempts3 DEF TypeOK
  <2>3. \A p \in {Commit, Open} : /\ attempt'[p].dependency = "dependency_satisfied"
                                  /\ attempt'[p].status = "completed"
    BY <1>5, <1>6, <2>1, <2>2, Attempts3 DEF Attempts
  <2> QED BY <1>4, <1>5, <1>6, <2>3, Attempts3, LedgerSpelled, LedgerSpelledNext DEF Told
<1>7. CASE ~out[h].ok
  <2>1. /\ attempt'[Commit] = [attempt[Commit] EXCEPT !.dependency = PassOn(Commit, "failed")]
        /\ attempt'[Open] = attempt[Open]
    BY <1>4, <1>7, Attempts3 DEF Dependent
  <2>2. /\ attempt'[Commit].dependency = "dependency_failed"
        /\ attempt'[Commit].status = attempt[Commit].status
        /\ attempt'[Commit].armed = attempt[Commit].armed
    BY <1>1, <1>3, <2>1, Attempts3 DEF PassOn, Settled, Attempts
  <2> QED
    BY <1>3, <1>4, <1>5, <1>7, <2>1, <2>2, Attempts3, LedgerSpelled, LedgerSpelledNext
       DEF Told, Begun, Settled
<1> QED BY <1>6, <1>7

(* Arming and the result of a cleanup leave statuses and dependencies alone. *)
LEMMA MarkLedger ==
    ASSUME TypeOK, Ledger, NEW h \in Handlers, Arm(h) \/ RecordCleanup(h)
    PROVE  Ledger'
<1>1. attempt \in [Ops -> Attempts] BY DEF TypeOK
<1>2. \A p \in Ops : /\ attempt'[p].status = attempt[p].status
                     /\ attempt'[p].dependency = attempt[p].dependency
                     /\ attempt'[p].armed # attempt[p].armed => p = Branch /\ attempt[p].status = "running"
  <2>1. CASE Arm(h) BY <1>1, <2>1, Attempts3 DEF Arm, Attempts
  <2>2. CASE RecordCleanup(h)
    <3>1. CASE NeedsCleanup
      <4>1. attempt' = [attempt EXCEPT ![Branch] =
                [attempt[Branch] EXCEPT !.required = out[h].required, !.cleaned = out[h].cleaned]]
        BY <2>2, <3>1 DEF RecordCleanup
      <4> QED BY <1>1, <4>1, Attempts3 DEF Attempts
    <3>2. CASE ~NeedsCleanup BY <2>2, <3>2 DEF RecordCleanup
    <3> QED BY <3>1, <3>2
  <2> QED BY <2>1, <2>2
<1> QED BY <1>2, Attempts3, LedgerSpelled, LedgerSpelledNext DEF Told, Begun

(* Every step keeps the ledger in order. *)
LEMMA NextLedger == ASSUME TypeOK, Ledger, [Next]_vars PROVE Ledger'
<1>1. CASE attempt' = attempt
  BY <1>1 DEF Ledger, DependencyAgreement, InOrder
<1>2. ASSUME NEW h \in Handlers,
             BeginExecution(h) \/ BeginCleanup(h) \/ HandlerStep(h) \/ Abandon(h)
      PROVE  Ledger'
  BY <1>1, <1>2, LedgerKept, RecordLedger, MarkLedger DEF HandlerStep, Execution
<1>3. CASE ByHand BY <1>3, ClaimLedger, LocalResultLedger DEF ByHand
<1>4. ASSUME NEW g \in Gateways, Crash(g) PROVE Ledger'
  BY <1>1, <1>4 DEF Crash, ledger
<1>5. CASE UNCHANGED vars BY <1>1, <1>5 DEF vars, ledger
<1> QED BY <1>2, <1>3, <1>4, <1>5 DEF Next

(* An attempt is told how the one before it ended. *)
THEOREM AttemptsAgree == Spec => [](DependencyAgreement /\ InOrder)
<1>1. TypeOK /\ Ledger => DependencyAgreement /\ InOrder BY DEF Ledger
<1>2. Init => TypeOK /\ Ledger BY InitTypeOK, InitLedger
<1>3. TypeOK /\ Ledger /\ [Next]_vars => TypeOK' /\ Ledger' BY NextTypeOK, NextLedger
<1> QED BY <1>1, <1>2, <1>3, PTL DEF Spec

-----------------------------------------------------------------------------
(* What a handler under way knows of the ledger *)

(* A step of h leaves the other handlers where they are. *)
LEMMA OthersStay ==
    ASSUME TypeOK, NEW h \in Handlers,
           BeginExecution(h) \/ BeginCleanup(h) \/ HandlerStep(h) \/ Abandon(h)
    PROVE  \A i \in Handlers : i # h => pc'[i] = pc[i]
<1>1. pc \in [Handlers -> Labels] BY DEF TypeOK
<1>2. CASE BeginExecution(h) \/ BeginCleanup(h)
  BY <1>1, <1>2 DEF BeginExecution, BeginCleanup, Goto
<1>3. CASE Move(h) BY <1>1, <1>3 DEF Move
<1>4. CASE End(h) BY <1>1, <1>4 DEF End
<1> QED BY <1>2, <1>3, <1>4, StepMoves

(* The steps that leave the ledger alone bring no handler to its calls, and *)
(* only a failed attempt to its cleanup.                                    *)
LEMMA QuietSteps ==
    ASSUME TypeOK, NEW h \in Handlers,
           \/ BeginExecution(h) \/ BeginCleanup(h) \/ Refuse(h) \/ ReadInput(h)
           \/ ReadBase(h) \/ CreateBranch(h) \/ CommitFiles(h) \/ OpenReview(h)
           \/ DeleteBranch(h) \/ RecordRefused(h) \/ ReadCleanup(h) \/ Cleanup(h)
           \/ Abandon(h)
    PROVE  /\ pc'[h] \in Calls => pc[h] \in Calls
           /\ pc'[h] \in {"clean", "clean_record"} =>
                 pc[h] = "clean" \/ attempt[Branch].status = "failed"
<1>1. pc \in [Handlers -> Labels] BY DEF TypeOK
<1>2. CASE BeginExecution(h) \/ BeginCleanup(h) \/ ReadInput(h)
  BY <1>1, <1>2 DEF BeginExecution, BeginCleanup, ReadInput, Goto, Calls
<1>3. CASE Refuse(h) \/ RecordRefused(h) \/ Abandon(h)
  BY <1>1, <1>3 DEF Refuse, RecordRefused, Abandon, End, Calls
<1>4. CASE ReadBase(h) \/ CommitFiles(h) \/ OpenReview(h)
  BY <1>1, <1>4 DEF ReadBase, CommitFiles, OpenReview, Goto, Calls
<1>5. CASE CreateBranch(h) \/ DeleteBranch(h)
  BY <1>1, <1>5 DEF CreateBranch, DeleteBranch, Goto, Calls
<1>6. CASE ReadCleanup(h) \/ Cleanup(h)
  BY <1>1, <1>6 DEF ReadCleanup, NeedsCleanup, Cleanup, Goto, Calls
<1> QED BY <1>2, <1>3, <1>4, <1>5, <1>6

(* What is done by hand to the first attempt is done before it is armed. *)
LEMMA ByHandBranch ==
    ASSUME TypeOK, Ledger, ByHand
    PROVE  /\ UNCHANGED <<provider, lock, handler, faults, recorder, blind>>
           /\ \/ attempt'[Branch] = attempt[Branch]
              \/ /\ ~attempt[Branch].armed /\ ~attempt'[Branch].armed
                 /\ attempt[Branch].status \in {"planned", "running"}
                 /\ attempt'[Branch].called = attempt[Branch].called
<1>1. attempt \in [Ops -> Attempts] BY DEF TypeOK
<1>2. ASSUME NEW o \in Ops, Claim(o)
      PROVE  \/ attempt'[Branch] = attempt[Branch]
             \/ /\ ~attempt[Branch].armed /\ ~attempt'[Branch].armed
                /\ attempt[Branch].status \in {"planned", "running"}
                /\ attempt'[Branch].called = attempt[Branch].called
  BY <1>1, <1>2, Attempts3 DEF Claim, Attempts
<1>3. ASSUME NEW o \in Ops, NEW result \in {"success", "retryable", "failed"},
             LocalResult(o, result)
      PROVE  \/ attempt'[Branch] = attempt[Branch]
             \/ /\ ~attempt[Branch].armed /\ ~attempt'[Branch].armed
                /\ attempt[Branch].status \in {"planned", "running"}
                /\ attempt'[Branch].called = attempt[Branch].called
  <2>1. CASE o = Branch
    <3>1. attempt'[Branch] = [attempt[Branch] EXCEPT !.status = StatusFor(result)]
      BY <1>3, <2>1, Attempts3 DEF LocalResult
    <3> QED BY <1>1, <1>3, <2>1, <3>1, Attempts3 DEF LocalResult, Recordable, Attempts
  <2>2. CASE o # Branch
    BY <1>3, <2>2, Attempts3 DEF LocalResult
  <2> QED BY <2>1, <2>2
<1> QED BY <1>2, <1>3 DEF ByHand, Claim, LocalResult

(* How recording the answer of h and marking the attempt change it. *)
LEMMA RecordBranch ==
    ASSUME TypeOK, NEW h \in Handlers, Record(h)
    PROVE  /\ attempt'[Branch].status = IF out[h].ok THEN "completed" ELSE "failed"
           /\ attempt'[Branch].armed
           /\ attempt'[Branch].called = out[h].called
           /\ attempt'[Branch].required = out[h].required
<1>1. attempt[Branch] \in Attempts BY Attempts3 DEF TypeOK
<1>2. attempt'[Branch] = WithResult(Branch, out[h]) BY Attempts3 DEF Record
<1> QED BY <1>1, <1>2 DEF WithResult, Attempts

(* Arming and recording a cleanup leave the status of the branch attempt. *)
LEMMA MarkBranch ==
    ASSUME TypeOK, NEW h \in Handlers, Arm(h) \/ RecordCleanup(h)
    PROVE  /\ attempt'[Branch].status = attempt[Branch].status
           /\ attempt'[Branch].called = attempt[Branch].called
           /\ Arm(h) => attempt'[Branch].armed
           /\ RecordCleanup(h) => attempt'[Branch].armed = attempt[Branch].armed
<1>1. attempt \in [Ops -> Attempts] BY DEF TypeOK
<1>2. CASE Arm(h) /\ ~RecordCleanup(h) BY <1>1, <1>2, Attempts3 DEF Arm, Attempts
<1>3. CASE RecordCleanup(h)
  <2>1. ~Arm(h) BY <1>3 DEF RecordCleanup, Arm
  <2>2. CASE NeedsCleanup
    <3>1. attempt' = [attempt EXCEPT ![Branch] =
              [attempt[Branch] EXCEPT !.required = out[h].required, !.cleaned = out[h].cleaned]]
      BY <1>3, <2>2 DEF RecordCleanup
    <3> QED BY <1>1, <2>1, <3>1, Attempts3 DEF Attempts
  <2>3. CASE ~NeedsCleanup BY <1>3, <2>1, <2>3 DEF RecordCleanup
  <2> QED BY <2>2, <2>3
<1> QED BY <1>2, <1>3

(* Nothing is under way at the start. *)
LEMMA InitUnderWay == ASSUME Init PROVE UnderWay
BY DEF Init, UnderWay, AnswerFindsAttempt, Calls

(* Every step keeps what the handlers under way know true. *)
LEMMA NextUnderWay ==
    ASSUME TypeOK, Locks, Ledger, UnderWay, [Next]_vars
    PROVE  UnderWay'
<1> USE HandlerAssumption
<1>1. CASE ByHand
  <2>1. /\ pc' = pc /\ recorder' = recorder
    BY <1>1, ByHandBranch DEF handler
  <2>2. CASE attempt'[Branch] = attempt[Branch]
    BY <2>1, <2>2 DEF UnderWay, AnswerFindsAttempt
  <2>3. CASE /\ ~attempt[Branch].armed /\ attempt[Branch].status \in {"planned", "running"}
    BY <2>1, <2>3 DEF UnderWay, AnswerFindsAttempt, Settled
  <2> QED BY <1>1, <2>2, <2>3, ByHandBranch
<1>2. ASSUME NEW h \in Handlers,
             BeginExecution(h) \/ BeginCleanup(h) \/ HandlerStep(h) \/ Abandon(h)
      PROVE  UnderWay'
  <2>1. \A i \in Handlers : i # h => pc'[i] = pc[i] BY <1>2, OthersStay
  <2>2. CASE Arm(h)
    <3>1. recorder' = recorder /\ attempt[Branch].status = "running" /\ recorder = None
      BY <2>2 DEF Arm, UnderWay, Settled
    <3>2. pc'[h] = "base" BY <2>2 DEF Arm, Goto, TypeOK
    <3> QED BY <2>1, <2>2, <3>1, <3>2, MarkBranch DEF UnderWay, AnswerFindsAttempt, Settled
  <2>3. CASE RecordCleanup(h)
    <3>1. recorder' = recorder BY <2>3 DEF RecordCleanup
    <3>2. pc'[h] = "idle" BY <2>3 DEF RecordCleanup, End, TypeOK
    <3> QED
      BY <2>1, <2>3, <3>1, <3>2, MarkBranch DEF UnderWay, AnswerFindsAttempt, Calls
  <2>4. CASE Record(h)
    <3>1. /\ recorder' = Home[h] /\ attempt[Branch].status = "running" /\ pc[h] = "record"
      BY <2>4 DEF Record
    <3>2. pc'[h] = "idle" BY <2>4 DEF Record, End, TypeOK
    <3>3. \A i \in Handlers : i # h /\ pc[i] # "idle" => Home[i] # Home[h]
      BY <3>1 DEF Locks
    <3>4. attempt'[Branch].armed /\ attempt'[Branch].status \in Settled
      BY <2>4, RecordBranch DEF Settled
    <3>5. \A i \in Handlers : pc'[i] \in Calls => recorder' \notin {None, Home[i]}
      BY <2>1, <3>1, <3>2, <3>3 DEF Calls
    <3>6. \A i \in Handlers : pc'[i] \notin {"clean", "clean_record"}
      BY <2>1, <3>1, <3>2 DEF UnderWay
    <3> QED BY <3>4, <3>5, <3>6 DEF UnderWay, AnswerFindsAttempt
  <2>5. CASE ~Arm(h) /\ ~RecordCleanup(h) /\ ~Record(h)
    <3>1. attempt' = attempt /\ recorder' = recorder
      BY <1>2, <2>5, LedgerKept DEF HandlerStep, Execution
    <3>2. /\ pc'[h] \in Calls => pc[h] \in Calls
          /\ pc'[h] \in {"clean", "clean_record"} =>
                pc[h] = "clean" \/ attempt[Branch].status = "failed"
      BY <1>2, <2>5, QuietSteps DEF HandlerStep, Execution
    <3> QED BY <2>1, <3>1, <3>2 DEF UnderWay, AnswerFindsAttempt
  <2> QED BY <2>2, <2>3, <2>4, <2>5
<1>3. ASSUME NEW g \in Gateways, Crash(g) PROVE UnderWay'
  BY <1>3 DEF Crash, UnderWay, AnswerFindsAttempt, Calls, ledger
<1>4. CASE UNCHANGED vars
  BY <1>4 DEF vars, ledger, handler, UnderWay, AnswerFindsAttempt
<1> QED BY <1>1, <1>2, <1>3, <1>4 DEF Next

(* No claim, result by hand, execution or cleanup moves a settled attempt. *)
LEMMA SettledStep ==
    ASSUME TypeOK, [Next]_vars, NEW o \in Ops, attempt[o].status \in Settled
    PROVE  attempt'[o].status = attempt[o].status
<1>1. attempt \in [Ops -> Attempts] /\ attempt[o] \in Attempts BY DEF TypeOK
<1>2. ASSUME NEW p \in Ops, Claim(p) PROVE attempt'[o].status = attempt[o].status
  BY <1>1, <1>2 DEF Claim, Settled
<1>3. ASSUME NEW p \in Ops, NEW result \in {"success", "retryable", "failed"},
             LocalResult(p, result)
      PROVE  attempt'[o].status = attempt[o].status
  <2>1. o # p BY <1>3 DEF LocalResult, Recordable, Settled
  <2>2. \/ attempt'[o] = attempt[o]
        \/ attempt'[o] = [attempt[o] EXCEPT !.dependency = PassOn(o, StatusFor(result))]
    BY <1>3, <2>1 DEF LocalResult
  <2> QED BY <1>1, <2>2 DEF Attempts
<1>4. ASSUME NEW h \in Handlers, Record(h) PROVE attempt'[o].status = attempt[o].status
  <2>1. o # Branch BY <1>4 DEF Record, Settled
  <2>2. attempt'[o] = Dependent(o, out[h]) BY <1>4, <2>1 DEF Record
  <2>3. \/ attempt'[o] = attempt[o]
        \/ attempt'[o] = [attempt[o] EXCEPT !.dependency = PassOn(o, "failed")]
    BY <2>2 DEF Dependent
  <2> QED BY <1>1, <2>3 DEF Attempts
<1>5. ASSUME NEW h \in Handlers, Arm(h) PROVE attempt'[o].status = attempt[o].status
  BY <1>1, <1>5, Attempts3 DEF Arm, Attempts
<1>6. ASSUME NEW h \in Handlers, RecordCleanup(h)
      PROVE  attempt'[o].status = attempt[o].status
  <2>1. o # Branch => attempt'[o] = attempt[o]
    BY <1>1, <1>6 DEF RecordCleanup
  <2> QED BY <1>6, <2>1, MarkBranch
<1>7. ASSUME NEW h \in Handlers,
             BeginExecution(h) \/ BeginCleanup(h) \/ HandlerStep(h) \/ Abandon(h)
      PROVE  attempt'[o].status = attempt[o].status
  BY <1>4, <1>5, <1>6, <1>7, LedgerKept DEF HandlerStep, Execution
<1>8. (\E g \in Gateways : Crash(g)) \/ UNCHANGED vars => attempt' = attempt
  BY DEF Crash, vars, ledger
<1> QED BY <1>2, <1>3, <1>7, <1>8 DEF Next, ByHand

(* A completed or failed attempt stays so. *)
THEOREM AttemptsSettle == Spec => SettledStays
<1>1. TypeOK /\ [Next]_vars =>
          [\A o \in Ops : attempt[o].status \in Settled => attempt'[o].status = attempt[o].status]_vars
  BY SettledStep
<1>2. Spec => []TypeOK BY TypeCorrect
<1> QED BY <1>1, <1>2, PTL DEF Spec, SettledStays

-----------------------------------------------------------------------------
(* What is at GitHub *)

(* A step of h changes only what h keeps. *)
LEMMA OthersKeep ==
    ASSUME TypeOK, NEW h \in Handlers,
           BeginExecution(h) \/ BeginCleanup(h) \/ HandlerStep(h) \/ Abandon(h)
    PROVE  \A i \in Handlers : i # h =>
               pc'[i] = pc[i] /\ out'[i] = out[i] /\ made'[i] = made[i]
<1>1. out \in [Handlers -> Results] /\ made \in [Handlers -> BOOLEAN] BY DEF TypeOK
<1>2. \A i \in Handlers : i # h => pc'[i] = pc[i] BY OthersStay
<1>3. ASSUME End(h) PROVE \A i \in Handlers : i # h => out'[i] = out[i] /\ made'[i] = made[i]
  BY <1>1, <1>3 DEF End
<1>4. ASSUME NEW ok, NEW called, NEW required, NEW cleaned,
             Answer(h, ok, called, required, cleaned)
      PROVE  \A i \in Handlers : i # h => out'[i] = out[i]
  BY <1>1, <1>4 DEF Answer
<1>5. CASE \/ BeginExecution(h) \/ BeginCleanup(h) \/ ReadInput(h) \/ Arm(h) \/ CommitFiles(h)
           \/ ReadCleanup(h)
  BY <1>2, <1>5 DEF BeginExecution, BeginCleanup, ReadInput, Arm, CommitFiles, ReadCleanup, Goto
<1>6. CASE Refuse(h) \/ Record(h) \/ RecordRefused(h) \/ RecordCleanup(h) \/ Abandon(h)
  BY <1>2, <1>3, <1>6 DEF Refuse, Record, RecordRefused, RecordCleanup, Abandon
<1>7. CASE ReadBase(h) \/ OpenReview(h) \/ Cleanup(h)
  BY <1>2, <1>4, <1>7 DEF ReadBase, OpenReview, Cleanup, Goto
<1>8. CASE CreateBranch(h)
  BY <1>1, <1>2, <1>4, <1>8 DEF CreateBranch, Goto
<1>9. CASE DeleteBranch(h)
  <2>1. \E ok \in BOOLEAN : Answer(h, FALSE, TRUE, ~ok, ok) /\ made' = [made EXCEPT ![h] = ~ok]
    BY <1>9 DEF DeleteBranch
  <2> QED BY <1>1, <1>2, <1>4, <2>1
<1> QED BY <1>5, <1>6, <1>7, <1>8, <1>9 DEF HandlerStep, Execution

(* Nothing is at GitHub at the start. *)
LEMMA InitAtProvider == ASSUME Init PROVE AtProvider
BY Attempts3 DEF Init, AtProvider, CompletedIsOpen, Owner, Settled

(* What happens to the branch as long as the attempt runs is its owner's doing. *)
LEMMA CallsAtProvider ==
    ASSUME TypeOK, UnderWay, AtProvider, NEW h \in Handlers,
           CreateBranch(h) \/ CommitFiles(h) \/ OpenReview(h) \/ DeleteBranch(h)
    PROVE  AtProvider'
<1>1. /\ pc \in [Handlers -> Labels] /\ out \in [Handlers -> Results] /\ provider \in Providers
  BY DEF TypeOK, Providers
<1>2. attempt' = attempt BY LedgerKept
<1>3. \A i \in Handlers : i # h => pc'[i] = pc[i] /\ out'[i] = out[i]
  BY OthersKeep DEF HandlerStep, Execution
<1>4. \A i \in Handlers : i # h => (Owner(i)' <=> Owner(i)) BY <1>3 DEF Owner
<1>5. CASE CreateBranch(h)
  <2>1. CASE /\ ~provider.branch /\ provider' = [provider EXCEPT !.branch = TRUE]
             /\ pc' = [pc EXCEPT ![h] = "files"] /\ UNCHANGED out
    <3>1. provider'.branch BY <1>1, <2>1 DEF Providers
    <3>2. pc'[h] = "files" BY <1>1, <2>1
    <3>3. attempt[Branch].status = "running" => \A i \in Handlers : ~Owner(i)
      BY <2>1 DEF AtProvider
    <3>4. ~(attempt[Branch].status = "completed" /\ attempt[Branch].called)
      BY <1>1, <2>1 DEF AtProvider, CompletedIsOpen, Providers
    <3> QED
      BY <1>2, <1>3, <1>4, <2>1, <3>1, <3>2, <3>3, <3>4
         DEF AtProvider, CompletedIsOpen, Owner
  <2>2. CASE /\ Goto(h, "record") /\ Answer(h, FALSE, TRUE, FALSE, FALSE)
             /\ UNCHANGED provider
    <3>1. pc'[h] = "record" /\ ~out'[h].ok BY <1>1, <2>2 DEF Goto, Answer
    <3> QED
      BY <1>2, <1>3, <1>4, <2>2, <3>1 DEF AtProvider, CompletedIsOpen, Owner
  <2>3. CASE /\ ~provider.branch /\ provider' = [provider EXCEPT !.branch = TRUE]
             /\ Goto(h, "record") /\ Answer(h, FALSE, TRUE, FALSE, FALSE)
    <3>1. pc'[h] = "record" /\ ~out'[h].ok BY <1>1, <2>3 DEF Goto, Answer
    <3>2. attempt[Branch].status = "running" => \A i \in Handlers : ~Owner(i)
      BY <2>3 DEF AtProvider
    <3>3. ~(attempt[Branch].status = "completed" /\ attempt[Branch].called)
      BY <1>1, <2>3 DEF AtProvider, CompletedIsOpen, Providers
    <3> QED
      BY <1>2, <1>3, <1>4, <3>1, <3>2, <3>3 DEF AtProvider, CompletedIsOpen, Owner
  <2> QED BY <1>5, <2>1, <2>2, <2>3 DEF CreateBranch
<1>6. CASE CommitFiles(h)
  <2>1. Owner(h) BY <1>6 DEF CommitFiles, Owner
  <2>2. pc'[h] \in {"review", "delete"} BY <1>1, <1>6 DEF CommitFiles, Goto
  <2>3. provider.branch => provider'.branch
    BY <1>1, <1>6 DEF CommitFiles, Partly, Providers
  <2>4. pc'[h] = "review" => provider'.files
    BY <1>1, <1>6 DEF CommitFiles, Goto, Providers
  <2>5. attempt[Branch].status = "running" => \A i \in Handlers : Owner(i) => i = h
    BY <2>1 DEF AtProvider
  <2> QED
    BY <1>2, <1>3, <1>4, <2>1, <2>2, <2>3, <2>4, <2>5 DEF AtProvider, CompletedIsOpen, Owner
<1>7. CASE OpenReview(h)
  <2>1. Owner(h) BY <1>7 DEF OpenReview, Owner
  <2>2. attempt[Branch].status = "running" => provider.branch /\ provider.files
    BY <1>7, <2>1 DEF OpenReview, AtProvider
  <2>3. attempt[Branch].status = "running" => \A i \in Handlers : Owner(i) => i = h
    BY <2>1 DEF AtProvider
  <2>4. CASE /\ provider.branch /\ provider' = [provider EXCEPT !.review = TRUE]
             /\ Goto(h, "record") /\ Answer(h, TRUE, TRUE, FALSE, FALSE)
    <3>1. pc'[h] = "record" /\ out'[h].ok /\ out'[h].called
      BY <1>1, <2>4 DEF Goto, Answer
    <3>2. attempt[Branch].status = "running" => provider' = Complete
      BY <1>1, <2>2, <2>4 DEF Complete, Providers
    <3>3. provider'.branch BY <1>1, <2>4 DEF Providers
    <3> QED
      BY <1>2, <1>3, <1>4, <2>1, <2>3, <3>1, <3>2, <3>3 DEF AtProvider, CompletedIsOpen, Owner
  <2>5. CASE provider' \in Partly("review") /\ Goto(h, "delete") /\ UNCHANGED out
    <3>1. pc'[h] = "delete" BY <1>1, <2>5 DEF Goto
    <3>2. provider.branch => provider'.branch BY <1>1, <2>5 DEF Partly, Providers
    <3> QED
      BY <1>2, <1>3, <1>4, <2>1, <2>3, <3>1, <3>2 DEF AtProvider, CompletedIsOpen, Owner
  <2> QED BY <1>7, <2>4, <2>5 DEF OpenReview
<1>8. CASE DeleteBranch(h)
  <2>1. Owner(h) BY <1>8 DEF DeleteBranch, Owner
  <2>2. pc'[h] = "record" /\ ~out'[h].ok BY <1>1, <1>8 DEF DeleteBranch, Answer
  <2>3. attempt[Branch].status = "running" => \A i \in Handlers : Owner(i) => i = h
    BY <2>1 DEF AtProvider
  <2> QED
    BY <1>2, <1>3, <1>4, <2>1, <2>2, <2>3 DEF AtProvider, CompletedIsOpen, Owner
<1> QED BY <1>5, <1>6, <1>7, <1>8

(* Every step keeps what is at GitHub in step with the ledger. *)
LEMMA NextAtProvider ==
    ASSUME TypeOK, Ledger, UnderWay, AtProvider, [Next]_vars
    PROVE  AtProvider'
<1>1. pc \in [Handlers -> Labels] /\ out \in [Handlers -> Results] BY DEF TypeOK
<1>2. CASE ByHand
  <2>1. provider' = provider /\ pc' = pc /\ out' = out BY <1>2, ByHandBranch DEF handler
  <2>2. CASE attempt'[Branch] = attempt[Branch]
    BY <2>1, <2>2 DEF AtProvider, CompletedIsOpen, Owner
  <2>3. CASE /\ ~attempt[Branch].armed /\ attempt[Branch].status \in {"planned", "running"}
             /\ attempt'[Branch].called = attempt[Branch].called
    <3>1. \A i \in Handlers : ~Owner(i) /\ pc[i] \notin Calls
      BY <2>3 DEF UnderWay, Owner, Calls
    <3>2. ~attempt[Branch].called BY <2>3 DEF AtProvider, Settled
    <3> QED BY <2>1, <2>3, <3>1, <3>2 DEF AtProvider, CompletedIsOpen, Owner, Calls
  <2> QED BY <1>2, <2>2, <2>3, ByHandBranch
<1>3. ASSUME NEW h \in Handlers,
             BeginExecution(h) \/ BeginCleanup(h) \/ HandlerStep(h) \/ Abandon(h)
      PROVE  AtProvider'
  <2>1. \A i \in Handlers : i # h => pc'[i] = pc[i] /\ out'[i] = out[i]
    BY <1>3, OthersKeep
  <2>2. \A i \in Handlers : i # h => (Owner(i)' <=> Owner(i)) BY <2>1 DEF Owner
  <2>3. CASE Record(h)
    <3>1. /\ attempt[Branch].status = "running" /\ pc[h] = "record" /\ provider' = provider
          /\ pc'[h] = "idle"
      BY <1>1, <2>3 DEF Record, End
    <3>2. /\ attempt'[Branch].status = IF out[h].ok THEN "completed" ELSE "failed"
          /\ attempt'[Branch].called = out[h].called
      BY <2>3, RecordBranch
    <3>3. CASE out[h].ok
      <4>1. provider' = Complete /\ \A i \in Handlers : Owner(i) => i = h
        BY <3>1, <3>3 DEF AtProvider, Owner
      <4>2. \A i \in Handlers : ~Owner(i)'
        BY <2>2, <3>1, <4>1 DEF Owner
      <4> QED
        BY <2>1, <3>1, <3>2, <3>3, <4>1, <4>2
           DEF AtProvider, CompletedIsOpen, Complete, Settled
    <3>4. CASE ~out[h].ok
      BY <2>1, <3>1, <3>2, <3>4 DEF AtProvider, CompletedIsOpen, Settled
    <3> QED BY <3>3, <3>4
  <2>4. CASE CreateBranch(h) \/ CommitFiles(h) \/ OpenReview(h) \/ DeleteBranch(h)
    BY <2>4, CallsAtProvider
  <2>5. CASE Cleanup(h)
    <3>1. attempt' = attempt /\ pc'[h] = "clean_record"
      BY <1>1, <2>5, LedgerKept DEF Cleanup, Goto
    <3>2. attempt[Branch].status = "failed" BY <2>5 DEF Cleanup, UnderWay
    <3> QED BY <2>1, <3>1, <3>2 DEF AtProvider, CompletedIsOpen
  <2>6. CASE \/ BeginExecution(h) \/ BeginCleanup(h) \/ Refuse(h) \/ ReadInput(h) \/ Arm(h)
             \/ ReadBase(h) \/ RecordRefused(h) \/ ReadCleanup(h) \/ RecordCleanup(h) \/ Abandon(h)
    <3>1. provider' = provider
      BY <2>6 DEF BeginExecution, BeginCleanup, Refuse, ReadInput, Arm, ReadBase, RecordRefused,
             ReadCleanup, RecordCleanup, Abandon
    <3>2. ~Owner(h)'
      <4>1. CASE BeginExecution(h) \/ BeginCleanup(h) \/ ReadInput(h) \/ ReadCleanup(h)
        <5>1. pc'[h] \in {"input", "arm", "clean_input", "clean"}
          BY <1>1, <4>1 DEF BeginExecution, BeginCleanup, ReadInput, ReadCleanup, Goto
        <5> QED BY <5>1 DEF Owner
      <4>2. CASE Arm(h)
        <5>1. pc'[h] = "base" BY <1>1, <4>2 DEF Arm, Goto
        <5> QED BY <5>1 DEF Owner
      <4>3. CASE ReadBase(h)
        <5>1. CASE Goto(h, "create")
          <6>1. pc'[h] = "create" BY <1>1, <5>1 DEF Goto
          <6> QED BY <6>1 DEF Owner
        <5>2. ASSUME NEW called \in BOOLEAN,
                     Goto(h, "record"), Answer(h, FALSE, called, FALSE, FALSE)
              PROVE  ~Owner(h)'
          <6>1. pc'[h] = "record" /\ ~out'[h].ok BY <1>1, <5>2 DEF Goto, Answer
          <6> QED BY <6>1 DEF Owner
        <5> QED BY <4>3, <5>1, <5>2 DEF ReadBase
      <4>4. CASE Refuse(h) \/ RecordRefused(h) \/ RecordCleanup(h) \/ Abandon(h)
        <5>1. End(h) BY <4>4 DEF Refuse, RecordRefused, RecordCleanup, Abandon
        <5>2. pc'[h] = "idle" BY <1>1, <5>1 DEF End
        <5> QED BY <5>2 DEF Owner
      <4> QED BY <2>6, <4>1, <4>2, <4>3, <4>4
    <3>3. /\ attempt'[Branch].status = attempt[Branch].status
          /\ attempt'[Branch].called = attempt[Branch].called
      BY <2>6, LedgerKept, MarkBranch
    <3>4. pc'[h] # "review" /\ ~(pc'[h] = "record" /\ out'[h].ok) BY <3>2 DEF Owner
    <3> QED BY <2>1, <2>2, <3>1, <3>2, <3>3, <3>4 DEF AtProvider, CompletedIsOpen
  <2> QED BY <1>3, <2>3, <2>4, <2>5, <2>6 DEF HandlerStep, Execution
<1>4. ASSUME NEW g \in Gateways, Crash(g) PROVE AtProvider'
  <2>1. attempt' = attempt /\ provider' = provider BY <1>4 DEF Crash, ledger
  <2>2. \A i \in Handlers : pc'[i] = "idle" \/ (pc'[i] = pc[i] /\ out'[i] = out[i])
    BY <1>4 DEF Crash
  <2>3. \A i \in Handlers : Owner(i)' => Owner(i) BY <2>2 DEF Owner
  <2> QED BY <2>1, <2>2, <2>3 DEF AtProvider, CompletedIsOpen
<1>5. CASE UNCHANGED vars
  BY <1>5 DEF vars, ledger, handler, AtProvider, CompletedIsOpen, Owner
<1> QED BY <1>2, <1>3, <1>4, <1>5 DEF Next

-----------------------------------------------------------------------------
(* Who answers for a branch that exists *)

(* No lock is held at the start. *)
LEMMA InitLocks == ASSUME Init PROVE Locks
BY HandlerAssumption DEF Init, Locks

(* No branch is to be accounted for at the start. *)
LEMMA InitAccounted == ASSUME Init PROVE Accounted
BY DEF Init, Accounted, Mine, Nothing

(* A step of h that accounts for the branch itself, or takes away nothing of *)
(* what accounted for it.                                                    *)
LEMMA Accounting ==
    ASSUME TypeOK, Accounted, NEW h \in Handlers,
           \A i \in Handlers : i # h =>
               pc'[i] = pc[i] /\ out'[i] = out[i] /\ made'[i] = made[i],
           Mine(h)',
           pc'[h] = "clean_record" /\ ~out'[h].required /\ provider'.branch => Excused',
           provider'.branch => Excused' \/ (provider.branch /\ ~Excused /\ (Shown => Shown'))
    PROVE  Accounted'
<1>1. \A i \in Handlers : i # h => Mine(i)' BY DEF Accounted, Mine
<1>2. \A i \in Handlers : i # h =>
          (pc'[i] = "clean_record" /\ ~out'[i].required /\ provider'.branch => Excused')
  BY DEF Accounted
<1>3. provider'.branch => Excused' \/ Shown' BY DEF Accounted
<1> QED BY <1>1, <1>2, <1>3 DEF Accounted

(* What h had made is not forgotten when it ends without recording it. *)
LEMMA EndExcused ==
    ASSUME TypeOK, NEW h \in Handlers, End(h), Unrecorded({h}), Excused
    PROVE  Excused'
<1>1. made \in [Handlers -> BOOLEAN] BY DEF TypeOK
<1>2. CASE made[h]
  <2>1. blind' = blind \cup {"unrecorded"} BY <1>2 DEF Unrecorded
  <2> QED BY <2>1 DEF Excused
<1>3. CASE ~made[h]
  <2>1. blind' = blind BY <1>3 DEF Unrecorded
  <2>2. \A i \in Handlers : made[i] => made'[i] BY <1>1, <1>3 DEF End
  <2> QED BY <2>1, <2>2 DEF Excused
<1> QED BY <1>2, <1>3

(* The steps that leave the branch, and what is known of it, as they were. *)
LEMMA QuietAccounted ==
    ASSUME TypeOK, Accounted, NEW h \in Handlers,
           \/ BeginExecution(h) \/ BeginCleanup(h) \/ Refuse(h) \/ ReadInput(h) \/ Arm(h)
           \/ ReadBase(h) \/ ReadCleanup(h)
    PROVE  Accounted'
<1>1. /\ pc \in [Handlers -> Labels] /\ out \in [Handlers -> Results]
      /\ made \in [Handlers -> BOOLEAN]
  BY DEF TypeOK
<1>2. \A i \in Handlers : i # h => pc'[i] = pc[i] /\ out'[i] = out[i] /\ made'[i] = made[i]
  BY OthersKeep DEF HandlerStep, Execution
<1>3. pc[h] \in {"idle", "input", "arm", "base", "clean_input"}
  BY DEF BeginExecution, BeginCleanup, Refuse, ReadInput, Arm, ReadBase, ReadCleanup
<1>4. ~made[h] BY <1>3 DEF Accounted, Mine
<1>5. provider' = provider /\ blind' = blind
  BY DEF BeginExecution, BeginCleanup, Refuse, ReadInput, Arm, ReadBase, ReadCleanup
<1>6. ~made'[h] /\ pc'[h] \in {"idle", "input", "arm", "base", "create", "record", "clean_input", "clean"}
  <2>1. CASE BeginExecution(h) \/ BeginCleanup(h) \/ ReadInput(h) \/ ReadCleanup(h)
    BY <1>1, <1>4, <2>1 DEF BeginExecution, BeginCleanup, ReadInput, ReadCleanup, Goto
  <2>2. CASE Arm(h) BY <1>1, <1>4, <2>2 DEF Arm, Goto
  <2>3. CASE ReadBase(h) BY <1>1, <1>4, <2>3 DEF ReadBase, Goto
  <2>4. CASE Refuse(h) BY <1>1, <2>4 DEF Refuse, End
  <2> QED BY <2>1, <2>2, <2>3, <2>4
<1>7. Mine(h)' BY <1>6 DEF Mine
<1>8. Excused' <=> Excused BY <1>2, <1>4, <1>5, <1>6 DEF Excused
<1>9. Shown => Shown'
  <2>1. CASE Arm(h)
    <3>1. attempt[Branch].status = "running" BY <2>1 DEF Arm
    <3> QED BY <3>1 DEF Shown
  <2>2. CASE ~Arm(h)
    <3>1. attempt' = attempt BY <2>2, LedgerKept
    <3> QED BY <3>1 DEF Shown
  <2> QED BY <2>1, <2>2
<1> QED BY <1>2, <1>5, <1>6, <1>7, <1>8, <1>9, Accounting

(* GitHub creates the branch for h, which then has it, or whose answer is lost. *)
LEMMA CreateAccounted ==
    ASSUME TypeOK, Accounted, NEW h \in Handlers, CreateBranch(h)
    PROVE  Accounted'
<1>1. /\ pc \in [Handlers -> Labels] /\ out \in [Handlers -> Results]
      /\ made \in [Handlers -> BOOLEAN]
  BY DEF TypeOK
<1>2. \A i \in Handlers : i # h => pc'[i] = pc[i] /\ out'[i] = out[i] /\ made'[i] = made[i]
  BY OthersKeep DEF HandlerStep, Execution
<1>3. ~made[h] BY DEF CreateBranch, Accounted, Mine
<1>4. attempt' = attempt BY LedgerKept
<1>5. CASE /\ pc' = [pc EXCEPT ![h] = "files"] /\ made' = [made EXCEPT ![h] = TRUE]
  <2>1. pc'[h] = "files" /\ made'[h] BY <1>1, <1>5
  <2>2. Excused' BY <2>1 DEF Excused
  <2>3. Mine(h)' BY <2>1 DEF Mine
  <2> QED BY <1>2, <2>1, <2>2, <2>3, Accounting
<1>6. CASE Goto(h, "record") /\ (blind' = blind \cup {"answer lost"} \/ UNCHANGED <<provider, blind>>)
  <2>1. pc'[h] = "record" /\ ~made'[h] BY <1>1, <1>3, <1>6 DEF Goto
  <2>2. Mine(h)' BY <2>1 DEF Mine
  <2>3. Excused => Excused'
    <3>1. blind # {} => blind' # {} BY <1>6
    <3>2. \A i \in Handlers : made[i] => made'[i] BY <1>2, <1>3
    <3> QED BY <3>1, <3>2 DEF Excused
  <2>4. CASE blind' = blind \cup {"answer lost"}
    <3>1. Excused' BY <2>4 DEF Excused
    <3> QED BY <1>2, <2>1, <2>2, <3>1, Accounting
  <2>5. CASE UNCHANGED <<provider, blind>>
    <3>1. Shown => Shown' BY <1>4 DEF Shown
    <3>2. provider' = provider BY <2>5
    <3> QED BY <1>2, <2>1, <2>2, <2>3, <3>1, <3>2, Accounting
  <2> QED BY <1>6, <2>4, <2>5
<1> QED BY <1>5, <1>6 DEF CreateBranch

(* The handler that made the branch fills it, or fails and deletes it. *)
LEMMA FillAccounted ==
    ASSUME TypeOK, Accounted, NEW h \in Handlers,
           CommitFiles(h) \/ OpenReview(h) \/ DeleteBranch(h)
    PROVE  Accounted'
<1>1. /\ pc \in [Handlers -> Labels] /\ out \in [Handlers -> Results]
      /\ made \in [Handlers -> BOOLEAN]
  BY DEF TypeOK
<1>2. \A i \in Handlers : i # h => pc'[i] = pc[i] /\ out'[i] = out[i] /\ made'[i] = made[i]
  BY OthersKeep DEF HandlerStep, Execution
<1>3. made[h]
  <2>1. pc[h] \in {"files", "review", "delete"} BY DEF CommitFiles, OpenReview, DeleteBranch
  <2> QED BY <2>1 DEF Accounted, Mine
<1>4. CASE CommitFiles(h)
  <2>1. pc'[h] \in {"review", "delete"} /\ made'[h] BY <1>1, <1>3, <1>4 DEF CommitFiles, Goto
  <2>2. Mine(h)' BY <2>1 DEF Mine
  <2>3. Excused' BY <2>1 DEF Excused
  <2> QED BY <1>2, <2>1, <2>2, <2>3, Accounting
<1>5. CASE OpenReview(h)
  <2>1. made'[h] /\ (pc'[h] = "delete" \/ (pc'[h] = "record" /\ out'[h].ok))
    <3>1. CASE Goto(h, "record") /\ Answer(h, TRUE, TRUE, FALSE, FALSE)
      BY <1>1, <1>3, <3>1 DEF Goto, Answer
    <3>2. CASE Goto(h, "delete") BY <1>1, <1>3, <3>2 DEF Goto
    <3> QED BY <1>5, <3>1, <3>2 DEF OpenReview
  <2>2. Mine(h)' BY <2>1 DEF Mine
  <2>3. Excused' BY <2>1 DEF Excused
  <2> QED BY <1>2, <2>1, <2>2, <2>3, Accounting
<1>6. CASE DeleteBranch(h)
  <2>1. PICK ok \in BOOLEAN : /\ Deletes(ok) /\ Answer(h, FALSE, TRUE, ~ok, ok)
                              /\ made' = [made EXCEPT ![h] = ~ok]
    BY <1>6 DEF DeleteBranch
  <2>2. pc'[h] = "record" BY <1>1, <1>6 DEF DeleteBranch
  <2>3. made'[h] = ~ok BY <1>1, <2>1
  <2>4. out'[h].required = ~ok BY <1>1, <2>1 DEF Answer
  <2>5. Mine(h)' BY <2>2, <2>3, <2>4 DEF Mine
  <2>6. ok => ~provider'.branch BY <2>1 DEF Deletes, Nothing
  <2>7. ~ok => Excused' BY <2>3 DEF Excused
  <2> QED BY <1>2, <2>2, <2>5, <2>6, <2>7, Accounting
<1> QED BY <1>4, <1>5, <1>6

(* What is recorded of a branch that was made: the review, or the flag. *)
LEMMA RecordAccounted ==
    ASSUME TypeOK, UnderWay, AtProvider, Accounted, NEW h \in Handlers, Record(h)
    PROVE  Accounted'
<1>1. pc \in [Handlers -> Labels] /\ made \in [Handlers -> BOOLEAN] BY DEF TypeOK
<1>2. \A i \in Handlers : i # h => pc'[i] = pc[i] /\ out'[i] = out[i] /\ made'[i] = made[i]
  BY OthersKeep DEF HandlerStep, Execution
<1>3. /\ pc[h] = "record" /\ attempt[Branch].status = "running"
      /\ UNCHANGED <<provider, blind>>
  BY DEF Record
<1>4. pc'[h] = "idle" /\ ~made'[h] BY <1>1 DEF Record, End
<1>5. /\ attempt'[Branch].status = IF out[h].ok THEN "completed" ELSE "failed"
      /\ attempt'[Branch].called = out[h].called
      /\ attempt'[Branch].required = out[h].required
  BY RecordBranch
<1>6. out[h].ok => out[h].called BY <1>3 DEF AtProvider
<1>7. made[h] /\ ~out[h].ok => out[h].required BY <1>3 DEF Accounted, Mine
<1>8. out[h].ok \/ made[h] => Shown' BY <1>5, <1>6, <1>7 DEF Shown
<1>9. ~made[h] => (Excused => Excused') BY <1>2, <1>3 DEF Excused
<1>10. provider'.branch => Excused' \/ Shown'
  BY <1>3, <1>8, <1>9 DEF Accounted, Shown
<1>11. \A i \in Handlers : pc'[i] # "clean_record"
  BY <1>2, <1>3, <1>4 DEF UnderWay
<1>12. \A i \in Handlers : Mine(i)' BY <1>2, <1>4 DEF Accounted, Mine
<1> QED BY <1>10, <1>11, <1>12 DEF Accounted

(* Who ends without a recorded result leaves a note of what it had made. *)
LEMMA LostAccounted ==
    ASSUME TypeOK, Accounted, NEW h \in Handlers, RecordRefused(h) \/ Abandon(h)
    PROVE  Accounted'
<1>1. pc \in [Handlers -> Labels] /\ made \in [Handlers -> BOOLEAN] BY DEF TypeOK
<1>2. \A i \in Handlers : i # h => pc'[i] = pc[i] /\ out'[i] = out[i] /\ made'[i] = made[i]
  BY OthersKeep DEF HandlerStep, Execution
<1>3. End(h) /\ Unrecorded({h}) /\ provider' = provider /\ attempt' = attempt
  BY DEF RecordRefused, Abandon, ledger
<1>4. pc'[h] = "idle" /\ ~made'[h] BY <1>1, <1>3 DEF End
<1>5. Mine(h)' BY <1>4 DEF Mine
<1>6. Excused => Excused' BY <1>3, EndExcused
<1>7. Shown => Shown' BY <1>3 DEF Shown
<1> QED BY <1>2, <1>3, <1>4, <1>5, <1>6, <1>7, Accounting

(* A cleanup deletes the branch, keeps the flag, or did not reach GitHub. *)
LEMMA CleanupAccounted ==
    ASSUME TypeOK, Accounted, NEW h \in Handlers, Cleanup(h) \/ RecordCleanup(h)
    PROVE  Accounted'
<1>1. /\ pc \in [Handlers -> Labels] /\ out \in [Handlers -> Results]
      /\ made \in [Handlers -> BOOLEAN] /\ attempt \in [Ops -> Attempts]
  BY DEF TypeOK
<1>2. \A i \in Handlers : i # h => pc'[i] = pc[i] /\ out'[i] = out[i] /\ made'[i] = made[i]
  BY OthersKeep DEF HandlerStep, Execution
<1>3. ~made[h]
  <2>1. pc[h] \in {"clean", "clean_record"} BY DEF Cleanup, RecordCleanup
  <2> QED BY <2>1 DEF Accounted, Mine
<1>4. CASE Cleanup(h)
  <2>1. pc'[h] = "clean_record" /\ ~made'[h] BY <1>1, <1>3, <1>4 DEF Cleanup, Goto
  <2>2. Mine(h)' BY <2>1 DEF Mine
  <2>3. CASE blind' = blind \cup {"unreachable"}
    <3>1. Excused' BY <2>3 DEF Excused
    <3> QED BY <1>2, <2>2, <3>1, Accounting
  <2>4. ASSUME NEW ok \in BOOLEAN, Deletes(ok), Answer(h, ok, TRUE, ~ok, ok), UNCHANGED blind
        PROVE  Accounted'
    <3>1. out'[h].required = ~ok BY <1>1, <2>4 DEF Answer
    <3>2. provider'.branch => provider.branch /\ ~ok BY <2>4 DEF Deletes, Nothing
    <3>3. Excused' <=> Excused BY <1>2, <1>3, <2>1, <2>4 DEF Excused
    <3>4. Shown => Shown'
      <4>1. attempt' = attempt BY <1>4, LedgerKept
      <4> QED BY <4>1 DEF Shown
    <3> QED BY <1>2, <2>2, <3>1, <3>2, <3>3, <3>4, Accounting
  <2> QED BY <1>4, <2>3, <2>4 DEF Cleanup
<1>5. CASE RecordCleanup(h)
  <2>1. provider' = provider /\ blind' = blind /\ pc[h] = "clean_record"
    BY <1>5 DEF RecordCleanup
  <2>2. pc'[h] = "idle" /\ ~made'[h] BY <1>1, <1>5 DEF RecordCleanup, End
  <2>3. Mine(h)' BY <2>2 DEF Mine
  <2>4. Excused' <=> Excused BY <1>2, <1>3, <2>1, <2>2 DEF Excused
  <2>5. CASE ~out[h].required /\ provider.branch
    <3>1. Excused BY <2>1, <2>5 DEF Accounted
    <3> QED BY <1>2, <2>2, <2>3, <2>4, <3>1, Accounting
  <2>6. CASE ~provider.branch
    BY <1>2, <2>1, <2>2, <2>3, <2>6, Accounting
  <2>7. CASE out[h].required
    <3>1. Shown => Shown'
      <4>1. CASE NeedsCleanup
        <5>1. attempt' = [attempt EXCEPT ![Branch] =
                  [attempt[Branch] EXCEPT !.required = out[h].required, !.cleaned = out[h].cleaned]]
          BY <1>5, <4>1 DEF RecordCleanup
        <5>2. attempt'[Branch].required = out[h].required BY <1>1, <5>1, Attempts3 DEF Attempts
        <5> QED BY <1>5, <2>7, <5>2, MarkBranch DEF Shown
      <4>2. CASE ~NeedsCleanup
        <5>1. attempt' = attempt BY <1>5, <4>2 DEF RecordCleanup
        <5> QED BY <5>1 DEF Shown
      <4> QED BY <4>1, <4>2
    <3> QED BY <1>2, <2>1, <2>2, <2>3, <2>4, <3>1, Accounting
  <2> QED BY <2>5, <2>6, <2>7
<1> QED BY <1>4, <1>5

(* Every step leaves somebody to answer for a branch. *)
LEMMA NextAccounted ==
    ASSUME TypeOK, Ledger, UnderWay, AtProvider, Accounted, [Next]_vars
    PROVE  Accounted'
<1>1. CASE ByHand
  <2>1. UNCHANGED <<provider, pc, made, out, blind>> BY <1>1, ByHandBranch DEF handler
  <2>2. Shown => Shown'
    <3>1. CASE attempt'[Branch] = attempt[Branch] BY <3>1 DEF Shown
    <3>2. CASE attempt[Branch].status \in {"planned", "running"} BY <3>2 DEF Shown
    <3> QED BY <1>1, <3>1, <3>2, ByHandBranch
  <2>3. Excused' <=> Excused BY <2>1 DEF Excused
  <2>4. \A i \in Handlers : Mine(i)' <=> Mine(i) BY <2>1 DEF Mine
  <2> QED BY <2>1, <2>2, <2>3, <2>4 DEF Accounted
<1>2. ASSUME NEW h \in Handlers,
             BeginExecution(h) \/ BeginCleanup(h) \/ HandlerStep(h) \/ Abandon(h)
      PROVE  Accounted'
  BY <1>2, QuietAccounted, CreateAccounted, FillAccounted, RecordAccounted, LostAccounted,
     CleanupAccounted
     DEF HandlerStep, Execution
<1>3. ASSUME NEW g \in Gateways, Crash(g) PROVE Accounted'
  <2>1. provider' = provider /\ attempt' = attempt /\ Unrecorded({h \in Handlers : Home[h] = g})
    BY <1>3 DEF Crash, ledger
  <2>2. \A i \in Handlers :
            \/ Home[i] = g /\ pc'[i] = "idle" /\ ~made'[i]
            \/ Home[i] # g /\ pc'[i] = pc[i] /\ out'[i] = out[i] /\ (made'[i] <=> made[i])
    BY <1>3 DEF Crash
  <2>3. Excused => Excused'
    <3>1. CASE \E i \in Handlers : Home[i] = g /\ made[i]
      <4>1. blind' = blind \cup {"unrecorded"} BY <2>1, <3>1 DEF Unrecorded
      <4> QED BY <4>1 DEF Excused
    <3>2. CASE \A i \in Handlers : made[i] => Home[i] # g
      <4>1. blind' = blind BY <2>1, <3>2 DEF Unrecorded
      <4> QED BY <2>2, <3>2, <4>1 DEF Excused
    <3> QED BY <3>1, <3>2
  <2>4. \A i \in Handlers : Mine(i)' BY <2>2 DEF Accounted, Mine
  <2>5. Shown' <=> Shown BY <2>1 DEF Shown
  <2>6. \A i \in Handlers :
            pc'[i] = "clean_record" => pc[i] = "clean_record" /\ out'[i] = out[i]
    BY <2>2
  <2> QED BY <2>1, <2>3, <2>4, <2>5, <2>6 DEF Accounted
<1>4. CASE UNCHANGED vars
  BY <1>4 DEF vars, ledger, handler, Accounted, Mine, Excused, Shown
<1> QED BY <1>1, <1>2, <1>3, <1>4 DEF Next

-----------------------------------------------------------------------------
(* The invariant holds, and with it what the runs check *)

(* The invariant holds of every reachable state. *)
LEMMA Inductive == Spec => []IInv
<1>1. Init => IInv
  BY InitTypeOK, InitLocks, InitLedger, InitUnderWay, InitAtProvider, InitAccounted DEF IInv
<1>2. IInv /\ [Next]_vars => IInv'
  BY NextTypeOK, NextLocks, NextLedger, NextUnderWay, NextAtProvider, NextAccounted DEF IInv
<1> QED BY <1>1, <1>2, PTL DEF Spec

(* An execution that comes back to record its answer finds the attempt running, *)
(* unless an execution of another gateway was recorded first.                   *)
THEOREM AnswersFindAttempt == Spec => []AnswerFindsAttempt
<1>1. IInv => AnswerFindsAttempt BY DEF IInv, UnderWay
<1> QED BY <1>1, Inductive, PTL

(* A review the ledger shows as executed is open, on its branch, with its files. *)
THEOREM CompletedReviewsOpen == Spec => []CompletedIsOpen
<1>1. IInv => CompletedIsOpen BY DEF IInv, AtProvider
<1> QED BY <1>1, Inductive, PTL

(* The branch of a failed execution is flagged for cleanup, but for the named *)
(* ways in which its existence got out of sight.                              *)
THEOREM BranchesFlagged == Spec => []BranchIsFlagged
<1>1. IInv => BranchIsFlagged
  BY DEF IInv, Accounted, Excused, Shown, BranchIsFlagged
<1> QED BY <1>1, Inductive, PTL

-----------------------------------------------------------------------------
(* RepoTags: tag runs, their lookups and refreshes, and the Actions rows *)

USE ActorAssumption, BoundAssumption

(* A worker has an operation that was claimed, and is where its kind leads.  *)
Proper(w) == worker[w] # Idle =>
    /\ Op(w).job # "queued"
    /\ worker[w].pc = "follow" => Kind(w) = "tag"
    /\ worker[w].pc = "insert" => Kind(w) = "refresh"
Claimed == \A w \in Workers : Proper(w)

(* A run that shows "running" has an operation whose outcome is to come.     *)
ToCome == {"execute", "record"}
Carries(i, r) ==
    /\ ops[i].run = r /\ ops[i].kind \in {"tag", "lookup"} /\ ops[i].job = "running"
    /\ \A w \in Workers : worker[w] # Idle /\ worker[w].i = i => worker[w].pc \in ToCome
Carried == \A r \in Runs : run[r] = "running" => \E i \in DOMAIN ops : Carries(i, r)

HasFollowUps(r) == \A kind \in {"lookup", "refresh"} : OpsOf(kind, r) # {}
Followed ==
    /\ \A i \in DOMAIN ops : ops[i].kind = "tag" /\ ops[i].op = "completed" => HasFollowUps(ops[i].run)
    /\ \A w \in Workers :
          worker[w].pc = "finish" /\ worker[w].ok /\ Kind(w) = "tag" => HasFollowUps(Op(w).run)

(* Nothing tells of a tag that never was there. *)
Unseen ==
    /\ tagged = FALSE
    /\ \A r \in Runs : run[r] # "completed"
    /\ \A i \in DOMAIN ops : ops[i].found = FALSE
    /\ \A n \in DOMAIN records : records[n].state # "recorded"
    /\ \A h \in Callers : request[h].pc = "snapshot" => request[h].record.state # "recorded"
    /\ \A w \in Workers :
          /\ worker[w].pc \in {"record", "finish"} => worker[w].found = FALSE
          /\ worker[w].pc = "record" /\ worker[w].ok => Kind(w) # "tag"
Seen == wasTagged = FALSE => Unseen

(* A writer of rows that nobody disturbed has seen the rows as they are.     *)
Found(a) == IF a \in Callers THEN request[a].found ELSE worker[a].found
Apart ==
    /\ IsFiniteSet(rows) /\ \A a \in Writing : IsFiniteSet(Found(a))
    /\ mixed = FALSE =>
          /\ \A x, y \in rows : x = y
          /\ \A a \in Writing : Found(a) = rows /\ \A b \in Writing : a = b
    /\ lone \in Workers /\ worker[lone].pc = "insert" => Writing = {lone} /\ worker[lone].found = rows

TagInv == TagTypeOK /\ Claimed /\ Carried /\ Followed /\ Seen /\ Apart

-----------------------------------------------------------------------------
(* What is of which type *)

(* The operations are a sequence of well-typed ones. *)
LEMMA TagOpTypes ==
  ASSUME TagTypeOK
  PROVE  /\ ops \in Seq(TagOps) /\ Len(ops) \in Nat /\ DOMAIN ops = 1..Len(ops)
         /\ \A i \in DOMAIN ops :
               /\ ops[i] \in TagOps /\ ops[i].kind \in Kinds /\ ops[i].run \in Runs
               /\ ops[i].op \in Statuses /\ ops[i].job \in Statuses /\ ops[i].found \in BOOLEAN
<1>1. ops \in Seq(TagOps)
  BY DEF TagTypeOK
<1>2. Len(ops) \in Nat /\ DOMAIN ops = 1..Len(ops)
  BY <1>1, LenProperties
<1>3. \A i \in DOMAIN ops : ops[i] \in TagOps
  BY <1>1, <1>2, ElementOfSeq
<1>4. QED
  BY <1>1, <1>2, <1>3 DEF TagOps

(* A worker at work has an operation there is, and what it remembers has its type *)
LEMMA TagStageTypes ==
  ASSUME TagTypeOK, NEW w \in Workers
  PROVE  /\ worker[w] \in Stages
         /\ worker[w] # Idle <=> worker[w].pc # "idle"
         /\ worker[w] # Idle =>
               /\ worker[w].pc \in {"execute", "follow", "record", "finish", "insert"}
               /\ worker[w].i \in DOMAIN ops /\ worker[w].i \in 1..Len(ops) /\ worker[w].ok \in BOOLEAN
         /\ worker[w].pc \in {"record", "finish"} => worker[w].found \in BOOLEAN
         /\ worker[w].pc = "insert" => worker[w].found \subseteq RowIds
<1>1. worker[w] \in Stages
  BY DEF TagTypeOK
<1>2. DOMAIN ops = 1..Len(ops)
  BY TagOpTypes
<1>3. QED
  BY <1>1, <1>2 DEF Stages, Idle

(* and these are the stages an operation can be at. *)
LEMMA TagStagesHave ==
  ASSUME NEW i \in 1..Len(ops)
  PROVE  /\ Idle \in Stages
         /\ \A p \in {"execute", "follow"}, ok \in BOOLEAN : [pc |-> p, i |-> i, ok |-> ok] \in Stages
         /\ \A p \in {"record", "finish"}, ok \in BOOLEAN, found \in BOOLEAN :
               [pc |-> p, i |-> i, ok |-> ok, found |-> found] \in Stages
         /\ \A ok \in BOOLEAN, found \in SUBSET RowIds :
               [pc |-> "insert", i |-> i, ok |-> ok, found |-> found] \in Stages
  BY DEF Stages

(* With more operations there are more stages. *)
LEMMA StagesGrow ==
  ASSUME TagTypeOK, Len(ops') \in Nat, Len(ops) <= Len(ops')
  PROVE  Stages \subseteq Stages'
<1>1. 1..Len(ops) \subseteq 1..Len(ops')
  BY TagOpTypes
<1>2. QED
  BY <1>1 DEF Stages

(* What a request remembers has its type *)
LEMMA TagRequestTypes ==
  ASSUME TagTypeOK, NEW h \in Callers
  PROVE  /\ request[h] \in Requests
         /\ request[h] # Idle <=> request[h].pc # "idle"
         /\ request[h].pc \in {"lookup", "refresh"} => request[h].run \in Runs
         /\ request[h].pc = "hook" => request[h].found \subseteq RowIds
         /\ request[h].pc = "snapshot" => request[h].record \in Records
  BY DEF TagTypeOK, Requests, Idle

(* and these are what a request can be at. *)
LEMMA TagRequestsHave ==
  /\ Idle \in Requests /\ Idle.pc = "idle"
  /\ \A p \in {"lookup", "refresh"}, r \in Runs : [pc |-> p, run |-> r] \in Requests
  /\ \A found \in SUBSET RowIds : [pc |-> "hook", found |-> found] \in Requests
  /\ \A record \in Records : [pc |-> "snapshot", record |-> record] \in Requests
  BY DEF Requests, Idle

-----------------------------------------------------------------------------
(* The operations *)

(* What every step does with the operations that are there. *)
OpsStay ==
    /\ ops' \in Seq(TagOps) /\ Len(ops') \in Nat /\ Len(ops) <= Len(ops')
    /\ \A i \in DOMAIN ops :
          /\ i \in DOMAIN ops'
          /\ ops'[i].kind = ops[i].kind /\ ops'[i].run = ops[i].run
          /\ ops'[i].job = "queued" => ops[i].job = "queued"

(* New operations wait; the others are as they were. *)
OpsAdded ==
    /\ OpsStay
    /\ \A i \in DOMAIN ops : ops'[i] = ops[i]
    /\ \A i \in DOMAIN ops' \ DOMAIN ops :
          ops'[i].op = "queued" /\ ops'[i].job = "queued" /\ ops'[i].found = FALSE

(* Without a change of them operations stay. *)
LEMMA SameTagOps ==
  ASSUME TagTypeOK, UNCHANGED ops
  PROVE  OpsAdded
  BY TagOpTypes DEF OpsAdded, OpsStay

Extends(s, t, e) ==
    /\ Len(s) <= Len(s \o t) /\ Len(s \o t) \in Nat
    /\ \A n \in DOMAIN s : n \in DOMAIN (s \o t) /\ (s \o t)[n] = s[n]
    /\ \A n \in DOMAIN (s \o t) \ DOMAIN s : (s \o t)[n] = e
    /\ t = <<e>> => \E n \in DOMAIN (s \o t) : (s \o t)[n] = e

(* A sequence with one element more, or none, behind it keeps its elements. *)
LEMMA Extended ==
  ASSUME NEW S, NEW s \in Seq(S), NEW e \in S, NEW t \in {<<>>, <<e>>}
  PROVE  s \o t \in Seq(S) /\ Extends(s, t, e)
<1>1. /\ t \in Seq(S) /\ Len(t) \in 0..1 /\ \A n \in 1..Len(t) : t[n] = e
      /\ t = <<e>> => Len(t) = 1
  <2>1. CASE t = <<>>
    <3>1. t \in Seq(S) /\ Len(t) = 0
      BY <2>1, EmptySeq
    <3>2. <<>> # <<e>>
      OBVIOUS
    <3>3. QED
      BY <2>1, <3>1, <3>2
  <2>2. CASE t = <<e>>
    BY <2>2
  <2>3. QED
    BY <2>1, <2>2
<1> DEFINE u == s \o t
<1>2. /\ u \in Seq(S) /\ Len(u) = Len(s) + Len(t)
      /\ \A n \in 1..Len(s) + Len(t) : u[n] = IF n <= Len(s) THEN s[n] ELSE t[n - Len(s)]
  BY ONLY <1>1, s \in Seq(S), ConcatProperties
<1>3. Len(s) \in Nat /\ DOMAIN s = 1..Len(s)
  BY LenProperties
<1> HIDE DEF u
<1>4. DOMAIN u = 1..Len(s) + Len(t) /\ Len(u) \in Nat /\ Len(s) <= Len(u)
  BY <1>1, <1>2, <1>3, LenProperties
<1>5. \A n \in DOMAIN s : n \in DOMAIN u /\ u[n] = s[n]
  BY <1>1, <1>2, <1>3, <1>4
<1>6. \A n \in DOMAIN u \ DOMAIN s : u[n] = e
  <2> SUFFICES ASSUME NEW n \in DOMAIN u \ DOMAIN s PROVE u[n] = e
    OBVIOUS
  <2>1. n \in 1..Len(s) + Len(t) /\ ~(n <= Len(s)) /\ n - Len(s) \in 1..Len(t)
    BY <1>1, <1>3, <1>4
  <2>2. QED
    BY <1>1, <1>2, <2>1
<1>7. t = <<e>> => \E n \in DOMAIN u : u[n] = e
  <2> SUFFICES ASSUME t = <<e>> PROVE \E n \in DOMAIN u : u[n] = e
    OBVIOUS
  <2>1. Len(s) + 1 \in DOMAIN u \ DOMAIN s
    BY <1>1, <1>3, <1>4
  <2>2. QED
    BY <1>6, <2>1
<1>8. QED
  BY <1>2, <1>4, <1>5, <1>6, <1>7 DEF u, Extends

(* A new operation is well typed. *)
LEMMA NewOpTypes ==
  ASSUME NEW kind \in Kinds, NEW r \in Runs
  PROVE  NewOp(kind, r) \in TagOps
  BY DEF NewOp, TagOps, Statuses, Active

(* One operation more, or none. *)
LEMMA MoreOps ==
  ASSUME TagTypeOK, NEW kind \in Kinds, NEW r \in Runs, ops' = Append(ops, NewOp(kind, r))
  PROVE  /\ OpsAdded
         /\ OpsOf(kind, r)' # {}
<1> DEFINE e == NewOp(kind, r)
<1>1. e \in TagOps /\ e.op = "queued" /\ e.job = "queued" /\ e.found = FALSE
      /\ e.kind = kind /\ e.run = r
  BY NewOpTypes DEF NewOp
<1>2. ops \in Seq(TagOps) /\ Len(ops) \in Nat /\ DOMAIN ops = 1..Len(ops)
  BY TagOpTypes
<1>3. ops' = Append(ops, e)
  OBVIOUS
<1> HIDE DEF e
<1>4. /\ ops' \in Seq(TagOps) /\ Len(ops') = Len(ops) + 1
      /\ \A i \in 1..Len(ops) : ops'[i] = ops[i]
      /\ ops'[Len(ops) + 1] = e
  <2>1. /\ Append(ops, e) \in Seq(TagOps) /\ Len(Append(ops, e)) = Len(ops) + 1
        /\ \A i \in 1..Len(ops) : Append(ops, e)[i] = ops[i]
        /\ Append(ops, e)[Len(ops) + 1] = e
    BY ONLY <1>1, <1>2, AppendProperties
  <2>2. QED
    BY ONLY <1>3, <2>1
<1>5. DOMAIN ops' = 1..Len(ops) + 1
  BY <1>2, <1>4, LenProperties
<1>6. OpsAdded
  BY <1>1, <1>2, <1>4, <1>5 DEF OpsAdded, OpsStay
<1>7. Len(ops) + 1 \in OpsOf(kind, r)'
  BY <1>1, <1>2, <1>4, <1>5 DEF OpsOf
<1>8. QED
  BY <1>6, <1>7

(* The follow-ups: a lookup and a refresh, unless the run has one. *)
LEMMA FollowUpsAdded ==
  ASSUME TagTypeOK, NEW w \in Workers, NEW r \in Runs, Op(w).run = r, FollowUp(w)
  PROVE  OpsAdded /\ HasFollowUps(r)'
<1> DEFINE l == NewOp("lookup", r)
           f == NewOp("refresh", r)
           First(kind) == IF OpsOf(kind, r) = {} THEN <<NewOp(kind, r)>> ELSE <<>>
           s == ops \o First("lookup")
<1>2. /\ l \in TagOps /\ l.op = "queued" /\ l.job = "queued" /\ l.found = FALSE
      /\ l.kind = "lookup" /\ l.run = r
      /\ f \in TagOps /\ f.op = "queued" /\ f.job = "queued" /\ f.found = FALSE
      /\ f.kind = "refresh" /\ f.run = r
  BY NewOpTypes DEF NewOp, Kinds
<1>3. /\ First("lookup") \in {<<>>, <<l>>} /\ First("refresh") \in {<<>>, <<f>>}
      /\ OpsOf("lookup", r) = {} => First("lookup") = <<l>>
      /\ OpsOf("refresh", r) = {} => First("refresh") = <<f>>
  OBVIOUS
<1>4. ops' = s \o First("refresh")
  <2>1. ops' = ops \o First("lookup") \o First("refresh")
    BY DEF FollowUp
  <2>2. QED
    BY <2>1
<1>5. ops \in Seq(TagOps) /\ Len(ops) \in Nat /\ DOMAIN ops = 1..Len(ops)
  BY TagOpTypes
<1> DEFINE a == First("lookup")
           b == First("refresh")
<1>6. a \in {<<>>, <<l>>} /\ b \in {<<>>, <<f>>} /\ s = ops \o a /\ ops' = s \o b
  BY <1>3, <1>4
<1> HIDE DEF a, b, l, f, s, First
<1>7. /\ s \in Seq(TagOps) /\ Len(ops) <= Len(s) /\ Len(s) \in Nat
      /\ \A n \in DOMAIN ops : n \in DOMAIN s /\ s[n] = ops[n]
      /\ \A n \in DOMAIN s \ DOMAIN ops : s[n] = l
      /\ a = <<l>> => \E n \in DOMAIN s : s[n] = l
  <2>1. l \in TagOps /\ a \in {<<>>, <<l>>} /\ ops \in Seq(TagOps)
    BY ONLY <1>2, <1>5, <1>6
  <2>2. ops \o a \in Seq(TagOps) /\ Extends(ops, a, l)
    BY ONLY <2>1, Extended, Zenon
  <2>3. QED
    BY ONLY <1>6, <2>2 DEF Extends
<1>8. /\ ops' \in Seq(TagOps) /\ Len(s) <= Len(ops') /\ Len(ops') \in Nat
      /\ \A n \in DOMAIN s : n \in DOMAIN ops' /\ ops'[n] = s[n]
      /\ \A n \in DOMAIN ops' \ DOMAIN s : ops'[n] = f
      /\ b = <<f>> => \E n \in DOMAIN ops' : ops'[n] = f
  <2>1. f \in TagOps /\ b \in {<<>>, <<f>>} /\ s \in Seq(TagOps)
    BY ONLY <1>2, <1>6, <1>7
  <2>2. s \o b \in Seq(TagOps) /\ Extends(s, b, f)
    BY ONLY <2>1, Extended, Zenon
  <2>3. QED
    BY ONLY <1>6, <2>2 DEF Extends
<1>9. Len(ops) <= Len(ops')
  BY ONLY <1>5, <1>7, <1>8
<1>10. \A n \in DOMAIN ops : n \in DOMAIN ops' /\ ops'[n] = ops[n]
  BY <1>7, <1>8
<1>11. \A n \in DOMAIN ops' \ DOMAIN ops : ops'[n] \in {l, f}
  BY <1>7, <1>8
<1>12. OpsAdded
  BY <1>2, <1>8, <1>9, <1>10, <1>11 DEF OpsAdded, OpsStay
<1>13. OpsOf("lookup", r)' # {}
  <2>1. CASE OpsOf("lookup", r) # {}
    BY <1>10, <2>1 DEF OpsOf
  <2>2. CASE OpsOf("lookup", r) = {}
    <3>1. \E n \in DOMAIN ops' : ops'[n] = l
      BY <1>3, <1>7, <1>8, <2>2 DEF a
    <3>2. QED
      BY <1>2, <3>1 DEF OpsOf
  <2>3. QED
    BY <2>1, <2>2
<1>14. OpsOf("refresh", r)' # {}
  <2>1. CASE OpsOf("refresh", r) # {}
    BY <1>10, <2>1 DEF OpsOf
  <2>2. CASE OpsOf("refresh", r) = {}
    <3>1. \E n \in DOMAIN ops' : ops'[n] = f
      BY <1>3, <1>8, <2>2 DEF b
    <3>2. QED
      BY <1>2, <3>1 DEF OpsOf
  <2>3. QED
    BY <2>1, <2>2
<1>15. QED
  BY <1>12, <1>13, <1>14 DEF HasFollowUps

(* An operation is made of its fields. *)
LEMMA TagOpFields ==
  ASSUME NEW x \in TagOps, NEW y \in TagOps,
         y.kind = x.kind, y.run = x.run
  PROVE  y = [kind |-> x.kind, run |-> x.run, op |-> y.op, job |-> y.job, found |-> y.found]
  BY DEF TagOps

Marking(x, o, b) == [x EXCEPT !.op = o, !.job = b]
MarkingFound(x, o, b, f) == [x EXCEPT !.op = o, !.job = b, !.found = f]

(* What a status, or a result with it, makes of an operation. *)
LEMMA Rewritten ==
  ASSUME NEW x \in TagOps, NEW o \in Statuses, NEW b \in Statuses, NEW f \in BOOLEAN
  PROVE  /\ Marking(x, o, b) =
               [kind |-> x.kind, run |-> x.run, op |-> o, job |-> b, found |-> x.found]
         /\ MarkingFound(x, o, b, f) =
               [kind |-> x.kind, run |-> x.run, op |-> o, job |-> b, found |-> f]
<1> DEFINE y == Marking(x, o, b)
           z == MarkingFound(x, o, b, f)
<1>1. /\ y \in TagOps /\ y.op = o /\ y.job = b
      /\ y.kind = x.kind /\ y.run = x.run /\ y.found = x.found
  BY DEF TagOps, Marking
<1>2. /\ z \in TagOps /\ z.op = o /\ z.job = b
      /\ z.kind = x.kind /\ z.run = x.run /\ z.found = f
  BY DEF TagOps, MarkingFound
<1> HIDE DEF y, z
<1>3. /\ y = [kind |-> x.kind, run |-> x.run, op |-> o, job |-> b, found |-> x.found]
      /\ z = [kind |-> x.kind, run |-> x.run, op |-> o, job |-> b, found |-> f]
  BY <1>1, <1>2, TagOpFields
<1>4. QED
  BY <1>3 DEF y, z

(* One operation and its job get new statuses. *)
Remade(i, o, b, f) ==
    ops' = [ops EXCEPT ![i] =
              [kind |-> ops[i].kind, run |-> ops[i].run, op |-> o, job |-> b, found |-> f]]

(* One operation changes, the others and all kinds and runs stay. *)
LEMMA RemadeOps ==
  ASSUME TagTypeOK, NEW i \in DOMAIN ops, NEW o \in Statuses, NEW b \in Statuses,
         NEW f \in BOOLEAN, Remade(i, o, b, f), b # "queued"
  PROVE  /\ OpsStay /\ DOMAIN ops' = DOMAIN ops
         /\ \A j \in DOMAIN ops : j # i => ops'[j] = ops[j]
         /\ ops'[i].kind = ops[i].kind /\ ops'[i].run = ops[i].run
         /\ ops'[i].op = o /\ ops'[i].job = b /\ ops'[i].found = f
<1> DEFINE e == [kind |-> ops[i].kind, run |-> ops[i].run, op |-> o, job |-> b, found |-> f]
<1>1. /\ ops \in Seq(TagOps) /\ Len(ops) \in Nat /\ DOMAIN ops = 1..Len(ops)
      /\ \A j \in DOMAIN ops : ops[j] \in TagOps
      /\ ops[i].kind \in Kinds /\ ops[i].run \in Runs
  BY TagOpTypes
<1>2. e \in TagOps
  BY <1>1 DEF TagOps
<1>3. ops' = [ops EXCEPT ![i] = e]
  BY DEF Remade
<1>4. e.kind = ops[i].kind /\ e.run = ops[i].run /\ e.op = o /\ e.job = b /\ e.found = f
  OBVIOUS
<1> HIDE DEF e
<1>5. /\ ops' \in Seq(TagOps) /\ Len(ops') = Len(ops) /\ DOMAIN ops' = DOMAIN ops
      /\ ops'[i] = e /\ \A j \in DOMAIN ops : j # i => ops'[j] = ops[j]
  BY ONLY <1>1, <1>2, <1>3, i \in DOMAIN ops, ExceptSeq
<1>6. QED
  BY <1>1, <1>4, <1>5 DEF OpsStay

-----------------------------------------------------------------------------
(* What keeps the parts of the invariant *)

(* Actors that stay, rest or take a proper place keep to what was claimed. *)
LEMMA KeepsClaimed ==
  ASSUME TagTypeOK, Claimed, OpsStay,
         \A w \in Workers : worker'[w] = worker[w] \/ Proper(w)'
  PROVE  Claimed'
<1> SUFFICES ASSUME NEW w \in Workers PROVE Proper(w)'
  BY DEF Claimed
<1>1. CASE worker'[w] = worker[w]
  <2>1. Proper(w) /\ (worker[w] # Idle => worker[w].i \in DOMAIN ops)
    BY TagStageTypes DEF Claimed
  <2>2. QED
    BY <1>1, <2>1 DEF Proper, Op, Kind, OpsStay
<1>2. QED
  BY <1>1

(* An operation whose outcome is to come stays so. *)
Lasts(i) ==
    \/ run'[ops[i].run] # "running"
    \/ ops[i].kind = "refresh"
    \/ \E w \in Workers : worker[w] # Idle /\ worker[w].i = i /\ worker[w].pc \notin ToCome
    \/ /\ ops'[i].job = ops[i].job
       /\ \A w \in Workers : worker'[w] # Idle /\ worker'[w].i = i =>
             worker'[w] = worker[w] \/ worker'[w].pc \in ToCome

(* A run that still shows "running" still has its operation. *)
LEMMA KeepsCarried ==
  ASSUME TagTypeOK, Carried, OpsStay,
         \A r \in Runs : run'[r] = "running" => run[r] = "running",
         \A i \in DOMAIN ops : ops[i].job = "running" => Lasts(i)
  PROVE  Carried'
<1> SUFFICES ASSUME NEW r \in Runs, run'[r] = "running"
             PROVE  \E i \in DOMAIN ops' : Carries(i, r)'
  BY DEF Carried
<1>1. PICK i \in DOMAIN ops : Carries(i, r)
  BY DEF Carried
<1>2. /\ ops'[i].job = ops[i].job
      /\ \A w \in Workers : worker'[w] # Idle /\ worker'[w].i = i =>
             worker'[w] = worker[w] \/ worker'[w].pc \in ToCome
  <2>1. ops[i].run = r /\ ops[i].kind # "refresh"
    BY <1>1 DEF Carries
  <2>2. ~ \E w \in Workers : worker[w] # Idle /\ worker[w].i = i /\ worker[w].pc \notin ToCome
    BY <1>1 DEF Carries
  <2>3. Lasts(i)
    BY <1>1 DEF Carries
  <2>4. QED
    BY <2>1, <2>2, <2>3 DEF Lasts
<1>3. \A w \in Workers : worker'[w] # Idle /\ worker'[w].i = i => worker'[w].pc \in ToCome
  BY <1>1, <1>2 DEF Carries
<1>4. Carries(i, r)'
  BY <1>1, <1>2, <1>3 DEF Carries, OpsStay
<1>5. QED
  BY <1>4 DEF OpsStay

(* Follow-ups stay. *)
LEMMA FollowUpsStay ==
  ASSUME TagTypeOK, OpsStay, NEW r, HasFollowUps(r)
  PROVE  HasFollowUps(r)'
<1>1. \A kind : OpsOf(kind, r) \subseteq OpsOf(kind, r)'
  BY DEF OpsOf, OpsStay
<1>2. QED
  BY <1>1 DEF HasFollowUps

(* A tag operation that is completed, or about to be, was followed up. *)
LEMMA KeepsFollowed ==
  ASSUME TagTypeOK, Followed, OpsStay,
         \A i \in DOMAIN ops' : ops'[i].kind = "tag" /\ ops'[i].op = "completed" =>
            i \in DOMAIN ops /\ (ops[i].op = "completed" \/ HasFollowUps(ops[i].run)),
         \A w \in Workers : worker'[w].pc = "finish" /\ worker'[w].ok /\ Kind(w)' = "tag" =>
            worker'[w] = worker[w] \/ HasFollowUps(Op(w).run)'
  PROVE  Followed'
<1>1. ASSUME NEW i \in DOMAIN ops', ops'[i].kind = "tag", ops'[i].op = "completed"
      PROVE  HasFollowUps(ops[i].run)' /\ i \in DOMAIN ops /\ ops'[i].run = ops[i].run
  <2>1. i \in DOMAIN ops /\ (ops[i].op = "completed" \/ HasFollowUps(ops[i].run))
    BY <1>1
  <2>2. ops[i].kind = "tag" /\ ops'[i].run = ops[i].run
    BY <1>1, <2>1 DEF OpsStay
  <2>3. HasFollowUps(ops[i].run)
    BY <2>1, <2>2 DEF Followed
  <2>4. PICK q : q = ops[i].run
    OBVIOUS
  <2>5. HasFollowUps(q)'
    BY <2>3, <2>4, FollowUpsStay
  <2>6. QED
    BY <2>1, <2>2, <2>4, <2>5
<1>2. ASSUME NEW w \in Workers, worker'[w].pc = "finish", worker'[w].ok, Kind(w)' = "tag"
      PROVE  HasFollowUps(Op(w).run)'
  <2>1. CASE worker'[w] = worker[w]
    <3>1. worker[w] # Idle /\ worker[w].i \in DOMAIN ops
      BY <1>2, <2>1, TagStageTypes
    <3>2. PICK q : q = Op(w).run
      OBVIOUS
    <3>3. Kind(w) = "tag" /\ Op(w)'.run = q
      BY <1>2, <2>1, <3>1, <3>2 DEF Kind, Op, OpsStay
    <3>4. HasFollowUps(q)
      BY <1>2, <2>1, <3>2, <3>3 DEF Followed
    <3>5. HasFollowUps(q)'
      BY <3>4, FollowUpsStay
    <3>6. QED
      BY <3>3, <3>5
  <2>2. QED
    BY <1>2, <2>1
<1>3. QED
  BY <1>1, <1>2 DEF Followed

(* Writers of rows that stay, or are done, leave the rows apart. *)
LEMMA KeepsApart ==
  ASSUME TagTypeOK, Apart, UNCHANGED actions,
         \A h \in Callers : request'[h].pc = "hook" => request'[h] = request[h],
         \A w \in Workers : worker'[w].pc = "insert" => worker'[w] = worker[w]
  PROVE  Apart'
<1>1. rows' = rows /\ mixed' = mixed /\ lone' = lone
  BY DEF actions
<1>2. /\ \A a \in Writing' : a \in Writing /\ Found(a)' = Found(a)
      /\ \A w \in Workers : w \in Writing' => worker'[w] = worker[w]
  BY DEF Writing, Found
<1>3. IsFiniteSet(rows') /\ \A a \in Writing' : IsFiniteSet(Found(a)')
  BY <1>1, <1>2 DEF Apart
<1>4. mixed' = FALSE =>
        /\ \A x, y \in rows' : x = y
        /\ \A a \in Writing' : Found(a)' = rows' /\ \A b \in Writing' : a = b
  BY <1>1, <1>2 DEF Apart
<1>5. ASSUME lone' \in Workers, worker'[lone'].pc = "insert"
      PROVE  Writing' = {lone'} /\ worker'[lone'].found = rows'
  <2>1. worker'[lone] = worker[lone] /\ lone \in Writing'
    BY <1>1, <1>5 DEF Writing
  <2>2. Writing = {lone} /\ worker[lone].found = rows
    BY <1>1, <1>5, <2>1 DEF Apart
  <2>3. QED
    BY <1>1, <1>2, <2>1, <2>2
<1>6. QED
  BY <1>3, <1>4, <1>5 DEF Apart

(* There is an id for a new row. *)
LEMMA NewRowIsNew ==
  ASSUME TagTypeOK, Apart
  PROVE  NewRow \in RowIds
<1>1. IsFiniteSet(Names)
  <2> DEFINE H == {g \in Callers : request[g].pc = "hook"}
             V == {v \in Workers : worker[v].pc = "insert"}
             X == {request[h].found : h \in H}
             Y == {worker[w].found : w \in V}
  <2>1. H \subseteq Callers /\ V \subseteq Workers /\ IsFiniteSet(Callers) /\ IsFiniteSet(Workers)
    OBVIOUS
  <2>2. IsFiniteSet(H) /\ IsFiniteSet(V)
    BY <2>1, FS_Subset
  <2>3. IsFiniteSet(X) /\ IsFiniteSet(Y)
    <3> HIDE DEF H, V
    <3> DEFINE f == [h \in H |-> request[h].found]
               g == [w \in V |-> worker[w].found]
    <3>1. f \in Surjection(H, X) /\ g \in Surjection(V, Y)
      BY DEF Surjection
    <3> HIDE DEF f, g, X, Y
    <3>2. IsFiniteSet(X) /\ IsFiniteSet(Y)
      BY <2>2, <3>1, FS_Surjection
    <3>3. QED
      BY <3>2
  <2>4. \A S \in X \cup Y : IsFiniteSet(S)
    <3>1. \A h \in H : h \in Writing /\ Found(h) = request[h].found
      BY DEF Writing, Found
    <3>2. \A w \in V : w \in Writing /\ Found(w) = worker[w].found
      BY DEF Writing, Found
    <3>3. QED
      BY <3>1, <3>2 DEF Apart
  <2>5. Remembered = UNION (X \cup Y)
    BY DEF Remembered
  <2> HIDE DEF X, Y
  <2>6. IsFiniteSet(X \cup Y)
    BY <2>3, FS_Union
  <2>7. IsFiniteSet(UNION (X \cup Y))
    BY <2>4, <2>6, FS_UNION
  <2>8. IsFiniteSet(rows)
    BY DEF Apart
  <2>9. QED
    BY <2>5, <2>7, <2>8, FS_Union DEF Names
<1> DEFINE n == Cardinality(Names)
<1>2. n \in Nat
  BY <1>1, FS_CardinalityType
<1>3. \E id \in 1..(n + 1) : id \notin Names
  <2> SUFFICES ASSUME 1..(n + 1) \subseteq Names PROVE FALSE
    OBVIOUS
  <2>1. Cardinality(1..(n + 1)) <= n
    BY <1>1, FS_Subset
  <2> HIDE DEF n
  <2>2. Cardinality(1..(n + 1)) = n + 1
    <3> DEFINE m == n + 1
    <3>1. 1 \in Int /\ m \in Int /\ 1 <= m
      BY <1>2
    <3> HIDE DEF m
    <3>2. Cardinality(1..m) = IF 1 > m THEN 0 ELSE m - 1 + 1
      BY ONLY <3>1, FS_Interval
    <3>3. Cardinality(1..m) = m
      BY ONLY <3>1, <3>2
    <3>4. QED
      BY <3>3 DEF m
  <2>3. QED
    BY <1>2, <2>1, <2>2
<1>4. NewRow \in 1..(n + 1)
  BY <1>3 DEF NewRow
<1> HIDE DEF n
<1>5. QED
  BY <1>2, <1>4 DEF RowIds

-----------------------------------------------------------------------------
(* Requests *)

RunStatuses == Active \cup Outcomes \cup {NoValue}

(* What the gateway does leaves the workers, and what they have done, alone. *)
LEMMA RequestKeeps ==
  ASSUME TagInv, OpsAdded, UNCHANGED <<remoteTag, worker>>,
         \A r \in Runs : run'[r] \in {run[r], "queued"},
         wasTagged = FALSE => \A h \in Callers :
            request'[h].pc = "snapshot" => request'[h].record.state # "recorded",
         wasTagged = FALSE => \A n \in DOMAIN records' : records'[n].state # "recorded"
  PROVE  /\ ops' \in Seq(TagOps) /\ worker' \in [Workers -> Stages']
         /\ Claimed' /\ Carried' /\ Followed' /\ Seen'
<1>1. TagTypeOK /\ Claimed /\ Carried /\ Followed /\ Seen /\ OpsStay /\ worker' = worker
  BY DEF TagInv, OpsAdded
<1>2. ops' \in Seq(TagOps) /\ worker' \in [Workers -> Stages']
  <2>1. Stages \subseteq Stages'
    BY <1>1, StagesGrow DEF OpsStay
  <2>2. worker \in [Workers -> Stages]
    BY <1>1 DEF TagTypeOK
  <2>3. QED
    BY <1>1, <2>1, <2>2 DEF OpsStay
<1>3. Claimed'
  BY <1>1, KeepsClaimed
<1>4. Carried'
  <2>1. \A r \in Runs : run'[r] = "running" => run[r] = "running"
    OBVIOUS
  <2>2. \A i \in DOMAIN ops : Lasts(i)
    BY <1>1 DEF Lasts, OpsAdded
  <2>3. QED
    BY <1>1, <2>1, <2>2, KeepsCarried
<1>5. Followed'
  <2>1. \A i \in DOMAIN ops' : ops'[i].kind = "tag" /\ ops'[i].op = "completed" =>
            i \in DOMAIN ops /\ (ops[i].op = "completed" \/ HasFollowUps(ops[i].run))
    BY DEF OpsAdded
  <2>2. \A w \in Workers : worker'[w].pc = "finish" /\ worker'[w].ok /\ Kind(w)' = "tag" =>
            worker'[w] = worker[w] \/ HasFollowUps(Op(w).run)'
    BY <1>1
  <2>3. QED
    BY <1>1, <2>1, <2>2, KeepsFollowed
<1>6. Seen'
  <2> SUFFICES ASSUME wasTagged' = FALSE PROVE Unseen'
    BY DEF Seen
  <2>1. wasTagged = FALSE /\ tagged' = tagged /\ Unseen
    BY <1>1 DEF remoteTag, Seen
  <2>2. \A r \in Runs : run'[r] # "completed"
    BY <2>1 DEF Unseen
  <2>3. \A i \in DOMAIN ops' : ops'[i].found = FALSE
    BY <2>1 DEF Unseen, OpsAdded
  <2>4. \A w \in Workers : worker[w].pc = "record" => worker[w].i \in DOMAIN ops
    BY <1>1, TagStageTypes
  <2>5. \A w \in Workers :
          /\ worker'[w].pc \in {"record", "finish"} => worker'[w].found = FALSE
          /\ worker'[w].pc = "record" /\ worker'[w].ok => Kind(w)' # "tag"
    BY <1>1, <2>1, <2>4 DEF Unseen, Kind, Op, OpsStay
  <2>6. QED
    BY <2>1, <2>2, <2>3, <2>5 DEF Unseen
<1>7. QED
  BY <1>2, <1>3, <1>4, <1>5, <1>6

(* A handler turns to its next stage. *)
Turns(h, r) == request' = [request EXCEPT ![h] = r]

(* One request goes on, the others stay. *)
LEMMA Turned ==
  ASSUME TagTypeOK, NEW h \in Callers, NEW r \in Requests, Turns(h, r)
  PROVE  /\ request' \in [Callers -> Requests] /\ request'[h] = r
         /\ \A g \in Callers : g # h => request'[g] = request[g]
<1>1. request \in [Callers -> Requests]
  BY DEF TagTypeOK
<1>2. QED
  BY <1>1 DEF Turns

(* A run is created with its tag operation, which waits. *)
LEMMA CreateTagKeeps ==
  ASSUME TagInv, NEW r \in Runs, CreateTag(r)
  PROVE  TagInv'
<1>1. /\ run' = [run EXCEPT ![r] = "queued"] /\ ops' = Append(ops, NewOp("tag", r))
      /\ UNCHANGED <<remoteTag, actions, records, request, worker, counts>>
      /\ TagTypeOK
  BY DEF CreateTag, TagInv
<1>2. OpsAdded
  BY <1>1, MoreOps DEF Kinds
<1>3. run' \in [Runs -> RunStatuses] /\ \A q \in Runs : run'[q] \in {run[q], "queued"}
  <2>1. run \in [Runs -> RunStatuses]
    BY <1>1 DEF TagTypeOK, RunStatuses
  <2>2. QED
    BY <1>1, <2>1 DEF RunStatuses, Active
<1>4. wasTagged = FALSE =>
        /\ \A h \in Callers : request'[h].pc = "snapshot" => request'[h].record.state # "recorded"
        /\ \A n \in DOMAIN records' : records'[n].state # "recorded"
  BY <1>1 DEF TagInv, Seen, Unseen
<1>5. /\ ops' \in Seq(TagOps) /\ worker' \in [Workers -> Stages']
      /\ Claimed' /\ Carried' /\ Followed' /\ Seen'
  BY <1>1, <1>2, <1>3, <1>4, RequestKeeps
<1>6. Apart'
  <2>1. request' = request /\ worker' = worker
    BY <1>1
  <2>2. QED
    BY <1>1, <2>1, KeepsApart DEF TagInv
<1>7. TagTypeOK'
  BY <1>1, <1>3, <1>5 DEF TagTypeOK, RunStatuses, remoteTag, actions, counts
<1>8. QED
  BY <1>5, <1>6, <1>7 DEF TagInv

(* A request that has nothing to do with the rows. *)
LEMMA TurnKeeps ==
  ASSUME TagInv, NEW h \in Callers, NEW r \in Requests, Turns(h, r), OpsAdded, r.pc # "hook",
         UNCHANGED <<remoteTag, run, actions, worker, hooks>>,
         records' \in Seq(Records), manual' \in 0..MaxManual,
         wasTagged = FALSE /\ r.pc = "snapshot" => r.record.state # "recorded",
         wasTagged = FALSE => \A n \in DOMAIN records' : records'[n].state # "recorded"
  PROVE  TagInv'
<1>1. TagTypeOK
  BY DEF TagInv
<1>2. /\ request' \in [Callers -> Requests] /\ request'[h] = r
      /\ \A g \in Callers : g # h => request'[g] = request[g]
  BY <1>1, Turned
<1>3. wasTagged = FALSE => \A g \in Callers :
            request'[g].pc = "snapshot" => request'[g].record.state # "recorded"
  BY <1>2 DEF TagInv, Seen, Unseen
<1>4. \A q \in Runs : run'[q] \in {run[q], "queued"}
  OBVIOUS
<1>5. /\ ops' \in Seq(TagOps) /\ worker' \in [Workers -> Stages']
      /\ Claimed' /\ Carried' /\ Followed' /\ Seen'
  BY <1>3, <1>4, RequestKeeps
<1>6. Apart'
  <2>1. \A g \in Callers : request'[g].pc = "hook" => request'[g] = request[g]
    BY <1>2
  <2>2. QED
    BY <1>1, <2>1, KeepsApart DEF TagInv
<1>7. TagTypeOK'
  BY <1>1, <1>2, <1>5 DEF TagTypeOK, remoteTag, actions
<1>8. QED
  BY <1>5, <1>6, <1>7 DEF TagInv

(* A request that found nothing in flight remembers what it asks for, *)
LEMMA AskKeeps ==
  ASSUME TagInv, NEW h \in Callers, NEW kind \in {"lookup", "refresh"}, NEW r \in Runs,
         Ask(h, kind, r)
  PROVE  TagInv'
<1> DEFINE q == [pc |-> kind, run |-> r]
<1>1. /\ Turns(h, q) /\ manual < MaxManual /\ manual' = manual + 1
      /\ UNCHANGED <<remoteTag, run, ops, actions, records, worker, hooks>>
  BY DEF Ask, Turn, Turns
<1>2. q \in Requests /\ q.pc # "hook" /\ q.pc # "snapshot"
  BY TagRequestsHave
<1>3. TagTypeOK /\ OpsAdded
  BY <1>1, SameTagOps DEF TagInv
<1>4. records' \in Seq(Records) /\ manual' \in 0..MaxManual
  BY <1>1, <1>3 DEF TagTypeOK
<1>5. wasTagged = FALSE => \A n \in DOMAIN records' : records'[n].state # "recorded"
  BY <1>1 DEF TagInv, Seen, Unseen
<1>6. UNCHANGED <<remoteTag, run, actions, worker, hooks>>
  BY <1>1
<1> HIDE DEF q
<1>7. QED
  BY <1>1, <1>2, <1>3, <1>4, <1>5, <1>6, TurnKeeps

(* A handler that is done with its request. *)
LEMMA RestingKeeps ==
  ASSUME TagInv, NEW h \in Callers, Turns(h, Idle), OpsAdded,
         UNCHANGED <<remoteTag, run, actions, worker, counts>>, records' \in Seq(Records),
         wasTagged = FALSE => \A n \in DOMAIN records' : records'[n].state # "recorded"
  PROVE  TagInv'
<1>1. Idle \in Requests /\ Idle.pc # "hook" /\ Idle.pc # "snapshot"
  BY TagRequestsHave
<1>2. manual' \in 0..MaxManual /\ hooks' = hooks
  BY DEF TagInv, TagTypeOK, counts
<1>3. QED
  BY <1>1, <1>2, TurnKeeps

(* enqueues it, whatever was enqueued meanwhile, *)
LEMMA EnqueueKeeps ==
  ASSUME TagInv, NEW h \in Callers, Enqueue(h)
  PROVE  TagInv'
<1>1. /\ request[h].pc \in {"lookup", "refresh"}
      /\ ops' = Append(ops, NewOp(request[h].pc, request[h].run)) /\ Turns(h, Idle)
      /\ UNCHANGED <<remoteTag, run, actions, records, worker, counts>>
  BY DEF Enqueue, Turn, Turns
<1>2. TagTypeOK /\ request[h].pc \in Kinds /\ request[h].run \in Runs
  BY <1>1, TagRequestTypes DEF TagInv, Kinds
<1>3. OpsAdded
  BY <1>1, <1>2, MoreOps
<1>4. /\ records' \in Seq(Records)
      /\ wasTagged = FALSE => \A n \in DOMAIN records' : records'[n].state # "recorded"
  BY <1>1, <1>2 DEF TagTypeOK, TagInv, Seen, Unseen
<1>5. QED
  BY <1>1, <1>3, <1>4, RestingKeeps

(* or is dropped. *)
LEMMA DropRequestKeeps ==
  ASSUME TagInv, NEW h \in Callers, DropRequest(h)
  PROVE  TagInv'
<1>1. Turns(h, Idle) /\ UNCHANGED <<remoteTag, run, ops, actions, records, worker, counts>>
  BY DEF DropRequest, Turn, Turns
<1>2. TagTypeOK /\ OpsAdded
  BY <1>1, SameTagOps DEF TagInv
<1>3. /\ records' \in Seq(Records)
      /\ wasTagged = FALSE => \A n \in DOMAIN records' : records'[n].state # "recorded"
  BY <1>1, <1>2 DEF TagTypeOK, TagInv, Seen, Unseen
<1>4. QED
  BY <1>1, <1>2, <1>3, RestingKeeps

(* What a snapshot says; of a tag that never was there, nothing. *)
LEMMA RecordTypes ==
  ASSUME TagInv, NEW r \in Runs
  PROVE  /\ ResultRecord(r) \in Records
         /\ ResultRecord(r).state = "recorded" => run[r] = "completed"
         /\ ActionsRecord(r) \in Records
<1>1. /\ RehearsalState(r, Unknown) \in States /\ LookupState(r, Unknown) \in States
      /\ ResultEvidence(r) \in States /\ ResultReady(ResultEvidence(r)) \in BOOLEAN
      /\ ResultEvidence(r) = "recorded" => run[r] = "completed"
  BY DEF RehearsalState, LookupState, ResultEvidence, ResultReady, States, Unknown,
     TagObserved
<1>2. /\ LiveResultState(r, RehearsalState(r, Unknown)) \in States
      /\ RefreshState(r, RehearsalState(r, Unknown), Unknown) \in States
  BY DEF LiveResultState, RefreshState, States
<1>3. ResultRecord(r) \in Records /\ ResultRecord(r).state = ResultEvidence(r)
  BY <1>1, <1>2 DEF ResultRecord, Records
<1>4. RefreshEvidence \in Nat /\ "recorded" \in States
  BY FS_CardinalityType DEF RefreshEvidence, TagInv, Apart, States
<1>5. ActionsRecord(r) \in Records
  BY <1>4 DEF ActionsRecord, Records
<1>6. QED
  BY <1>1, <1>3, <1>5

(* A snapshot is read that tells of a tag only if there was one, *)
LEMMA RecordIfChangedKeeps ==
  ASSUME TagInv, NEW h \in Callers, NEW record \in Records, RecordIfChanged(h, record),
         wasTagged = FALSE => record.state # "recorded"
  PROVE  TagInv'
<1> DEFINE q == [pc |-> "snapshot", record |-> record]
<1>1. /\ Turns(h, q)
      /\ UNCHANGED <<remoteTag, run, ops, actions, records, worker, counts>>
  BY DEF RecordIfChanged, Turn, Turns
<1>2. q \in Requests /\ q.pc # "hook" /\ q.record = record
  BY TagRequestsHave
<1>3. TagTypeOK /\ OpsAdded
  BY <1>1, SameTagOps DEF TagInv
<1>4. records' \in Seq(Records) /\ manual' \in 0..MaxManual /\ hooks' = hooks
  BY <1>1, <1>3 DEF TagTypeOK, counts
<1>5. wasTagged = FALSE => \A n \in DOMAIN records' : records'[n].state # "recorded"
  BY <1>1 DEF TagInv, Seen, Unseen
<1> HIDE DEF q
<1>6. QED
  BY <1>1, <1>2, <1>3, <1>4, <1>5, TurnKeeps

(* and inserted, however late. *)
LEMMA InsertRecordKeeps ==
  ASSUME TagInv, NEW h \in Callers, InsertRecord(h)
  PROVE  TagInv'
<1> DEFINE e == request[h].record
<1>1. /\ request[h].pc = "snapshot" /\ records' = Append(records, e) /\ Turns(h, Idle)
      /\ UNCHANGED <<remoteTag, run, ops, actions, worker, counts>>
  BY DEF InsertRecord, Turn, Turns
<1>2. TagTypeOK /\ OpsAdded /\ e \in Records /\ records \in Seq(Records)
  BY <1>1, SameTagOps, TagRequestTypes DEF TagInv, TagTypeOK
<1>3. wasTagged = FALSE => e.state # "recorded" /\ \A n \in DOMAIN records : records[n].state # "recorded"
  BY <1>1 DEF TagInv, Seen, Unseen
<1> HIDE DEF e
<1>4. /\ records' \in Seq(Records) /\ DOMAIN records' = 1..Len(records')
      /\ Len(records) \in Nat /\ Len(records') = Len(records) + 1 /\ DOMAIN records = 1..Len(records)
      /\ \A n \in 1..Len(records) : records'[n] = records[n]
      /\ records'[Len(records) + 1] = e
  <2>1. /\ Append(records, e) \in Seq(Records) /\ Len(Append(records, e)) = Len(records) + 1
        /\ \A n \in 1..Len(records) : Append(records, e)[n] = records[n]
        /\ Append(records, e)[Len(records) + 1] = e
    BY ONLY <1>2, AppendProperties
  <2>2. QED
    BY <1>1, <1>2, <2>1, LenProperties
<1>5. wasTagged = FALSE => \A n \in DOMAIN records' : records'[n].state # "recorded"
  BY <1>3, <1>4
<1>6. QED
  BY <1>1, <1>2, <1>4, <1>5, RestingKeeps

(* A webhook has read the rows ... *)
LEMMA HookReadKeeps ==
  ASSUME TagInv, NEW h \in Callers, HookRead(h)
  PROVE  TagInv'
<1> DEFINE q == [pc |-> "hook", found |-> rows]
<1>1. /\ request[h] = Idle /\ hooks < MaxHooks /\ hooks' = hooks + 1 /\ Turns(h, q)
      /\ mixed' = (mixed \/ Writing # {}) /\ lone' = NoValue
      /\ UNCHANGED <<remoteTag, run, ops, rows, records, worker, manual>>
  BY DEF HookRead, Turn, Turns, Overlap
<1>2. TagTypeOK /\ OpsAdded /\ Apart
  BY <1>1, SameTagOps DEF TagInv
<1>3. q \in Requests /\ q.pc = "hook" /\ q.found = rows
  BY <1>2, TagRequestsHave DEF TagTypeOK
<1> HIDE DEF q
<1>4. /\ request' \in [Callers -> Requests] /\ request'[h] = q
      /\ \A g \in Callers : g # h => request'[g] = request[g]
  BY <1>1, <1>2, <1>3, Turned
<1>5. wasTagged = FALSE =>
        /\ \A g \in Callers : request'[g].pc = "snapshot" => request'[g].record.state # "recorded"
        /\ \A n \in DOMAIN records' : records'[n].state # "recorded"
  BY <1>1, <1>3, <1>4 DEF TagInv, Seen, Unseen
<1>6. /\ ops' \in Seq(TagOps) /\ worker' \in [Workers -> Stages']
      /\ Claimed' /\ Carried' /\ Followed' /\ Seen'
  BY <1>1, <1>2, <1>5, RequestKeeps
<1>7. TagTypeOK'
  <2>1. mixed' \in BOOLEAN /\ lone' \in Workers \cup {NoValue} /\ hooks' \in 0..MaxHooks
    BY <1>1, <1>2 DEF TagTypeOK
  <2>2. QED
    BY <1>1, <1>2, <1>4, <1>6, <2>1 DEF TagTypeOK, remoteTag
<1>8. Apart'
  <2>1. /\ Writing' = Writing \cup {h} /\ Found(h)' = rows
        /\ \A a \in Writing : Found(a)' = IF a = h THEN rows ELSE Found(a)
    BY <1>1, <1>3, <1>4 DEF Writing, Found
  <2>2. IsFiniteSet(rows') /\ \A a \in Writing' : IsFiniteSet(Found(a)')
    BY <1>1, <1>2, <2>1 DEF Apart
  <2>3. mixed' = FALSE =>
          /\ \A x, y \in rows' : x = y
          /\ \A a \in Writing' : Found(a)' = rows' /\ \A b \in Writing' : a = b
    <3> SUFFICES ASSUME mixed' = FALSE
                 PROVE  /\ \A x, y \in rows' : x = y
                        /\ \A a \in Writing' : Found(a)' = rows' /\ \A b \in Writing' : a = b
      OBVIOUS
    <3>1. Writing = {} /\ mixed = FALSE
      BY <1>1, <1>2 DEF TagTypeOK
    <3>2. QED
      BY <1>1, <1>2, <2>1, <3>1 DEF Apart
  <2>4. lone' \notin Workers
    BY <1>1
  <2>5. QED
    BY <2>2, <2>3, <2>4 DEF Apart
<1>9. QED
  BY <1>6, <1>7, <1>8 DEF TagInv

(* ... and writes one where it read none. *)
LEMMA HookWriteKeeps ==
  ASSUME TagInv, NEW h \in Callers, HookWrite(h)
  PROVE  TagInv'
<1>1. /\ request[h].pc = "hook" /\ Turns(h, Idle)
      /\ rows' = IF request[h].found = {} THEN rows \cup {NewRow} ELSE rows
      /\ UNCHANGED <<remoteTag, run, ops, mixed, lone, records, worker, counts>>
  BY DEF HookWrite, Turn, Turns
<1>2. TagTypeOK /\ OpsAdded /\ Apart
  BY <1>1, SameTagOps DEF TagInv
<1>3. Idle \in Requests /\ Idle.pc = "idle"
  BY TagRequestsHave
<1>4. /\ request' \in [Callers -> Requests] /\ request'[h] = Idle
      /\ \A g \in Callers : g # h => request'[g] = request[g]
  BY <1>1, <1>2, <1>3, Turned
<1>5. wasTagged = FALSE =>
        /\ \A g \in Callers : request'[g].pc = "snapshot" => request'[g].record.state # "recorded"
        /\ \A n \in DOMAIN records' : records'[n].state # "recorded"
  BY <1>1, <1>3, <1>4 DEF TagInv, Seen, Unseen
<1>6. /\ ops' \in Seq(TagOps) /\ worker' \in [Workers -> Stages']
      /\ Claimed' /\ Carried' /\ Followed' /\ Seen'
  BY <1>1, <1>2, <1>5, RequestKeeps
<1>7. NewRow \in RowIds
  BY <1>2, NewRowIsNew
<1>8. TagTypeOK'
  <2>1. rows' \subseteq RowIds
    BY <1>1, <1>2, <1>7 DEF TagTypeOK
  <2>2. QED
    BY <1>1, <1>2, <1>4, <1>6, <2>1 DEF TagTypeOK, remoteTag, counts
<1>9. Apart'
  <2>1. /\ h \in Writing /\ Found(h) = request[h].found /\ h \notin Workers
        /\ \A a \in Writing' : a \in Writing /\ a # h /\ Found(a)' = Found(a)
    BY <1>1, <1>3, <1>4 DEF Writing, Found
  <2>2. IsFiniteSet(rows')
    <3>1. IsFiniteSet(rows) /\ IsFiniteSet({NewRow})
      BY <1>2, FS_Singleton DEF Apart
    <3>2. IsFiniteSet(rows \cup {NewRow})
      BY <3>1, FS_Union
    <3>3. QED
      BY <1>1, <3>1, <3>2
  <2>3. \A a \in Writing' : IsFiniteSet(Found(a)')
    BY <1>2, <2>1 DEF Apart
  <2>4. mixed' = FALSE => Writing' = {} /\ \A x, y \in rows' : x = y
    BY <1>1, <1>2, <2>1 DEF Apart
  <2>5. ~(lone' \in Workers /\ worker'[lone'].pc = "insert")
    BY <1>1, <1>2, <2>1 DEF Apart
  <2>6. QED
    BY <2>2, <2>3, <2>4, <2>5 DEF Apart
<1>10. QED
  BY <1>6, <1>8, <1>9 DEF TagInv

-----------------------------------------------------------------------------
(* Workers *)

(* A worker moves to its next stage. *)
Moves(w, s) == worker' = [worker EXCEPT ![w] = s]

(* One worker goes on, the others stay. *)
LEMMA Moved ==
  ASSUME TagTypeOK, NEW w \in Workers, NEW s \in Stages', Moves(w, s), OpsStay
  PROVE  /\ worker' \in [Workers -> Stages'] /\ worker'[w] = s
         /\ \A v \in Workers : v # w => worker'[v] = worker[v]
<1>1. worker \in [Workers -> Stages]
  BY DEF TagTypeOK
<1>2. Stages \subseteq Stages'
  BY StagesGrow DEF OpsStay
<1> DEFINE S == Stages'
<1>3. worker \in [Workers -> S] /\ s \in S
  BY <1>1, <1>2
<1> HIDE DEF S
<1>4. [worker EXCEPT ![w] = s] \in [Workers -> S]
  BY <1>3
<1>5. worker' \in [Workers -> S]
  BY <1>4 DEF Moves
<1>6. worker'[w] = s /\ \A v \in Workers : v # w => worker'[v] = worker[v]
  BY <1>3 DEF Moves
<1>7. QED
  BY <1>5, <1>6 DEF S

(* What a worker must not tell as long as the tag never was there. *)
Silent(s, kind) ==
    /\ s.pc \in {"record", "finish"} => s.found = FALSE
    /\ s.pc = "record" /\ s.ok => kind # "tag"

(* A worker that goes on with its operation, or stops. *)
LEMMA WorkerKeeps ==
  ASSUME TagInv, NEW w \in Workers, worker[w] # Idle, NEW r \in Runs, Op(w).run = r,
         NEW s \in Stages', Moves(w, s), OpsAdded,
         s # Idle => s.i = worker[w].i,
         s.pc = "follow" => Kind(w) = "tag",
         s.pc = "insert" => Kind(w) = "refresh",
         UNCHANGED <<request, records>>,
         \A q \in Runs : run'[q] = "running" => run[q] = "running",
         \/ s = Idle \/ s.pc \in ToCome
         \/ worker[w].pc \notin ToCome \/ Kind(w) = "refresh" \/ run'[r] # "running",
         s.pc = "finish" /\ s.ok /\ Kind(w) = "tag" => HasFollowUps(r)',
         wasTagged' = FALSE =>
            /\ wasTagged = FALSE /\ tagged' = FALSE /\ Silent(s, Kind(w))
            /\ \A q \in Runs : run'[q] # "completed"
  PROVE  /\ ops' \in Seq(TagOps) /\ worker' \in [Workers -> Stages']
         /\ Claimed' /\ Carried' /\ Followed' /\ Seen'
<1>1. TagTypeOK /\ Claimed /\ Carried /\ Followed /\ Seen /\ OpsStay
  BY DEF TagInv, OpsAdded
<1>2. /\ worker' \in [Workers -> Stages'] /\ worker'[w] = s
      /\ \A v \in Workers : v # w => worker'[v] = worker[v]
  BY <1>1, Moved
<1>3. /\ worker[w].i \in DOMAIN ops
      /\ ops[worker[w].i].job # "queued"
  BY <1>1, TagStageTypes DEF Claimed, Proper, Op
<1>4. s # Idle => Op(w)' = Op(w) /\ Kind(w)' = Kind(w)
  BY <1>2, <1>3 DEF Op, Kind, OpsAdded
<1>5. Claimed'
  <2>1. Proper(w)'
    BY <1>2, <1>3, <1>4 DEF Proper, Op
  <2>2. QED
    BY <1>1, <1>2, <2>1, KeepsClaimed
<1>6. Carried'
  <2>1. ASSUME NEW i \in DOMAIN ops PROVE Lasts(i)
    <3>1. ops'[i].job = ops[i].job
      BY DEF OpsAdded
    <3>2. CASE i = worker[w].i /\ ~(s = Idle \/ s.pc \in ToCome)
      <4>1. ops[i].run = r /\ Kind(w) = ops[i].kind
        BY <3>2 DEF Kind, Op
      <4>2. QED
        BY <3>2, <4>1 DEF Lasts
    <3>3. CASE i # worker[w].i \/ s = Idle \/ s.pc \in ToCome
      <4>1. \A v \in Workers : worker'[v] # Idle /\ worker'[v].i = i =>
               worker'[v] = worker[v] \/ worker'[v].pc \in ToCome
        BY <1>2, <3>3
      <4>2. QED
        BY <3>1, <4>1 DEF Lasts
    <3>4. QED
      BY <3>2, <3>3
  <2>2. QED
    BY <1>1, <2>1, KeepsCarried
<1>7. Followed'
  <2>1. \A i \in DOMAIN ops' : ops'[i].kind = "tag" /\ ops'[i].op = "completed" =>
            i \in DOMAIN ops /\ (ops[i].op = "completed" \/ HasFollowUps(ops[i].run))
    BY DEF OpsAdded
  <2>2. ASSUME NEW v \in Workers, worker'[v].pc = "finish", worker'[v].ok, Kind(v)' = "tag"
        PROVE  worker'[v] = worker[v] \/ HasFollowUps(Op(v).run)'
    <3>1. CASE v = w
      <4>1. s # Idle /\ Op(w)'.run = r
        BY <1>2, <1>4, <2>2, <3>1 DEF Idle
      <4>2. HasFollowUps(r)'
        BY <1>2, <1>4, <2>2, <3>1, <4>1
      <4>3. QED
        BY <3>1, <4>1, <4>2
    <3>2. QED
      BY <1>2, <3>1
  <2>3. QED
    BY <1>1, <2>1, <2>2, KeepsFollowed
<1>8. Seen'
  <2> SUFFICES ASSUME wasTagged' = FALSE PROVE Unseen'
    BY DEF Seen
  <2>1. wasTagged = FALSE /\ tagged' = FALSE /\ Unseen /\ Silent(s, Kind(w))
    BY <1>1 DEF Seen
  <2>2. \A i \in DOMAIN ops' : ops'[i].found = FALSE
    BY <2>1 DEF Unseen, OpsAdded
  <2>3. ASSUME NEW v \in Workers
        PROVE  /\ worker'[v].pc \in {"record", "finish"} => worker'[v].found = FALSE
               /\ worker'[v].pc = "record" /\ worker'[v].ok => Kind(v)' # "tag"
    <3>1. CASE v = w
      BY <1>2, <1>4, <2>1, <3>1 DEF Silent, Idle
    <3>2. CASE v # w
      <4>1. worker'[v] = worker[v]
        BY <1>2, <3>2
      <4>2. worker[v].pc = "record" => worker[v].i \in DOMAIN ops
        BY <1>1, TagStageTypes
      <4>3. QED
        BY <2>1, <4>1, <4>2 DEF Unseen, Kind, Op, OpsAdded
    <3>3. QED
      BY <3>1, <3>2
  <2>4. QED
    BY <2>1, <2>2, <2>3 DEF Unseen
<1>9. QED
  BY <1>1, <1>2, <1>5, <1>6, <1>7, <1>8 DEF OpsStay

(* Where a worker moves without opening the rows they stay apart. *)
LEMMA WorkerKeepsApart ==
  ASSUME TagInv, NEW w \in Workers, NEW s \in Stages', Moves(w, s), OpsStay, s.pc # "insert",
         UNCHANGED <<request, actions>>
  PROVE  Apart'
<1>1. TagTypeOK /\ Apart /\ request' = request
  BY DEF TagInv
<1>2. \A v \in Workers : worker'[v].pc = "insert" => worker'[v] = worker[v]
  BY <1>1, Moved
<1>3. QED
  BY <1>1, <1>2, KeepsApart

(* The stages a worker may move to. *)
LEMMA NextStages ==
  ASSUME TagTypeOK, NEW w \in Workers, worker[w] # Idle, OpsStay
  PROVE  /\ Idle \in Stages'
         /\ \A ok \in BOOLEAN :
               [pc |-> "follow", i |-> worker[w].i, ok |-> ok] \in Stages'
         /\ \A p \in {"record", "finish"}, ok \in BOOLEAN, found \in BOOLEAN :
               [pc |-> p, i |-> worker[w].i, ok |-> ok, found |-> found] \in Stages'
         /\ \A ok \in BOOLEAN, found \in SUBSET RowIds :
               [pc |-> "insert", i |-> worker[w].i, ok |-> ok, found |-> found] \in Stages'
<1>1. worker[w].i \in 1..Len(ops)
  BY TagStageTypes
<1>2. Stages \subseteq Stages'
  BY StagesGrow DEF OpsStay
<1>3. QED
  BY <1>1, <1>2, TagStagesHave

(* A worker at work is at an operation of a run. *)
LEMMA AtWork ==
  ASSUME TagTypeOK, NEW w \in Workers, worker[w] # Idle
  PROVE  Op(w).run \in Runs /\ Kind(w) \in Kinds
  BY TagStageTypes, TagOpTypes DEF Op, Kind

(* A worker that has an answer, or a failure, to record. *)
LEMMA ToRecordKeeps ==
  ASSUME TagInv, NEW w \in Workers, worker[w] # Idle,
         NEW ok \in BOOLEAN, NEW f \in BOOLEAN, ToRecord(w, ok, f),
         UNCHANGED <<run, ops, actions, records, request, counts>>,
         tagged' \in BOOLEAN, wasTagged' \in BOOLEAN, tagged' => wasTagged',
         wasTagged' = FALSE => /\ wasTagged = FALSE /\ tagged' = FALSE /\ f = FALSE
                               /\ ok = FALSE \/ Kind(w) # "tag"
  PROVE  TagInv'
<1> DEFINE s == [pc |-> "record", i |-> worker[w].i, ok |-> ok, found |-> f]
<1>1. TagTypeOK /\ OpsAdded /\ OpsStay
  BY SameTagOps DEF TagInv, OpsAdded
<1>2. Moves(w, s)
  BY DEF ToRecord, StageFound, Moves
<1>3. s \in Stages'
  BY <1>1, NextStages
<1>4. PICK r \in Runs : Op(w).run = r
  BY <1>1, AtWork
<1>5. /\ s.pc = "record" /\ s.i = worker[w].i /\ s.ok = ok /\ s.found = f
      /\ s.pc \in ToCome
  BY DEF ToCome
<1> HIDE DEF s
<1>6. wasTagged' = FALSE =>
        /\ wasTagged = FALSE /\ tagged' = FALSE /\ Silent(s, Kind(w))
        /\ \A q \in Runs : run'[q] # "completed"
  BY <1>5 DEF Silent, TagInv, Seen, Unseen
<1>7. /\ ops' \in Seq(TagOps) /\ worker' \in [Workers -> Stages']
      /\ Claimed' /\ Carried' /\ Followed' /\ Seen'
  <2>1. /\ s # Idle => s.i = worker[w].i
        /\ s.pc = "follow" => Kind(w) = "tag"
        /\ s.pc = "insert" => Kind(w) = "refresh"
        /\ s.pc = "finish" /\ s.ok /\ Kind(w) = "tag" => HasFollowUps(r)'
        /\ \A q \in Runs : run'[q] = "running" => run[q] = "running"
        /\ UNCHANGED <<request, records>>
    BY <1>5
  <2>2. QED
    BY <1>1, <1>2, <1>3, <1>4, <1>5, <1>6, <2>1, WorkerKeeps
<1>8. Apart'
  BY <1>1, <1>2, <1>3, <1>5, WorkerKeepsApart
<1>9. TagTypeOK'
  BY <1>1, <1>7 DEF TagTypeOK, actions, counts
<1>10. QED
  BY <1>7, <1>8, <1>9 DEF TagInv

(* Commands and calls: a push makes the tag before anybody tells of it. *)
LEMMA ExecuteKeeps ==
  ASSUME TagInv, NEW w \in Workers,
         PushTag(w) \/ LookUp(w) \/ FetchRuns(w) \/ ExecuteFails(w) \/ RecordFails(w)
  PROVE  TagInv'
<1>1. worker[w].pc # "idle"
  BY DEF PushTag, LookUp, FetchRuns, ExecuteFails, RecordFails, At
<1>2. TagTypeOK /\ worker[w] # Idle /\ Seen
  BY <1>1, TagStageTypes DEF TagInv
<1>3. tagged \in BOOLEAN /\ wasTagged \in BOOLEAN /\ (tagged => wasTagged)
  BY <1>2 DEF TagTypeOK
<1>4. CASE PushTag(w)
  <2>1. /\ tagged' = TRUE /\ wasTagged' = TRUE /\ ToRecord(w, TRUE, TRUE)
        /\ UNCHANGED <<run, ops, actions, records, request, counts>>
    BY <1>4 DEF PushTag
  <2>2. QED
    BY <1>2, <2>1, ToRecordKeeps
<1>5. CASE LookUp(w)
  <2>1. /\ Kind(w) = "lookup" /\ ToRecord(w, TRUE, tagged) /\ tagged' = tagged
        /\ wasTagged' = wasTagged
        /\ UNCHANGED <<run, ops, actions, records, request, counts>>
    BY <1>5 DEF LookUp, remoteTag
  <2>2. wasTagged' = FALSE => wasTagged = FALSE /\ tagged' = FALSE /\ tagged = FALSE
    BY <1>3, <2>1
  <2>3. QED
    BY <1>2, <1>3, <2>1, <2>2, ToRecordKeeps
<1>6. CASE FetchRuns(w)
  <2>1. /\ Kind(w) = "refresh" /\ ToRecord(w, TRUE, FALSE) /\ tagged' = tagged
        /\ wasTagged' = wasTagged
        /\ UNCHANGED <<run, ops, actions, records, request, counts>>
    BY <1>6 DEF FetchRuns, remoteTag
  <2>2. wasTagged' = FALSE => wasTagged = FALSE /\ tagged' = FALSE
    BY <1>3, <2>1
  <2>3. QED
    BY <1>2, <1>3, <2>1, <2>2, ToRecordKeeps
<1>7. CASE ExecuteFails(w)
  <2>1. /\ ToRecord(w, FALSE, FALSE)
        /\ UNCHANGED <<run, ops, actions, records, request, counts>>
        /\ \/ tagged' = tagged /\ wasTagged' = wasTagged
           \/ tagged' = TRUE /\ wasTagged' = TRUE
    BY <1>7 DEF ExecuteFails, remoteTag
  <2>2. /\ tagged' \in BOOLEAN /\ wasTagged' \in BOOLEAN /\ (tagged' => wasTagged')
        /\ wasTagged' = FALSE => wasTagged = FALSE /\ tagged' = FALSE
    <3>1. CASE tagged' = tagged /\ wasTagged' = wasTagged
      BY <1>3, <3>1
    <3>2. CASE tagged' = TRUE /\ wasTagged' = TRUE
      BY <3>2
    <3>3. QED
      BY <2>1, <3>1, <3>2
  <2>3. QED
    BY <1>2, <2>1, <2>2, ToRecordKeeps
<1>8. CASE RecordFails(w)
  <2>1. /\ ToRecord(w, FALSE, FALSE) /\ tagged' = tagged /\ wasTagged' = wasTagged
        /\ UNCHANGED <<run, ops, actions, records, request, counts>>
    BY <1>8 DEF RecordFails, remoteTag
  <2>2. wasTagged' = FALSE => wasTagged = FALSE /\ tagged' = FALSE
    BY <1>3, <2>1
  <2>3. QED
    BY <1>2, <1>3, <2>1, <2>2, ToRecordKeeps
<1>9. QED
  BY <1>4, <1>5, <1>6, <1>7, <1>8

(* A worker that wrote the outcome of its run, or of the Actions rows. *)
LEMMA OutcomeKeeps ==
  ASSUME TagInv, NEW w \in Workers, worker[w] # Idle, NEW r \in Runs, Op(w).run = r,
         NEW s \in Stages', Moves(w, s), s # Idle, s.i = worker[w].i,
         s.pc = "follow" => Kind(w) = "tag", s.pc # "insert",
         s.pc = "finish" /\ s.ok => Kind(w) # "tag",
         UNCHANGED <<remoteTag, ops, records, request, counts>>,
         NEW status \in Outcomes,
         run' = [run EXCEPT ![r] = status] \/ (Kind(w) = "refresh" /\ run' = run),
         wasTagged = FALSE => status = "failed" /\ Silent(s, Kind(w))
  PROVE  /\ run' \in [Runs -> RunStatuses]
         /\ ops' \in Seq(TagOps) /\ worker' \in [Workers -> Stages']
         /\ Claimed' /\ Carried' /\ Followed' /\ Seen'
<1>1. TagTypeOK /\ OpsAdded /\ OpsStay /\ Seen
  BY SameTagOps DEF TagInv, OpsAdded
<1>2. run \in [Runs -> RunStatuses]
  BY <1>1 DEF TagTypeOK, RunStatuses
<1>3. /\ status \in RunStatuses /\ status # "running"
  BY DEF RunStatuses, Outcomes
<1>4. /\ run' \in [Runs -> RunStatuses]
      /\ \A q \in Runs : run'[q] = run[q] \/ run'[q] = status
      /\ Kind(w) = "refresh" \/ run'[r] = status
  BY <1>2, <1>3
<1>5. \A q \in Runs : run'[q] = "running" => run[q] = "running"
  BY <1>3, <1>4
<1>6. wasTagged' = FALSE =>
        /\ wasTagged = FALSE /\ tagged' = FALSE /\ Silent(s, Kind(w))
        /\ \A q \in Runs : run'[q] # "completed"
  BY <1>1, <1>4 DEF Seen, Unseen, remoteTag
<1>7. /\ \/ s = Idle \/ s.pc \in ToCome
         \/ worker[w].pc \notin ToCome \/ Kind(w) = "refresh" \/ run'[r] # "running"
      /\ s.pc = "finish" /\ s.ok /\ Kind(w) = "tag" => HasFollowUps(r)'
      /\ s # Idle => s.i = worker[w].i
      /\ s.pc = "insert" => Kind(w) = "refresh"
      /\ UNCHANGED <<request, records>>
  BY <1>3, <1>4
<1>8. /\ ops' \in Seq(TagOps) /\ worker' \in [Workers -> Stages']
      /\ Claimed' /\ Carried' /\ Followed' /\ Seen'
  BY <1>1, <1>5, <1>6, <1>7, WorkerKeeps
<1>9. QED
  BY <1>4, <1>8

(* A pushed tag completes its run, *)
LEMMA RecordTagKeeps ==
  ASSUME TagInv, NEW w \in Workers, RecordTag(w)
  PROVE  TagInv'
<1> DEFINE s == [pc |-> "follow", i |-> worker[w].i, ok |-> TRUE]
<1>1. /\ worker[w].pc = "record" /\ Kind(w) = "tag" /\ worker[w].ok
      /\ run' = [run EXCEPT ![Op(w).run] = "completed"] /\ Moves(w, s)
      /\ UNCHANGED <<remoteTag, ops, actions, records, request, counts>>
  BY DEF RecordTag, At, SetRun, Stage, Moves
<1>2. TagTypeOK /\ worker[w] # Idle /\ OpsAdded /\ OpsStay
  BY <1>1, TagStageTypes, SameTagOps DEF TagInv, OpsAdded
<1>3. PICK r \in Runs : Op(w).run = r
  BY <1>2, AtWork
<1>4. s \in Stages' /\ s.pc = "follow" /\ s.i = worker[w].i /\ s # Idle
  BY <1>2, NextStages DEF Idle
<1> HIDE DEF s
<1>5. wasTagged # FALSE
  BY <1>1 DEF TagInv, Seen, Unseen
<1>6. /\ run' \in [Runs -> RunStatuses]
      /\ ops' \in Seq(TagOps) /\ worker' \in [Workers -> Stages']
      /\ Claimed' /\ Carried' /\ Followed' /\ Seen'
  <2>1. "completed" \in Outcomes /\ run' = [run EXCEPT ![r] = "completed"]
    BY <1>1, <1>3 DEF Outcomes
  <2>2. s.pc = "finish" /\ s.ok => Kind(w) # "tag"
    BY <1>4
  <2>3. s.pc = "follow" => Kind(w) = "tag"
    BY <1>1
  <2>4. s.pc # "insert"
    BY <1>4
  <2>5. wasTagged = FALSE => "completed" = "failed" /\ Silent(s, Kind(w))
    BY <1>5
  <2>6. UNCHANGED <<remoteTag, ops, records, request, counts>> /\ Moves(w, s)
    BY <1>1
  <2>7. QED
    BY <1>2, <1>3, <1>4, <2>1, <2>2, <2>3, <2>4, <2>5, <2>6, OutcomeKeeps
<1>7. Apart'
  BY <1>1, <1>2, <1>4, WorkerKeepsApart
<1>8. TagTypeOK'
  BY <1>1, <1>2, <1>6 DEF TagTypeOK, remoteTag, actions, counts, RunStatuses
<1>9. QED
  BY <1>6, <1>7, <1>8 DEF TagInv

(* so does one a lookup found, and one it did not find fails it. *)
LEMMA RecordLookupKeeps ==
  ASSUME TagInv, NEW w \in Workers, RecordLookup(w)
  PROVE  TagInv'
<1> DEFINE s == [pc |-> "finish", i |-> worker[w].i, ok |-> TRUE, found |-> worker[w].found]
           status == IF TagThere(w) THEN "completed" ELSE "failed"
<1>1. /\ worker[w].pc = "record" /\ Kind(w) = "lookup"
      /\ run' = [run EXCEPT ![Op(w).run] = status] /\ Moves(w, s)
      /\ UNCHANGED <<remoteTag, ops, actions, records, request, counts>>
  BY DEF RecordLookup, At, SetRun, ToFinish, StageFound, Moves
<1>2. /\ TagTypeOK /\ worker[w] # Idle /\ OpsAdded /\ OpsStay
      /\ worker[w].found \in BOOLEAN
  BY <1>1, TagStageTypes, SameTagOps DEF TagInv, OpsAdded
<1>3. PICK r \in Runs : Op(w).run = r
  BY <1>2, AtWork
<1>4. /\ s \in Stages' /\ s.pc = "finish" /\ s.i = worker[w].i /\ s # Idle
      /\ s.found = worker[w].found
  BY <1>2, NextStages DEF Idle
<1>5. wasTagged = FALSE => worker[w].found = FALSE
  BY <1>1 DEF TagInv, Seen, Unseen
<1>6. /\ status \in Outcomes
      /\ wasTagged = FALSE => status = "failed"
  BY <1>5 DEF TagThere, Outcomes
<1> HIDE DEF s, status
<1>7. /\ run' \in [Runs -> RunStatuses]
      /\ ops' \in Seq(TagOps) /\ worker' \in [Workers -> Stages']
      /\ Claimed' /\ Carried' /\ Followed' /\ Seen'
  <2>1. run' = [run EXCEPT ![r] = status]
    BY <1>1, <1>3
  <2>2. wasTagged = FALSE => status = "failed" /\ Silent(s, Kind(w))
    BY <1>1, <1>4, <1>5, <1>6 DEF Silent
  <2>3. /\ s.pc = "finish" /\ s.ok => Kind(w) # "tag"
        /\ s.pc = "follow" => Kind(w) = "tag"
        /\ s.pc # "insert"
    BY <1>1, <1>4
  <2>4. QED
    BY <1>1, <1>2, <1>3, <1>4, <1>6, <2>1, <2>2, <2>3, OutcomeKeeps
<1>8. Apart'
  BY <1>1, <1>2, <1>4, WorkerKeepsApart
<1>9. TagTypeOK'
  BY <1>1, <1>2, <1>7 DEF TagTypeOK, remoteTag, actions, counts, RunStatuses
<1>10. QED
  BY <1>7, <1>8, <1>9 DEF TagInv

(* A failure fails the run, or deletes the rows: then there is none. *)
LEMMA RecordFailureKeeps ==
  ASSUME TagInv, NEW w \in Workers, RecordFailure(w)
  PROVE  TagInv'
<1> DEFINE s == [pc |-> "finish", i |-> worker[w].i, ok |-> FALSE, found |-> FALSE]
<1>1. /\ worker[w].pc = "record" /\ Moves(w, s)
      /\ UNCHANGED <<remoteTag, ops, records, request, counts>>
      /\ \/ /\ Kind(w) = "refresh" /\ run' = run /\ rows' = {}
            /\ mixed' = (mixed \/ Writing # {}) /\ lone' = NoValue
         \/ Kind(w) # "refresh" /\ run' = [run EXCEPT ![Op(w).run] = "failed"] /\ UNCHANGED actions
  BY DEF RecordFailure, At, SetRun, ToFinish, StageFound, Moves, Overlap
<1>2. /\ TagTypeOK /\ worker[w] # Idle /\ OpsAdded /\ OpsStay /\ Apart
  BY <1>1, TagStageTypes, SameTagOps DEF TagInv, OpsAdded
<1>3. PICK r \in Runs : Op(w).run = r
  BY <1>2, AtWork
<1>4. /\ s \in Stages' /\ s.pc = "finish" /\ s.i = worker[w].i /\ s # Idle
      /\ s.ok = FALSE /\ s.found = FALSE
  BY <1>2, NextStages DEF Idle
<1> HIDE DEF s
<1>5. /\ run' \in [Runs -> RunStatuses]
      /\ ops' \in Seq(TagOps) /\ worker' \in [Workers -> Stages']
      /\ Claimed' /\ Carried' /\ Followed' /\ Seen'
  <2>1. run' = [run EXCEPT ![r] = "failed"] \/ (Kind(w) = "refresh" /\ run' = run)
    BY <1>1, <1>3
  <2>2. "failed" \in Outcomes /\ Silent(s, Kind(w))
    BY <1>4 DEF Silent, Outcomes
  <2>3. /\ s.pc = "finish" /\ s.ok => Kind(w) # "tag"
        /\ s.pc = "follow" => Kind(w) = "tag"
        /\ s.pc # "insert"
    BY <1>4
  <2>4. UNCHANGED <<remoteTag, ops, records, request, counts>>
    BY <1>1
  <2>5. QED
    BY <1>1, <1>2, <1>3, <1>4, <2>1, <2>2, <2>3, <2>4, OutcomeKeeps
<1>6. Apart' /\ rows' \subseteq RowIds /\ mixed' \in BOOLEAN /\ lone' \in Workers \cup {NoValue}
  <2>1. CASE UNCHANGED actions
    BY <1>1, <1>2, <1>4, <2>1, WorkerKeepsApart DEF actions, TagTypeOK
  <2>2. CASE /\ rows' = {} /\ mixed' = (mixed \/ Writing # {}) /\ lone' = NoValue
    <3>1. /\ request' = request /\ worker'[w] = s
          /\ \A v \in Workers : v # w => worker'[v] = worker[v]
      BY <1>1, <1>2, <1>4, Moved
    <3>2. \A a \in Writing' : a \in Writing /\ Found(a)' = Found(a)
      BY <1>1, <1>4, <3>1 DEF Writing, Found
    <3>3. IsFiniteSet(rows') /\ \A a \in Writing' : IsFiniteSet(Found(a)')
      BY <1>2, <2>2, <3>2, FS_EmptySet DEF Apart
    <3>4. mixed' = FALSE => Writing' = {}
      BY <2>2, <3>2
    <3>5. Apart'
      BY <2>2, <3>3, <3>4 DEF Apart
    <3>6. QED
      BY <1>2, <2>2, <3>5 DEF TagTypeOK
  <2>3. QED
    BY <1>1, <2>1, <2>2
<1>7. TagTypeOK'
  BY <1>1, <1>2, <1>5, <1>6 DEF TagTypeOK, remoteTag, counts, RunStatuses
<1>8. QED
  BY <1>5, <1>6, <1>7 DEF TagInv

(* The follow-ups are there when the tag operation is about to be finished. *)
LEMMA FollowUpKeeps ==
  ASSUME TagInv, NEW w \in Workers, FollowUp(w)
  PROVE  TagInv'
<1> DEFINE s == [pc |-> "finish", i |-> worker[w].i, ok |-> TRUE, found |-> FALSE]
<1>1. /\ worker[w].pc = "follow" /\ Moves(w, s)
      /\ UNCHANGED <<remoteTag, run, actions, records, request, counts>>
  BY DEF FollowUp, At, ToFinish, StageFound, Moves
<1>2. TagTypeOK /\ worker[w] # Idle
  BY <1>1, TagStageTypes DEF TagInv
<1>3. PICK r \in Runs : Op(w).run = r
  BY <1>2, AtWork
<1>4. OpsAdded /\ OpsStay /\ HasFollowUps(r)'
  BY <1>2, <1>3, FollowUpsAdded DEF OpsAdded
<1>5. /\ s \in Stages' /\ s.pc = "finish" /\ s.i = worker[w].i /\ s # Idle
      /\ s.found = FALSE
  BY <1>2, <1>4, NextStages DEF Idle
<1> HIDE DEF s
<1>6. worker[w].pc \notin ToCome
  BY <1>1 DEF ToCome
<1>7. wasTagged' = FALSE =>
        /\ wasTagged = FALSE /\ tagged' = FALSE /\ Silent(s, Kind(w))
        /\ \A q \in Runs : run'[q] # "completed"
  BY <1>1, <1>5 DEF Silent, TagInv, Seen, Unseen, remoteTag
<1>8. /\ ops' \in Seq(TagOps) /\ worker' \in [Workers -> Stages']
      /\ Claimed' /\ Carried' /\ Followed' /\ Seen'
  <2>1. /\ s # Idle => s.i = worker[w].i
        /\ s.pc = "follow" => Kind(w) = "tag"
        /\ s.pc = "insert" => Kind(w) = "refresh"
        /\ s.pc = "finish" /\ s.ok /\ Kind(w) = "tag" => HasFollowUps(r)'
        /\ UNCHANGED <<request, records>>
        /\ \A q \in Runs : run'[q] = "running" => run[q] = "running"
    BY <1>1, <1>4, <1>5
  <2>2. QED
    BY <1>1, <1>2, <1>3, <1>4, <1>5, <1>6, <1>7, <2>1, WorkerKeeps
<1>9. Apart'
  BY <1>1, <1>4, <1>5, WorkerKeepsApart
<1>10. TagTypeOK'
  BY <1>1, <1>2, <1>8 DEF TagTypeOK, remoteTag, actions, counts
<1>11. QED
  BY <1>8, <1>9, <1>10 DEF TagInv

(* A step of a refresh that leaves run and operations alone. *)
LEMMA RefreshKeeps ==
  ASSUME TagInv, NEW w \in Workers, worker[w] # Idle, Kind(w) = "refresh",
         NEW s \in Stages', Moves(w, s), s.i = worker[w].i,
         s.pc = "insert" \/ (s.pc = "finish" /\ s.found = FALSE),
         UNCHANGED <<remoteTag, run, ops, records, request, counts>>
  PROVE  /\ ops' \in Seq(TagOps) /\ worker' \in [Workers -> Stages']
         /\ Claimed' /\ Carried' /\ Followed' /\ Seen'
<1>1. TagTypeOK /\ OpsAdded
  BY SameTagOps DEF TagInv
<1>2. PICK r \in Runs : Op(w).run = r
  BY <1>1, AtWork
<1>3. /\ s.pc # "follow" /\ s.pc # "record"
      /\ s.pc = "finish" /\ s.ok /\ Kind(w) = "tag" => HasFollowUps(r)'
  OBVIOUS
<1>4. wasTagged' = FALSE =>
        /\ wasTagged = FALSE /\ tagged' = FALSE /\ Silent(s, Kind(w))
        /\ \A q \in Runs : run'[q] # "completed"
  BY DEF Silent, TagInv, Seen, Unseen, remoteTag
<1>5. UNCHANGED <<request, records>> /\ \A q \in Runs : run'[q] = "running" => run[q] = "running"
  OBVIOUS
<1>6. QED
  BY <1>1, <1>2, <1>3, <1>4, <1>5, WorkerKeeps

(* A refresh sees all rows, and is alone if nobody else is at them, *)
LEMMA DeleteRowsKeeps ==
  ASSUME TagInv, NEW w \in Workers, DeleteRows(w)
  PROVE  TagInv'
<1> DEFINE s == [pc |-> "insert", i |-> worker[w].i, ok |-> TRUE, found |-> rows]
<1>1. /\ worker[w].pc = "record" /\ Kind(w) = "refresh" /\ Moves(w, s)
      /\ mixed' = (mixed \/ Writing # {})
      /\ lone' = IF Writing = {} THEN w ELSE NoValue
      /\ UNCHANGED <<remoteTag, run, ops, rows, records, request, counts>>
  BY DEF DeleteRows, At, Moves
<1>2. TagTypeOK /\ worker[w] # Idle /\ OpsAdded /\ OpsStay /\ Apart
  BY <1>1, TagStageTypes, SameTagOps DEF TagInv, OpsAdded
<1>3. /\ s \in Stages' /\ s.pc = "insert" /\ s.i = worker[w].i /\ s.found = rows
  BY <1>2, NextStages DEF TagTypeOK
<1> HIDE DEF s
<1>4. /\ Kind(w) = "refresh" /\ Moves(w, s)
      /\ UNCHANGED <<remoteTag, run, ops, records, request, counts>>
  BY <1>1
<1>5. /\ ops' \in Seq(TagOps) /\ worker' \in [Workers -> Stages']
      /\ Claimed' /\ Carried' /\ Followed' /\ Seen'
  <2>1. s.pc = "insert" \/ (s.pc = "finish" /\ s.found = FALSE)
    BY <1>3
  <2>2. QED
    BY <1>2, <1>3, <1>4, <2>1, RefreshKeeps
<1>6. /\ worker'[w] = s /\ \A v \in Workers : v # w => worker'[v] = worker[v]
  BY <1>1, <1>2, <1>3, Moved
<1>7. /\ Writing' = Writing \cup {w} /\ Found(w)' = rows
      /\ \A a \in Writing : a # w => Found(a)' = Found(a)
  BY <1>1, <1>3, <1>6 DEF Writing, Found
<1>8. Apart'
  <2>1. IsFiniteSet(rows') /\ \A a \in Writing' : IsFiniteSet(Found(a)')
    BY <1>1, <1>2, <1>7 DEF Apart
  <2>2. CASE Writing = {}
    <3>1. Writing' = {w} /\ lone' = w /\ mixed' = mixed
      BY <1>1, <1>2, <1>7, <2>2 DEF TagTypeOK
    <3>2. QED
      BY <1>1, <1>2, <1>3, <1>6, <1>7, <2>1, <3>1 DEF Apart
  <2>3. CASE Writing # {}
    <3>1. mixed' = TRUE /\ lone' \notin Workers
      BY <1>1, <2>3
    <3>2. QED
      BY <2>1, <3>1 DEF Apart
  <2>4. QED
    BY <2>2, <2>3
<1>9. TagTypeOK'
  <2>1. mixed' \in BOOLEAN /\ lone' \in Workers \cup {NoValue}
    BY <1>1, <1>2 DEF TagTypeOK
  <2>2. QED
    BY <1>1, <1>2, <1>5, <2>1 DEF TagTypeOK, remoteTag, counts
<1>10. QED
  BY <1>5, <1>8, <1>9 DEF TagInv

(* so it leaves one row if nobody came between. *)
LEMMA InsertRowsKeeps ==
  ASSUME TagInv, NEW w \in Workers, InsertRows(w)
  PROVE  TagInv'
<1> DEFINE s == [pc |-> "finish", i |-> worker[w].i, ok |-> TRUE, found |-> FALSE]
<1>1. /\ worker[w].pc = "insert" /\ Moves(w, s)
      /\ rows' = (rows \ worker[w].found) \cup {NewRow}
      /\ mixed' = (mixed /\ lone # w) /\ lone' = lone
      /\ UNCHANGED <<remoteTag, run, ops, records, request, counts>>
  BY DEF InsertRows, At, ToFinish, StageFound, Moves
<1>2. TagTypeOK /\ worker[w] # Idle /\ OpsAdded /\ OpsStay /\ Apart
  BY <1>1, TagStageTypes, SameTagOps DEF TagInv, OpsAdded
<1>3. /\ s \in Stages' /\ s.pc = "finish" /\ s.i = worker[w].i /\ s.found = FALSE
  BY <1>2, NextStages
<1> HIDE DEF s
<1>4. Kind(w) = "refresh"
  BY <1>1, <1>2 DEF TagInv, Claimed, Proper
<1>5. /\ ops' \in Seq(TagOps) /\ worker' \in [Workers -> Stages']
      /\ Claimed' /\ Carried' /\ Followed' /\ Seen'
  BY <1>1, <1>2, <1>3, <1>4, RefreshKeeps
<1>6. /\ worker'[w] = s /\ \A v \in Workers : v # w => worker'[v] = worker[v]
  BY <1>1, <1>2, <1>3, Moved
<1>7. /\ w \in Writing /\ w \notin Callers /\ Found(w) = worker[w].found
      /\ \A a \in Writing' : a \in Writing /\ a # w /\ Found(a)' = Found(a)
  BY <1>1, <1>3, <1>6 DEF Writing, Found
<1>8. NewRow \in RowIds
  BY <1>2, NewRowIsNew
<1>9. Apart'
  <2>1. IsFiniteSet(rows')
    <3>1. IsFiniteSet(rows) /\ IsFiniteSet({NewRow})
      BY <1>2, FS_Singleton DEF Apart
    <3>2. IsFiniteSet(rows \ worker[w].found)
      BY <3>1, FS_Subset
    <3>3. QED
      BY <1>1, <3>1, <3>2, FS_Union
  <2>2. \A a \in Writing' : IsFiniteSet(Found(a)')
    BY <1>2, <1>7 DEF Apart
  <2>3. ASSUME mixed' = FALSE
        PROVE  Writing' = {} /\ \A x, y \in rows' : x = y
    <3>1. Writing = {w} /\ worker[w].found = rows
      <4>1. CASE lone = w
        BY <1>1, <1>2, <4>1 DEF Apart
      <4>2. CASE mixed = FALSE
        BY <1>2, <1>7, <4>2 DEF Apart
      <4>3. QED
        BY <1>1, <1>2, <2>3, <4>1, <4>2 DEF TagTypeOK
    <3>2. rows' = {NewRow}
      BY <1>1, <3>1
    <3>3. QED
      BY <1>7, <3>1, <3>2
  <2>4. ~(lone' \in Workers /\ worker'[lone'].pc = "insert")
    BY <1>1, <1>2, <1>3, <1>6, <1>7 DEF Apart
  <2>5. QED
    BY <2>1, <2>2, <2>3, <2>4 DEF Apart
<1>10. TagTypeOK'
  <2>1. mixed' \in BOOLEAN /\ rows' \subseteq RowIds
    BY <1>1, <1>2, <1>8 DEF TagTypeOK
  <2>2. QED
    BY <1>1, <1>2, <1>5, <2>1 DEF TagTypeOK, remoteTag, counts
<1>11. QED
  BY <1>5, <1>9, <1>10 DEF TagInv

-----------------------------------------------------------------------------
(* Statuses of operations *)

(* An operation gets a status, and its run perhaps, that is no success. *)
LEMMA MarkedKeeps ==
  ASSUME TagInv, NEW i \in DOMAIN ops, NEW o \in Statuses, NEW b \in Statuses,
         Remade(i, o, b, ops[i].found), b # "queued", o # "completed",
         UNCHANGED <<remoteTag, actions, records, request, worker, counts>>,
         run' \in [Runs -> RunStatuses], \A q \in Runs : run'[q] \in {run[q], "failed"},
         ops[i].job = "running" =>
            b = "running" \/ ops[i].kind = "refresh" \/ run'[ops[i].run] # "running"
  PROVE  TagInv'
<1>1. TagTypeOK /\ Claimed /\ Carried /\ Followed /\ Seen /\ Apart /\ ops[i].found \in BOOLEAN
  BY TagOpTypes DEF TagInv
<1>2. /\ OpsStay /\ DOMAIN ops' = DOMAIN ops
      /\ \A j \in DOMAIN ops : j # i => ops'[j] = ops[j]
      /\ ops'[i].kind = ops[i].kind /\ ops'[i].run = ops[i].run
      /\ ops'[i].op = o /\ ops'[i].job = b /\ ops'[i].found = ops[i].found
  BY <1>1, RemadeOps
<1>3. Claimed'
  BY <1>1, <1>2, KeepsClaimed
<1>4. Carried'
  <2>1. \A q \in Runs : run'[q] = "running" => run[q] = "running"
    OBVIOUS
  <2>2. ASSUME NEW j \in DOMAIN ops, ops[j].job = "running" PROVE Lasts(j)
    BY <1>2, <2>2 DEF Lasts
  <2>3. QED
    BY <1>1, <1>2, <2>1, <2>2, KeepsCarried
<1>5. Followed'
  <2>1. \A j \in DOMAIN ops' : ops'[j].kind = "tag" /\ ops'[j].op = "completed" =>
            j \in DOMAIN ops /\ (ops[j].op = "completed" \/ HasFollowUps(ops[j].run))
    BY <1>2
  <2>2. \A w \in Workers : worker'[w].pc = "finish" /\ worker'[w].ok /\ Kind(w)' = "tag" =>
            worker'[w] = worker[w] \/ HasFollowUps(Op(w).run)'
    OBVIOUS
  <2>3. QED
    BY <1>1, <1>2, <2>1, <2>2, KeepsFollowed
<1>6. Seen'
  <2> SUFFICES ASSUME wasTagged' = FALSE PROVE Unseen'
    BY DEF Seen
  <2>1. tagged' = FALSE /\ Unseen
    BY <1>1 DEF remoteTag, Seen, Unseen
  <2>2. \A j \in DOMAIN ops' : ops'[j].found = FALSE
    BY <1>2, <2>1 DEF Unseen
  <2>3. \A q \in Runs : run'[q] # "completed"
    BY <2>1 DEF Unseen
  <2>4. \A w \in Workers : worker[w].pc = "record" => worker[w].i \in DOMAIN ops
    BY <1>1, TagStageTypes
  <2>5. \A w \in Workers :
          /\ worker'[w].pc \in {"record", "finish"} => worker'[w].found = FALSE
          /\ worker'[w].pc = "record" /\ worker'[w].ok => Kind(w)' # "tag"
    BY <1>2, <2>1, <2>4 DEF Unseen, Kind, Op, OpsStay
  <2>6. QED
    BY <2>1, <2>2, <2>3, <2>5 DEF Unseen
<1>7. Apart'
  <2>1. request' = request /\ worker' = worker /\ UNCHANGED actions
    OBVIOUS
  <2>2. QED
    BY <1>1, <2>1, KeepsApart
<1>8. TagTypeOK'
  <2>1. Stages \subseteq Stages' /\ ops' \in Seq(TagOps)
    BY <1>1, <1>2, StagesGrow DEF OpsStay
  <2>2. worker' \in [Workers -> Stages']
    BY <1>1, <2>1 DEF TagTypeOK
  <2>3. QED
    BY <1>1, <2>1, <2>2 DEF TagTypeOK, remoteTag, actions, counts, RunStatuses
<1>9. QED
  BY <1>3, <1>4, <1>5, <1>6, <1>7, <1>8 DEF TagInv

(* A cancel takes no job away that runs. *)
LEMMA CancelKeeps ==
  ASSUME TagInv, NEW i \in DOMAIN ops, Cancel(i)
  PROVE  TagInv'
<1> DEFINE b == IF ops[i].job = "queued" THEN "canceled" ELSE ops[i].job
<1>1. TagTypeOK /\ ops \in Seq(TagOps) /\ ops[i] \in TagOps /\ DOMAIN ops = 1..Len(ops)
      /\ ops[i].job \in Statuses
  BY TagOpTypes DEF TagInv
<1>2. Remade(i, "canceled", b, ops[i].found)
  <2> DEFINE e == Marking(ops[i], "canceled", b)
  <2>0. "canceled" \in Statuses /\ b \in Statuses /\ ops[i].found \in BOOLEAN
    BY <1>1, TagOpTypes DEF Statuses
  <2>1. ops' = [ops EXCEPT ![i] = e]
    BY DEF Cancel, Marking
  <2>2. e = [kind |-> ops[i].kind, run |-> ops[i].run, op |-> "canceled", job |-> b,
             found |-> ops[i].found]
    BY <1>1, <2>0, Rewritten
  <2>3. QED
    BY <2>1, <2>2 DEF Remade
<1>3. /\ b \in Statuses /\ b # "queued" /\ "canceled" \in Statuses
      /\ ops[i].job = "running" => b = "running"
  BY <1>1 DEF Statuses
<1>4. UNCHANGED <<remoteTag, actions, records, request, worker, counts>> /\ run' = run
  BY DEF Cancel
<1>5. run' \in [Runs -> RunStatuses]
  BY <1>1, <1>4 DEF TagTypeOK, RunStatuses
<1> HIDE DEF b
<1>6. QED
  BY <1>2, <1>3, <1>4, <1>5, MarkedKeeps

(* The sweep ends a job with what its run shows. *)
LEMMA TimeOutKeeps ==
  ASSUME TagInv, NEW i \in DOMAIN ops, TimeOut(i)
  PROVE  TagInv'
<1>1. /\ TagTypeOK /\ ops \in Seq(TagOps) /\ ops[i] \in TagOps /\ DOMAIN ops = 1..Len(ops)
      /\ ops[i].run \in Runs
  BY TagOpTypes DEF TagInv
<1>2. Remade(i, "failed", "failed", ops[i].found)
  <2> DEFINE e == Marking(ops[i], "failed", "failed")
  <2>0. "failed" \in Statuses /\ ops[i].found \in BOOLEAN
    BY <1>1, TagOpTypes DEF Statuses, Outcomes
  <2>1. ops' = [ops EXCEPT ![i] = e]
    BY DEF TimeOut, Marking
  <2>2. e = [kind |-> ops[i].kind, run |-> ops[i].run, op |-> "failed", job |-> "failed",
             found |-> ops[i].found]
    BY <1>1, <2>0, Rewritten
  <2>3. QED
    BY <2>1, <2>2 DEF Remade
<1>3. "failed" \in Statuses
  BY DEF Statuses, Outcomes
<1>4. UNCHANGED <<remoteTag, actions, records, request, worker, counts>>
  BY DEF TimeOut
<1>5. run \in [Runs -> RunStatuses]
  BY <1>1 DEF TagTypeOK, RunStatuses
<1>6. /\ run' \in [Runs -> RunStatuses] /\ \A q \in Runs : run'[q] \in {run[q], "failed"}
      /\ ops[i].kind = "refresh" \/ run'[ops[i].run] # "running"
  <2>1. CASE ops[i].kind # "refresh" /\ run[ops[i].run] \in Active
    <3>1. run' = [run EXCEPT ![ops[i].run] = "failed"]
      BY <2>1 DEF TimeOut, SetRun
    <3>2. QED
      BY <1>1, <1>5, <3>1 DEF RunStatuses, Outcomes
  <2>2. CASE ~(ops[i].kind # "refresh" /\ run[ops[i].run] \in Active)
    <3>1. run' = run
      BY <2>2 DEF TimeOut
    <3>2. QED
      BY <1>5, <2>2, <3>1 DEF Active
  <2>3. QED
    BY <2>1, <2>2
<1>7. QED
  BY <1>2, <1>3, <1>4, <1>6, MarkedKeeps

(* Whatever others do with the tag, it was there. *)
LEMMA ElsewhereKeeps ==
  ASSUME TagInv, TagElsewhere
  PROVE  TagInv'
<1>1. TagTypeOK /\ Claimed /\ Carried /\ Followed /\ Apart
  BY DEF TagInv
<1>2. /\ tagged' = ~tagged /\ wasTagged' = TRUE
      /\ UNCHANGED <<run, ops, actions, records, request, worker, counts>>
  BY DEF TagElsewhere
<1>3. OpsAdded /\ OpsStay
  BY <1>1, <1>2, SameTagOps DEF OpsAdded
<1>4. Claimed'
  BY <1>1, <1>2, <1>3, KeepsClaimed
<1>5. Carried'
  <2>1. \A i \in DOMAIN ops : Lasts(i)
    BY <1>2 DEF Lasts
  <2>2. \A q \in Runs : run'[q] = "running" => run[q] = "running"
    BY <1>2
  <2>3. QED
    BY <1>1, <1>3, <2>1, <2>2, KeepsCarried
<1>6. Followed'
  <2>1. \A j \in DOMAIN ops' : ops'[j].kind = "tag" /\ ops'[j].op = "completed" =>
            j \in DOMAIN ops /\ (ops[j].op = "completed" \/ HasFollowUps(ops[j].run))
    BY <1>2
  <2>2. \A w \in Workers : worker'[w] = worker[w]
    BY <1>2
  <2>3. QED
    BY <1>1, <1>3, <2>1, <2>2, KeepsFollowed
<1>7. Seen'
  BY <1>2 DEF Seen
<1>8. Apart'
  <2>1. request' = request /\ worker' = worker /\ UNCHANGED actions
    BY <1>2
  <2>2. QED
    BY <1>1, <2>1, KeepsApart
<1>9. TagTypeOK'
  <2>1. Stages \subseteq Stages' /\ ops' \in Seq(TagOps)
    BY <1>1, <1>3, StagesGrow DEF OpsStay
  <2>2. worker' \in [Workers -> Stages'] /\ tagged' \in BOOLEAN
    BY <1>1, <1>2, <2>1 DEF TagTypeOK
  <2>3. QED
    BY <1>1, <1>2, <2>1, <2>2 DEF TagTypeOK, actions, counts
<1>10. QED
  BY <1>4, <1>5, <1>6, <1>7, <1>8, <1>9 DEF TagInv

(* The oldest job is claimed: nobody has it, so a run it puts to running has *)
(* an operation whose outcome is to come.                                    *)
LEMMA ClaimOldestKeeps ==
  ASSUME TagInv, NEW w \in Workers, NEW i \in DOMAIN ops, ClaimOldest(w, i)
  PROVE  TagInv'
<1> DEFINE s == [pc |-> "execute", i |-> i, ok |-> TRUE]
<1>1. /\ TagTypeOK /\ Claimed /\ Carried /\ Followed /\ Seen /\ Apart
      /\ ops \in Seq(TagOps) /\ DOMAIN ops = 1..Len(ops) /\ ops[i] \in TagOps
      /\ ops[i].kind \in Kinds /\ ops[i].run \in Runs /\ ops[i].found \in BOOLEAN
  BY TagOpTypes DEF TagInv
<1>2. /\ worker[w] = Idle /\ ops[i].job = "queued" /\ Moves(w, s)
      /\ UNCHANGED <<remoteTag, actions, records, request, counts>>
  BY DEF ClaimOldest, Moves
<1>3. /\ run \in [Runs -> RunStatuses] /\ run' \in [Runs -> RunStatuses]
      /\ \A q \in Runs : run'[q] = run[q] \/ (ops[i].kind # "refresh" /\ q = ops[i].run)
      /\ \A q \in Runs : run'[q] \in {run[q], "running"}
  <2>1. run \in [Runs -> RunStatuses] /\ "running" \in RunStatuses
    BY <1>1 DEF TagTypeOK, RunStatuses, Active
  <2>2. \/ ops[i].kind = "refresh" /\ run' = run
        \/ ops[i].kind # "refresh" /\ run' = [run EXCEPT ![ops[i].run] = "running"]
    BY DEF ClaimOldest, SetRun
  <2>3. QED
    BY <1>1, <2>1, <2>2
<1>4. Remade(i, "running", "running", ops[i].found) /\ "running" \in Statuses
  <2> DEFINE e == Marking(ops[i], "running", "running")
  <2>0. "running" \in Statuses
    BY DEF Statuses, Active
  <2>1. ops' = [ops EXCEPT ![i] = e]
    BY DEF ClaimOldest, Marking
  <2>2. e = [kind |-> ops[i].kind, run |-> ops[i].run, op |-> "running", job |-> "running",
             found |-> ops[i].found]
    BY <1>1, <2>0, Rewritten
  <2>3. QED
    BY <2>0, <2>1, <2>2 DEF Remade
<1>5. /\ OpsStay /\ DOMAIN ops' = DOMAIN ops
      /\ \A j \in DOMAIN ops : j # i => ops'[j] = ops[j]
      /\ ops'[i].kind = ops[i].kind /\ ops'[i].run = ops[i].run
      /\ ops'[i].op = "running" /\ ops'[i].job = "running" /\ ops'[i].found = ops[i].found
  BY <1>1, <1>4, RemadeOps
<1>6. s \in Stages'
  <2>1. s \in Stages
    BY <1>1, TagStagesHave
  <2>2. QED
    BY <1>1, <1>5, <2>1, StagesGrow DEF OpsStay
<1>7. s.pc = "execute" /\ s.i = i
  OBVIOUS
<1> HIDE DEF s
<1>8. /\ worker' \in [Workers -> Stages'] /\ worker'[w] = s
      /\ \A v \in Workers : v # w => worker'[v] = worker[v]
  BY <1>1, <1>2, <1>5, <1>6, Moved
<1>9. Claimed'
  <2>1. Proper(w)'
    BY <1>5, <1>7, <1>8 DEF Proper, Op
  <2>2. QED
    BY <1>1, <1>5, <1>8, <2>1, KeepsClaimed
<1>10. Carried'
  <2> SUFFICES ASSUME NEW r \in Runs, run'[r] = "running"
               PROVE  \E j \in DOMAIN ops' : Carries(j, r)'
    BY DEF Carried
  <2>1. CASE run[r] = "running"
    <3>1. PICK j \in DOMAIN ops : Carries(j, r)
      BY <1>1, <2>1 DEF Carried
    <3>2. j # i /\ ops'[j] = ops[j]
      BY <1>2, <1>5, <3>1 DEF Carries
    <3>3. Carries(j, r)'
      BY <1>7, <1>8, <3>1, <3>2 DEF Carries
    <3>4. QED
      BY <1>5, <3>3
  <2>2. CASE run[r] # "running"
    <3>1. ops[i].kind \in {"tag", "lookup"} /\ ops[i].run = r
      BY <1>1, <1>3, <2>2 DEF Kinds
    <3>2. \A v \in Workers : worker[v] # Idle => worker[v].i # i
      BY <1>1, <1>2 DEF Claimed, Proper, Op
    <3>3. \A v \in Workers : worker'[v] # Idle /\ worker'[v].i = i => worker'[v].pc \in ToCome
      BY <1>7, <1>8, <3>2 DEF ToCome
    <3>4. Carries(i, r)'
      BY <1>5, <3>1, <3>3 DEF Carries
    <3>5. QED
      BY <1>5, <3>4
  <2>3. QED
    BY <2>1, <2>2
<1>11. Followed'
  <2>1. \A j \in DOMAIN ops' : ops'[j].kind = "tag" /\ ops'[j].op = "completed" =>
            j \in DOMAIN ops /\ (ops[j].op = "completed" \/ HasFollowUps(ops[j].run))
    BY <1>5
  <2>2. \A v \in Workers : worker'[v].pc = "finish" /\ worker'[v].ok /\ Kind(v)' = "tag" =>
            worker'[v] = worker[v] \/ HasFollowUps(Op(v).run)'
    BY <1>7, <1>8
  <2>3. QED
    BY <1>1, <1>5, <2>1, <2>2, KeepsFollowed
<1>12. Seen'
  <2> SUFFICES ASSUME wasTagged' = FALSE PROVE Unseen'
    BY DEF Seen
  <2>1. tagged' = FALSE /\ Unseen
    BY <1>1, <1>2 DEF remoteTag, Seen, Unseen
  <2>2. \A j \in DOMAIN ops' : ops'[j].found = FALSE
    BY <1>5, <2>1 DEF Unseen
  <2>3. \A q \in Runs : run'[q] # "completed"
    BY <1>3, <2>1 DEF Unseen
  <2>4. \A v \in Workers : worker[v].pc = "record" => worker[v].i \in DOMAIN ops
    BY <1>1, TagStageTypes
  <2>5. \A v \in Workers :
          /\ worker'[v].pc \in {"record", "finish"} => worker'[v].found = FALSE
          /\ worker'[v].pc = "record" /\ worker'[v].ok => Kind(v)' # "tag"
    BY <1>5, <1>7, <1>8, <2>1, <2>4 DEF Unseen, Kind, Op, OpsStay
  <2>6. QED
    BY <1>2, <2>1, <2>2, <2>3, <2>5 DEF Unseen
<1>13. Apart'
  BY <1>2, <1>5, <1>6, <1>7, WorkerKeepsApart
<1>14. TagTypeOK'
  BY <1>1, <1>2, <1>3, <1>5, <1>8 DEF TagTypeOK, remoteTag, actions, counts, RunStatuses, OpsStay
<1>15. QED
  BY <1>9, <1>10, <1>11, <1>12, <1>13, <1>14 DEF TagInv

(* An operation is finished after its outcome was recorded: its run does not *)
(* wait for it.                                                              *)
LEMMA FinishKeeps ==
  ASSUME TagInv, NEW w \in Workers, Finish(w)
  PROVE  TagInv'
<1> DEFINE i == worker[w].i
           f == worker[w].found
           status == IF worker[w].ok THEN "completed" ELSE "failed"
<1>1. /\ worker[w].pc = "finish" /\ Moves(w, Idle) /\ run' = run
      /\ UNCHANGED <<remoteTag, actions, records, request, counts>>
  BY DEF Finish, At, Rest, Moves
<1>2. TagTypeOK /\ Claimed /\ Carried /\ Followed /\ Seen /\ Apart /\ worker[w] # Idle
  BY <1>1 DEF TagInv, Idle
<1>3. /\ i \in DOMAIN ops /\ f \in BOOLEAN /\ worker[w].ok \in BOOLEAN /\ status \in Statuses
      /\ status \in Outcomes /\ Op(w) = ops[i] /\ Kind(w) = ops[i].kind
      /\ ops[i] \in TagOps /\ ops \in Seq(TagOps) /\ DOMAIN ops = 1..Len(ops)
  BY <1>1, <1>2, TagStageTypes, TagOpTypes DEF Statuses, Outcomes, Op, Kind
<1>4. Remade(i, status, status, f)
  <2> DEFINE e == MarkingFound(ops[i], status, status, f)
  <2>1. ops' = [ops EXCEPT ![i] = e]
    BY DEF Finish, MarkingFound
  <2> HIDE DEF i, f, status
  <2>2. e = [kind |-> ops[i].kind, run |-> ops[i].run, op |-> status, job |-> status,
             found |-> f]
    BY <1>3, Rewritten
  <2>3. QED
    BY <2>1, <2>2 DEF Remade
<1>5. status = "completed" => worker[w].ok
  OBVIOUS
<1>6. status # "queued"
  BY <1>3 DEF Outcomes
<1> HIDE DEF i, f, status
<1>7. /\ OpsStay /\ DOMAIN ops' = DOMAIN ops
      /\ \A j \in DOMAIN ops : j # i => ops'[j] = ops[j]
      /\ ops'[i].kind = ops[i].kind /\ ops'[i].run = ops[i].run
      /\ ops'[i].op = status /\ ops'[i].job = status /\ ops'[i].found = f
  BY <1>2, <1>3, <1>4, <1>6, RemadeOps
<1>8. Idle \in Stages' /\ Idle.pc = "idle"
  BY <1>2, <1>7, NextStages DEF Idle
<1>9. /\ worker' \in [Workers -> Stages'] /\ worker'[w] = Idle
      /\ \A v \in Workers : v # w => worker'[v] = worker[v]
  BY <1>1, <1>2, <1>7, <1>8, Moved
<1>10. Claimed'
  <2>1. Proper(w)'
    BY <1>9 DEF Proper
  <2>2. QED
    BY <1>2, <1>7, <1>9, <2>1, KeepsClaimed
<1>11. Carried'
  <2>1. \A q \in Runs : run'[q] = "running" => run[q] = "running"
    BY <1>1
  <2>2. ASSUME NEW j \in DOMAIN ops PROVE Lasts(j)
    <3>1. CASE j = i
      BY <1>1, <1>2, <3>1 DEF Lasts, ToCome, i
    <3>2. CASE j # i
      BY <1>7, <1>9, <3>2 DEF Lasts
    <3>3. QED
      BY <3>1, <3>2
  <2>3. QED
    BY <1>2, <1>7, <2>1, <2>2, KeepsCarried
<1>12. Followed'
  <2>1. \A j \in DOMAIN ops' : ops'[j].kind = "tag" /\ ops'[j].op = "completed" =>
            j \in DOMAIN ops /\ (ops[j].op = "completed" \/ HasFollowUps(ops[j].run))
    <3> SUFFICES ASSUME NEW j \in DOMAIN ops', ops'[j].kind = "tag", ops'[j].op = "completed"
                 PROVE  j \in DOMAIN ops /\ (ops[j].op = "completed" \/ HasFollowUps(ops[j].run))
      OBVIOUS
    <3>1. CASE j = i
      <4>1. worker[w].ok /\ Kind(w) = "tag"
        BY <1>3, <1>5, <1>7, <3>1
      <4>2. HasFollowUps(ops[i].run)
        BY <1>1, <1>2, <1>3, <4>1 DEF Followed
      <4>3. QED
        BY <1>3, <3>1, <4>2
    <3>2. CASE j # i
      BY <1>7, <3>2
    <3>3. QED
      BY <3>1, <3>2
  <2>2. \A v \in Workers : worker'[v].pc = "finish" /\ worker'[v].ok /\ Kind(v)' = "tag" =>
            worker'[v] = worker[v] \/ HasFollowUps(Op(v).run)'
    BY <1>8, <1>9
  <2>3. QED
    BY <1>2, <1>7, <2>1, <2>2, KeepsFollowed
<1>13. Seen'
  <2> SUFFICES ASSUME wasTagged' = FALSE PROVE Unseen'
    BY DEF Seen
  <2>1. tagged' = FALSE /\ Unseen
    BY <1>1, <1>2 DEF remoteTag, Seen, Unseen
  <2>2. f = FALSE
    BY <1>1, <2>1 DEF Unseen, f
  <2>3. \A j \in DOMAIN ops' : ops'[j].found = FALSE
    BY <1>7, <2>1, <2>2 DEF Unseen
  <2>4. \A v \in Workers : worker[v].pc = "record" => worker[v].i \in DOMAIN ops
    BY <1>2, TagStageTypes
  <2>5. \A v \in Workers :
          /\ worker'[v].pc \in {"record", "finish"} => worker'[v].found = FALSE
          /\ worker'[v].pc = "record" /\ worker'[v].ok => Kind(v)' # "tag"
    BY <1>7, <1>8, <1>9, <2>1, <2>4 DEF Unseen, Kind, Op, OpsStay
  <2>6. QED
    BY <1>1, <2>1, <2>3, <2>5 DEF Unseen
<1>14. Apart'
  BY <1>1, <1>2, <1>7, <1>8, WorkerKeepsApart
<1>15. TagTypeOK'
  BY <1>1, <1>2, <1>7, <1>9 DEF TagTypeOK, remoteTag, actions, counts, OpsStay
<1>16. QED
  BY <1>10, <1>11, <1>12, <1>13, <1>14, <1>15 DEF TagInv

(* A worker stops: what it had is left to the sweep. *)
LEMMA WorkerStopsKeeps ==
  ASSUME TagInv, NEW w \in Workers, WorkerStops(w)
  PROVE  TagInv'
<1>1. /\ worker[w] # Idle /\ Moves(w, Idle) /\ run' = run /\ ops' = ops
      /\ UNCHANGED <<remoteTag, actions, records, request, counts>>
  BY DEF WorkerStops, Rest, Moves
<1>2. TagTypeOK /\ OpsAdded /\ OpsStay /\ Seen
  BY <1>1, SameTagOps DEF TagInv, OpsAdded
<1>3. Idle \in Stages' /\ Idle.pc = "idle"
  BY <1>1, <1>2, NextStages DEF Idle
<1>4. PICK r \in Runs : Op(w).run = r
  BY <1>1, <1>2, AtWork
<1>5. wasTagged' = FALSE =>
         /\ wasTagged = FALSE /\ tagged' = FALSE /\ Silent(Idle, Kind(w))
         /\ \A q \in Runs : run'[q] # "completed"
  BY <1>1, <1>2, <1>3 DEF Seen, Unseen, Silent, remoteTag
<1>6. UNCHANGED <<request, records>> /\ \A q \in Runs : run'[q] = "running" => run[q] = "running"
  BY <1>1
<1>7. Idle.pc # "follow" /\ Idle.pc # "insert" /\ Idle.pc # "finish"
  BY <1>3
<1>8. /\ ops' \in Seq(TagOps) /\ worker' \in [Workers -> Stages']
      /\ Claimed' /\ Carried' /\ Followed' /\ Seen'
  BY <1>1, <1>2, <1>3, <1>4, <1>5, <1>6, <1>7, WorkerKeeps
<1>9. Apart'
  BY <1>1, <1>2, <1>3, <1>7, WorkerKeepsApart
<1>10. TagTypeOK'
  BY <1>1, <1>2, <1>8 DEF TagTypeOK, remoteTag, actions, counts
<1>11. QED
  BY <1>8, <1>9, <1>10 DEF TagInv

-----------------------------------------------------------------------------
(* The invariant *)

(* There is nothing at first. *)
LEMMA TagInvInit == TagInit => TagInv
<1> SUFFICES ASSUME TagInit PROVE TagInv
  OBVIOUS
<1>1. /\ tagged = FALSE /\ wasTagged = FALSE
      /\ run = [r \in Runs |-> NoValue] /\ ops = <<>>
      /\ rows = {} /\ mixed = FALSE /\ lone = NoValue /\ records = <<>>
      /\ request = [h \in Callers |-> Idle] /\ worker = [w \in Workers |-> Idle]
      /\ manual = 0 /\ hooks = 0
  BY DEF TagInit
<1>2. /\ \A h \in Callers : request[h] = Idle /\ request[h].pc = "idle"
      /\ \A w \in Workers : worker[w] = Idle /\ worker[w].pc = "idle"
  BY <1>1 DEF Idle
<1>3. DOMAIN ops = {} /\ DOMAIN records = {}
  BY <1>1
<1>4. TagTypeOK
  <2>1. Idle \in Stages /\ Idle \in Requests
    BY DEF Stages, Requests
  <2>2. ops \in Seq(TagOps) /\ records \in Seq(Records)
    BY <1>1, EmptySeq
  <2>3. manual \in 0..MaxManual /\ hooks \in 0..MaxHooks
    BY <1>1
  <2>4. QED
    BY <1>1, <2>1, <2>2, <2>3 DEF TagTypeOK
<1>5. Claimed /\ Followed /\ Seen
  <2>1. Claimed
    BY <1>2 DEF Claimed, Proper
  <2>2. Followed
    BY <1>2, <1>3 DEF Followed
  <2>3. tagged = FALSE /\ \A r \in Runs : run[r] # "completed"
    BY <1>1 DEF NoValue
  <2>4. Unseen
    BY <1>2, <1>3, <2>3 DEF Unseen
  <2>5. QED
    BY <2>1, <2>2, <2>4 DEF Seen
<1>6. Carried
  BY <1>1 DEF Carried, NoValue
<1>7. Apart
  <2>1. Writing = {}
    BY <1>2 DEF Writing
  <2>2. IsFiniteSet(rows)
    BY <1>1, FS_EmptySet
  <2>3. QED
    BY <1>1, <2>1, <2>2 DEF Apart
<1>8. QED
  BY <1>4, <1>5, <1>6, <1>7 DEF TagInv

(* Nothing happens. *)
LEMMA StutterKeeps ==
  ASSUME TagInv, UNCHANGED tagVars
  PROVE  TagInv'
<1>1. UNCHANGED <<tagged, wasTagged, run, ops, rows, mixed, lone, records, request, worker, manual, hooks>>
  BY DEF tagVars, remoteTag, actions, counts
<1>2. TagTypeOK' /\ Claimed' /\ Carried' /\ Followed'
  BY <1>1 DEF TagInv, TagTypeOK, Stages, Claimed, Proper, Op, Kind, Carried, Carries,
     Followed, HasFollowUps, OpsOf
<1>3. Seen' /\ Apart'
  BY <1>1 DEF TagInv, Seen, Unseen, Op, Kind, Apart, Writing, Found
<1>4. QED
  BY <1>2, <1>3 DEF TagInv

(* What requests do, *)
LEMMA ServeKeeps ==
  ASSUME TagInv, NEW h \in Callers, Serve(h)
  PROVE  TagInv'
<1>1. CASE \E kind \in {"lookup", "refresh"}, r \in Runs : Ask(h, kind, r)
  BY <1>1, AskKeeps
<1>2. CASE Enqueue(h)
  BY <1>2, EnqueueKeeps
<1>3. CASE DropRequest(h)
  BY <1>3, DropRequestKeeps
<1>4. CASE HookRead(h)
  BY <1>4, HookReadKeeps
<1>5. CASE HookWrite(h)
  BY <1>5, HookWriteKeeps
<1>6. CASE InsertRecord(h)
  BY <1>6, InsertRecordKeeps
<1>7. ASSUME NEW r \in Runs, RecordRepoTagRunResultSnapshot(h, r)
      PROVE  TagInv'
  <2>1. RecordIfChanged(h, ResultRecord(r)) /\ Seen
    BY <1>7 DEF RecordRepoTagRunResultSnapshot, TagInv
  <2>2. /\ ResultRecord(r) \in Records
        /\ wasTagged = FALSE => ResultRecord(r).state # "recorded"
    BY <2>1, RecordTypes DEF Seen, Unseen
  <2>3. QED
    BY <2>1, <2>2, RecordIfChangedKeeps
<1>8. ASSUME NEW r \in Runs, RecordRepoTagRunActionsRefreshSnapshot(h, r)
      PROVE  TagInv'
  <2>1. RecordIfChanged(h, ActionsRecord(r)) /\ Seen /\ run[r] = "completed"
    BY <1>8 DEF RecordRepoTagRunActionsRefreshSnapshot, RefreshReady, TagObserved, TagInv
  <2>2. ActionsRecord(r) \in Records /\ wasTagged # FALSE
    BY <2>1, RecordTypes DEF Seen, Unseen
  <2>3. QED
    BY <2>1, <2>2, RecordIfChangedKeeps
<1>9. QED
  BY <1>1, <1>2, <1>3, <1>4, <1>5, <1>6, <1>7, <1>8 DEF Serve

(* what workers do, *)
LEMMA WorkKeeps ==
  ASSUME TagInv, NEW w \in Workers, Work(w)
  PROVE  TagInv'
<1>1. CASE \E i \in DOMAIN ops : ClaimOldest(w, i)
  BY <1>1, ClaimOldestKeeps
<1>2. CASE PushTag(w) \/ LookUp(w) \/ FetchRuns(w) \/ ExecuteFails(w) \/ RecordFails(w)
  BY <1>2, ExecuteKeeps
<1>3. CASE RecordTag(w)
  BY <1>3, RecordTagKeeps
<1>4. CASE FollowUp(w)
  BY <1>4, FollowUpKeeps
<1>5. CASE RecordLookup(w)
  BY <1>5, RecordLookupKeeps
<1>6. CASE DeleteRows(w)
  BY <1>6, DeleteRowsKeeps
<1>7. CASE InsertRows(w)
  BY <1>7, InsertRowsKeeps
<1>8. CASE RecordFailure(w)
  BY <1>8, RecordFailureKeeps
<1>9. CASE Finish(w)
  BY <1>9, FinishKeeps
<1>10. CASE WorkerStops(w)
  BY <1>10, WorkerStopsKeeps
<1>11. QED
  BY <1>1, <1>2, <1>3, <1>4, <1>5, <1>6, <1>7, <1>8, <1>9, <1>10 DEF Work

(* and every step keep the invariant. *)
LEMMA TagInvNext == TagInv /\ [TagNext]_tagVars => TagInv'
<1> SUFFICES ASSUME TagInv, [TagNext]_tagVars PROVE TagInv'
  OBVIOUS
<1>1. CASE TagElsewhere
  BY <1>1, ElsewhereKeeps
<1>2. CASE \E r \in Runs : CreateTag(r)
  BY <1>2, CreateTagKeeps
<1>3. CASE \E h \in Callers : Serve(h)
  BY <1>3, ServeKeeps
<1>4. CASE \E w \in Workers : Work(w)
  BY <1>4, WorkKeeps
<1>5. CASE \E i \in DOMAIN ops : Cancel(i) \/ TimeOut(i)
  BY <1>5, CancelKeeps, TimeOutKeeps
<1>6. CASE UNCHANGED tagVars
  BY <1>6, StutterKeeps
<1>7. QED
  BY <1>1, <1>2, <1>3, <1>4, <1>5, <1>6 DEF TagNext

(* A worker knows an operation that was claimed, a run that shows "running"  *)
(* has an operation whose outcome is to come, follow-ups are there when a    *)
(* tag is finished, nothing tells of a tag that never was there, and a       *)
(* writer of rows whom nobody disturbed has seen the rows there are.         *)
THEOREM TagInvCorrect == TagSpec => []TagInv
<1>1. QED
  BY TagInvInit, TagInvNext, PTL DEF TagSpec

(* Every variable has its type: above all, what a worker or a request        *)
(* remembers of operations is there.                                         *)
THEOREM TagTypeCorrect == TagSpec => []TagTypeOK
<1>1. TagInv => TagTypeOK
  BY DEF TagInv
<1>2. QED
  BY <1>1, TagInvCorrect, PTL

(* The newest of some operations is one of them. *)
LEMMA NewestIs ==
  ASSUME TagTypeOK, NEW S \in SUBSET DOMAIN ops, S # {}
  PROVE  (CHOOSE i \in S : \A j \in S : j <= i) \in S
<1> DEFINE Less == {pair \in Nat \X Nat : pair[1] < pair[2]}
           N == Len(ops)
           T == {n \in 0..N : N - n \in S}
<1>1. N \in Nat /\ S \subseteq 1..N
  BY TagOpTypes
<1>2. IsWellFoundedOn(Less, Nat)
  BY NatLessThanWellFounded, Zenon DEF OpToRel
<1>3. T \subseteq Nat /\ T # {}
  <2>1. PICK j \in S : TRUE
    OBVIOUS
  <2> HIDE DEF N
  <2>2. N - j \in 0..N /\ N - (N - j) = j
    BY <1>1, <2>1
  <2>3. QED
    BY <1>1, <2>1, <2>2
<1>4. PICK m \in T : \A n \in T : <<n, m>> \notin Less
  <2> HIDE DEF Less, T
  <2>1. QED
    BY <1>2, <1>3, WFMin
<1> HIDE DEF N
<1>5. N - m \in S /\ m \in 0..N
  BY <1>4
<1>6. ASSUME NEW j \in S
      PROVE  j <= N - m
  <2>1. N - j \in 0..N /\ N - (N - j) = j /\ j \in 1..N
    BY <1>1
  <2>2. N - j \in T
    BY <2>1
  <2>3. ~(N - j < m)
    BY <1>3, <1>4, <2>2
  <2>4. QED
    BY <1>1, <1>5, <2>1, <2>3
<1>7. QED
  BY <1>5, <1>6

(* What a page or a snapshot tells of a tag that is there is true: the       *)
(* remote has or had it, in whatever order answers, lookups, cancels and     *)
(* timeouts come.                                                            *)
THEOREM ShownTagWasThereCorrect == TagSpec => []ShownTagWasThere
<1>1. TagInv => ShownTagWasThere
  <2> SUFFICES ASSUME TagInv, wasTagged = FALSE
               PROVE  /\ \A r \in Runs : ~TagObserved(r)
                                     /\ RehearsalState(r, Newest("lookup", r)) # "observed"
                      /\ \A i \in DOMAIN records : records[i].state # "recorded"
    BY DEF ShownTagWasThere, TagInv, TagTypeOK
  <2>1. TagTypeOK /\ Unseen
    BY DEF TagInv, Seen
  <2>2. ASSUME NEW r \in Runs
        PROVE  /\ ~TagObserved(r)
               /\ RehearsalState(r, Newest("lookup", r)) # "observed"
    <3> DEFINE all == OpsOf("lookup", r)
               new == CHOOSE i \in all : \A j \in all : j <= i
    <3>1. ~TagObserved(r)
      BY <2>1 DEF Unseen, TagObserved
    <3>2. all \subseteq DOMAIN ops
      BY DEF OpsOf
    <3>3. all # {} => ops[new].found = FALSE
      BY <2>1, <3>2, NewestIs DEF Unseen
    <3>4. Newest("lookup", r).found = FALSE
      BY <3>3 DEF Newest
    <3> HIDE DEF all, new
    <3>5. RehearsalState(r, Newest("lookup", r)) # "observed"
      BY <3>1, <3>4 DEF RehearsalState, LookupObserved, LookupFailed, LookupPerformed
    <3>6. QED
      BY <3>1, <3>5
  <2>3. QED
    BY <2>1, <2>2 DEF Unseen
<1>2. QED
  BY <1>1, TagInvCorrect, PTL

(* A run that shows "running" has a job the sweep of stale jobs can time     *)
(* out, also when a lookup had put back a run that was completed.            *)
THEOREM RunningHasAJobCorrect == TagSpec => []RunningHasAJob
<1>1. TagInv => RunningHasAJob
  BY DEF TagInv, Carried, Carries, RunningHasAJob
<1>2. QED
  BY <1>1, TagInvCorrect, PTL

(* Behind every tag operation that completed are a lookup and a refresh.     *)
THEOREM FollowedUpCorrect == TagSpec => []FollowedUp
<1>1. TagInv => FollowedUp
  BY DEF TagInv, Followed, HasFollowUps, FollowedUp
<1>2. QED
  BY <1>1, TagInvCorrect, PTL

(* Without writers that overlapped a workflow run has at most one row.       *)
THEOREM OneRowUnlessMixedCorrect == TagSpec => []OneRowUnlessMixed
<1>1. TagInv => OneRowUnlessMixed
  <2> SUFFICES ASSUME TagInv, mixed = FALSE PROVE Cardinality(rows) <= 1
    BY DEF OneRowUnlessMixed, TagInv, TagTypeOK
  <2>1. \A x, y \in rows : x = y
    BY DEF TagInv, Apart
  <2>2. CASE rows = {}
    BY <2>2, FS_EmptySet
  <2>3. CASE rows # {}
    <3>1. PICK x \in rows : rows = {x}
      BY <2>1, <2>3
    <3>2. Cardinality(rows) = 1
      BY ONLY <3>1, FS_Singleton
    <3>3. QED
      BY <3>2
  <2>4. QED
    BY <2>2, <2>3
<1>2. QED
  BY <1>1, TagInvCorrect, PTL
=============================================================================
