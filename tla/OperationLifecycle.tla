------------------------- MODULE OperationLifecycle -------------------------
(***************************************************************************)
(* What the work queue promises of one operation, whoever runs it and      *)
(* whatever crashes: the right to run it (its token) is given out once,    *)
(* after which the status moves by that executor's single report, by a     *)
(* cancel, or by a timeout.  An operation canceled before its token was    *)
(* given out is never run.                                                 *)
(***************************************************************************)
CONSTANT Ops

VARIABLES
    status,   \* what a client reads as the status of each operation
    token     \* the right to run it: "unissued", "out" or "spent"

vars == <<status, token>>

Init ==
    /\ status = [o \in Ops |-> "none"]
    /\ token = [o \in Ops |-> "unissued"]

Request(o) ==
    /\ status[o] = "none"
    /\ status' = [status EXCEPT ![o] = "queued"]
    /\ UNCHANGED token

(* The executor may be gone before it learns that it was chosen.           *)
Start(o) ==
    /\ status[o] = "queued" /\ token[o] = "unissued"
    /\ status' = [status EXCEPT ![o] = "running"]
    /\ \E t \in {"out", "spent"} : token' = [token EXCEPT ![o] = t]

Report(o) ==
    /\ token[o] = "out"
    /\ \E s \in {"completed", "failed"} : status' = [status EXCEPT ![o] = s]
    /\ token' = [token EXCEPT ![o] = "spent"]

(* The executor dies, or its report is lost or could not be written.       *)
Vanish(o) ==
    /\ token[o] = "out"
    /\ token' = [token EXCEPT ![o] = "spent"]
    /\ UNCHANGED status

Cancel(o) ==
    /\ status[o] \in {"queued", "running"}
    /\ status' = [status EXCEPT ![o] = "canceled"]
    /\ UNCHANGED token

(* Operations given out long ago are failed together.  Their executors may *)
(* still report.                                                           *)
TimeOut(S) ==
    /\ \A o \in S : token[o] # "unissued" /\ status[o] \in {"running", "canceled"}
    /\ status' = [o \in Ops |-> IF o \in S THEN "failed" ELSE status[o]]
    /\ UNCHANGED token

Next ==
    \/ \E o \in Ops : Request(o) \/ Start(o) \/ Report(o) \/ Vanish(o) \/ Cancel(o)
    \/ \E S \in SUBSET Ops : TimeOut(S)

Spec == Init /\ [][Next]_vars
=============================================================================
