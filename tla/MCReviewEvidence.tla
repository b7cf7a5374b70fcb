-------------------------- MODULE MCReviewEvidence --------------------------
(* Instances of ReviewEvidence for TLC. *)
EXTENDS ReviewEvidence

CONSTANT r1

(* Evidence of the three shapes: of the attempt, of a plan, of what blocks. *)
Agenda == <<"planned", "transaction_metadata_ready", "send_blocked">>
SomeRequired == {Agenda[i] : i \in 1..Len(Agenda)}

(* Operators go down the agenda, then review, and record a guard and an      *)
(* arming.  A kind that is not on it, and the snapshot of an attempt that is *)
(* no longer planned, are tried of the last attempt when there are no rows.  *)
OnAgenda(x, status) ==
    \/ \E i \in 1..Len(Agenda) : status = Agenda[i] /\ ~Observed(x, status)
            /\ \A j \in 1..(i - 1) : Observed(x, Agenda[j])
    \/ status = Reviewed /\ ~Observed(x, status)
    \/ status \in {Guarded, Armed} /\ (Observed(x, status) => Newest(x, status))
    \/ x = Open /\ periods = MaxPeriods /\ \A y \in Assets : rows[y] = <<>>

(* They claim an attempt before its agenda or after its review. *)
ClaimsLate(o) ==
    (\E i \in 1..Len(Agenda) : Observed(o, Agenda[i])) => Observed(o, Reviewed)

(* A stale save comes when the approval is armed and the retention period is *)
(* over; what is recorded of a ledger recorded again is the guard.           *)
RevivedLate ==
    /\ revivals' > revivals => Observed(Approval, Armed) /\ periods = MaxPeriods
    /\ \A r \in Recorders : (rewritten /\ pending[r] = None /\ pending'[r] # None) =>
          pending'[r] = [asset |-> Branch, status |-> Guarded]

(* A cleanup is watched when it has something to delete; its batches take the *)
(* rows of the assets in the order in which they are recorded, and meanwhile  *)
(* nothing happens but the writing of what was decided before.                *)
Order == <<Branch, Commit, Open, Approval>>

CleanupAlone ==
    /\ (~cleaning /\ cleaning') => \E x \in Assets : Expendable(x) > 0
    /\ cleaning => /\ attempt' = attempt /\ assets' = assets /\ revivals' = revivals
                   /\ \A r \in Recorders : pending'[r] \in {None, pending[r]}
                   /\ \A i, j \in 1..Len(Order) :
                         (i < j /\ expired'[Order[j]] < expired[Order[j]]) => Expendable(Order[i])' = 0

OneByOne ==
    /\ RevivedLate /\ CleanupAlone
    /\ \A r \in Recorders : (pending[r] = None /\ pending'[r] # None) =>
          OnAgenda(pending'[r].asset, pending'[r].status)
    /\ \A o \in Ops : (attempt[o] = "planned" /\ attempt'[o] = "running") => ClaimsLate(o)
=============================================================================
