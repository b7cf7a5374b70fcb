---------------------------- MODULE MCApprovals ----------------------------
(* An instance of Approvals for TLC. *)
EXTENDS Approvals, TLC

CONSTANTS w1, a1, u1, u2, u3, create, approve, approve2, reject, remind, delegate, revoke, stand_in

(* u1 and u3 have an approver's role; u1 may delegate to u2, who approves  *)
(* in stand_in.                                                            *)
MCKind == (create :> "create") @@ (approve :> "approve") @@ (approve2 :> "approve")
          @@ (stand_in :> "approve") @@ (reject :> "reject") @@ (remind :> "remind")
          @@ (delegate :> "delegate") @@ (revoke :> "revoke")
KindOf == [p \in Requests |-> MCKind[p]]
AskerOf == [p \in Requests |-> CASE p \in {approve2, revoke} -> u3 [] p = stand_in -> u2 [] OTHER -> u1]
TargetOf == [p \in Requests |-> u2]
RequiredTwo == [a \in Approvals |-> 2]
SameSubject == [a \in Approvals |-> "deploy"]

Begins(p) == pc[p] = "begin" /\ pc'[p] # "begin"
Begun(p) == pc[p] # "begin"
Underway(p) == pc[p] \notin {"begin", "done"}

(* Either two approvers and a reject decide, or a delegate does while the  *)
(* delegation is revoked and the delegator reminds.                        *)
Deciding == {approve, approve2, reject}
Delegating == {delegate, stand_in, revoke, remind}
OneStory ==
    /\ \A p \in Deciding : Begins(p) => \A q \in Delegating : ~Begun(q)
    /\ \A p \in Delegating : Begins(p) => \A q \in Deciding : ~Begun(q)

(* The delegator reminds while no other request is under way. *)
RemindsApart ==
    /\ Begins(remind) => \A p \in Requests \ {remind} : ~Underway(p)
    /\ Underway(remind) => \A p \in Requests \ {remind} : ~Begins(p)
=============================================================================
