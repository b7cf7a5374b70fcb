---------------------------- MODULE MCWorkQueue ----------------------------
(* An instance of WorkQueue for TLC: a repo sync, which any executor may   *)
(* take, and a command for a remote host.                                  *)
EXTENDS WorkQueue, TLC

CONSTANTS w1, w2, n1, c1, sync, shell

MCTool == (sync :> "direct") @@ (shell :> "none")
ToolOf == [o \in Ops |-> MCTool[o]]
KindOf == [o \in Ops |-> IF o = shell THEN "host" ELSE ""]
RequiredOf == [o \in Ops |-> IF o = shell THEN {"exec"} ELSE {}]
NodeKindOf == [n \in Nodes |-> "host"]
CapabilitiesOf == [n \in Nodes |-> {"exec", "docker"}]
=============================================================================
