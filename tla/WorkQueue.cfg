\* Two control workers, one of which may hang in its adapter, one remote node, a
\* repo sync and a remote command, a canceling client, two faults anywhere.
CONSTANTS
  w1 = w1  w2 = w2  n1 = n1  c1 = c1
  sync = sync  shell = shell  None = None
  Ops = {sync, shell}
  Workers = {w1, w2}
  Nodes = {n1}
  Clients = {c1}
  Tool <- ToolOf
  PreferredKind <- KindOf
  Required <- RequiredOf
  NodeKind <- NodeKindOf
  Capabilities <- CapabilitiesOf
  MayHang = {w1}
  MaxFaults = 2
SPECIFICATION FairSpec
INVARIANTS StatusAgreement AtMostOneExecutor NoRunLeftActive
PROPERTIES ImplementsLifecycle EveryOperationSettles
