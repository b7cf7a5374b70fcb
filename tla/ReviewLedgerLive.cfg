\* Two handlers in one gateway and one in another, three faults anywhere.
CONSTANTS
  g1 = g1  g2 = g2  h1 = h1  h2 = h2  h3 = h3
  None = None
  Gateways = {g1, g2}
  Handlers = {h1, h2, h3}
  Home <- HomeOf
  MaxFaults = 3
SPECIFICATION FairSpec
INVARIANTS DependencyAgreement BranchIsFlagged
PROPERTIES SettledStays LocksAreReleased
