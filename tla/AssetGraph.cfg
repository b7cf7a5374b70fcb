CONSTANTS
    Sources = {s1, s2}
    Syncers = {y1, y2}
    Handlers = {h1}
    MaxStatus = 1
SPECIFICATION Spec
SYMMETRY Symmetry
INVARIANTS GhostNeedsOverlap
PROPERTIES UndisturbedSyncRepairs ManualStays
CHECK_DEADLOCK FALSE
ACTION_CONSTRAINT FewChanges
