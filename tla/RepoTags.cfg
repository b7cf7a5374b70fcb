CONSTANTS
    Runs = {r1}
    Callers = {h1}
    Workers = {w1, w2}
    MaxManual = 1
    MaxHooks = 1
    MaxRecords = 1
SPECIFICATION TagSpec
SYMMETRY Symmetry
INVARIANTS ShownTagWasThere RunningHasAJob FollowedUp OneRowUnlessMixed
CHECK_DEADLOCK FALSE
ACTION_CONSTRAINT ElsewhereAtRest HooksByRefreshes FewOps FewCancels RecordedLast
