CONSTANTS
    Handlers = {h1, h2}
    Workers = {w1, w2}
    MaxConnections = 1
    LookBack = 1
    MaxOps = 4
    MaxPushes = 1
SPECIFICATION Spec
SYMMETRY Symmetry
INVARIANTS RecordedShaIsInHistory RefreshOncePerRequest CompletedRefreshIsRecorded
CHECK_DEADLOCK FALSE
ACTION_CONSTRAINT EditsMatter ConnectedFirst OneStory OneSort RecordingCounts FewStops
