CONSTANTS
    Targets = {t1}
    Handlers = {h1, h2}
    Workers = {w1, w2}
    NoId = {2}
    MaxPushes = 2
    MaxManual = 1
SPECIFICATION Spec
SYMMETRY Symmetry
INVARIANTS DeliveryStartsFewRuns RecordsAreTrue StatusesHaveARun
CHECK_DEADLOCK FALSE
ACTION_CONSTRAINT EditsFirst FewJobs
