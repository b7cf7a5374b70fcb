\* The sequence of a live test, as the plan of the live test lists it.
CONSTANTS
  r1 = r1
  None = None
  Recorders = {r1}
  Recorded = {"endpoint", "builder", "handler", "idempotency", "diagnostics"}
  Required <- SomeRequired
  ReadyToArm = TRUE
  KeepLatest = TRUE
  BatchSize = 2
  MaxPeriods = 1
  MaxRevivals = 1
  MaxRows = 6
SPECIFICATION EvidenceSpec
ACTION_CONSTRAINT OneByOne
CHECK_DEADLOCK FALSE
INVARIANT LiveTestPlanArms
