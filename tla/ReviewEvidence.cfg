\* An operator goes down the list of evidence while the ledger moves on, a
\* retention period passes and the cleanup deletes.
CONSTANTS
  r1 = r1
  None = None
  Recorders = {r1}
  Recorded = {"endpoint", "builder", "handler", "idempotency", "diagnostics"}
  Required <- SomeRequired
  ReadyToArm = TRUE
  KeepLatest = TRUE
  BatchSize = 2
  MaxPeriods = 1
  MaxRevivals = 1
  MaxRows = 6
SPECIFICATION EvidenceFairSpec
ACTION_CONSTRAINT OneByOne
CHECK_DEADLOCK FALSE
INVARIANTS ReviewedInOrder NobodyMayExecute
PROPERTIES CleanupCatchesUp
