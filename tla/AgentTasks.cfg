CONSTANTS
    Handlers = {h1, h2}
    Workers = {w1, w2}
    Window = 2
    MaxPlans = 2
    MaxOps = 2
    MaxRows = 2
SPECIFICATION Spec
SYMMETRY Symmetry
INVARIANTS ActiveTaskHasOperation NoCallLeftActive PlansInOrder ArmedWasExecuted
PROPERTY OutcomeStays
CHECK_DEADLOCK FALSE
ACTION_CONSTRAINT SetUpFirst RecordingApart RecordingCounts FewCancels
