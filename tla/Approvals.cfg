\* One approval that needs two approvers, one worker in its sweeps, one fault.
CONSTANTS
  a1 = a1  u1 = u1  u2 = u2  u3 = u3  w1 = w1
  create = create  approve = approve  approve2 = approve2  reject = reject
  remind = remind  delegate = delegate  revoke = revoke  stand_in = stand_in
  None = None
  Approvals = {a1}
  Requests = {create, approve, approve2, reject, remind, delegate, revoke, stand_in}
  Workers = {w1}
  Users = {u1, u2, u3}
  Approvers = {u1, u3}
  Admins = {u3}
  Kind <- KindOf
  Asker <- AskerOf
  Target <- TargetOf
  Required <- RequiredTwo
  Subject <- SameSubject
  MaxFaults = 1
SPECIFICATION Spec
ACTION_CONSTRAINT OneStory RemindsApart
INVARIANTS DecidersWereEntitled QuorumIsExecuted
PROPERTIES ExecutesUndecided
