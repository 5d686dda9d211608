SPECIFICATION Spec
CONSTANTS
  c1 = c1
  c2 = c2
  c3 = c3
  Slots = {c1, c2}
  MaxActive = 1
  Idle = 2
  Absolute = 3
  Fresh = 2
  ClientKeys = {"k1"}
  MaxTime = 2
  MaxSessions = 2
  MaxIssued = 3
  MaxProvisions = 1
SYMMETRY SlotSymmetry
CHECK_DEADLOCK FALSE
INVARIANTS LogoutEndsSession NoSessionFromBeforeRevocation ActiveWithinLimit
