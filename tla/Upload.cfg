SPECIFICATION FairSpec
CONSTANTS
  Requests <- TwoForOneKey
  Prior <- OneVersion
  Keys = {"k1"}
  Fresh = {"n0", "n1"}
  Named = {"d"}
  Handlers = {a, b}
  MaxFaults = 1
  None = None
INVARIANTS AdmittedObjectIsKept ReplayIsTrue
PROPERTIES RetryIsAnswered
CHECK_DEADLOCK FALSE
