CONSTANTS
  Requests = {r1, r2}
  r1 = r1
  r2 = r2
  ann = ann
  bob = bob
  Requester = ann
  Admins = {ann, bob}
  Tasks = {"governance"}
  MaxSteps = 3
  MaxRequests = 3
  MaxLapses = 1
  MaxTimeouts = 1
  MaxCrashes = 1
  None = None
SPECIFICATION Spec
INVARIANTS TypeOK PublishedWithConsent OneOwnerUnlessLapsed
PROPERTIES HistoryIsKept
SYMMETRY Slots
CHECK_DEADLOCK FALSE
