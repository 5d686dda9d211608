SPECIFICATION FairSpec
CONSTANTS
  v1 = v1
  v2 = v2
  d1 = d1
  w1 = w1
  w2 = w2
  Jobs = {v1}
  Docs = {d1}
  DocOf <- Alone
  Pdfs = {v1}
  Cancelable = {d1}
  Deletable = {d1}
  Repairable = {v1}
  Relays = {r1}
  Workers = {w1, w2}
  MaxRetries = 1
  MaxFaults = 2
  None = None
INVARIANTS
  CleanupExcludesClaims
PROPERTIES
  ImplementsLedger
  AdmittedJobsSettle
  AcceptedDeletionFinishes
\* Bounded faults: when they are spent and every job is settled nothing is left
\* to do.
CHECK_DEADLOCK FALSE
