SPECIFICATION FairSpec
CONSTANTS
  Generations = {1, 2}
  Chunks = {1}
  Reconcilers = {r1}
  Collectors = {c1}
  Operator = op
  Paged = FALSE
  Rollbacks = TRUE
  Reverts = TRUE
  CanCancel = FALSE
  MaxRepairs = 2
  MaxFaults = 2
  None = None
INVARIANTS
  RetentionSparesServing
PROPERTIES
  ServiceNeverLapses
  LoopsCatchUp
\* A job may end for good with nothing left to reconcile.
CHECK_DEADLOCK FALSE
