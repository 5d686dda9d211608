SPECIFICATION Spec
CONSTANTS
  Generations = {1}
  Chunks = {1, 2}
  Reconcilers = {r1, r2}
  Collectors = {}
  Operator = op
  Paged = TRUE
  Rollbacks = FALSE
  Reverts = FALSE
  CanCancel = TRUE
  MaxRepairs = 2
  MaxFaults = 3
  None = None
SYMMETRY ReconcilerSymmetry
INVARIANTS
  VisibleIsWhole
PROPERTIES
  ReconcilersClearOnFreshEvidence
\* A job may end for good with nothing left to reconcile.
CHECK_DEADLOCK FALSE
