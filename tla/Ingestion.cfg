SPECIFICATION Spec
CONSTANTS
  v1 = v1
  v2 = v2
  d1 = d1
  w1 = w1
  w2 = w2
  Jobs = {v1, v2}
  Docs = {d1}
  DocOf <- VersionsOfOne
  Pdfs = {v1}
  Cancelable = {d1}
  Deletable = {}
  Repairable = {}
  Relays = {r1}
  Workers = {w1, w2}
  MaxRetries = 0
  MaxFaults = 1
  None = None
SYMMETRY WorkerSymmetry
INVARIANTS
  NoJobIsStranded
  OneWorkerPerJob
\* Bounded faults: when they are spent and every job is settled nothing is left
\* to do.
CHECK_DEADLOCK FALSE
