CONSTANTS
  Replicas = {r1, r2}
  r1 = r1
  r2 = r2
  m1 = m1
  Generations = {1, 2}
  Chunks = {1, 2}
  Worlds <- AnyWorlds
  Models = {m1}
  RulePlanner = Unset
  Proposals <- AnyProposals
  Whims <- AnyWhims
  Unknown = Unknown
  MaxSteps = 6
  MaxAttempts = 2
  MaxCalls = 2
  MaxFaults = 1
  Unset = Unset
SPECIFICATION ReviewSpec
INVARIANTS VerdictIsNeverLaxer AuthorIsNamed
PROPERTIES ReviewEnds
CHECK_DEADLOCK FALSE
