\* The source stops once tokens are all held behind unfinished deliveries.
SPECIFICATION FairSpec
CONSTANTS
  Consumers = {a, b}
  Offsets = {0, 1, 3, 4}
  Undecodable = {1}
  Refused = {0}
  Capacity = 3
  MaxFaults = 2
  Nobody = Nobody
INVARIANTS CommittedAreHandled TokensNotExhausted
 
CHECK_DEADLOCK FALSE
