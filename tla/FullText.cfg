SPECIFICATION FullTextFairSpec
CONSTANTS
  Workers = {a, b}
  NumChunks = 2
  BatchSize = 1
  MaxRetries = 2
  DeadLetterMax = 2
  Page = 1
  Overloads = TRUE
  Unmappable = {2}
  MaxFailures = 1
CHECK_DEADLOCK FALSE
INVARIANTS FullTextTyped GapsAreAccounted
PROPERTIES DocumentSettles ResolvedLettersLeave

