SPECIFICATION Spec
CONSTANTS
  Docs <- ThreeDocs
  Managed = {"policy"}
  Chunks <- Chunks5
  NoGen = "none"
  Handlers = {h1}
  Asks <- FiveAsks
  Members = {"user", "guest"}
  Allowed <- AllowedBy
  Supersedes <- Replaces
  Competing = {}
  Elastic = TRUE
  CandidateLimit = 3
  Policy = "auto"
  RerankInput = 0
  RerankTop = 2
  TopK = 2
  MaxPerDoc = 2
  Registry <- AsIndexed
  MaxChanges = 2
  MaxAsks = 2
CHECK_DEADLOCK FALSE
INVARIANTS WithdrawnIsNeverCited OneGenerationPerDocument AudienceIsKept RefusalsShowNoSources RankingKeepsEvidence
