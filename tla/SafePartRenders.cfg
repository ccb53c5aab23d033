\* The page alone matters here.
SPECIFICATION ServiceSpec
CONSTANTS
  Scopes <- MCScopes
  Sources = {"paper"}
  Contents = {"first"}
  Models = {"m1"}
  MaxRecords = 1
  MaxRestarts = 1
  TaskIds = {"t1"}
  PushAttempts = 1
  MaxServerRestarts = 0
  Steps = {"a"}
  MaxEvents = 1
  MaxDrops = 0
  RunResults <- MCRunResults
  Proposals <- MCProposals
  Poisoned = {}
  Retries = 0
  MaxTurns = 1
  Markdowns <- MCMarkdowns
  MaxWords = 3
  SemanticFloor = 2
  Prompts = {"q", "task"}
  Explicit = {"q"}
  Delegated = {"task"}
  Candidates = 2
  Kept = 1
  MaxRuns = 2
  MaxCrashes = 1
  MaxFacts = 1
INVARIANTS
  SafePartRenders
CHECK_DEADLOCK FALSE
