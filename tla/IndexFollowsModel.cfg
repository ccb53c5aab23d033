\* The store alone: the view and the page have nothing to show.
SPECIFICATION ServiceSpec
CONSTANTS
  Scopes <- MCScopes
  Sources = {"paper"}
  Contents = {"first", "second"}
  Models = {"m1", "m2"}
  MaxRecords = 5
  MaxRestarts = 1
  TaskIds = {"t1"}
  PushAttempts = 1
  MaxServerRestarts = 0
  Steps = {"a"}
  MaxEvents = 1
  MaxDrops = 0
  RunResults = {}
  Proposals = {}
  Poisoned = {}
  Retries = 0
  MaxTurns = 0
  Markdowns <- MCMarkdowns
  MaxWords = 3
  SemanticFloor = 2
  Prompts = {"q", "task"}
  Explicit = {"q"}
  Delegated = {"task"}
  Candidates = 2
  Kept = 1
  MaxRuns = 2
  MaxCrashes = 1
  MaxFacts = 1
INVARIANTS
  NeverCompareIncompatible
CHECK_DEADLOCK FALSE
