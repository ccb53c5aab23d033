SPECIFICATION ServiceSpec
CONSTANTS
  Scopes <- MCScopes
  Sources = {"paper"}
  Contents = {"first", "second"}
  Models = {"m1", "m2"}
  MaxRecords = 5
  MaxRestarts = 1
  TaskIds = {"t1"}
  PushAttempts = 2
  MaxServerRestarts = 2
  Steps = {"a", "b"}
  MaxEvents = 4
  MaxDrops = 2
  RunResults <- MCRunResults
  Proposals <- MCProposals
  Poisoned = {"<b>"}
  Retries = 1
  MaxTurns = 1
  Markdowns <- MCMarkdowns
  MaxWords = 3
  SemanticFloor = 2
  Prompts = {"q", "task"}
  Explicit = {"q"}
  Delegated = {"task"}
  Candidates = 2
  Kept = 1
  MaxRuns = 2
  MaxCrashes = 1
  MaxFacts = 1
INVARIANTS
  ReturnedIsKept
  ChainHasOneHead
  EvidenceIsSound
  OpenIsAttended
  NotificationsTellTheEnd
  ViewWasTrue
  WarrantIsDrawn
  ConfidenceIsEarned
PROPERTIES
  OutcomeIsFinal
  EveryTaskEnds
  EndIsSeen
\* A store, a server, a view or a page that nobody uses stays as it is.
CHECK_DEADLOCK FALSE
