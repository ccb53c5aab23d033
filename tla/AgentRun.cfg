SPECIFICATION AgentFairSpec
CONSTANTS
  Tasks <- NodeIds
  Patches = {}
  Executors = {"e1"}
  MaxWorkers = 2
  MaxResumes = 1
  MaxCrashes = 1
  Requests <- AllRequests
INVARIANTS
  PlannerNeverRejected
  WorkersHaveTheirInputs
  RequestsAreAnswered
\* A run that returned and is not resumed again stays as it is.
CHECK_DEADLOCK FALSE
