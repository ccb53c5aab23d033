SPECIFICATION AgentSpec
CONSTANTS
  Tasks <- NodeIds
  Patches = {}
  Executors = {"e1"}
  MaxWorkers = 4
  MaxResumes = 0
  MaxCrashes = 0
  Requests <- ResearchRequest
INVARIANTS
  StopIsDeliberate
CHECK_DEADLOCK FALSE
