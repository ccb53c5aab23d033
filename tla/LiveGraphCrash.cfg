SPECIFICATION FairSpec
CONSTANTS
  Tasks <- CrashTasks
  Patches <- CrashPatches
  Executors = {"e1"}
  MaxWorkers = 2
  MaxResumes = 2
  MaxCrashes = 1
INVARIANTS
  TypeOK
  FinishedIsQuiet
  CancelledIsJournalled
  NothingRunnableLeft
  BoundedWork
PROPERTIES
  RunReturns
\* A run that returned and is not resumed again stays as it is.
CHECK_DEADLOCK FALSE
