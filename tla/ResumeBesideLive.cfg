SPECIFICATION FairSpec
CONSTANTS
  Tasks <- RaceTasks
  Patches <- RacePatches
  Executors = {"e1", "e2"}
  MaxWorkers = 2
  MaxResumes = 1
  MaxCrashes = 0
PROPERTIES
  OnlyInterruptedReturned
CHECK_DEADLOCK FALSE
