SPECIFICATION Spec
CONSTANTS
  Tasks <- RaceTasks
  Patches <- RacePatches
  Executors = {"e1", "e2"}
  MaxWorkers = 2
  MaxResumes = 2
  MaxCrashes = 1
INVARIANTS
  OutcomeOnce
  DecidedOnce
  NoOutcomeForgotten
PROPERTIES
  TerminalIsFinal
  FinishedIsFrozen
  ImplementsRunLedger
\* A run that returned and is not resumed again stays as it is.
CHECK_DEADLOCK FALSE
