SPECIFICATION BridgeSpec
CONSTANTS
  Tasks = {1, 2}
  Patches <- BridgePatches
  RemoteNodes = {2}
  Calls = {"c1", "c2"}
  MaxRemoteTasks = 2
  Executors = {"e1"}
  MaxWorkers = 1
  MaxResumes = 1
  MaxCrashes = 1
INVARIANTS
  WakeIsAccepted
  ResultJoinsItsNode
  CancelIsComplete
PROPERTIES
  FollowedNodeIsWoken
\* A run that returned and is not resumed again stays as it is.
CHECK_DEADLOCK FALSE
