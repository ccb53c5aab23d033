SPECIFICATION TasksSpec
CONSTANTS
  TaskIds = {"t1"}
  PushAttempts = 2
  MaxServerRestarts = 0
PROPERTIES
  CancelSticks
CHECK_DEADLOCK FALSE
