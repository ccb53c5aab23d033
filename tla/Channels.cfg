\* Up to two faults, one restart, and a window of two clock values;
\* three mails and their answers, two faults, two restarts; three events of two
\* senders on each of the other channels; two calls of three frames each;
\* two turns of up to two calls of two tools.
CONSTANTS
  Senders = {"owner", "listed"}
  Owners = {"owner"}
  AllowedSenders = {"listed"}
  Messages = {"m1", "m2"}
  From <- MCFrom
  Side <- MCSide
  Redelivers = {"meta"}
  Sockets = {"k"}
  Window = 1
  Cap = 1
  Codes = {"c"}
  CodeTtl = 0
  MaxSocketMessages = 2
  MaxIssues = 1
  MaxFaults = 2
  MaxRestarts = 1
  Mails = 3
  PageSize = 8
  MaxMailFaults = 2
  MaxMailRestarts = 2
  MaxEvents = 3
  Wire <- MCWire
  Delivery <- MCDelivery
  Streams = {"s1", "s2"}
  Caller <- MCCaller
  BufferCap = 2
  MaxFrames = 3
  Tools = {"a", "b"}
  MaxParallel = 2
  MaxTurns = 2
SPECIFICATION ChannelsSpec
INVARIANTS
  AdmissionBounded
  MailAnsweredOnce
  AnsweredAtHome
  SpeechIsItsCallers
  ConversationIsWhole
PROPERTIES
  EveryMessageIsTaken
\* Processes to which nothing comes stay as they are.
CHECK_DEADLOCK FALSE
