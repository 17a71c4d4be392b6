SPECIFICATION FairSpec
CONSTANTS
  q1 = q1
  q2 = q2
  Requests = {q1, q2}
  Streams <- FirstStreams
  MaxConcurrent = 1
  ReconnectMin = 4
  ReconnectMax = 4
  MaxDials = 1
  MaxChunks = 0
  Events = {"break", "cancel", "nodial", "nomodels"}
INVARIANTS CancelsBelongToHandlers LoadIsCounted
PROPERTIES HandlersFinish
CHECK_DEADLOCK FALSE
