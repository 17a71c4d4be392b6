SPECIFICATION Spec
CONSTANTS
  q1 = q1
  Requests = {q1}
  Streams <- AllStreams
  MaxConcurrent = 1
  ReconnectMin = 4
  ReconnectMax = 4
  MaxDials = 2
  MaxChunks = 2
  Events = {"cut", "break", "backend", "flip"}
INVARIANTS TypeOK IndInv ReadLoopKeepsConn HolesAreReconnects StreamsAreEnded
PROPERTIES AnswersQuestions
CHECK_DEADLOCK FALSE
