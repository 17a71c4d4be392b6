SPECIFICATION Spec
CONSTANTS
  q1 = q1
  Requests = {q1}
  Streams <- AllStreams
  MaxConcurrent = 1
  ReconnectMin = 4
  ReconnectMax = 4
  MaxDials = 2
  MaxChunks = 1
  Events = {"break"}
SYMMETRY Interchangeable
INVARIANTS OneWriter
CHECK_DEADLOCK FALSE
