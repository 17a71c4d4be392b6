SPECIFICATION Spec
CONSTANTS
  m1 = m1
  s1 = s1
  q1 = q1
  NoSession = NoSession
  Machines = {m1}
  Sessions = {s1}
  Requests = {q1}
  MachineOf <- OneMachineOf
  TargetOf <- OneTargetOf
  Streams <- AllStreams
  MaxConcurrent = 1
  MaxRetries = 1
  StreamCap = 1
  MaxChunks = 0
  InboxCap = 1
  Events = {"cancel"}
SYMMETRY Symmetric
INVARIANTS NeverPanics
CHECK_DEADLOCK FALSE
