SPECIFICATION Spec
CONSTANTS
  m1 = m1
  s1 = s1
  s2 = s2
  q1 = q1
  q2 = q2
  NoSession = NoSession
  Machines = {m1}
  Sessions = {s1, s2}
  Requests = {q1, q2}
  MachineOf <- OneMachineOf
  TargetOf <- OneTargetOf
  Streams <- FirstStreams
  MaxConcurrent = 1
  MaxRetries = 1
  StreamCap = 1
  MaxChunks = 0
  InboxCap = 1
  Events = {"drop", "quit"}
SYMMETRY SessionsSymmetric
INVARIANTS IndInv ReplacedAreWoken 
CHECK_DEADLOCK FALSE
