SPECIFICATION FairSpec
CONSTANTS
  m1 = m1
  s1 = s1
  s2 = s2
  q1 = q1
  NoSession = NoSession
  Machines = {m1}
  Sessions = {s1, s2}
  Requests = {q1}
  MachineOf <- OneMachineOf
  TargetOf <- OneTargetOf
  Streams <- AllStreams
  MaxConcurrent = 1
  MaxRetries = 1
  StreamCap = 1
  MaxChunks = 2
  InboxCap = 2
  Events = {"drop", "survive", "cancel"}
INVARIANTS RegisteredUsable WaitersAreKnown
PROPERTIES InOrder HandlersReturn
CHECK_DEADLOCK FALSE
