SPECIFICATION FairSpec
CONSTANTS
  m1 = m1
  s1 = s1
  q1 = q1
  NoSession = NoSession
  Machines = {m1}
  Sessions = {s1}
  Requests = {q1}
  MachineOf <- OneMachineOf
  TargetOf <- OneTargetOf
  Streams <- NoStreams
  MaxConcurrent = 1
  MaxRetries = 2
  StreamCap = 1
  MaxChunks = 0
  InboxCap = 1
  Events = {"drop", "quit", "revoke", "evict", "stall"}
INVARIANTS TypeOK
PROPERTIES HandlersReturn RevokedGoesOffline CompletionIsOneQuestion
CHECK_DEADLOCK FALSE
