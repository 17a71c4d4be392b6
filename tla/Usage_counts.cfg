SPECIFICATION Spec
CONSTANTS
  m1 = m1
  m2 = m2
  s1 = s1
  s2 = s2
  s3 = s3
  q1 = q1
  q2 = q2
  t1 = t1
  t2 = t2
  NoSession = NoSession
  Machines = {m1}
  Sessions = {s1, s2}
  MachineOf <- OneMachine
  Requests = {q1}
  Tokens = {t1, t2}
  Tick = 2
  MaxTime = 3
  Events = {"discard", "fail", "crash"}
SYMMETRY InOneMachine
INVARIANTS TypeOK IndInv CountedAtMostTwice TokensKept UptimeBounded
CHECK_DEADLOCK FALSE
