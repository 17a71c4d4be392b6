SPECIFICATION Spec
CONSTANTS
  u1 = u1
  u2 = u2
  a1 = a1
  a2 = a2
  Users = {u1, u2}
  IPs = {a1, a2}
  Limit = 2
  Window = 3
  MaxNow = 5
SYMMETRY Interchangeable
INVARIANTS WindowHolds RefusalsAreFree IndInv
CHECK_DEADLOCK FALSE
