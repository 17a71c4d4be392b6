SPECIFICATION Spec
CONSTANTS
  owner = owner
  u1 = u1
  u2 = u2
  k1 = k1
  k2 = k2
  k3 = k3
  j1 = j1
  r1 = r1
  r2 = r2
  NoKey = NoKey
  NoInvite = NoInvite
  Users = {owner, u1, u2}
  Keys = {k1, k2, k3}
  Invites = {}
  OwnerOf <- OneOwner
  MaxUses = 1
  Joins = {}
  JoinUser <- OwnerJoins
  Rotations = {r1, r2}
  Removals = {}
  Chats = {}
  ChatUser <- MemberChats
  ChatKey <- OneMachineChats
  Faults = {"crash", "error"}
SYMMETRY Interchangeable
INVARIANTS OneSuccessor
CHECK_DEADLOCK FALSE
