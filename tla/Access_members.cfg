SPECIFICATION FairSpec
CONSTANTS
  owner = owner
  u1 = u1
  u2 = u2
  k1 = k1
  k2 = k2
  i1 = i1
  j1 = j1
  j2 = j2
  r1 = r1
  v1 = v1
  c1 = c1
  NoKey = NoKey
  NoInvite = NoInvite
  Users = {owner, u1, u2}
  Keys = {k1, k2}
  Invites = {i1}
  OwnerOf <- OneOwner
  MaxUses = 1
  Joins = {j1, j2}
  JoinUser <- OwnerJoins
  Rotations = {r1}
  Removals = {v1}
  Chats = {c1}
  ChatUser <- MemberChats
  ChatKey <- OneMachineChats
  Faults = {}
INVARIANTS TypeOK IndInv UsesWithinLimit RetirementHolds StreamsWereInvited
PROPERTIES RevokedAdmitsNobody RevocationCompletes RedemptionIsOneStep
CHECK_DEADLOCK FALSE
