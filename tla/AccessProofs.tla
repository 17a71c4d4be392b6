------------------------------ MODULE AccessProofs ----------------------------
(***************************************************************************)
(* What holds of keys, invites and bindings for every number of users,      *)
(* machines, invites and concurrent handlers, with or without crashes and   *)
(* failed statements.                                                       *)
(***************************************************************************)
EXTENDS Access, FiniteSetTheorems, TLAPS

USE NilAssumption, ActorsAssumption, LimitAssumption
    DEF keyVars, inviteVars, memberVars, joinVars, rotateVars
------------------------------------------------------------------------------
(* Types.                                                                   *)

(* Keys and agents keep the types.                                          *)
LEMMA TypeProvider ==
  ASSUME TypeOK, IndInv, NEW k \in Keys, Provider(k)
  PROVE  TypeOK'
<1>1. CASE CreateKey(k)
  BY <1>1 DEF TypeOK, CreateKey
<1>2. CASE AcceptAgent(k)
  BY <1>2 DEF TypeOK, AcceptAgent
<1>3. CASE RegisterAgent(k)
  BY <1>3 DEF TypeOK, RegisterAgent
<1>4. CASE AgentLeaves(k)
  BY <1>4 DEF TypeOK, AgentLeaves, EndStreams
<1> QED BY <1>1, <1>2, <1>3, <1>4 DEF Provider

(* Creating, revoking and expiring invites keep the types.                  *)
LEMMA TypeInviting ==
  ASSUME TypeOK, IndInv, NEW i \in Invites, Inviting(i)
  PROVE  TypeOK'
<1>1. ASSUME NEW k \in Keys, NEW n \in 1..MaxUses, CreateInvite(i, k, n)
      PROVE  TypeOK'
  BY <1>1 DEF TypeOK, CreateInvite
<1>2. CASE RevokeInvite(i)
  BY <1>2 DEF TypeOK, RevokeInvite
<1>3. CASE Expire(i)
  BY <1>3 DEF TypeOK, Expire
<1> QED BY <1>1, <1>2, <1>3 DEF Inviting

(* Redeeming a PIN keeps the types.                                         *)
LEMMA TypeJoin == ASSUME TypeOK, IndInv, NEW j \in Joins, Join(j) PROVE TypeOK'
<1>1. ASSUME NEW i \in Invites, LookupPIN(j, i) PROVE TypeOK'
  BY <1>1 DEF TypeOK, LookupPIN
<1>2. CASE RedeemAsMember(j)
  <2>1. pin[j] \in Invites /\ invKey[pin[j]] \in Keys /\ JoinUser[j] \in Users
    BY <1>2 DEF RedeemAsMember, IndInv, CheckedPins
  <2>2. joining' \in [Joins -> {"idle", "checked", "redeemed", "keyless", "done"}]
    BY <1>2 DEF RedeemAsMember, TypeOK
  <2>3. CASE ~CanTakeUse(pin[j])
    BY <1>2, <2>2, <2>3 DEF RedeemAsMember, TypeOK
  <2>4. CASE CanTakeUse(pin[j])
    <3>1. uses' = [uses EXCEPT ![pin[j]] = @ + 1]
      BY <1>2, <2>4 DEF RedeemAsMember, CountUse
    <3>2. binding' = [binding EXCEPT ![JoinUser[j]][invKey[pin[j]]] = pin[j]]
      BY <1>2, <2>4 DEF RedeemAsMember
    <3>3. granted' = [granted EXCEPT ![pin[j]] = @ \cup {j}]
      BY <1>2, <2>4 DEF RedeemAsMember
    <3>4. uses' \in [Invites -> Nat]
      BY <2>1, <3>1 DEF TypeOK
    <3>5. binding' \in [Users -> [Keys -> Invites \cup {NoInvite}]]
      BY <2>1, <3>2 DEF TypeOK
    <3>6. granted' \in [Invites -> SUBSET Joins]
      BY <2>1, <3>3 DEF TypeOK
    <3> QED BY <1>2, <2>2, <3>4, <3>5, <3>6 DEF RedeemAsMember, TypeOK
  <2> QED BY <2>3, <2>4
<1>3. CASE RedeemAsOwner(j)
  <2>1. pin[j] \in Invites
    BY <1>3 DEF RedeemAsOwner, IndInv, CheckedPins
  <2>2. \/ uses' = uses
        \/ uses[pin[j]] < maxUses[pin[j]] /\ uses' = [uses EXCEPT ![pin[j]] = @ + 1]
    BY <1>3 DEF RedeemAsOwner
  <2>3. uses \in [Invites -> Nat] /\ uses[pin[j]] + 1 \in Nat
    BY <2>1 DEF TypeOK
  <2>4. uses' \in [Invites -> Nat]
    BY <2>2, <2>3
  <2>5. joining' \in [Joins -> {"idle", "checked", "redeemed", "keyless", "done"}]
    BY <1>3 DEF RedeemAsOwner, TypeOK
  <2> QED BY <1>3, <2>4, <2>5 DEF RedeemAsOwner, TypeOK
<1>4. CASE ListKeys(j)
  BY <1>4 DEF TypeOK, ListKeys
<1>5. CASE CreateConsumerKey(j)
  BY <1>5 DEF TypeOK, CreateConsumerKey
<1> QED BY <1>1, <1>2, <1>3, <1>4, <1>5 DEF Join

(* Revoking or regenerating a key keeps the types.                          *)
LEMMA TypeRotation ==
  ASSUME TypeOK, IndInv, NEW r \in Rotations, Rotation(r)
  PROVE  TypeOK'
<1>1. ASSUME NEW k \in Keys, RevokeKey(r, k) PROVE TypeOK'
  BY <1>1 DEF TypeOK, RevokeKey, Revocable, Rotating
<1>2. ASSUME NEW k \in Keys, CreateSuccessor(r, k) PROVE TypeOK'
  <2>1. target[r] \in Keys
    BY <1>2 DEF CreateSuccessor, IndInv, RotationTargets, Rotating
  <2> QED BY <1>2, <2>1 DEF CreateSuccessor, TypeOK, Rotating
<1>3. CASE UnregisterMachine(r)
  <2>1. target[r] \in Keys
    BY <1>3 DEF UnregisterMachine, IndInv, RotationTargets, Rotating
  <2>6. agent' = agent \/ agent' = [agent EXCEPT ![target[r]] = "offline"]
    BY <1>3 DEF UnregisterMachine
  <2>2. agent' \in [Keys -> {"offline", "accepted", "online"}]
    BY <2>6 DEF TypeOK
  <2>3. chat' \in [Chats -> {"idle", "authenticated", "allowed", "streaming", "done"}]
    BY <1>3 DEF UnregisterMachine, EndStreams, TypeOK
  <2>4. rotating' \in [Rotations -> {"idle", "done"} \cup Rotating]
    BY <1>3 DEF UnregisterMachine, Rotating, TypeOK
  <2>5. swept' \in SUBSET Keys /\ retired' \in SUBSET Keys
    BY <1>3, <2>1 DEF UnregisterMachine, TypeOK
  <2> QED BY <1>3, <2>2, <2>3, <2>4, <2>5 DEF UnregisterMachine, TypeOK
<1>4. CASE RetireInvites(r)
  <2>1. target[r] \in Keys
    BY <1>4 DEF RetireInvites, IndInv, RotationTargets, Rotating
  <2>2. revoked' \in SUBSET Invites
    BY <1>4 DEF RetireInvites, RevokeInvites, TypeOK
  <2>3. swept' \in SUBSET Keys /\ retired' \in SUBSET Keys
    BY <1>4, <2>1 DEF RetireInvites, TypeOK
  <2>4. rotating' \in [Rotations -> {"idle", "done"} \cup Rotating]
    BY <1>4 DEF RetireInvites, Rotating, TypeOK
  <2> QED BY <1>4, <2>2, <2>3, <2>4 DEF RetireInvites, TypeOK
<1>5. CASE RetireBindings(r)
  <2>1. target[r] \in Keys
    BY <1>5 DEF RetireBindings, IndInv, RotationTargets, Rotating
  <2>2. binding' \in [Users -> [Keys -> Invites \cup {NoInvite}]]
    BY <1>5 DEF RetireBindings, TypeOK
  <2>3. rotating' \in [Rotations -> {"idle", "done"} \cup Rotating]
    BY <1>5 DEF RetireBindings, AfterRetirement, Rotating, TypeOK
  <2> QED BY <1>5, <2>1, <2>2, <2>3 DEF RetireBindings, TypeOK
<1>6. CASE CreateMachine(r)
  <2>1. target[r] \in Keys
    BY <1>6 DEF CreateMachine, IndInv, RotationTargets, Rotating
  <2>2. successor[target[r]] \in SUBSET Keys
    BY <2>1 DEF TypeOK
  <2> QED BY <1>6, <2>2 DEF CreateMachine, TypeOK
<1>7. CASE StatementFails(r)
  BY <1>7 DEF TypeOK, StatementFails, AfterFailure, AfterRetirement, Rotating
<1> QED BY <1>1, <1>2, <1>3, <1>4, <1>5, <1>6, <1>7 DEF Rotation, Retirement

(* Revoking a binding keeps the types.                                      *)
LEMMA TypeRemoval ==
  ASSUME TypeOK, IndInv, NEW v \in Removals, Removal(v)
  PROVE  TypeOK'
<1>1. ASSUME NEW u \in Users, NEW k \in Keys, RevokeBinding(v, u, k) PROVE TypeOK'
  BY <1>1 DEF TypeOK, RevokeBinding
<1>2. CASE CancelMachineRequests(v)
  BY <1>2 DEF TypeOK, CancelMachineRequests, EndStreams
<1> QED BY <1>1, <1>2 DEF Removal

(* A chat request keeps the types.                                          *)
LEMMA TypeChat == ASSUME TypeOK, IndInv, NEW c \in Chats, Chat(c) PROVE TypeOK'
<1>1. CASE RequireAPIKey(c)
  BY <1>1 DEF TypeOK, RequireAPIKey
<1>2. CASE Authorize(c)
  BY <1>2 DEF TypeOK, Authorize, CanAccessMachine
<1>3. CASE StartStream(c)
  BY <1>3 DEF TypeOK, StartStream
<1>4. CASE EndStream(c)
  BY <1>4 DEF TypeOK, EndStream
<1> QED BY <1>1, <1>2, <1>3, <1>4 DEF Chat

(* Revoking a consumer key keeps the types.                                 *)
LEMMA TypeRevokeConsumerKey ==
  ASSUME TypeOK, IndInv, NEW u \in Users, RevokeConsumerKey(u)
  PROVE  TypeOK'
  BY DEF TypeOK, RevokeConsumerKey, Keyed

(* A crash keeps the types.                                                 *)
LEMMA TypeCrash == ASSUME TypeOK, IndInv, Crash PROVE TypeOK'
  BY DEF TypeOK, Crash, Rotating

(* Every statement and every handler keeps the types.                       *)
LEMMA TypeNext == TypeOK /\ IndInv /\ [Next]_vars => TypeOK'
<1> SUFFICES ASSUME TypeOK, IndInv, [Next]_vars PROVE TypeOK'
  OBVIOUS
<1>1. CASE Next
  BY <1>1, TypeProvider, TypeInviting, TypeJoin, TypeRotation, TypeRemoval,
     TypeChat, TypeRevokeConsumerKey, TypeCrash DEF Next
<1>2. CASE UNCHANGED vars
  BY <1>2 DEF TypeOK, vars
<1> QED BY <1>1, <1>2
------------------------------------------------------------------------------
(* The inductive invariant.                                                 *)

(* Keys and agents keep the invariant.                                      *)
LEMMA IndProvider ==
  ASSUME TypeOK, IndInv, NEW k \in Keys, Provider(k)
  PROVE  IndInv'
<1>1. CASE CreateKey(k)
  <2>1. UsesWithinLimit' /\ GrantsAreFinite' /\ FreshInvites'
        /\ InvitesHaveMachines' /\ CheckedPins' /\ BindingsWereGranted'
        /\ SweptInvites' /\ RetiredAreSwept' /\ RetirementHolds' /\ OneSuccessor'
        /\ StreamsWereInvited'
    BY <1>1 DEF IndInv, CreateKey, UsesWithinLimit, GrantsAreFinite, FreshInvites,
       InvitesHaveMachines, CheckedPins, BindingsWereGranted, SweptInvites,
       RetiredAreSwept, RetirementHolds, OneSuccessor, StreamsWereInvited, Invited
  <2>2. RotationTargets'
    BY <1>1 DEF TypeOK, IndInv, CreateKey, RotationTargets, Rotating
  <2>3. Successors'
    BY <1>1 DEF TypeOK, IndInv, CreateKey, Successors
  <2> QED BY <2>1, <2>2, <2>3 DEF IndInv
<1>2. CASE AcceptAgent(k)
  <2>1. UsesWithinLimit' /\ GrantsAreFinite' /\ FreshInvites'
        /\ InvitesHaveMachines' /\ CheckedPins' /\ BindingsWereGranted'
        /\ SweptInvites' /\ RetiredAreSwept' /\ RetirementHolds'
        /\ RotationTargets' /\ Successors' /\ OneSuccessor' /\ StreamsWereInvited'
    BY <1>2 DEF IndInv, AcceptAgent, UsesWithinLimit, GrantsAreFinite,
       FreshInvites, InvitesHaveMachines, CheckedPins, BindingsWereGranted,
       SweptInvites, RetiredAreSwept, RetirementHolds, RotationTargets, Successors,
       OneSuccessor, StreamsWereInvited, Rotating, Invited
  <2> QED BY <2>1 DEF IndInv
<1>3. CASE RegisterAgent(k)
  <2>1. UsesWithinLimit' /\ GrantsAreFinite' /\ FreshInvites' /\ CheckedPins'
        /\ BindingsWereGranted' /\ SweptInvites'
        /\ RetiredAreSwept' /\ RetirementHolds' /\ RotationTargets' /\ Successors'
        /\ OneSuccessor' /\ StreamsWereInvited'
    BY <1>3 DEF IndInv, RegisterAgent, UsesWithinLimit, GrantsAreFinite,
       FreshInvites, CheckedPins, BindingsWereGranted, SweptInvites,
       RetiredAreSwept, RetirementHolds, RotationTargets, Successors, OneSuccessor,
       StreamsWereInvited, Rotating, Invited
  <2>2. InvitesHaveMachines'
    BY <1>3 DEF TypeOK, IndInv, RegisterAgent, InvitesHaveMachines
  <2> QED BY <2>1, <2>2 DEF IndInv
<1>4. CASE AgentLeaves(k)
  <2>1. UsesWithinLimit' /\ GrantsAreFinite' /\ FreshInvites'
        /\ InvitesHaveMachines' /\ CheckedPins' /\ BindingsWereGranted'
        /\ SweptInvites' /\ RetiredAreSwept' /\ RetirementHolds'
        /\ RotationTargets' /\ Successors' /\ OneSuccessor'
    BY <1>4 DEF IndInv, AgentLeaves, UsesWithinLimit, GrantsAreFinite,
       FreshInvites, InvitesHaveMachines, CheckedPins, BindingsWereGranted,
       SweptInvites, RetiredAreSwept, RetirementHolds, RotationTargets, Successors,
       OneSuccessor, Rotating
  <2>2. StreamsWereInvited'
    BY <1>4 DEF TypeOK, IndInv, AgentLeaves, EndStreams, StreamsWereInvited, Invited
  <2> QED BY <2>1, <2>2 DEF IndInv
<1> QED BY <1>1, <1>2, <1>3, <1>4 DEF Provider

(* Creating, revoking and expiring invites keep the invariant.              *)
LEMMA IndInviting ==
  ASSUME TypeOK, IndInv, NEW i \in Invites, Inviting(i)
  PROVE  IndInv'
<1>1. ASSUME NEW k \in Keys, NEW n \in 1..MaxUses, CreateInvite(i, k, n)
      PROVE  IndInv'
  <2>1. GrantsAreFinite' /\ RetiredAreSwept' /\ RotationTargets' /\ Successors'
        /\ OneSuccessor'
    BY <1>1 DEF IndInv, CreateInvite, GrantsAreFinite, RetiredAreSwept,
       RotationTargets, Successors, OneSuccessor, Rotating
  <2>2. UsesWithinLimit'
    <3> SUFFICES ASSUME NEW x \in Invites
                 PROVE  Cardinality(granted'[x]) <= uses'[x] /\ uses'[x] <= maxUses'[x]
      BY DEF UsesWithinLimit
    <3>1. granted' = granted /\ uses' = uses /\ maxUses' = [maxUses EXCEPT ![i] = n]
      BY <1>1 DEF CreateInvite
    <3>2. Cardinality(granted[x]) <= uses[x] /\ uses[x] <= maxUses[x]
      BY DEF IndInv, UsesWithinLimit
    <3>3. CASE x = i
      BY <1>1, <3>1, <3>2, <3>3 DEF CreateInvite, TypeOK, IndInv, FreshInvites
    <3>4. CASE x # i
      BY <3>1, <3>2, <3>4 DEF TypeOK
    <3> QED BY <3>3, <3>4
  <2>3. FreshInvites'
    BY <1>1 DEF TypeOK, IndInv, CreateInvite, FreshInvites
  <2>4. InvitesHaveMachines'
    BY <1>1 DEF TypeOK, IndInv, CreateInvite, InvitesHaveMachines
  <2>5. CheckedPins'
    BY <1>1 DEF TypeOK, IndInv, CreateInvite, CheckedPins
  <2>6. BindingsWereGranted'
    BY <1>1 DEF TypeOK, IndInv, CreateInvite, BindingsWereGranted
  <2>7. SweptInvites'
    BY <1>1 DEF TypeOK, IndInv, CreateInvite, SweptInvites
  <2>8. RetirementHolds'
    BY <1>1 DEF TypeOK, IndInv, CreateInvite, RetirementHolds
  <2>9. StreamsWereInvited'
    <3> SUFFICES ASSUME NEW d \in Chats, chat'[d] \in {"allowed", "streaming"}
                 PROVE  Invited(ChatUser[d], ChatKey[d])'
      BY DEF StreamsWereInvited
    <3>1. Invited(ChatUser[d], ChatKey[d])
      BY <1>1 DEF CreateInvite, IndInv, StreamsWereInvited
    <3>2. \A x \in Invites : invKey[x] \in Keys => invKey'[x] = invKey[x]
      BY <1>1 DEF CreateInvite, TypeOK
    <3> QED BY <1>1, <3>1, <3>2 DEF Invited, CreateInvite
  <2> QED BY <2>1, <2>2, <2>3, <2>4, <2>5, <2>6, <2>7, <2>8, <2>9 DEF IndInv
<1>2. CASE RevokeInvite(i)
  <2>1. UsesWithinLimit' /\ GrantsAreFinite' /\ FreshInvites'
        /\ InvitesHaveMachines' /\ CheckedPins' /\ BindingsWereGranted'
        /\ RetiredAreSwept' /\ RetirementHolds' /\ RotationTargets' /\ Successors'
        /\ OneSuccessor' /\ StreamsWereInvited'
    BY <1>2 DEF IndInv, RevokeInvite, UsesWithinLimit, GrantsAreFinite,
       FreshInvites, InvitesHaveMachines, CheckedPins, BindingsWereGranted,
       RetiredAreSwept, RetirementHolds, RotationTargets, Successors, OneSuccessor,
       StreamsWereInvited, Rotating, Invited
  <2>2. SweptInvites'
    BY <1>2 DEF TypeOK, IndInv, RevokeInvite, SweptInvites
  <2> QED BY <2>1, <2>2 DEF IndInv
<1>3. CASE Expire(i)
  <2>1. UsesWithinLimit' /\ GrantsAreFinite' /\ FreshInvites'
        /\ InvitesHaveMachines' /\ CheckedPins' /\ BindingsWereGranted'
        /\ SweptInvites' /\ RetiredAreSwept' /\ RetirementHolds'
        /\ RotationTargets' /\ Successors' /\ OneSuccessor' /\ StreamsWereInvited'
    BY <1>3 DEF IndInv, Expire, UsesWithinLimit, GrantsAreFinite, FreshInvites,
       InvitesHaveMachines, CheckedPins, BindingsWereGranted, SweptInvites,
       RetiredAreSwept, RetirementHolds, RotationTargets, Successors, OneSuccessor,
       StreamsWereInvited, Rotating, Invited
  <2> QED BY <2>1 DEF IndInv
<1> QED BY <1>1, <1>2, <1>3 DEF Inviting

(* Redeeming a PIN keeps the invariant.                                     *)
LEMMA IndJoin == ASSUME TypeOK, IndInv, NEW j \in Joins, Join(j) PROVE IndInv'
<1>1. ASSUME NEW i \in Invites, LookupPIN(j, i) PROVE IndInv'
  <2>1. UsesWithinLimit' /\ GrantsAreFinite' /\ FreshInvites'
        /\ InvitesHaveMachines' /\ BindingsWereGranted' /\ SweptInvites'
        /\ RetiredAreSwept' /\ RetirementHolds' /\ RotationTargets' /\ Successors'
        /\ OneSuccessor' /\ StreamsWereInvited'
    BY <1>1 DEF IndInv, LookupPIN, UsesWithinLimit, GrantsAreFinite, FreshInvites,
       InvitesHaveMachines, BindingsWereGranted, SweptInvites, RetiredAreSwept,
       RetirementHolds, RotationTargets, Successors, OneSuccessor,
       StreamsWereInvited, Rotating, Invited
  <2>2. CheckedPins'
    BY <1>1 DEF TypeOK, IndInv, LookupPIN, CheckedPins
  <2> QED BY <2>1, <2>2 DEF IndInv
<1>2. CASE RedeemAsMember(j)
  <2>1. InvitesHaveMachines' /\ SweptInvites' /\ RetiredAreSwept'
        /\ RotationTargets' /\ Successors' /\ OneSuccessor'
    BY <1>2 DEF IndInv, RedeemAsMember, InvitesHaveMachines, SweptInvites,
       RetiredAreSwept, RotationTargets, Successors, OneSuccessor, Rotating
  <2>2. UsesWithinLimit'
    <3>1. pin[j] \in Invites /\ invKey[pin[j]] \in Keys /\ JoinUser[j] \in Users
      BY <1>2 DEF RedeemAsMember, IndInv, CheckedPins
    <3>2. CASE ~CanTakeUse(pin[j])
      BY <1>2, <3>2 DEF RedeemAsMember, IndInv, UsesWithinLimit
    <3>3. CASE CanTakeUse(pin[j])
      <4>1. uses' = [uses EXCEPT ![pin[j]] = @ + 1] /\ maxUses' = maxUses
        BY <1>2, <3>3 DEF RedeemAsMember, CountUse
      <4>2. granted' = [granted EXCEPT ![pin[j]] = @ \cup {j}]
        BY <1>2, <3>3 DEF RedeemAsMember
      <4> SUFFICES ASSUME NEW x \in Invites
                   PROVE  Cardinality(granted'[x]) <= uses'[x] /\ uses'[x] <= maxUses'[x]
        BY DEF UsesWithinLimit
      <4>3. /\ Cardinality(granted[x]) <= uses[x] /\ uses[x] <= maxUses[x]
            /\ IsFiniteSet(granted[x])
        BY DEF IndInv, UsesWithinLimit, GrantsAreFinite
      <4>4. CASE x = pin[j]
        <5>1. granted'[x] = granted[x] \cup {j}
          BY <4>2, <4>4 DEF TypeOK
        <5>2. /\ Cardinality(granted[x]) \in Nat
              /\ Cardinality(granted[x] \cup {j}) =
                   IF j \in granted[x] THEN Cardinality(granted[x]) ELSE Cardinality(granted[x]) + 1
          BY <4>3, FS_AddElement, FS_CardinalityType, Zenon
        <5>3. /\ Cardinality(granted[x] \cup {j}) <= Cardinality(granted[x]) + 1
              /\ Cardinality(granted[x] \cup {j}) \in Nat
          BY <5>2
        <5>4. uses'[x] = uses[x] + 1 /\ uses[x] < maxUses[x]
          BY <3>3, <4>1, <4>4 DEF CanTakeUse, TypeOK
        <5>5. uses[x] \in Nat /\ maxUses[x] \in Nat
          BY DEF TypeOK
        <5> QED BY <4>1, <4>3, <5>1, <5>2, <5>3, <5>4, <5>5
      <4>5. CASE x # pin[j]
        BY <4>1, <4>2, <4>3, <4>5 DEF TypeOK
      <4> QED BY <4>4, <4>5
    <3> QED BY <3>2, <3>3
  <2>3. GrantsAreFinite'
    <3>1. pin[j] \in Invites /\ invKey[pin[j]] \in Keys /\ JoinUser[j] \in Users
      BY <1>2 DEF RedeemAsMember, IndInv, CheckedPins
    <3>2. CASE ~CanTakeUse(pin[j])
      BY <1>2, <3>2 DEF RedeemAsMember, IndInv, GrantsAreFinite
    <3>3. CASE CanTakeUse(pin[j])
      <4>1. granted' = [granted EXCEPT ![pin[j]] = @ \cup {j}]
        BY <1>2, <3>3 DEF RedeemAsMember
      <4> SUFFICES ASSUME NEW x \in Invites PROVE IsFiniteSet(granted'[x])
        BY DEF GrantsAreFinite
      <4>2. IsFiniteSet(granted[x]) /\ IsFiniteSet(granted[x] \cup {j})
        BY FS_AddElement DEF IndInv, GrantsAreFinite
      <4>3. granted'[x] = granted[x] \/ granted'[x] = granted[x] \cup {j}
        BY <4>1 DEF TypeOK
      <4> QED BY <4>2, <4>3
    <3> QED BY <3>2, <3>3
  <2>4. FreshInvites'
    <3>1. pin[j] \in Invites /\ invKey[pin[j]] \in Keys
      BY <1>2 DEF RedeemAsMember, IndInv, CheckedPins
    <3>2. invKey' = invKey /\ (uses' = uses \/ uses' = [uses EXCEPT ![pin[j]] = @ + 1])
      BY <1>2 DEF RedeemAsMember, CountUse
    <3> QED BY <3>1, <3>2 DEF TypeOK, IndInv, FreshInvites
  <2>5. CheckedPins'
    BY <1>2 DEF TypeOK, IndInv, RedeemAsMember, CountUse, CanTakeUse, CheckedPins
  <2>6. BindingsWereGranted'
    <3>1. pin[j] \in Invites /\ invKey[pin[j]] \in Keys /\ JoinUser[j] \in Users
      BY <1>2 DEF RedeemAsMember, IndInv, CheckedPins
    <3>2. CASE ~CanTakeUse(pin[j])
      BY <1>2, <3>2 DEF RedeemAsMember, IndInv, BindingsWereGranted
    <3>3. CASE CanTakeUse(pin[j])
      <4> DEFINE i == pin[j]
                 m == JoinUser[j]
                 k == invKey[pin[j]]
      <4>1. invKey' = invKey /\ binding' = [binding EXCEPT ![m][k] = i]
        BY <1>2, <3>3 DEF RedeemAsMember
      <4>2. granted' = [granted EXCEPT ![i] = @ \cup {j}]
        BY <1>2, <3>3 DEF RedeemAsMember
      <4>3. \A x \in Invites : granted[x] \subseteq granted'[x]
        BY <3>1, <4>2 DEF TypeOK
      <4>4. j \in granted'[i]
        BY <3>1, <4>2 DEF TypeOK
      <4> SUFFICES ASSUME NEW y \in Users, NEW l \in Keys, binding'[y][l] # NoInvite
                   PROVE  /\ invKey'[binding'[y][l]] = l
                          /\ \E b \in granted'[binding'[y][l]] : JoinUser[b] = y
        BY DEF BindingsWereGranted
      <4>5. CASE y = m /\ l = k
        <5>1. binding'[y][l] = i
          BY <3>1, <4>1, <4>5 DEF TypeOK
        <5> QED BY <4>1, <4>4, <4>5, <5>1
      <4>6. CASE ~(y = m /\ l = k)
        <5>1. binding'[y][l] = binding[y][l]
          BY <3>1, <4>1, <4>6 DEF TypeOK
        <5>2. binding[y][l] \in Invites
          BY <5>1 DEF TypeOK
        <5>3. invKey[binding[y][l]] = l /\ \E b \in granted[binding[y][l]] : JoinUser[b] = y
          BY <5>1 DEF IndInv, BindingsWereGranted
        <5> QED BY <4>1, <4>3, <5>1, <5>2, <5>3
      <4> QED BY <4>5, <4>6
    <3> QED BY <3>2, <3>3
  <2>7. RetirementHolds'
    <3>1. pin[j] \in Invites /\ invKey[pin[j]] \in Keys /\ JoinUser[j] \in Users
      BY <1>2 DEF RedeemAsMember, IndInv, CheckedPins
    <3>2. CASE ~CanTakeUse(pin[j])
      BY <1>2, <3>2 DEF RedeemAsMember, IndInv, RetirementHolds
    <3>3. CASE CanTakeUse(pin[j])
      <4>1. /\ retired' = retired /\ late' = late
            /\ binding' = [binding EXCEPT ![JoinUser[j]][invKey[pin[j]]] = pin[j]]
        BY <1>2, <3>3 DEF RedeemAsMember
      <4> SUFFICES ASSUME NEW l \in retired, NEW y \in Users
                   PROVE  binding'[y][l] \in late \cup {NoInvite}
        BY <4>1 DEF RetirementHolds
      <4>2. CASE y = JoinUser[j] /\ l = invKey[pin[j]]
        <5>1. l \in swept /\ pin[j] \notin revoked
          BY <3>3 DEF IndInv, RetiredAreSwept, CanTakeUse
        <5>2. pin[j] \in late
          BY <3>1, <4>2, <5>1 DEF IndInv, SweptInvites
        <5>3. binding'[y][l] = pin[j]
          BY <3>1, <4>1, <4>2 DEF TypeOK
        <5> QED BY <5>2, <5>3
      <4>3. CASE ~(y = JoinUser[j] /\ l = invKey[pin[j]])
        <5>1. l \in Keys
          BY DEF TypeOK
        <5>2. binding'[y][l] = binding[y][l]
          BY <3>1, <4>1, <4>3, <5>1 DEF TypeOK
        <5> QED BY <5>2 DEF IndInv, RetirementHolds
      <4> QED BY <4>2, <4>3
    <3> QED BY <3>2, <3>3
  <2>8. StreamsWereInvited'
    <3> SUFFICES ASSUME NEW d \in Chats, chat'[d] \in {"allowed", "streaming"}
                 PROVE  Invited(ChatUser[d], ChatKey[d])'
      BY DEF StreamsWereInvited
    <3>1. pin[j] \in Invites
      BY <1>2 DEF RedeemAsMember, IndInv, CheckedPins
    <3>2. granted' = granted \/ granted' = [granted EXCEPT ![pin[j]] = @ \cup {j}]
      BY <1>2 DEF RedeemAsMember
    <3>3. ASSUME NEW x \in Invites PROVE granted[x] \subseteq granted'[x]
      <4>1. CASE granted' = [granted EXCEPT ![pin[j]] = @ \cup {j}]
        BY <3>1, <4>1 DEF TypeOK
      <4> QED BY <3>2, <4>1
    <3>4. chat' = chat /\ invKey' = invKey
      BY <1>2 DEF RedeemAsMember
    <3>5. Invited(ChatUser[d], ChatKey[d])
      BY <3>4 DEF IndInv, StreamsWereInvited
    <3> QED BY <3>3, <3>4, <3>5 DEF Invited
  <2> QED BY <2>1, <2>2, <2>3, <2>4, <2>5, <2>6, <2>7, <2>8 DEF IndInv
<1>3. CASE RedeemAsOwner(j)
  <2>1. GrantsAreFinite' /\ InvitesHaveMachines' /\ BindingsWereGranted'
        /\ SweptInvites' /\ RetiredAreSwept' /\ RetirementHolds'
        /\ RotationTargets' /\ Successors' /\ OneSuccessor' /\ StreamsWereInvited'
    BY <1>3 DEF IndInv, RedeemAsOwner, GrantsAreFinite, InvitesHaveMachines,
       BindingsWereGranted, SweptInvites, RetiredAreSwept, RetirementHolds,
       RotationTargets, Successors, OneSuccessor, StreamsWereInvited, Rotating,
       Invited
  <2>2. UsesWithinLimit'
    <3> SUFFICES ASSUME NEW x \in Invites
                 PROVE  Cardinality(granted[x]) <= uses'[x] /\ uses'[x] <= maxUses[x]
      BY <1>3 DEF RedeemAsOwner, UsesWithinLimit
    <3>1. /\ Cardinality(granted[x]) <= uses[x] /\ uses[x] <= maxUses[x]
          /\ Cardinality(granted[x]) \in Nat /\ uses[x] \in Nat /\ maxUses[x] \in Nat
      BY FS_CardinalityType DEF IndInv, UsesWithinLimit, GrantsAreFinite, TypeOK
    <3>2. \/ uses'[x] = uses[x]
          \/ uses'[x] = uses[x] + 1 /\ uses[x] < maxUses[x]
      BY <1>3 DEF RedeemAsOwner, TypeOK
    <3> QED BY <3>1, <3>2
  <2>3. FreshInvites'
    <3>1. pin[j] \in Invites /\ invKey[pin[j]] \in Keys
      BY <1>3 DEF RedeemAsOwner, IndInv, CheckedPins
    <3>2. invKey' = invKey /\ (uses' = uses \/ uses' = [uses EXCEPT ![pin[j]] = @ + 1])
      BY <1>3 DEF RedeemAsOwner
    <3> QED BY <3>1, <3>2 DEF TypeOK, IndInv, FreshInvites
  <2>4. CheckedPins'
    BY <1>3 DEF TypeOK, IndInv, RedeemAsOwner, CheckedPins
  <2> QED BY <2>1, <2>2, <2>3, <2>4 DEF IndInv
<1>4. CASE ListKeys(j)
  <2>1. UsesWithinLimit' /\ GrantsAreFinite' /\ FreshInvites'
        /\ InvitesHaveMachines' /\ BindingsWereGranted' /\ SweptInvites'
        /\ RetiredAreSwept' /\ RetirementHolds' /\ RotationTargets' /\ Successors'
        /\ OneSuccessor' /\ StreamsWereInvited'
    BY <1>4 DEF IndInv, ListKeys, UsesWithinLimit, GrantsAreFinite, FreshInvites,
       InvitesHaveMachines, BindingsWereGranted, SweptInvites, RetiredAreSwept,
       RetirementHolds, RotationTargets, Successors, OneSuccessor,
       StreamsWereInvited, Rotating, Invited
  <2>2. CheckedPins'
    BY <1>4 DEF TypeOK, IndInv, ListKeys, CheckedPins
  <2> QED BY <2>1, <2>2 DEF IndInv
<1>5. CASE CreateConsumerKey(j)
  <2>1. UsesWithinLimit' /\ GrantsAreFinite' /\ FreshInvites'
        /\ InvitesHaveMachines' /\ BindingsWereGranted' /\ SweptInvites'
        /\ RetiredAreSwept' /\ RetirementHolds' /\ RotationTargets' /\ Successors'
        /\ OneSuccessor' /\ StreamsWereInvited'
    BY <1>5 DEF IndInv, CreateConsumerKey, UsesWithinLimit, GrantsAreFinite,
       FreshInvites, InvitesHaveMachines, BindingsWereGranted, SweptInvites,
       RetiredAreSwept, RetirementHolds, RotationTargets, Successors, OneSuccessor,
       StreamsWereInvited, Rotating, Invited
  <2>2. CheckedPins'
    BY <1>5 DEF TypeOK, IndInv, CreateConsumerKey, CheckedPins
  <2> QED BY <2>1, <2>2 DEF IndInv
<1> QED BY <1>1, <1>2, <1>3, <1>4, <1>5 DEF Join

(* Revoking or regenerating a key keeps the invariant.                      *)
LEMMA IndRotation ==
  ASSUME TypeOK, IndInv, NEW r \in Rotations, Rotation(r)
  PROVE  IndInv'
<1>1. ASSUME NEW k \in Keys, RevokeKey(r, k) PROVE IndInv'
  <2>1. UsesWithinLimit' /\ GrantsAreFinite' /\ FreshInvites'
        /\ InvitesHaveMachines' /\ CheckedPins' /\ BindingsWereGranted'
        /\ SweptInvites' /\ RetiredAreSwept' /\ RetirementHolds' /\ OneSuccessor'
        /\ StreamsWereInvited'
    BY <1>1 DEF IndInv, RevokeKey, UsesWithinLimit, GrantsAreFinite, FreshInvites,
       InvitesHaveMachines, CheckedPins, BindingsWereGranted, SweptInvites,
       RetiredAreSwept, RetirementHolds, OneSuccessor, StreamsWereInvited, Invited
  <2>2. RotationTargets'
    BY <1>1 DEF TypeOK, IndInv, RevokeKey, Revocable, RotationTargets, Rotating
  <2>3. Successors'
    <3>1. /\ keyState[k] = "active" /\ keyState' = [keyState EXCEPT ![k] = "revoked"]
          /\ target' = [target EXCEPT ![r] = k] /\ successor' = successor
      BY <1>1 DEF RevokeKey, Revocable
    <3>2. rotating' = [rotating EXCEPT ![r] = "unregister"] \/ rotating' = [rotating EXCEPT ![r] = "create"]
      BY <1>1 DEF RevokeKey
    <3>3. \A l \in Keys : successor'[l] # {} => keyState'[l] = "revoked"
      BY <3>1 DEF IndInv, Successors, TypeOK
    <3>4. successor[k] = {}
      BY <3>1 DEF IndInv, Successors
    <3>5. \A q \in Rotations : q # r =>
             rotating'[q] = rotating[q] /\ target'[q] = target[q]
      BY <3>1, <3>2 DEF TypeOK
    <3>6. target'[r] = k
      BY <3>1 DEF TypeOK
    <3>7. \A q \in Rotations : rotating[q] = "create" => target[q] # k
      BY <3>1 DEF IndInv, RotationTargets, Rotating
    <3>8. \A q \in Rotations : rotating'[q] = "create" => successor'[target'[q]] = {}
      BY <3>1, <3>4, <3>5, <3>6 DEF IndInv, Successors
    <3>9. \A q, s \in Rotations :
            rotating'[q] = "create" /\ rotating'[s] = "create" /\ target'[q] = target'[s] => q = s
      BY <3>5, <3>6, <3>7 DEF IndInv, Successors
    <3> QED BY <3>3, <3>8, <3>9 DEF Successors
  <2> QED BY <2>1, <2>2, <2>3 DEF IndInv
<1>2. ASSUME NEW k \in Keys, CreateSuccessor(r, k) PROVE IndInv'
  <2>1. UsesWithinLimit' /\ GrantsAreFinite' /\ FreshInvites'
        /\ InvitesHaveMachines' /\ CheckedPins' /\ BindingsWereGranted'
        /\ SweptInvites' /\ RetiredAreSwept' /\ RetirementHolds'
        /\ StreamsWereInvited'
    BY <1>2 DEF IndInv, CreateSuccessor, UsesWithinLimit, GrantsAreFinite,
       FreshInvites, InvitesHaveMachines, CheckedPins, BindingsWereGranted,
       SweptInvites, RetiredAreSwept, RetirementHolds, StreamsWereInvited, Invited
  <2>2. RotationTargets'
    BY <1>2 DEF TypeOK, IndInv, CreateSuccessor, RotationTargets, Rotating
  <2>3. Successors'
    <3>1. /\ target[r] \in Keys /\ keyState[target[r]] = "revoked"
          /\ successor[target[r]] = {} /\ rotating[r] = "create" /\ keyState[k] = "unused"
      BY <1>2 DEF CreateSuccessor, IndInv, RotationTargets, Rotating, Successors
    <3>2. /\ successor' = [successor EXCEPT ![target[r]] = @ \cup {k}] /\ target' = target
          /\ keyState' = [keyState EXCEPT ![k] = "active"]
          /\ rotating' = [rotating EXCEPT ![r] = "unregister"]
      BY <1>2 DEF CreateSuccessor
    <3>3. \A l \in Keys : l # target[r] => successor'[l] = successor[l]
      BY <3>2 DEF TypeOK
    <3>4. \A l \in Keys : successor'[l] # {} => keyState'[l] = "revoked"
      BY <3>1, <3>2, <3>3 DEF IndInv, Successors, TypeOK
    <3>5. \A q \in Rotations : rotating'[q] = "create" => rotating[q] = "create" /\ q # r
      BY <3>2 DEF TypeOK
    <3>6. ASSUME NEW q \in Rotations, rotating'[q] = "create" PROVE successor'[target'[q]] = {}
      <4>1. rotating[q] = "create" /\ q # r /\ target[q] \in Keys
        BY <3>5, <3>6 DEF IndInv, RotationTargets, Rotating
      <4>2. target[q] # target[r] /\ successor[target[q]] = {}
        BY <3>1, <4>1 DEF IndInv, Successors
      <4> QED BY <3>2, <3>3, <4>1, <4>2
    <3>7. \A q, s \in Rotations :
            rotating'[q] = "create" /\ rotating'[s] = "create" /\ target'[q] = target'[s] => q = s
      BY <3>2, <3>5 DEF IndInv, Successors
    <3> QED BY <3>4, <3>6, <3>7 DEF Successors
  <2>4. OneSuccessor'
    <3>1. /\ target[r] \in Keys /\ keyState[target[r]] = "revoked"
          /\ successor[target[r]] = {} /\ rotating[r] = "create" /\ keyState[k] = "unused"
      BY <1>2 DEF CreateSuccessor, IndInv, RotationTargets, Rotating, Successors
    <3>2. /\ successor' = [successor EXCEPT ![target[r]] = @ \cup {k}] /\ target' = target
          /\ keyState' = [keyState EXCEPT ![k] = "active"]
          /\ rotating' = [rotating EXCEPT ![r] = "unregister"]
      BY <1>2 DEF CreateSuccessor
    <3> SUFFICES ASSUME NEW l \in Keys, NEW a \in successor'[l], NEW b \in successor'[l]
                 PROVE  a = b
      BY DEF OneSuccessor
    <3>3. CASE l = target[r]
      <4>1. successor'[l] = {k}
        BY <3>1, <3>2, <3>3 DEF TypeOK
      <4> QED BY <4>1
    <3>4. CASE l # target[r]
      <4>1. successor'[l] = successor[l]
        BY <3>2, <3>4 DEF TypeOK
      <4> QED BY <4>1 DEF IndInv, OneSuccessor
    <3> QED BY <3>3, <3>4
  <2> QED BY <2>1, <2>2, <2>3, <2>4 DEF IndInv
<1>3. CASE UnregisterMachine(r)
  <2>1. UsesWithinLimit' /\ GrantsAreFinite' /\ FreshInvites'
        /\ InvitesHaveMachines' /\ CheckedPins' /\ BindingsWereGranted'
        /\ OneSuccessor'
    BY <1>3 DEF IndInv, UnregisterMachine, UsesWithinLimit, GrantsAreFinite,
       FreshInvites, InvitesHaveMachines, CheckedPins, BindingsWereGranted,
       OneSuccessor
  <2>2. SweptInvites'
    <3>1. \A x \in Invites : invKey[x] \in machines \cup {NoKey}
      BY DEF IndInv, InvitesHaveMachines
    <3>2. target[r] \in Keys
      BY <1>3 DEF UnregisterMachine, IndInv, RotationTargets, Rotating
    <3>3. target[r] \notin machines => \A x \in Invites : invKey[x] # target[r]
      BY <3>1, <3>2
    <3> QED BY <1>3, <3>3 DEF UnregisterMachine, IndInv, SweptInvites
  <2>3. RetiredAreSwept'
    BY <1>3 DEF TypeOK, IndInv, UnregisterMachine, EndStreams, Regenerates,
       RetiredAreSwept
  <2>4. RetirementHolds'
    <3>1. \A x \in Invites : invKey[x] \in machines \cup {NoKey}
      BY DEF IndInv, InvitesHaveMachines
    <3>2. target[r] \in Keys
      BY <1>3 DEF UnregisterMachine, IndInv, RotationTargets, Rotating
    <3>3. target[r] \notin machines => \A x \in Invites : invKey[x] # target[r]
      BY <3>1, <3>2
    <3>4. target[r] \notin machines => \A y \in Users : binding[y][target[r]] = NoInvite
      <4> SUFFICES ASSUME target[r] \notin machines, NEW y \in Users,
                          binding[y][target[r]] # NoInvite
                   PROVE  FALSE
        OBVIOUS
      <4>1. binding[y][target[r]] \in Invites
        BY <3>2 DEF TypeOK
      <4>2. invKey[binding[y][target[r]]] = target[r]
        BY <3>2 DEF IndInv, BindingsWereGranted
      <4> QED BY <3>3, <4>1, <4>2
    <3>5. /\ binding' = binding /\ late' = late
          /\ retired' = retired \/ (retired' = retired \cup {target[r]} /\ target[r] \notin machines)
      BY <1>3 DEF UnregisterMachine
    <3> QED BY <3>4, <3>5 DEF IndInv, RetirementHolds
  <2>5. RotationTargets'
    BY <1>3 DEF TypeOK, IndInv, UnregisterMachine, EndStreams, Regenerates,
       RotationTargets, Rotating
  <2>6. Successors'
    <3>1. successor' = successor /\ keyState' = keyState /\ target' = target
      BY <1>3 DEF UnregisterMachine
    <3>2. \A q \in Rotations : rotating'[q] = "create" => rotating[q] = "create"
      BY <1>3 DEF UnregisterMachine, TypeOK
    <3> QED BY <3>1, <3>2 DEF IndInv, Successors
  <2>7. StreamsWereInvited'
    BY <1>3 DEF TypeOK, IndInv, UnregisterMachine, EndStreams, Regenerates,
       StreamsWereInvited, Invited
  <2> QED BY <2>1, <2>2, <2>3, <2>4, <2>5, <2>6, <2>7 DEF IndInv
<1>4. CASE RetireInvites(r)
  <2>1. UsesWithinLimit' /\ GrantsAreFinite' /\ FreshInvites'
        /\ InvitesHaveMachines' /\ CheckedPins' /\ BindingsWereGranted'
        /\ OneSuccessor' /\ StreamsWereInvited'
    BY <1>4 DEF IndInv, RetireInvites, UsesWithinLimit, GrantsAreFinite,
       FreshInvites, InvitesHaveMachines, CheckedPins, BindingsWereGranted,
       OneSuccessor, StreamsWereInvited, Invited
  <2>2. SweptInvites'
    <3>1. \A x \in Invites : invKey[x] \in machines \cup {NoKey}
      BY DEF IndInv, InvitesHaveMachines
    <3>2. target[r] \in Keys
      BY <1>4 DEF RetireInvites, IndInv, RotationTargets, Rotating
    <3>3. target[r] \notin machines => \A x \in Invites : invKey[x] # target[r]
      BY <3>1, <3>2
    <3>4. invKey' = invKey /\ late' = late /\ swept' = swept \cup {target[r]}
      BY <1>4 DEF RetireInvites
    <3>5. revoked \subseteq revoked'
      BY <1>4 DEF RetireInvites, RevokeInvites
    <3>6. target[r] \in machines => \A x \in Invites : invKey[x] = target[r] => x \in revoked'
      BY <1>4 DEF RetireInvites, RevokeInvites
    <3> QED BY <3>3, <3>4, <3>5, <3>6 DEF IndInv, SweptInvites
  <2>3. RetiredAreSwept'
    BY <1>4 DEF TypeOK, IndInv, RetireInvites, RevokeInvites, RetiredAreSwept
  <2>4. RetirementHolds'
    <3>1. \A x \in Invites : invKey[x] \in machines \cup {NoKey}
      BY DEF IndInv, InvitesHaveMachines
    <3>2. target[r] \in Keys
      BY <1>4 DEF RetireInvites, IndInv, RotationTargets, Rotating
    <3>3. target[r] \notin machines => \A x \in Invites : invKey[x] # target[r]
      BY <3>1, <3>2
    <3>4. target[r] \notin machines => \A y \in Users : binding[y][target[r]] = NoInvite
      <4> SUFFICES ASSUME target[r] \notin machines, NEW y \in Users,
                          binding[y][target[r]] # NoInvite
                   PROVE  FALSE
        OBVIOUS
      <4>1. binding[y][target[r]] \in Invites
        BY <3>2 DEF TypeOK
      <4>2. invKey[binding[y][target[r]]] = target[r]
        BY <3>2 DEF IndInv, BindingsWereGranted
      <4> QED BY <3>3, <4>1, <4>2
    <3>5. /\ binding' = binding /\ late' = late
          /\ retired' = retired \/ (retired' = retired \cup {target[r]} /\ target[r] \notin machines)
      BY <1>4 DEF RetireInvites
    <3> QED BY <3>4, <3>5 DEF IndInv, RetirementHolds
  <2>5. RotationTargets'
    BY <1>4 DEF TypeOK, IndInv, RetireInvites, RevokeInvites, RotationTargets,
       Rotating
  <2>6. Successors'
    <3>1. successor' = successor /\ keyState' = keyState /\ target' = target
      BY <1>4 DEF RetireInvites
    <3>2. \A q \in Rotations : rotating'[q] = "create" => rotating[q] = "create"
      BY <1>4 DEF RetireInvites, TypeOK
    <3> QED BY <3>1, <3>2 DEF IndInv, Successors
  <2> QED BY <2>1, <2>2, <2>3, <2>4, <2>5, <2>6 DEF IndInv
<1>5. CASE RetireBindings(r)
  <2>1. UsesWithinLimit' /\ GrantsAreFinite' /\ FreshInvites'
        /\ InvitesHaveMachines' /\ CheckedPins' /\ SweptInvites'
        /\ OneSuccessor' /\ StreamsWereInvited'
    BY <1>5 DEF IndInv, RetireBindings, UsesWithinLimit, GrantsAreFinite,
       FreshInvites, InvitesHaveMachines, CheckedPins, SweptInvites, OneSuccessor,
       StreamsWereInvited, Invited
  <2>2. BindingsWereGranted'
    BY <1>5 DEF TypeOK, IndInv, RetireBindings, AfterRetirement, BindingsWereGranted
  <2>3. RetiredAreSwept'
    <3>1. target[r] \in swept
      BY <1>5 DEF RetireBindings, IndInv, RotationTargets, Rotating
    <3>2. retired' = retired \cup {target[r]} /\ swept' = swept
      BY <1>5 DEF RetireBindings
    <3> QED BY <3>1, <3>2 DEF IndInv, RetiredAreSwept
  <2>4. RetirementHolds'
    <3> SUFFICES ASSUME NEW l \in retired', NEW y \in Users
                 PROVE  binding'[y][l] \in late \cup {NoInvite}
      BY <1>5 DEF RetireBindings, RetirementHolds
    <3>1. l \in retired \/ l = target[r]
      BY <1>5 DEF RetireBindings
    <3>2. l \in Keys
      BY <1>5, <3>1 DEF RetireBindings, TypeOK, IndInv, RotationTargets, Rotating
    <3>3. binding'[y][l] = IF l = target[r] THEN NoInvite ELSE binding[y][l]
      BY <1>5, <3>2 DEF RetireBindings, TypeOK
    <3> QED BY <3>1, <3>3 DEF IndInv, RetirementHolds
  <2>5. RotationTargets'
    BY <1>5 DEF TypeOK, IndInv, RetireBindings, AfterRetirement, RotationTargets,
       Rotating
  <2>6. Successors'
    <3>1. successor' = successor /\ keyState' = keyState /\ target' = target
      BY <1>5 DEF RetireBindings
    <3>2. \A q \in Rotations : rotating'[q] = "create" => rotating[q] = "create"
      BY <1>5 DEF RetireBindings, TypeOK, AfterRetirement
    <3> QED BY <3>1, <3>2 DEF IndInv, Successors
  <2> QED BY <2>1, <2>2, <2>3, <2>4, <2>5, <2>6 DEF IndInv
<1>6. CASE CreateMachine(r)
  <2>1. UsesWithinLimit' /\ GrantsAreFinite' /\ FreshInvites' /\ CheckedPins'
        /\ BindingsWereGranted' /\ SweptInvites'
        /\ RetiredAreSwept' /\ RetirementHolds' /\ OneSuccessor'
        /\ StreamsWereInvited'
    BY <1>6 DEF IndInv, CreateMachine, UsesWithinLimit, GrantsAreFinite,
       FreshInvites, CheckedPins, BindingsWereGranted, SweptInvites,
       RetiredAreSwept, RetirementHolds, OneSuccessor, StreamsWereInvited, Invited
  <2>2. InvitesHaveMachines'
    BY <1>6 DEF TypeOK, IndInv, CreateMachine, InvitesHaveMachines
  <2>3. RotationTargets'
    BY <1>6 DEF TypeOK, IndInv, CreateMachine, RotationTargets, Rotating
  <2>4. Successors'
    <3>1. successor' = successor /\ keyState' = keyState /\ target' = target
      BY <1>6 DEF CreateMachine
    <3>2. \A q \in Rotations : rotating'[q] = "create" => rotating[q] = "create"
      BY <1>6 DEF CreateMachine, TypeOK
    <3> QED BY <3>1, <3>2 DEF IndInv, Successors
  <2> QED BY <2>1, <2>2, <2>3, <2>4 DEF IndInv
<1>7. CASE StatementFails(r)
  <2>1. UsesWithinLimit' /\ GrantsAreFinite' /\ FreshInvites'
        /\ InvitesHaveMachines' /\ CheckedPins' /\ BindingsWereGranted'
        /\ SweptInvites' /\ RetiredAreSwept' /\ RetirementHolds' /\ OneSuccessor'
        /\ StreamsWereInvited'
    BY <1>7 DEF IndInv, StatementFails, UsesWithinLimit, GrantsAreFinite,
       FreshInvites, InvitesHaveMachines, CheckedPins, BindingsWereGranted,
       SweptInvites, RetiredAreSwept, RetirementHolds, OneSuccessor,
       StreamsWereInvited, Invited
  <2>2. RotationTargets'
    BY <1>7 DEF TypeOK, IndInv, StatementFails, AfterFailure, AfterRetirement,
       RotationTargets, Rotating
  <2>3. Successors'
    <3>1. successor' = successor /\ keyState' = keyState /\ target' = target
      BY <1>7 DEF StatementFails
    <3>2. \A q \in Rotations : rotating'[q] = "create" => rotating[q] = "create"
      BY <1>7 DEF StatementFails, TypeOK, AfterFailure, AfterRetirement
    <3> QED BY <3>1, <3>2 DEF IndInv, Successors
  <2> QED BY <2>1, <2>2, <2>3 DEF IndInv
<1> QED BY <1>1, <1>2, <1>3, <1>4, <1>5, <1>6, <1>7 DEF Rotation, Retirement

(* Revoking a binding keeps the invariant.                                  *)
LEMMA IndRemoval ==
  ASSUME TypeOK, IndInv, NEW v \in Removals, Removal(v)
  PROVE  IndInv'
<1>1. ASSUME NEW u \in Users, NEW k \in Keys, RevokeBinding(v, u, k) PROVE IndInv'
  <2>1. UsesWithinLimit' /\ GrantsAreFinite' /\ FreshInvites'
        /\ InvitesHaveMachines' /\ CheckedPins' /\ SweptInvites'
        /\ RetiredAreSwept' /\ RotationTargets' /\ Successors' /\ OneSuccessor'
        /\ StreamsWereInvited'
    BY <1>1 DEF IndInv, RevokeBinding, UsesWithinLimit, GrantsAreFinite,
       FreshInvites, InvitesHaveMachines, CheckedPins, SweptInvites,
       RetiredAreSwept, RotationTargets, Successors, OneSuccessor,
       StreamsWereInvited, Rotating, Invited
  <2>2. BindingsWereGranted'
    BY <1>1 DEF TypeOK, IndInv, RevokeBinding, BindingsWereGranted
  <2>3. RetirementHolds'
    BY <1>1 DEF TypeOK, IndInv, RevokeBinding, RetirementHolds
  <2> QED BY <2>1, <2>2, <2>3 DEF IndInv
<1>2. CASE CancelMachineRequests(v)
  <2>1. UsesWithinLimit' /\ GrantsAreFinite' /\ FreshInvites'
        /\ InvitesHaveMachines' /\ CheckedPins' /\ BindingsWereGranted'
        /\ SweptInvites' /\ RetiredAreSwept' /\ RetirementHolds'
        /\ RotationTargets' /\ Successors' /\ OneSuccessor'
    BY <1>2 DEF IndInv, CancelMachineRequests, UsesWithinLimit, GrantsAreFinite,
       FreshInvites, InvitesHaveMachines, CheckedPins, BindingsWereGranted,
       SweptInvites, RetiredAreSwept, RetirementHolds, RotationTargets, Successors,
       OneSuccessor, Rotating
  <2>2. StreamsWereInvited'
    <3> SUFFICES ASSUME NEW d \in Chats, chat'[d] \in {"allowed", "streaming"}
                 PROVE  Invited(ChatUser[d], ChatKey[d])'
      BY DEF StreamsWereInvited
    <3>1. chat[d] \in {"allowed", "streaming"}
      BY <1>2 DEF CancelMachineRequests, EndStreams, TypeOK
    <3>2. Invited(ChatUser[d], ChatKey[d])
      BY <3>1 DEF IndInv, StreamsWereInvited
    <3> QED BY <1>2, <3>2 DEF CancelMachineRequests, Invited
  <2> QED BY <2>1, <2>2 DEF IndInv
<1> QED BY <1>1, <1>2 DEF Removal

(* A chat request keeps the invariant.                                      *)
LEMMA IndChat == ASSUME TypeOK, IndInv, NEW c \in Chats, Chat(c) PROVE IndInv'
<1>1. CASE RequireAPIKey(c)
  <2>1. UsesWithinLimit' /\ GrantsAreFinite' /\ FreshInvites'
        /\ InvitesHaveMachines' /\ CheckedPins' /\ BindingsWereGranted'
        /\ SweptInvites' /\ RetiredAreSwept' /\ RetirementHolds'
        /\ RotationTargets' /\ Successors' /\ OneSuccessor'
    BY <1>1 DEF IndInv, RequireAPIKey, UsesWithinLimit, GrantsAreFinite,
       FreshInvites, InvitesHaveMachines, CheckedPins, BindingsWereGranted,
       SweptInvites, RetiredAreSwept, RetirementHolds, RotationTargets, Successors,
       OneSuccessor, Rotating
  <2>2. StreamsWereInvited'
    BY <1>1 DEF TypeOK, IndInv, RequireAPIKey, StreamsWereInvited, Invited
  <2> QED BY <2>1, <2>2 DEF IndInv
<1>2. CASE Authorize(c)
  <2>1. UsesWithinLimit' /\ GrantsAreFinite' /\ FreshInvites'
        /\ InvitesHaveMachines' /\ CheckedPins' /\ BindingsWereGranted'
        /\ SweptInvites' /\ RetiredAreSwept' /\ RetirementHolds'
        /\ RotationTargets' /\ Successors' /\ OneSuccessor'
    BY <1>2 DEF IndInv, Authorize, UsesWithinLimit, GrantsAreFinite, FreshInvites,
       InvitesHaveMachines, CheckedPins, BindingsWereGranted, SweptInvites,
       RetiredAreSwept, RetirementHolds, RotationTargets, Successors, OneSuccessor,
       Rotating
  <2>2. StreamsWereInvited'
    <3> SUFFICES ASSUME NEW d \in Chats, chat'[d] \in {"allowed", "streaming"}
                 PROVE  Invited(ChatUser[d], ChatKey[d])'
      BY DEF StreamsWereInvited
    <3>1. invKey' = invKey /\ granted' = granted
      BY <1>2 DEF Authorize
    <3>2. CASE d # c
      <4>1. chat[d] \in {"allowed", "streaming"}
        BY <1>2, <3>2 DEF Authorize, TypeOK
      <4> QED BY <3>1, <4>1 DEF IndInv, StreamsWereInvited, Invited
    <3>3. CASE d = c
      <4>1. CanAccessMachine(ChatUser[c], ChatKey[c])
        BY <1>2, <3>3 DEF Authorize, TypeOK
      <4>2. CASE OwnerOf[ChatKey[c]] = ChatUser[c]
        BY <3>3, <4>2 DEF Invited
      <4>3. CASE OwnerOf[ChatKey[c]] # ChatUser[c]
        <5> DEFINE i == binding[ChatUser[c]][ChatKey[c]]
        <5>1. i # NoInvite
          BY <4>1, <4>3 DEF CanAccessMachine
        <5>2. i \in Invites
          BY <5>1 DEF TypeOK
        <5>3. invKey[i] = ChatKey[c] /\ \E b \in granted[i] : JoinUser[b] = ChatUser[c]
          BY <5>1 DEF IndInv, BindingsWereGranted
        <5> QED BY <3>1, <3>3, <5>2, <5>3 DEF Invited
      <4> QED BY <4>2, <4>3
    <3> QED BY <3>2, <3>3
  <2> QED BY <2>1, <2>2 DEF IndInv
<1>3. CASE StartStream(c)
  <2>1. UsesWithinLimit' /\ GrantsAreFinite' /\ FreshInvites'
        /\ InvitesHaveMachines' /\ CheckedPins' /\ BindingsWereGranted'
        /\ SweptInvites' /\ RetiredAreSwept' /\ RetirementHolds'
        /\ RotationTargets' /\ Successors' /\ OneSuccessor'
    BY <1>3 DEF IndInv, StartStream, UsesWithinLimit, GrantsAreFinite,
       FreshInvites, InvitesHaveMachines, CheckedPins, BindingsWereGranted,
       SweptInvites, RetiredAreSwept, RetirementHolds, RotationTargets, Successors,
       OneSuccessor, Rotating
  <2>2. StreamsWereInvited'
    BY <1>3 DEF TypeOK, IndInv, StartStream, StreamsWereInvited, Invited
  <2> QED BY <2>1, <2>2 DEF IndInv
<1>4. CASE EndStream(c)
  <2>1. UsesWithinLimit' /\ GrantsAreFinite' /\ FreshInvites'
        /\ InvitesHaveMachines' /\ CheckedPins' /\ BindingsWereGranted'
        /\ SweptInvites' /\ RetiredAreSwept' /\ RetirementHolds'
        /\ RotationTargets' /\ Successors' /\ OneSuccessor'
    BY <1>4 DEF IndInv, EndStream, UsesWithinLimit, GrantsAreFinite, FreshInvites,
       InvitesHaveMachines, CheckedPins, BindingsWereGranted, SweptInvites,
       RetiredAreSwept, RetirementHolds, RotationTargets, Successors, OneSuccessor,
       Rotating
  <2>2. StreamsWereInvited'
    BY <1>4 DEF TypeOK, IndInv, EndStream, StreamsWereInvited, Invited
  <2> QED BY <2>1, <2>2 DEF IndInv
<1> QED BY <1>1, <1>2, <1>3, <1>4 DEF Chat

(* Revoking a consumer key keeps the invariant.                             *)
LEMMA IndRevokeConsumerKey ==
  ASSUME TypeOK, IndInv, NEW u \in Users, RevokeConsumerKey(u)
  PROVE  IndInv'
<1>1. UsesWithinLimit' /\ GrantsAreFinite' /\ FreshInvites'
      /\ InvitesHaveMachines' /\ CheckedPins' /\ BindingsWereGranted'
      /\ SweptInvites' /\ RetiredAreSwept' /\ RetirementHolds' /\ RotationTargets'
      /\ Successors' /\ OneSuccessor' /\ StreamsWereInvited'
  BY DEF IndInv, RevokeConsumerKey, UsesWithinLimit, GrantsAreFinite, FreshInvites,
     InvitesHaveMachines, CheckedPins, BindingsWereGranted, SweptInvites,
     RetiredAreSwept, RetirementHolds, RotationTargets, Successors, OneSuccessor,
     StreamsWereInvited, Rotating, Invited
<1> QED BY <1>1 DEF IndInv

(* A crash keeps the invariant.                                             *)
LEMMA IndCrash == ASSUME TypeOK, IndInv, Crash PROVE IndInv'
<1>1. UsesWithinLimit' /\ GrantsAreFinite' /\ FreshInvites'
      /\ InvitesHaveMachines' /\ BindingsWereGranted' /\ SweptInvites'
      /\ RetiredAreSwept' /\ RetirementHolds' /\ OneSuccessor'
  BY DEF IndInv, Crash, UsesWithinLimit, GrantsAreFinite, FreshInvites,
     InvitesHaveMachines, BindingsWereGranted, SweptInvites, RetiredAreSwept,
     RetirementHolds, OneSuccessor
<1>2. CheckedPins'
  BY DEF TypeOK, IndInv, Crash, CheckedPins
<1>3. RotationTargets'
  BY DEF TypeOK, IndInv, Crash, RotationTargets, Rotating
<1>4. Successors'
  BY DEF TypeOK, IndInv, Crash, Successors
<1>5. StreamsWereInvited'
  BY DEF TypeOK, IndInv, Crash, StreamsWereInvited, Invited
<1> QED BY <1>1, <1>2, <1>3, <1>4, <1>5 DEF IndInv

(* The tables start empty.                                                  *)
LEMMA IndInit == Init => TypeOK /\ IndInv
<1> SUFFICES ASSUME Init PROVE TypeOK /\ IndInv
  OBVIOUS
<1>1. TypeOK
  BY DEF Init, TypeOK
<1>2. UsesWithinLimit /\ GrantsAreFinite
  BY FS_EmptySet DEF Init, UsesWithinLimit, GrantsAreFinite
<1>3. FreshInvites /\ InvitesHaveMachines /\ CheckedPins /\ BindingsWereGranted
  BY DEF Init, FreshInvites, InvitesHaveMachines, CheckedPins, BindingsWereGranted
<1>4. SweptInvites /\ RetiredAreSwept /\ RetirementHolds
  BY DEF Init, SweptInvites, RetiredAreSwept, RetirementHolds
<1>5. RotationTargets /\ Successors /\ OneSuccessor /\ StreamsWereInvited
  BY DEF Init, RotationTargets, Rotating, Successors, OneSuccessor,
     StreamsWereInvited
<1> QED BY <1>1, <1>2, <1>3, <1>4, <1>5 DEF IndInv

(* Every statement and every handler keeps the invariant.                   *)
LEMMA IndNext == TypeOK /\ IndInv /\ [Next]_vars => IndInv'
<1> SUFFICES ASSUME TypeOK, IndInv, [Next]_vars PROVE IndInv'
  OBVIOUS
<1>1. CASE Next
  BY <1>1, IndProvider, IndInviting, IndJoin, IndRotation, IndRemoval, IndChat,
     IndRevokeConsumerKey, IndCrash DEF Next
<1>2. CASE UNCHANGED vars
  BY <1>2 DEF IndInv, vars, UsesWithinLimit, GrantsAreFinite, FreshInvites,
     InvitesHaveMachines, CheckedPins, BindingsWereGranted, SweptInvites, RetiredAreSwept,
     RetirementHolds, RotationTargets, Successors, OneSuccessor, StreamsWereInvited, Invited
<1> QED BY <1>1, <1>2
------------------------------------------------------------------------------
(* The theorems.                                                            *)

(* The types and the invariant hold in every run of the handlers, however   *)
(* many there are and wherever they are cut short.                          *)
THEOREM Joint == Spec => [](TypeOK /\ IndInv)
<1>1. TypeOK /\ IndInv /\ [Next]_vars => (TypeOK /\ IndInv)'
  BY TypeNext, IndNext
<1> QED BY IndInit, <1>1, PTL DEF Spec

(* The tables and the handlers stay within their types, in every run.       *)
THEOREM TypeCorrect == Spec => []TypeOK
BY Joint, PTL

(* The invariant alone, the form the other theorems cite.                   *)
THEOREM Inductive == Spec => []IndInv
BY Joint, PTL

(* No invite is redeemed more often than max_uses allows, by any number of  *)
(* handlers that looked it up before any of them counted its use.           *)
THEOREM UsesStayWithinLimit == Spec => []UsesWithinLimit
<1>1. IndInv => UsesWithinLimit
  BY DEF IndInv
<1> QED BY Inductive, <1>1, PTL

(* Once RetireMachine has returned, bindings to the machine can only come   *)
(* from invites created afterwards.                                         *)
THEOREM RetirementIsFinal == Spec => []RetirementHolds
<1>1. IndInv => RetirementHolds
  BY DEF IndInv
<1> QED BY Inductive, <1>1, PTL

(* Concurrent revocations and regenerations of a key leave one new key.     *)
THEOREM KeysHaveOneSuccessor == Spec => []OneSuccessor
<1>1. IndInv => OneSuccessor
  BY DEF IndInv
<1> QED BY Inductive, <1>1, PTL

(* A chat request that got past CanAccessMachine belongs to the owner or to *)
(* somebody who redeemed an invite to the machine.                          *)
THEOREM StreamsStayInvited == Spec => []StreamsWereInvited
<1>1. IndInv => StreamsWereInvited
  BY DEF IndInv
<1> QED BY Inductive, <1>1, PTL

(* Revoking an invite ends its redemption, also by handlers that have read  *)
(* it already: the transaction asks again.                                  *)
THEOREM RevokedInvitesAdmitNobody == Spec => RevokedAdmitsNobody
<1>1. ASSUME TypeOK, IndInv, [Next]_vars
      PROVE  \A i \in revoked : granted'[i] = granted[i]
  <2>1. CASE UNCHANGED granted
    BY <2>1
  <2>2. ASSUME NEW j \in Joins, RedeemAsMember(j)
        PROVE  \A i \in revoked : granted'[i] = granted[i]
    <3>1. pin[j] \in Invites
      BY <1>1, <2>2 DEF RedeemAsMember, IndInv, CheckedPins
    <3>2. CASE ~CanTakeUse(pin[j])
      BY <2>2, <3>2 DEF RedeemAsMember
    <3>3. CASE CanTakeUse(pin[j])
      <4>1. pin[j] \notin revoked /\ granted' = [granted EXCEPT ![pin[j]] = @ \cup {j}]
        BY <2>2, <3>3 DEF RedeemAsMember, CanTakeUse
      <4> QED BY <1>1, <4>1 DEF TypeOK
    <3> QED BY <3>2, <3>3
  <2>3. UNCHANGED granted \/ \E j \in Joins : RedeemAsMember(j)
    <3>1. CASE UNCHANGED vars
      BY <3>1 DEF vars
    <3>2. ASSUME NEW k \in Keys, Provider(k) PROVE UNCHANGED granted
      BY <3>2 DEF Provider, CreateKey, AcceptAgent, RegisterAgent, AgentLeaves
    <3>3. ASSUME NEW i \in Invites, Inviting(i) PROVE UNCHANGED granted
      BY <3>3 DEF Inviting, CreateInvite, RevokeInvite, Expire
    <3>4. ASSUME NEW j \in Joins, Join(j) PROVE UNCHANGED granted \/ RedeemAsMember(j)
      BY <3>4 DEF Join, LookupPIN, RedeemAsOwner, ListKeys, CreateConsumerKey
    <3>5. ASSUME NEW u \in Users, RevokeConsumerKey(u) PROVE UNCHANGED granted
      BY <3>5 DEF RevokeConsumerKey
    <3>6. ASSUME NEW r \in Rotations, Rotation(r) PROVE UNCHANGED granted
      BY <3>6 DEF Rotation, Retirement, RevokeKey, CreateSuccessor,
         UnregisterMachine,
         RetireInvites, RetireBindings, CreateMachine, StatementFails
    <3>7. ASSUME NEW v \in Removals, Removal(v) PROVE UNCHANGED granted
      BY <3>7 DEF Removal, RevokeBinding, CancelMachineRequests
    <3>8. ASSUME NEW c \in Chats, Chat(c) PROVE UNCHANGED granted
      BY <3>8 DEF Chat, RequireAPIKey, Authorize, StartStream, EndStream
    <3>9. CASE Crash
      BY <3>9 DEF Crash
    <3> QED BY <1>1, <3>1, <3>2, <3>3, <3>4, <3>5, <3>6, <3>7, <3>8, <3>9 DEF Next
  <2> QED BY <2>1, <2>2, <2>3
<1>2. TypeOK /\ IndInv /\ [Next]_vars =>
      [\A i \in revoked : granted'[i] = granted[i]]_vars
  BY <1>1
<1> QED BY Joint, <1>2, PTL DEF Spec, RevokedAdmitsNobody
------------------------------------------------------------------------------
(* The statements and handlers of Access implement Membership: redeeming    *)
(* an invite is as good as one step.                                        *)

(* Places of an invite that a step leaves alone, and of the one it changes. *)
LEMMA PlacesChange ==
  ASSUME TypeOK, NEW i \in Invites, NEW n,
         \A h \in Invites \ {i} :
           invKey'[h] = invKey[h] /\ uses'[h] = uses[h] /\ maxUses'[h] = maxUses[h],
         n = IF invKey'[i] = NoKey THEN 0 ELSE maxUses'[i] - uses'[i]
  PROVE  PlacesLeft' = [PlacesLeft EXCEPT ![i] = n]
BY DEF PlacesLeft

(* A step that touches neither invites nor bindings is a stutter.           *)
LEMMA Stutters ==
  ASSUME UNCHANGED <<invKey, uses, maxUses, revoked, binding>>
  PROVE  UNCHANGED Promise!vars
BY DEF Promise!vars, PlacesLeft

(* Keys, agents and consumer keys are no business of Membership.            *)
LEMMA ProviderStutters ==
  ASSUME NEW k \in Keys, Provider(k)
  PROVE  UNCHANGED Promise!vars
BY Stutters DEF Provider, CreateKey, AcceptAgent, RegisterAgent, AgentLeaves

(* A row of invites offers max_uses places; revoking it closes it.          *)
LEMMA InvitingRefines ==
  ASSUME TypeOK, IndInv, NEW i \in Invites, Inviting(i)
  PROVE  [Promise!Next]_Promise!vars
<1>1. ASSUME NEW k \in Keys, NEW n \in 1..MaxUses, CreateInvite(i, k, n)
      PROVE  Promise!Next
  <2>1. invKey[i] = NoKey /\ uses[i] = 0 /\ uses' = uses
    BY <1>1 DEF CreateInvite, IndInv, FreshInvites
  <2>2. /\ invKey' = [invKey EXCEPT ![i] = k] /\ maxUses' = [maxUses EXCEPT ![i] = n]
        /\ revoked' = revoked /\ binding' = binding
    BY <1>1 DEF CreateInvite
  <2>3. invKey'[i] # NoKey /\ n = maxUses'[i] - uses'[i]
    BY <2>1, <2>2 DEF TypeOK
  <2>4. PlacesLeft' = [PlacesLeft EXCEPT ![i] = n]
    BY <2>1, <2>2, <2>3, PlacesChange DEF TypeOK
  <2>5. Promise!Offer(i, k, n)
    BY <2>1, <2>2, <2>4 DEF Promise!Offer
  <2> QED BY <2>5 DEF Promise!Next
<1>2. CASE RevokeInvite(i)
  <2>1. Promise!Close({i})
    BY <1>2 DEF RevokeInvite, Promise!Close, PlacesLeft
  <2> QED BY <2>1 DEF Promise!Next
<1>3. CASE Expire(i)
  BY <1>3, Stutters DEF Expire
<1> QED BY <1>1, <1>2, <1>3 DEF Inviting

(* The transaction of RedeemPIN is the step that lets somebody in: what has *)
(* been read before it decides nothing.                                     *)
LEMMA JoinRefines ==
  ASSUME TypeOK, IndInv, NEW j \in Joins, Join(j)
  PROVE  [Promise!Next]_Promise!vars
<1>1. CASE RedeemAsMember(j)
  <2> DEFINE i == pin[j]
  <2>1. i \in Invites /\ invKey[i] \in Keys /\ JoinUser[j] \in Users
    BY <1>1 DEF RedeemAsMember, IndInv, CheckedPins
  <2>2. CASE ~CanTakeUse(i)
    BY <1>1, <2>2, Stutters DEF RedeemAsMember
  <2>3. CASE CanTakeUse(i)
    <3>1. /\ uses' = [uses EXCEPT ![i] = @ + 1] /\ uses[i] < maxUses[i] /\ i \notin revoked
          /\ binding' = [binding EXCEPT ![JoinUser[j]][invKey[i]] = i]
          /\ UNCHANGED <<invKey, maxUses, revoked>>
      BY <1>1, <2>3 DEF RedeemAsMember, CountUse, CanTakeUse
    <3>2. invKey[i] # NoKey /\ maxUses[i] \in Int /\ uses[i] \in Int
      BY <2>1 DEF TypeOK
    <3>3. PlacesLeft[i] = maxUses[i] - uses[i] /\ PlacesLeft[i] > 0
      BY <2>1, <3>1, <3>2 DEF PlacesLeft
    <3>4. PlacesLeft' = [PlacesLeft EXCEPT ![i] = PlacesLeft[i] - 1]
      <4>1. PlacesLeft[i] - 1 = maxUses'[i] - uses'[i] /\ invKey'[i] # NoKey
        BY <2>1, <3>1, <3>2, <3>3 DEF TypeOK
      <4> QED BY <2>1, <3>1, <4>1, PlacesChange DEF TypeOK
    <3>5. Promise!Admit(JoinUser[j], i)
      BY <3>1, <3>2, <3>3, <3>4 DEF Promise!Admit, Promise!TakePlace
    <3> QED BY <2>1, <3>5 DEF Promise!Next
  <2> QED BY <2>2, <2>3
<1>2. CASE RedeemAsOwner(j)
  <2> DEFINE i == pin[j]
  <2>1. i \in Invites /\ invKey[i] \in Keys
    BY <1>2 DEF RedeemAsOwner, IndInv, CheckedPins
  <2>2. UNCHANGED <<invKey, maxUses, revoked, binding>>
    BY <1>2 DEF RedeemAsOwner
  <2>3. CASE uses' = uses
    BY <2>2, <2>3, Stutters
  <2>4. CASE uses' # uses
    <3>0. uses[i] < maxUses[i]
      BY <1>2, <2>4 DEF RedeemAsOwner
    <3>1. uses' = [uses EXCEPT ![i] = @ + 1]
      BY <1>2, <2>4 DEF RedeemAsOwner
    <3>2. invKey[i] # NoKey /\ maxUses[i] \in Int /\ uses[i] \in Int
      BY <2>1 DEF TypeOK
    <3>3. PlacesLeft[i] = maxUses[i] - uses[i] /\ PlacesLeft[i] > 0
      BY <2>1, <3>0, <3>2 DEF PlacesLeft
    <3>4. PlacesLeft' = [PlacesLeft EXCEPT ![i] = PlacesLeft[i] - 1]
      <4>1. PlacesLeft[i] - 1 = maxUses'[i] - uses'[i] /\ invKey'[i] # NoKey
        BY <2>1, <2>2, <3>1, <3>2, <3>3 DEF TypeOK
      <4> QED BY <2>1, <2>2, <3>1, <4>1, PlacesChange DEF TypeOK
    <3>5. Promise!Visit(i)
      BY <2>2, <3>3, <3>4 DEF Promise!Visit, Promise!TakePlace
    <3> QED BY <2>1, <3>5 DEF Promise!Next
  <2>5. maxUses[i] \in Int /\ uses[i] \in Int
    BY <2>1 DEF TypeOK
  <2> QED BY <2>3, <2>4, <2>5
<1>3. ASSUME NEW i \in Invites, LookupPIN(j, i) PROVE UNCHANGED Promise!vars
  BY <1>3, Stutters DEF LookupPIN
<1>4. CASE ListKeys(j) \/ CreateConsumerKey(j)
  BY <1>4, Stutters DEF ListKeys, CreateConsumerKey
<1> QED BY <1>1, <1>2, <1>3, <1>4 DEF Join

(* RetireMachine closes the invites in one step and dismisses the members   *)
(* in another; the rest of a revocation or regeneration is a stutter.       *)
LEMMA RotationRefines ==
  ASSUME TypeOK, IndInv, NEW r \in Rotations, Rotation(r)
  PROVE  [Promise!Next]_Promise!vars
<1>1. CASE RetireInvites(r)
  <2> DEFINE S == {i \in Invites : invKey[i] = target[r]}
  <2>1. revoked' = revoked \/ revoked' = revoked \cup S
    BY <1>1 DEF RetireInvites, RevokeInvites
  <2>2. UNCHANGED <<invKey, uses, maxUses, binding>>
    BY <1>1 DEF RetireInvites
  <2>3. CASE revoked' = revoked
    BY <2>2, <2>3, Stutters
  <2>4. CASE revoked' = revoked \cup S
    <3>1. Promise!Close(S)
      BY <2>2, <2>4 DEF Promise!Close, PlacesLeft
    <3> QED BY <3>1 DEF Promise!Next
  <2> QED BY <2>1, <2>3, <2>4
<1>2. CASE RetireBindings(r)
  <2>1. target[r] \in Keys
    BY <1>2 DEF RetireBindings, IndInv, RotationTargets, Rotating
  <2>2. Promise!Dismiss(Users, target[r])
    BY <1>2 DEF RetireBindings, Promise!Dismiss, PlacesLeft
  <2> QED BY <2>1, <2>2 DEF Promise!Next
<1>3. ASSUME NEW k \in Keys, RevokeKey(r, k) \/ CreateSuccessor(r, k)
      PROVE  UNCHANGED Promise!vars
  BY <1>3, Stutters DEF RevokeKey, CreateSuccessor
<1>4. CASE UnregisterMachine(r) \/ CreateMachine(r) \/ StatementFails(r)
  BY <1>4, Stutters DEF UnregisterMachine, CreateMachine, StatementFails
<1> QED BY <1>1, <1>2, <1>3, <1>4 DEF Rotation, Retirement

(* Revoking a binding dismisses one member.                                 *)
LEMMA RemovalRefines ==
  ASSUME TypeOK, NEW v \in Removals, Removal(v)
  PROVE  [Promise!Next]_Promise!vars
<1>1. ASSUME NEW u \in Users, NEW k \in Keys, RevokeBinding(v, u, k)
      PROVE  Promise!Next
  <2>1. binding' = [w \in Users |-> IF w \in {u} THEN [binding[w] EXCEPT ![k] = NoInvite]
                                                 ELSE binding[w]]
    BY <1>1 DEF RevokeBinding, TypeOK
  <2>2. Promise!Dismiss({u}, k)
    BY <1>1, <2>1 DEF RevokeBinding, Promise!Dismiss, PlacesLeft
  <2> QED BY <2>2 DEF Promise!Next
<1>2. CASE CancelMachineRequests(v)
  BY <1>2, Stutters DEF CancelMachineRequests
<1> QED BY <1>1, <1>2 DEF Removal

(* Whatever handlers interleave, fail or are cut short by a restart,        *)
(* invites and members behave as Membership says.                           *)
THEOREM RedemptionRefines == Spec => RedemptionIsOneStep
<1>1. Init => Promise!Init
  BY DEF Init, Promise!Init, PlacesLeft
<1>2. ASSUME TypeOK, IndInv, [Next]_vars
      PROVE  [Promise!Next]_Promise!vars
  <2>1. ASSUME NEW c \in Chats, Chat(c) PROVE UNCHANGED Promise!vars
    BY <2>1, Stutters DEF Chat, RequireAPIKey, Authorize, StartStream, EndStream
  <2>2. ASSUME NEW u \in Users, RevokeConsumerKey(u) PROVE UNCHANGED Promise!vars
    BY <2>2, Stutters DEF RevokeConsumerKey
  <2>3. CASE Crash
    BY <2>3, Stutters DEF Crash
  <2>4. CASE UNCHANGED vars
    BY <2>4, Stutters DEF vars
  <2> QED BY <1>2, <2>1, <2>2, <2>3, <2>4, ProviderStutters, InvitingRefines, JoinRefines,
             RotationRefines, RemovalRefines DEF Next
<1>3. TypeOK /\ IndInv /\ [Next]_vars => [Promise!Next]_Promise!vars
  BY <1>2
<1> QED BY <1>1, <1>3, Joint, PTL DEF Spec, RedemptionIsOneStep, Promise!Spec
==============================================================================
