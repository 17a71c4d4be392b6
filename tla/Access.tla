-------------------------------- MODULE Access -------------------------------
(***************************************************************************)
(* Who may use which machine: provider keys, machines, invites, bindings    *)
(* and consumer keys in SQLite (coord/store.go) and the handlers that       *)
(* change them in several statements (coord/keys.go, coord/invites.go),     *)
(* next to the chat requests they admit or cancel (coord/api.go).           *)
(*                                                                          *)
(* Every action is one SQL statement, one transaction or one call into the  *)
(* registry, so handlers interleave between statements and a crash of the   *)
(* coordinator may end them there; the database survives it.  A provider    *)
(* key has at most one machine (provider_key_id is UNIQUE, rows are never   *)
(* deleted), so a machine is named by its key.                              *)
(*                                                                          *)
(* TakesAnyUse, IgnoresRevocation, LosesCount, RevokesAgain, SweepsNothing, *)
(* AlwaysKeyed and AnyMachine are faulty versions of the definition that    *)
(* follows each: no action uses them, they show which fault each property   *)
(* finds.                                                                   *)
(***************************************************************************)
EXTENDS Integers, FiniteSets

CONSTANTS
  Users,       \* users logged in with GitHub
  Keys,        \* provider keys, and the machines named by them
  Invites,     \* rows of invites
  NoKey,       \* no machine
  NoInvite,    \* a binding that is absent or revoked
  OwnerOf,     \* [Keys -> Users], api_keys.user_id and machines.owner_user_id
  MaxUses,     \* the largest max_uses CreateInvite grants (10)
  Joins,       \* requests to /api/join or /join
  JoinUser,    \* [Joins -> Users]
  Rotations,   \* requests that revoke or regenerate a provider key
  Removals,    \* requests that revoke a binding
  Chats,       \* chat requests
  ChatUser,    \* [Chats -> Users]
  ChatKey,     \* [Chats -> Keys], the machine of the URL
  Faults       \* which of "crash" and "error" (of a statement) may happen

ASSUME NilAssumption == NoInvite \notin Invites /\ NoKey \notin Keys
ASSUME ActorsAssumption ==
  /\ OwnerOf \in [Keys -> Users]
  /\ JoinUser \in [Joins -> Users]
  /\ ChatUser \in [Chats -> Users]
  /\ ChatKey \in [Chats -> Keys]
ASSUME LimitAssumption == MaxUses \in Nat \ {0} /\ Faults \subseteq {"crash", "error"}

VARIABLES
  keyState,    \* api_keys of provider scope
  machines,    \* keys that have a row in machines
  invKey,      \* machine of an invite, or none while the row does not exist
  uses,        \* invites.uses
  maxUses,     \* invites.max_uses
  revoked,     \* invites with revoked_at set
  expired,     \* invites past expires_at
  binding,     \* active binding of a user to a machine: its invite_id
  consumer,    \* number of active consumer keys of a user
  joining,     \* where a join handler stands
  pin,         \* the invite it looked up
  rotating,    \* where a handler of key revocation or regeneration stands
  target,      \* the key it revoked
  removing,    \* the machine a removal has yet to cancel requests of
  chat,        \* where a chat handler stands
  agent,       \* the provider agent of a key
  granted,     \* joins that got a binding from an invite
  successor,   \* keys created by regenerating a key
  swept,       \* keys whose invites RetireMachine has revoked, if any
  retired,     \* keys whose bindings it has revoked as well
  late         \* invites created after their machine was swept

keyVars    == <<keyState, machines, successor>>
inviteVars == <<invKey, uses, maxUses, revoked, expired, late>>
memberVars == <<binding, consumer, granted>>
joinVars   == <<joining, pin>>
rotateVars == <<rotating, target, swept, retired>>
vars == <<keyVars, inviteVars, memberVars, joinVars, rotateVars, removing, chat, agent>>

Rotating == {"create", "unregister", "invites", "bindings", "machine"}

TypeOK ==
  /\ keyState \in [Keys -> {"unused", "active", "revoked"}]
  /\ machines \in SUBSET Keys
  /\ successor \in [Keys -> SUBSET Keys]
  /\ invKey \in [Invites -> Keys \cup {NoKey}]
  /\ uses \in [Invites -> Nat]
  /\ maxUses \in [Invites -> 1..MaxUses]
  /\ revoked \in SUBSET Invites
  /\ expired \in SUBSET Invites
  /\ late \in SUBSET Invites
  /\ binding \in [Users -> [Keys -> Invites \cup {NoInvite}]]
  /\ consumer \in [Users -> Nat]
  /\ granted \in [Invites -> SUBSET Joins]
  /\ joining \in [Joins -> {"idle", "checked", "redeemed", "keyless", "done"}]
  /\ pin \in [Joins -> Invites \cup {NoInvite}]
  /\ rotating \in [Rotations -> {"idle", "done"} \cup Rotating]
  /\ target \in [Rotations -> Keys \cup {NoKey}]
  /\ swept \in SUBSET Keys
  /\ retired \in SUBSET Keys
  /\ removing \in [Removals -> Keys \cup {NoKey}]
  /\ chat \in [Chats -> {"idle", "authenticated", "allowed", "streaming", "done"}]
  /\ agent \in [Keys -> {"offline", "accepted", "online"}]

Init ==
  /\ keyState = [k \in Keys |-> "unused"] /\ machines = {}
  /\ successor = [k \in Keys |-> {}]
  /\ invKey = [i \in Invites |-> NoKey]
  /\ uses = [i \in Invites |-> 0] /\ maxUses = [i \in Invites |-> 1]
  /\ revoked = {} /\ expired = {} /\ late = {}
  /\ binding = [u \in Users |-> [k \in Keys |-> NoInvite]]
  /\ consumer = [u \in Users |-> 0]
  /\ granted = [i \in Invites |-> {}]
  /\ joining = [j \in Joins |-> "idle"] /\ pin = [j \in Joins |-> NoInvite]
  /\ rotating = [r \in Rotations |-> "idle"] /\ target = [r \in Rotations |-> NoKey]
  /\ swept = {} /\ retired = {}
  /\ removing = [v \in Removals |-> NoKey]
  /\ chat = [c \in Chats |-> "idle"]
  /\ agent = [k \in Keys |-> "offline"]
------------------------------------------------------------------------------
(* Keys and agents.                                                         *)

(* Keys is finite where the code can always insert another row: a bound     *)
(* keeps a fresh key for every regeneration under way.                      *)
SpareKey(u) ==
  Cardinality({k \in Keys : keyState[k] = "unused" /\ OwnerOf[k] = u})
    > Cardinality({r \in Rotations : rotating[r] = "create"})

(* handleCreateKey: a new provider key.                                     *)
CreateKey(k) ==
  /\ keyState[k] = "unused" /\ SpareKey(OwnerOf[k])
  /\ keyState' = [keyState EXCEPT ![k] = "active"]
  /\ UNCHANGED <<machines, successor, inviteVars, memberVars, joinVars, rotateVars,
                 removing, chat, agent>>

(* The registry closes the relay channels of a session that leaves it.      *)
EndStreams(k) ==
  chat' = [c \in Chats |-> IF ChatKey[c] = k /\ chat[c] = "streaming" THEN "done" ELSE chat[c]]

(* handleWSProvider checks the key ...                                      *)
AcceptAgent(k) ==
  /\ agent[k] = "offline" /\ keyState[k] = "active"
  /\ agent' = [agent EXCEPT ![k] = "accepted"]
  /\ UNCHANGED <<keyVars, inviteVars, memberVars, joinVars, rotateVars, removing, chat>>

(* ... and after the register message finds or creates the machine, whether *)
(* or not the key has been revoked since.                                   *)
RegisterAgent(k) ==
  /\ agent[k] = "accepted"
  /\ agent' = [agent EXCEPT ![k] = "online"]
  /\ machines' = machines \cup {k}
  /\ UNCHANGED <<keyState, successor, inviteVars, memberVars, joinVars, rotateVars,
                 removing, chat>>

(* The agent disconnects, or its heartbeat finds the key revoked.           *)
AgentLeaves(k) ==
  /\ agent[k] = "online"
  /\ agent' = [agent EXCEPT ![k] = "offline"]
  /\ EndStreams(k)
  /\ UNCHANGED <<keyVars, inviteVars, memberVars, joinVars, rotateVars, removing>>
------------------------------------------------------------------------------
(* Invites.                                                                 *)

(* Store.CreateInvite asks who owns the machine, not whether its key is     *)
(* still active.                                                            *)
CreateInvite(i, k, n) ==
  /\ invKey[i] = NoKey /\ k \in machines
  /\ invKey' = [invKey EXCEPT ![i] = k]
  /\ maxUses' = [maxUses EXCEPT ![i] = n]
  /\ late' = IF k \in swept THEN late \cup {i} ELSE late
  /\ UNCHANGED <<keyVars, uses, revoked, expired, memberVars, joinVars, rotateVars,
                 removing, chat, agent>>

RevokeInvite(i) ==
  /\ invKey[i] # NoKey /\ i \notin revoked
  /\ revoked' = revoked \cup {i}
  /\ UNCHANGED <<keyVars, invKey, uses, maxUses, expired, late, memberVars, joinVars,
                 rotateVars, removing, chat, agent>>

(* ttl_days pass.                                                           *)
Expire(i) ==
  /\ invKey[i] # NoKey /\ i \notin expired
  /\ expired' = expired \cup {i}
  /\ UNCHANGED <<keyVars, invKey, uses, maxUses, revoked, late, memberVars, joinVars,
                 rotateVars, removing, chat, agent>>
------------------------------------------------------------------------------
(* handleJoin and handleJoinHTMX: RedeemPIN, then EnsureConsumerKey.        *)

(* RedeemPIN reads the invite and checks it outside of any transaction.  A  *)
(* refused PIN changes nothing.                                             *)
LookupPIN(j, i) ==
  /\ joining[j] = "idle"
  /\ invKey[i] # NoKey /\ i \notin revoked \cup expired /\ uses[i] < maxUses[i]
  /\ joining' = [joining EXCEPT ![j] = "checked"]
  /\ pin' = [pin EXCEPT ![j] = i]
  /\ UNCHANGED <<keyVars, inviteVars, memberVars, rotateVars, removing, chat, agent>>

(* The transaction of a member: the UPDATE of uses checks again what may    *)
(* have changed, but not the expiry; then the binding is created or         *)
(* reactivated.                                                             *)
TakesAnyUse(i) == i \notin revoked
IgnoresRevocation(i) == uses[i] < maxUses[i]
CanTakeUse(i) == uses[i] < maxUses[i] /\ i \notin revoked

LosesCount(i) == uses' = uses
CountUse(i) == uses' = [uses EXCEPT ![i] = @ + 1]

RedeemAsMember(j) ==
  LET i == pin[j]  u == JoinUser[j]  k == invKey[i] IN
  /\ joining[j] = "checked" /\ OwnerOf[k] # u
  /\ IF CanTakeUse(i)
     THEN /\ CountUse(i)
          /\ binding' = [binding EXCEPT ![u][k] = i]
          /\ granted' = [granted EXCEPT ![i] = @ \cup {j}]
          /\ joining' = [joining EXCEPT ![j] = "redeemed"]
     ELSE /\ joining' = [joining EXCEPT ![j] = "done"]
          /\ UNCHANGED <<uses, binding, granted>>
  /\ UNCHANGED <<keyVars, invKey, maxUses, revoked, expired, late, consumer, pin,
                 rotateVars, removing, chat, agent>>

(* An owner needs no binding; the use is counted as long as there is one,   *)
(* even of an invite revoked since, and nobody asks whether that failed.    *)
RedeemAsOwner(j) ==
  LET i == pin[j]
      counted == IF uses[i] < maxUses[i] THEN [uses EXCEPT ![i] = @ + 1] ELSE uses IN
  /\ joining[j] = "checked" /\ OwnerOf[invKey[i]] = JoinUser[j]
  /\ uses' \in (IF "error" \in Faults THEN {uses, counted} ELSE {counted})
  /\ joining' = [joining EXCEPT ![j] = "redeemed"]
  /\ UNCHANGED <<keyVars, invKey, maxUses, revoked, expired, late, memberVars, pin,
                 rotateVars, removing, chat, agent>>

(* EnsureConsumerKey lists the user's keys ...                              *)
AlwaysKeyed(u) == TRUE
Keyed(u) == consumer[u] > 0

ListKeys(j) ==
  /\ joining[j] = "redeemed"
  /\ joining' = [joining EXCEPT ![j] = IF Keyed(JoinUser[j]) THEN "done" ELSE "keyless"]
  /\ UNCHANGED <<keyVars, inviteVars, memberVars, pin, rotateVars, removing, chat, agent>>

(* ... and creates one in another statement.                                *)
CreateConsumerKey(j) ==
  /\ joining[j] = "keyless"
  /\ joining' = [joining EXCEPT ![j] = "done"]
  /\ consumer' = [consumer EXCEPT ![JoinUser[j]] = @ + 1]
  /\ UNCHANGED <<keyVars, inviteVars, binding, granted, pin, rotateVars, removing,
                 chat, agent>>

(* handleRevokeKey of a consumer key.                                       *)
RevokeConsumerKey(u) ==
  /\ Keyed(u)
  /\ consumer' = [consumer EXCEPT ![u] = @ - 1]
  /\ UNCHANGED <<keyVars, inviteVars, binding, granted, joinVars, rotateVars, removing,
                 chat, agent>>
------------------------------------------------------------------------------
(* handleRevokeKey and handleRegenerateKey of a provider key.               *)

(* The UPDATE of revoked_at lets one of several handlers pass.              *)
RevokesAgain(k) == keyState[k] # "unused"
Revocable(k) == keyState[k] = "active"

RevokeKey(r, k) ==
  /\ rotating[r] = "idle" /\ Revocable(k)
  /\ keyState' = [keyState EXCEPT ![k] = "revoked"]
  /\ target' = [target EXCEPT ![r] = k]
  /\ \/ rotating' = [rotating EXCEPT ![r] = "unregister"]
     \/ SpareKey(OwnerOf[k]) /\ rotating' = [rotating EXCEPT ![r] = "create"]
  /\ UNCHANGED <<machines, successor, inviteVars, memberVars, joinVars, swept, retired,
                 removing, chat, agent>>

(* Regeneration creates the new key first.                                  *)
CreateSuccessor(r, k) ==
  LET old == target[r] IN
  /\ rotating[r] = "create" /\ keyState[k] = "unused" /\ OwnerOf[k] = OwnerOf[old]
  /\ keyState' = [keyState EXCEPT ![k] = "active"]
  /\ successor' = [successor EXCEPT ![old] = @ \cup {k}]
  /\ rotating' = [rotating EXCEPT ![r] = "unregister"]
  /\ UNCHANGED <<machines, inviteVars, memberVars, joinVars, target, swept, retired,
                 removing, chat, agent>>

(* Only a handler that regenerates has created a successor of its key.      *)
Regenerates(r) == successor[target[r]] # {}
AfterRetirement(r) == IF Regenerates(r) THEN "machine" ELSE "done"

(* The old machine, if it exists yet, is taken offline.                     *)
UnregisterMachine(r) ==
  LET k == target[r] IN
  /\ rotating[r] = "unregister"
  /\ IF k \in machines /\ agent[k] = "online"
     THEN agent' = [agent EXCEPT ![k] = "offline"] /\ EndStreams(k)
     ELSE UNCHANGED <<agent, chat>>
  /\ IF k \notin machines /\ Regenerates(r)
     THEN /\ rotating' = [rotating EXCEPT ![r] = "machine"]
          /\ swept' = swept \cup {k} /\ retired' = retired \cup {k}
     ELSE /\ rotating' = [rotating EXCEPT ![r] = "invites"]
          /\ UNCHANGED <<swept, retired>>
  /\ UNCHANGED <<keyVars, inviteVars, memberVars, joinVars, target, removing>>

(* RetireMachine: its invites ...                                           *)
SweepsNothing(k) == revoked' = revoked
RevokeInvites(k) == revoked' = revoked \cup {i \in Invites : invKey[i] = k}

RetireInvites(r) ==
  LET k == target[r] IN
  /\ rotating[r] = "invites"
  /\ IF k \in machines
     THEN /\ RevokeInvites(k) /\ swept' = swept \cup {k}
          /\ rotating' = [rotating EXCEPT ![r] = "bindings"]
          /\ retired' = retired
     ELSE /\ revoked' = revoked
          /\ swept' = swept \cup {k} /\ retired' = retired \cup {k}
          /\ rotating' = [rotating EXCEPT ![r] = "done"]
  /\ UNCHANGED <<keyVars, invKey, uses, maxUses, expired, late, memberVars, joinVars,
                 target, removing, chat, agent>>

(* ... then its bindings, in a second statement.                            *)
RetireBindings(r) ==
  LET k == target[r] IN
  /\ rotating[r] = "bindings"
  /\ binding' = [u \in Users |-> [binding[u] EXCEPT ![k] = NoInvite]]
  /\ retired' = retired \cup {k}
  /\ rotating' = [rotating EXCEPT ![r] = AfterRetirement(r)]
  /\ UNCHANGED <<keyVars, inviteVars, consumer, granted, joinVars, target, swept,
                 removing, chat, agent>>

(* CreateMachineOnKeyRegen: the machine of the new key.                     *)
CreateMachine(r) ==
  /\ rotating[r] = "machine"
  /\ machines' = machines \cup successor[target[r]]
  /\ rotating' = [rotating EXCEPT ![r] = "done"]
  /\ UNCHANGED <<keyState, successor, inviteVars, memberVars, joinVars, target, swept,
                 retired, removing, chat, agent>>

(* A failed INSERT of the new key ends the regeneration.  A machine that    *)
(* cannot be looked up is none: it stays online, and is not retired either  *)
(* when it is regenerated.  A failed UPDATE in RetireMachine is logged and  *)
(* skips the rest of it, a failed INSERT of the new machine is logged.      *)
AfterFailure(r) ==
  CASE rotating[r] \in {"create", "machine"} -> "done"
    [] rotating[r] = "unregister" /\ ~Regenerates(r) -> "invites"
    [] OTHER -> AfterRetirement(r)
StatementFails(r) ==
  /\ "error" \in Faults /\ rotating[r] \in Rotating
  /\ rotating' = [rotating EXCEPT ![r] = AfterFailure(r)]
  /\ UNCHANGED <<keyVars, inviteVars, memberVars, joinVars, target, swept, retired,
                 removing, chat, agent>>
------------------------------------------------------------------------------
(* handleRevokeBinding (by the member) and handleRevokeMember (by the       *)
(* owner): the binding goes first, then cancelMachineRequests.              *)

RevokeBinding(v, u, k) ==
  /\ removing[v] = NoKey /\ binding[u][k] # NoInvite
  /\ binding' = [binding EXCEPT ![u][k] = NoInvite]
  /\ removing' = [removing EXCEPT ![v] = k]
  /\ UNCHANGED <<keyVars, inviteVars, consumer, granted, joinVars, rotateVars, chat, agent>>

CancelMachineRequests(v) ==
  LET k == removing[v] IN
  /\ k # NoKey
  /\ IF agent[k] = "online" THEN EndStreams(k) ELSE chat' = chat
  /\ removing' = [removing EXCEPT ![v] = NoKey]
  /\ UNCHANGED <<keyVars, inviteVars, memberVars, joinVars, rotateVars, agent>>
------------------------------------------------------------------------------
(* A chat request: requireAPIKey, CanAccessMachine, the relay.              *)

HasKey(u) == Keyed(u) \/ \E k \in Keys : OwnerOf[k] = u /\ keyState[k] = "active"
AnyMachine(u, k) == k \in machines
CanAccessMachine(u, k) ==
  /\ k \in machines
  /\ IF OwnerOf[k] = u THEN keyState[k] = "active" ELSE binding[u][k] # NoInvite

RequireAPIKey(c) ==
  /\ chat[c] = "idle" /\ HasKey(ChatUser[c])
  /\ chat' = [chat EXCEPT ![c] = "authenticated"]
  /\ UNCHANGED <<keyVars, inviteVars, memberVars, joinVars, rotateVars, removing, agent>>

Authorize(c) ==
  /\ chat[c] = "authenticated"
  /\ chat' = [chat EXCEPT ![c] =
       IF CanAccessMachine(ChatUser[c], ChatKey[c]) THEN "allowed" ELSE "done"]
  /\ UNCHANGED <<keyVars, inviteVars, memberVars, joinVars, rotateVars, removing, agent>>

StartStream(c) ==
  /\ chat[c] = "allowed"
  /\ chat' = [chat EXCEPT ![c] = IF agent[ChatKey[c]] = "online" THEN "streaming" ELSE "done"]
  /\ UNCHANGED <<keyVars, inviteVars, memberVars, joinVars, rotateVars, removing, agent>>

EndStream(c) ==
  /\ chat[c] = "streaming"
  /\ chat' = [chat EXCEPT ![c] = "done"]
  /\ UNCHANGED <<keyVars, inviteVars, memberVars, joinVars, rotateVars, removing, agent>>
------------------------------------------------------------------------------
(* The coordinator is restarted: handlers and sessions are gone, the        *)
(* database is as the last statement left it.                               *)
Crash ==
  /\ "crash" \in Faults
  /\ joining' = [j \in Joins |-> IF joining[j] = "idle" THEN "idle" ELSE "done"]
  /\ rotating' = [r \in Rotations |-> IF rotating[r] = "idle" THEN "idle" ELSE "done"]
  /\ removing' = [v \in Removals |-> NoKey]
  /\ chat' = [c \in Chats |-> IF chat[c] = "idle" THEN "idle" ELSE "done"]
  /\ agent' = [k \in Keys |-> "offline"]
  /\ UNCHANGED <<keyVars, inviteVars, memberVars, pin, target, swept, retired>>

Provider(k) == CreateKey(k) \/ AcceptAgent(k) \/ RegisterAgent(k) \/ AgentLeaves(k)
Inviting(i) ==
  \/ \E k \in Keys, n \in 1..MaxUses : CreateInvite(i, k, n)
  \/ RevokeInvite(i) \/ Expire(i)
Join(j) ==
  \/ \E i \in Invites : LookupPIN(j, i)
  \/ RedeemAsMember(j) \/ RedeemAsOwner(j) \/ ListKeys(j) \/ CreateConsumerKey(j)
Retirement(r) ==
  \/ \E k \in Keys : CreateSuccessor(r, k)
  \/ UnregisterMachine(r) \/ RetireInvites(r) \/ RetireBindings(r) \/ CreateMachine(r)
Rotation(r) ==
  \/ \E k \in Keys : RevokeKey(r, k)
  \/ Retirement(r) \/ StatementFails(r)
Removal(v) ==
  \/ \E u \in Users, k \in Keys : RevokeBinding(v, u, k)
  \/ CancelMachineRequests(v)
Chat(c) == RequireAPIKey(c) \/ Authorize(c) \/ StartStream(c) \/ EndStream(c)

Next ==
  \/ \E k \in Keys : Provider(k)
  \/ \E i \in Invites : Inviting(i)
  \/ \E j \in Joins : Join(j)
  \/ \E u \in Users : RevokeConsumerKey(u)
  \/ \E r \in Rotations : Rotation(r)
  \/ \E v \in Removals : Removal(v)
  \/ \E c \in Chats : Chat(c)
  \/ Crash

Spec == Init /\ [][Next]_vars

(* A handler of key revocation that has begun runs to its end.              *)
FairSpec == Spec /\ \A r \in Rotations : WF_vars(Retirement(r))
------------------------------------------------------------------------------
(* An invite admits at most max_uses members, however many handlers redeem  *)
(* it at once: each binding it gave was counted, and the count stays within *)
(* the limit although RedeemPIN checks it before its transaction.           *)
UsesWithinLimit ==
  \A i \in Invites : Cardinality(granted[i]) <= uses[i] /\ uses[i] <= maxUses[i]

(* Revoking an invite makes new redemptions impossible, also for a handler  *)
(* that looked the PIN up before.                                           *)
RevokedAdmitsNobody ==
  [][\A i \in revoked : granted'[i] = granted[i]]_vars

(* After RetireMachine nobody is a member of the machine through an invite  *)
(* that existed when it ran: no redemption slips in between the statement   *)
(* that revokes the invites and the one that revokes the bindings.          *)
RetirementHolds ==
  \A k \in retired : \A u \in Users : binding[u][k] \in late \cup {NoInvite}

(* A provider key is replaced at most once, whatever revocations and        *)
(* regenerations of it run at the same time.                                *)
OneSuccessor ==
  \A k \in Keys : \A a, b \in successor[k] : a = b

(* Nobody streams from a machine without owning it or having redeemed an    *)
(* invite to it, whatever happened between redemption, check and stream.    *)
Invited(u, k) ==
  OwnerOf[k] = u \/ \E i \in Invites : invKey[i] = k /\ \E j \in granted[i] : JoinUser[j] = u
StreamsWereInvited ==
  \A c \in Chats : chat[c] \in {"allowed", "streaming"} => Invited(ChatUser[c], ChatKey[c])

(* Redeeming an invite is as good as one step: whatever other handlers did  *)
(* since it was looked up, and whatever is cut short by a crash, invites    *)
(* and members do what Membership does, with the uses that are left for     *)
(* places.                                                                  *)
PlacesLeft ==
  [i \in Invites |-> IF invKey[i] = NoKey THEN 0 ELSE maxUses[i] - uses[i]]
Promise == INSTANCE Membership WITH
  Machines <- Keys, NoMachine <- NoKey, MaxPlaces <- MaxUses,
  machineOf <- invKey, places <- PlacesLeft, closed <- revoked, member <- binding
RedemptionIsOneStep == Promise!Spec

(* The inductive invariant behind the four invariants above.                *)
GrantsAreFinite == \A i \in Invites : IsFiniteSet(granted[i])
FreshInvites == \A i \in Invites : invKey[i] = NoKey => uses[i] = 0
InvitesHaveMachines == \A i \in Invites : invKey[i] # NoKey => invKey[i] \in machines
CheckedPins ==
  \A j \in Joins : joining[j] = "checked" => pin[j] \in Invites /\ invKey[pin[j]] \in Keys
BindingsWereGranted ==
  \A u \in Users, k \in Keys : binding[u][k] # NoInvite =>
    invKey[binding[u][k]] = k /\ \E j \in granted[binding[u][k]] : JoinUser[j] = u
SweptInvites == \A i \in Invites : invKey[i] \in swept => i \in revoked \cup late
RetiredAreSwept == retired \subseteq swept
RotationTargets ==
  \A r \in Rotations : rotating[r] \in Rotating =>
    /\ target[r] \in Keys /\ keyState[target[r]] = "revoked"
    /\ rotating[r] = "bindings" => target[r] \in swept
Successors ==
  /\ \A k \in Keys : successor[k] # {} => keyState[k] = "revoked"
  /\ \A r \in Rotations : rotating[r] = "create" => successor[target[r]] = {}
  /\ \A r, s \in Rotations :
       rotating[r] = "create" /\ rotating[s] = "create" /\ target[r] = target[s] => r = s
IndInv ==
  /\ UsesWithinLimit /\ GrantsAreFinite /\ FreshInvites /\ InvitesHaveMachines /\ CheckedPins
  /\ BindingsWereGranted /\ SweptInvites /\ RetiredAreSwept /\ RetirementHolds
  /\ RotationTargets /\ Successors /\ OneSuccessor /\ StreamsWereInvited

(* Without crashes and failed statements a revoked key ends the membership  *)
(* of everyone invited before, for good.                                    *)
NoOldMembers(k) == \A u \in Users : binding[u][k] \in late \cup {NoInvite}
RevocationCompletes ==
  \A k \in Keys : keyState[k] = "revoked" ~> []NoOldMembers(k)
------------------------------------------------------------------------------
(* What the documentation says and the code does not do.                    *)

(* store.go:571: RetireMachine invalidates the invites and bindings of a    *)
(* machine whose key is revoked or regenerated.  A restart between RevokeKey*)
(* and RetireMachine leaves them active, and a second revocation is refused.*)
RevocationSurvivesCrash ==
  \A k \in Keys : keyState[k] = "revoked" ~> NoOldMembers(k)

(* SPEC-v2.md:232: a redemption answers machine_gone when the machine or    *)
(* its key are deleted.  So a retired machine gets no members.              *)
RetiredAdmitsNobody ==
  [][\A k \in retired, u \in Users :
       binding[u][k] = NoInvite => binding'[u][k] = NoInvite]_vars

(* SPEC-v2.md:240: a member whose binding is revoked loses the machine, and *)
(* streams to it are cancelled.                                             *)
RevokedMembersDoNotStream ==
  \A c \in Chats : chat[c] = "streaming" /\ OwnerOf[ChatKey[c]] # ChatUser[c] =>
    \/ binding[ChatUser[c]][ChatKey[c]] # NoInvite
    \/ \E v \in Removals : removing[v] = ChatKey[c]
    \/ \E r \in Rotations : target[r] = ChatKey[c]

(* SPEC-v2.md:219: an existing consumer key is used, keys do not multiply.  *)
OneConsumerKey == \A u \in Users : consumer[u] <= 1
==============================================================================
