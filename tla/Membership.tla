------------------------------- MODULE Membership -----------------------------
(***************************************************************************)
(* What an owner may rely on who invites people to a machine: an invite has *)
(* so many places and no more, a closed one admits nobody, and whoever is   *)
(* let in takes a place at that moment.  Looking an invite up, checking it, *)
(* counting its use and binding the user, which the coordinator does in     *)
(* several statements next to those of other handlers, are one step here.   *)
(***************************************************************************)
EXTENDS Integers

CONSTANTS
  Users,
  Machines,
  Invites,
  NoMachine,  \* of an invite nobody has offered yet
  NoInvite,   \* of a user who is no member of a machine
  MaxPlaces   \* the most places an invite may have

VARIABLES
  machineOf,  \* the machine an invite is to
  places,     \* how many it may still let in
  closed,     \* invites that let nobody in any more
  member      \* the invite by which a user is a member of a machine

vars == <<machineOf, places, closed, member>>

Init ==
  /\ machineOf = [i \in Invites |-> NoMachine]
  /\ places = [i \in Invites |-> 0]
  /\ closed = {}
  /\ member = [u \in Users |-> [k \in Machines |-> NoInvite]]

Offer(i, k, n) ==
  /\ machineOf[i] = NoMachine
  /\ machineOf' = [machineOf EXCEPT ![i] = k]
  /\ places' = [places EXCEPT ![i] = n]
  /\ UNCHANGED <<closed, member>>

(* One invite, or all that a machine has.                                   *)
Close(S) ==
  /\ closed' = closed \cup S
  /\ UNCHANGED <<machineOf, places, member>>

TakePlace(i) == places[i] > 0 /\ places' = [places EXCEPT ![i] = @ - 1]

Admit(u, i) ==
  /\ machineOf[i] # NoMachine /\ i \notin closed
  /\ TakePlace(i)
  /\ member' = [member EXCEPT ![u][machineOf[i]] = i]
  /\ UNCHANGED <<machineOf, closed>>

(* The owner, who needs no membership, tries an invite out.                 *)
Visit(i) ==
  /\ TakePlace(i)
  /\ UNCHANGED <<machineOf, closed, member>>

(* A member leaves or is removed, or all of a machine are.                  *)
Dismiss(S, k) ==
  /\ member' = [u \in Users |-> IF u \in S THEN [member[u] EXCEPT ![k] = NoInvite]
                                           ELSE member[u]]
  /\ UNCHANGED <<machineOf, places, closed>>

Next ==
  \/ \E i \in Invites, k \in Machines, n \in 1..MaxPlaces : Offer(i, k, n)
  \/ \E S \in SUBSET Invites : Close(S)
  \/ \E u \in Users, i \in Invites : Admit(u, i)
  \/ \E i \in Invites : Visit(i)
  \/ \E S \in SUBSET Users, k \in Machines : Dismiss(S, k)

Spec == Init /\ [][Next]_vars
==============================================================================
