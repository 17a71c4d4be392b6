------------------------------- MODULE MCAccess ------------------------------
(* Access for TLC: one owner of all machines, who may also redeem a PIN.    *)
EXTENDS Access, TLC

CONSTANTS owner, k1, u1, u2, j1

OneOwner == [k \in Keys |-> owner]
(* One join of each member, or j1 of u1 and the rest of u2.                 *)
MembersJoin == [j \in Joins |-> IF j = j1 THEN u1 ELSE u2]
SameUserJoins == [j \in Joins |-> u1]
OwnerJoins == [j \in Joins |-> IF j = j1 THEN u1 ELSE owner]
MemberChats == [c \in Chats |-> u1]
OneMachineChats == [c \in Chats |-> k1]

Interchangeable == Permutations(Rotations) \cup Permutations(Invites)
==============================================================================
