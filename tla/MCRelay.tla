------------------------------- MODULE MCRelay -------------------------------
(* Relay for TLC: one machine, so that every session of the instance is a   *)
(* successive connection of the same agent.                                 *)
EXTENDS Relay, TLC

CONSTANTS m1, q1

OneMachineOf == [s \in Sessions |-> m1]
OneTargetOf == [q \in Requests |-> m1]
AllStreams == Requests
FirstStreams == {q1}
NoStreams == {}

Symmetric == Permutations(Sessions) \cup Permutations(Requests)
SessionsSymmetric == Permutations(Sessions)

(* For an instance that leaves out the race of two load updates.            *)
OneUpdate == \A p, q \in Requests : Updating(p) /\ Updating(q) => p = q
==============================================================================
