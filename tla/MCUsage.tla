------------------------------- MODULE MCUsage -------------------------------
(* Usage for TLC: three connections of one machine, or of two.              *)
EXTENDS Usage, TLC

CONSTANTS m1, m2, s1, s2, s3, q1, q2, t1, t2

OneMachine == [s \in Sessions |-> m1]
TwoMachines == [s \in Sessions |-> IF s = s3 THEN m2 ELSE m1]
Interchangeable == Permutations(Tokens) \cup Permutations(Requests)
InOneMachine == Interchangeable \cup Permutations(Sessions)
==============================================================================
