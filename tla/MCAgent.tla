------------------------------- MODULE MCAgent -------------------------------
(* Agent for TLC: requests that all stream, or none, or the first one.      *)
EXTENDS Agent, TLC

CONSTANT q1

AllStreams == Requests
FirstStreams == {q1}
NoStreams == {}
Interchangeable == Permutations(Requests)
==============================================================================
