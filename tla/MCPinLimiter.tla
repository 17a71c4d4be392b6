---------------------------- MODULE MCPinLimiter -----------------------------
(* PinLimiter for TLC: two users behind two addresses.                      *)
EXTENDS PinLimiter, TLC

CONSTANTS u1, u2, a1, a2

Interchangeable == Permutations(Users) \cup Permutations(IPs)
==============================================================================
