------------------------------ MODULE PinLimiter -----------------------------
(***************************************************************************)
(* The limit on attempts to redeem a PIN (coord/invites.go): a sliding      *)
(* window for the user and one for the address an attempt comes from.       *)
(*                                                                          *)
(* An attempt that is let through has a number, and its time is at[number], *)
(* so that attempts at the same instant stay apart.  Whole calls of allow   *)
(* are atomic: they hold the limiter's mutex.                               *)
(*                                                                          *)
(* ForgetsEarly, CountsOneMore and ChargesUser are faulty versions of the   *)
(* definition that follows each: no action uses them.                       *)
(***************************************************************************)
EXTENDS Integers, Sequences, FiniteSets

CONSTANTS
  Users,    \* "user:" keys
  IPs,      \* "ip:" keys
  Limit,    \* attempts within a window (10)
  Window,   \* its length (15 minutes)
  MaxNow    \* bound: the latest instant

ASSUME KeysAssumption == Users \cap IPs = {}
ASSUME NumbersAssumption == Limit \in Nat \ {0} /\ Window \in Nat \ {0} /\ MaxNow \in Nat

Keys == Users \cup IPs

VARIABLES
  now,       \* time.Now(), which never goes back
  at,        \* times of the attempts that were let through
  attempts,  \* p.attempts: what the limiter remembers of a key
  admitted   \* all attempts of a key that were let through

vars == <<now, at, attempts, admitted>>

TypeOK ==
  /\ now \in Nat
  /\ at \in Seq(Nat)
  /\ attempts \in [Keys -> SUBSET (1..Len(at))]
  /\ admitted \in [Keys -> SUBSET (1..Len(at))]

Init ==
  /\ now = 0 /\ at = <<>>
  /\ attempts = [k \in Keys |-> {}] /\ admitted = [k \in Keys |-> {}]

(* t.After(cutoff)                                                          *)
ForgetsEarly(k) == {n \in attempts[k] : at[n] > now - Window + 1}
Recent(k) == {n \in attempts[k] : at[n] > now - Window}

CountsOneMore(k) == Cardinality(Recent(k)) > Limit
Exhausted(k) == Cardinality(Recent(k)) >= Limit

(* The first exhausted key refuses the attempt; the keys looked at so far   *)
(* have been rid of what is too old, nothing else changes.                  *)
ChargesUser(user, ip) ==
  attempts' = [k \in Keys |->
    IF k = user THEN Recent(k) \cup {Len(at) + 1} ELSE IF k = ip THEN Recent(k) ELSE attempts[k]]
RefuseIP(user, ip) ==
  attempts' = [k \in Keys |-> IF k \in {user, ip} THEN Recent(k) ELSE attempts[k]]

Refuse(user, ip) ==
  /\ \/ Exhausted(user) /\ attempts' = [attempts EXCEPT ![user] = Recent(user)]
     \/ ~Exhausted(user) /\ Exhausted(ip) /\ RefuseIP(user, ip)
  /\ UNCHANGED <<now, at, admitted>>

(* An attempt that is let through counts for both keys.                     *)
Admit(user, ip) ==
  LET n == Len(at) + 1 IN
  /\ ~Exhausted(user) /\ ~Exhausted(ip)
  /\ at' = Append(at, now)
  /\ attempts' = [k \in Keys |-> IF k \in {user, ip} THEN Recent(k) \cup {n} ELSE attempts[k]]
  /\ admitted' = [k \in Keys |->
       IF k \in {user, ip} THEN admitted[k] \cup {n} ELSE admitted[k]]
  /\ now' = now

Allow(user, ip) == Admit(user, ip) \/ Refuse(user, ip)

Pass ==
  /\ now < MaxNow
  /\ now' = now + 1
  /\ UNCHANGED <<at, attempts, admitted>>

Next == Pass \/ \E user \in Users, ip \in IPs : Allow(user, ip)

Spec == Init /\ [][Next]_vars
------------------------------------------------------------------------------
(* In no window of the given length, wherever it lies, does a user or an    *)
(* address get more than Limit attempts, although the limiter forgets.      *)
Within(k, t) == {n \in admitted[k] : t - Window < at[n] /\ at[n] <= t}
WindowHolds == \A k \in Keys : \A t \in 0..now : Cardinality(Within(k, t)) <= Limit

(* A refused attempt costs neither key anything: attempts of a user behind  *)
(* an exhausted address do not exhaust the user.                            *)
RefusalsAreFree == \A k \in Keys : attempts[k] \subseteq admitted[k]

(* What the limiter has forgotten cannot matter any more.                   *)
ForgottenAreOld ==
  \A k \in Keys : \A n \in admitted[k] \ attempts[k] : at[n] <= now - Window
TimesArePast == \A n \in 1..Len(at) : at[n] <= now
IndInv == TypeOK /\ WindowHolds /\ RefusalsAreFree /\ ForgottenAreOld /\ TimesArePast
==============================================================================
