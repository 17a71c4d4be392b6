------------------------------ MODULE RateLimiter ----------------------------
(***************************************************************************)
(* The token bucket of an API key (coord/ratelimit.go).                     *)
(*                                                                          *)
(* The unit of time is the one in which a bucket gains a fraction 1/Ticks   *)
(* of a token, and buckets are counted in these fractions: integers stand   *)
(* for the exact values that the code's floats approximate.  Whole calls    *)
(* are atomic: they hold the limiter's mutex.  A key that has no bucket is  *)
(* treated as full.                                                         *)
(*                                                                          *)
(* Unbounded and SparesNobody are faulty versions of the definition that    *)
(* follows each: no action uses them.                                       *)
(***************************************************************************)
EXTENDS Integers, Sequences, FiniteSets

CONSTANTS
  Keys,      \* API key hashes
  PerHour,   \* tokens of a full bucket, and tokens gained in an hour
  Ticks,     \* instants until a bucket gains a token
  Interval,  \* instants between two runs of cleanup (10 minutes)
  NoBucket,  \* a key that is not in the map
  MaxNow     \* bound: the latest instant

ASSUME NumbersAssumption ==
  /\ PerHour \in Nat \ {0} /\ Ticks \in Nat \ {0} /\ Interval \in Nat \ {0}
  /\ MaxNow \in Nat

Burst == PerHour * Ticks
Buckets == [tokens : 0..Burst, last : Nat]
ASSUME NoBucketAssumption == NoBucket \notin Buckets

VARIABLES
  now,      \* time.Now()
  buckets,  \* rl.buckets
  sweeps,   \* when cleanup has run
  passed    \* when requests of a key were let through

vars == <<now, buckets, sweeps, passed>>

TypeOK ==
  /\ now \in Nat
  /\ buckets \in [Keys -> Buckets \cup {NoBucket}]
  /\ sweeps \in SUBSET Nat
  /\ passed \in [Keys -> Seq(Nat)]

Init ==
  /\ now = 0
  /\ buckets = [k \in Keys |-> NoBucket]
  /\ sweeps = {}
  /\ passed = [k \in Keys |-> <<>>]

Unbounded(tokens) == tokens
Capped(tokens) == IF tokens > Burst THEN Burst ELSE tokens

(* Tokens of a key now: the refill of Allow, and what Remaining reports.    *)
Level(k) ==
  IF buckets[k] = NoBucket THEN Burst
  ELSE Capped(buckets[k].tokens + (now - buckets[k].last))

HasToken(tokens) == tokens >= Ticks

Allow(k) ==
  /\ buckets' = [buckets EXCEPT ![k] =
       [tokens |-> IF HasToken(Level(k)) THEN Level(k) - Ticks ELSE Level(k), last |-> now]]
  /\ passed' = IF HasToken(Level(k)) THEN [passed EXCEPT ![k] = Append(@, now)] ELSE passed
  /\ UNCHANGED <<now, sweeps>>

(* cleanup deletes the buckets that are nine tenths full.  Their tokens are *)
(* not capped here.                                                         *)
SparesNobody(b) == TRUE
NearlyFull(b) == 10 * (b.tokens + (now - b.last)) >= 9 * Burst

Cleanup ==
  /\ now > 0 /\ now % Interval = 0 /\ now \notin sweeps
  /\ buckets' = [k \in Keys |->
       IF buckets[k] # NoBucket /\ NearlyFull(buckets[k]) THEN NoBucket ELSE buckets[k]]
  /\ sweeps' = sweeps \cup {now}
  /\ UNCHANGED <<now, passed>>

Pass ==
  /\ now < MaxNow
  /\ now' = now + 1
  /\ UNCHANGED <<buckets, sweeps, passed>>

Next == Pass \/ Cleanup \/ \E k \in Keys : Allow(k)

Spec == Init /\ [][Next]_vars
------------------------------------------------------------------------------
(* Between any two requests of a key lie at most as many tokens as a full   *)
(* bucket holds, the time between them refills and cleanup gives away, a    *)
(* tenth of a bucket each time.                                             *)
Given(i, j, k) ==
  10 * (Burst + (passed[k][j] - passed[k][i]))
    + Burst * Cardinality({t \in sweeps : passed[k][i] <= t /\ t <= passed[k][j]})
Throttled ==
  \A k \in Keys : \A j \in 1..Len(passed[k]) : \A i \in 1..j :
    10 * (j - i + 1) * Ticks <= Given(i, j, k)

(* The inductive invariant behind it: what passed since a request and what  *)
(* the bucket holds now came from a full bucket, the time and the sweeps.   *)
PastTimes ==
  /\ IsFiniteSet(sweeps) /\ sweeps \subseteq 0..now
  /\ \A k \in Keys :
       /\ buckets[k] # NoBucket => buckets[k].last <= now
       /\ \A i \in 1..Len(passed[k]) : passed[k][i] <= now
Since(t) == {u \in sweeps : t <= u /\ u <= now}
Balanced ==
  \A k \in Keys : \A i \in 1..Len(passed[k]) :
    10 * (Len(passed[k]) - i + 1) * Ticks + 10 * Level(k)
      <= 10 * (Burst + (now - passed[k][i])) + Burst * Cardinality(Since(passed[k][i]))
IndInv == PastTimes /\ Balanced /\ Throttled

(* ratelimit.go:24: each call consumes one token, and tokens refill at      *)
(* perHour/3600 per second.  A deleted bucket comes back full.              *)
TokensRefillAtRate ==
  \A k \in Keys : \A j \in 1..Len(passed[k]) : \A i \in 1..j :
    (j - i + 1) * Ticks <= Burst + (passed[k][j] - passed[k][i])
==============================================================================
