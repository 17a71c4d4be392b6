--------------------------- MODULE RateLimiterProofs -------------------------
(***************************************************************************)
(* The throttle holds for every rate, every interval between sweeps and     *)
(* any number of keys and requests.                                         *)
(***************************************************************************)
EXTENDS RateLimiter, FiniteSetTheorems, TLAPS

USE NumbersAssumption, NoBucketAssumption

(* A full bucket is a whole number of fractions of a token.                 *)
LEMMA BurstType == Burst \in Nat
<1>1. PerHour \in Nat /\ Ticks \in Nat
  OBVIOUS
<1> QED BY <1>1 DEF Burst

(* A bucket holds at most a full one.                                       *)
LEMMA LevelType ==
  ASSUME TypeOK, PastTimes, NEW k \in Keys
  PROVE  Level(k) \in 0..Burst
<1>1. CASE buckets[k] = NoBucket
  BY <1>1, BurstType DEF Level
<1>2. CASE buckets[k] # NoBucket
  <2>1. /\ buckets[k].tokens \in 0..Burst /\ buckets[k].last \in Nat
        /\ buckets[k].last <= now /\ now \in Nat
    BY <1>2 DEF TypeOK, Buckets, PastTimes
  <2> QED BY <1>2, <2>1, BurstType DEF Level, Capped
<1> QED BY <1>1, <1>2

(* A bucket that is a fraction fuller holds at most that fraction more.     *)
LEMMA CappedSteps ==
  ASSUME NEW x \in Int
  PROVE  Capped(x) \in Int /\ Capped(x + 1) \in Int /\ Capped(x + 1) <= Capped(x) + 1
BY BurstType DEF Capped

(* The sweeps of a stretch of time are counted, and a longer stretch has no *)
(* fewer of them.                                                           *)
LEMMA Counted ==
  ASSUME IsFiniteSet(sweeps), NEW S \in SUBSET sweeps, NEW T \in SUBSET S
  PROVE  /\ Cardinality(S) \in Nat /\ Cardinality(T) \in Nat
         /\ Cardinality(T) <= Cardinality(S)
<1>1. IsFiniteSet(S) /\ IsFiniteSet(T)
  BY FS_Subset
<1> QED BY <1>1, FS_Subset, FS_CardinalityType

(* The sweeps since an instant are counted.                                 *)
LEMMA SinceCounts ==
  ASSUME PastTimes, NEW t
  PROVE  Cardinality(Since(t)) \in Nat
BY Counted DEF Since, PastTimes

(* A second more of the clock is a fraction more in the bucket at most.     *)
LEMMA PassKeeps ==
  ASSUME TypeOK, IndInv, Pass
  PROVE  IndInv'
<1>1. now \in Nat /\ now' = now + 1 /\ UNCHANGED <<buckets, sweeps, passed>>
  BY DEF Pass, TypeOK
<1>2. PastTimes'
  <2>1. sweeps \subseteq 0..(now + 1)
    BY <1>1 DEF IndInv, PastTimes
  <2>2. ASSUME NEW k \in Keys, buckets[k] # NoBucket PROVE buckets[k].last <= now + 1
    BY <1>1, <2>2 DEF IndInv, PastTimes, TypeOK, Buckets
  <2>3. ASSUME NEW k \in Keys, NEW i \in 1..Len(passed[k]) PROVE passed[k][i] <= now + 1
    BY <1>1, <2>3 DEF IndInv, PastTimes, TypeOK
  <2> QED BY <1>1, <2>1, <2>2, <2>3 DEF IndInv, PastTimes
<1>3. Throttled'
  BY <1>1 DEF IndInv, Throttled, Given
<1>4. Balanced'
  <2> SUFFICES ASSUME NEW k \in Keys, NEW i \in 1..Len(passed[k])
               PROVE  (10 * (Len(passed[k]) - i + 1) * Ticks + 10 * Level(k)
                        <= 10 * (Burst + (now - passed[k][i]))
                             + Burst * Cardinality(Since(passed[k][i])))'
    BY <1>1 DEF Balanced
  <2> DEFINE t == passed[k][i]
             spent == 10 * (Len(passed[k]) - i + 1) * Ticks
             given == Burst * Cardinality(Since(t))
  <2>1. t \in Nat /\ spent \in Int
    BY DEF TypeOK
  <2>2. Level(k) \in Int /\ Level(k)' <= Level(k) + 1 /\ Level(k)' \in Int
    <3>1. CASE buckets[k] = NoBucket
      BY <1>1, <3>1, BurstType DEF Level
    <3>2. CASE buckets[k] # NoBucket
      <4>1. buckets[k].tokens \in Nat /\ buckets[k].last \in Nat
        BY <3>2, BurstType DEF TypeOK, Buckets
      <4> DEFINE x == buckets[k].tokens + (now - buckets[k].last)
                 y == buckets'[k].tokens + (now' - buckets'[k].last)
      <4>2. buckets'[k] = buckets[k] /\ now' = now + 1 /\ now \in Int
        BY <1>1
      <4>3. x \in Int /\ y = x + 1
        <5>1. x \in Int
          BY <4>1, <4>2
        <5>2. y = buckets[k].tokens + ((now + 1) - buckets[k].last)
          <6>1. buckets'[k].tokens = buckets[k].tokens /\ buckets'[k].last = buckets[k].last
            BY <4>2
          <6> QED BY <4>1, <4>2, <6>1
        <5>3. \A a, b, c \in Int : a + ((b + 1) - c) = a + (b - c) + 1
          OBVIOUS
        <5> QED BY <4>1, <4>2, <5>1, <5>2, <5>3
      <4>4. Level(k) = Capped(x)
        BY <3>2 DEF Level
      <4>5. Level(k)' = Capped(y)
        <5>1. buckets'[k] # NoBucket
          BY <3>2, <4>2
        <5> QED BY <5>1, Zenon DEF Level, Capped, Burst
      <4> HIDE DEF x, y
      <4> QED BY <4>3, <4>4, <4>5, CappedSteps
    <3> QED BY <3>1, <3>2
  <2>3. Since(t)' = Since(t)
    <3>1. sweeps' = sweeps /\ t' = t /\ \A u \in sweeps : u \in 0..now
      BY <1>1 DEF IndInv, PastTimes
    <3>2. \A u \in sweeps : u <= now /\ u <= now'
      BY <1>1, <3>1
    <3>3. Since(t) = {u \in sweeps : t <= u} /\ Since(t)' = {u \in sweeps : t <= u}
      BY <3>1, <3>2 DEF Since
    <3> QED BY <3>3
  <2>4. given \in Int
    BY SinceCounts, BurstType DEF IndInv
  <2>5. spent + 10 * Level(k) <= 10 * (Burst + (now - t)) + given
    BY DEF IndInv, Balanced
  <2>6. spent' = spent /\ t' = t /\ given' = given
    BY <1>1, <2>3
  <2> HIDE DEF spent, given, t
  <2>7. spent + 10 * Level(k)' <= 10 * (Burst + (now' - t)) + given
    BY <1>1, <2>1, <2>2, <2>4, <2>5, BurstType
  <2> QED BY <2>6, <2>7 DEF spent, given, t
<1> QED BY <1>2, <1>3, <1>4 DEF IndInv

(* A sweep gives a tenth of a bucket away, and is one more sweep.           *)
LEMMA CleanupKeeps ==
  ASSUME TypeOK, IndInv, Cleanup
  PROVE  IndInv'
<1>1. /\ now \in Nat /\ now' = now /\ passed' = passed
      /\ now \notin sweeps /\ sweeps' = sweeps \cup {now}
      /\ buckets' = [k \in Keys |->
           IF buckets[k] # NoBucket /\ NearlyFull(buckets[k]) THEN NoBucket ELSE buckets[k]]
  BY DEF Cleanup, TypeOK
<1>2. IsFiniteSet(sweeps) /\ IsFiniteSet(sweeps')
  BY <1>1, FS_AddElement DEF IndInv, PastTimes
<1>3. PastTimes'
  <2>1. sweeps' \subseteq 0..now
    BY <1>1 DEF IndInv, PastTimes
  <2> QED BY <1>1, <1>2, <2>1 DEF IndInv, PastTimes
<1>4. Throttled'
  <2> SUFFICES ASSUME NEW k \in Keys, NEW j \in 1..Len(passed[k]), NEW i \in 1..j
               PROVE  10 * (j - i + 1) * Ticks <= Given(i, j, k)'
    BY <1>1 DEF Throttled
  <2> DEFINE S == {t \in sweeps : passed[k][i] <= t /\ t <= passed[k][j]}
  <2>1. IsFiniteSet(S') /\ S \subseteq S'
    <3>1. S \subseteq sweeps /\ S' \subseteq sweeps'
      OBVIOUS
    <3> QED BY <1>1, <1>2, <3>1, FS_Subset
  <2>2. Cardinality(S) \in Nat /\ Cardinality(S') \in Nat /\ Cardinality(S) <= Cardinality(S')
    BY <2>1, FS_Subset, FS_CardinalityType
  <2>3. passed[k][i] \in Nat /\ passed[k][j] \in Nat
    BY DEF TypeOK
  <2>4. 10 * (j - i + 1) * Ticks
          <= 10 * (Burst + (passed[k][j] - passed[k][i])) + Burst * Cardinality(S)
    BY DEF IndInv, Throttled, Given
  <2>5. Given(i, j, k)'
          = 10 * (Burst + (passed[k][j] - passed[k][i])) + Burst * Cardinality(S')
    BY <1>1 DEF Given, Burst
  <2> HIDE DEF S
  <2>6. Burst * Cardinality(S) <= Burst * Cardinality(S')
    BY <2>2, BurstType
  <2>7. Burst * Cardinality(S) \in Int /\ Burst * Cardinality(S') \in Int
    BY <2>2, BurstType
  <2>8. 10 * (j - i + 1) * Ticks \in Int /\ 10 * (Burst + (passed[k][j] - passed[k][i])) \in Int
    BY <2>3, BurstType
  <2> QED BY <2>4, <2>5, <2>6, <2>7, <2>8
<1>5. Balanced'
  <2> SUFFICES ASSUME NEW k \in Keys, NEW i \in 1..Len(passed[k])
               PROVE  (10 * (Len(passed[k]) - i + 1) * Ticks + 10 * Level(k)
                        <= 10 * (Burst + (now - passed[k][i]))
                             + Burst * Cardinality(Since(passed[k][i])))'
    BY <1>1 DEF Balanced
  <2> DEFINE t == passed[k][i]
             spent == 10 * (Len(passed[k]) - i + 1) * Ticks
             n == Cardinality(Since(t))
  <2>1. t \in Nat /\ t <= now /\ spent \in Int
    BY DEF TypeOK, IndInv, PastTimes
  <2>2. Level(k) \in 0..Burst
    BY LevelType DEF IndInv
  <2>3. Level(k)' = Level(k) \/ (Level(k)' = Burst /\ 10 * Level(k) >= 9 * Burst)
    <3>1. CASE buckets[k] # NoBucket /\ NearlyFull(buckets[k])
      <4>1. buckets[k].tokens \in Nat /\ buckets[k].last \in Nat
        BY <3>1, BurstType DEF TypeOK, Buckets
      <4>2. Level(k)' = Burst
        BY <1>1, <3>1 DEF Level, Burst
      <4> QED BY <1>1, <3>1, <4>1, <4>2, BurstType DEF Level, Capped, NearlyFull
    <3>2. CASE ~(buckets[k] # NoBucket /\ NearlyFull(buckets[k]))
      BY <1>1, <3>2 DEF Level, Capped, Burst
    <3> QED BY <3>1, <3>2
  <2>4. n \in Nat /\ n' = n + 1
    <3>1. Since(t)' = Since(t) \cup {now} /\ now \notin Since(t)
      BY <1>1, <2>1 DEF Since
    <3>2. IsFiniteSet(Since(t))
      BY <1>2, FS_Subset DEF Since
    <3> QED BY <3>1, <3>2, FS_AddElement, FS_CardinalityType
  <2>5. spent + 10 * Level(k) <= 10 * (Burst + (now - t)) + Burst * n
    BY DEF IndInv, Balanced
  <2>6. spent' = spent /\ t' = t
    BY <1>1
  <2> HIDE DEF spent, n, t
  <2>7. Burst * (n + 1) = Burst * n + Burst /\ Burst * n \in Int
    BY <2>4, BurstType
  <2>8. spent + 10 * Level(k)' <= 10 * (Burst + (now - t)) + Burst * (n + 1)
    BY <1>1, <2>1, <2>2, <2>3, <2>5, <2>7, BurstType
  <2> QED BY <1>1, <2>4, <2>6, <2>8 DEF spent, n, t
<1> QED BY <1>3, <1>4, <1>5 DEF IndInv

(* A request that passes takes a token out of the bucket; one that does not *)
(* takes nothing.                                                           *)
LEMMA AllowKeeps ==
  ASSUME TypeOK, IndInv, NEW a \in Keys, Allow(a)
  PROVE  IndInv'
<1> DEFINE ok == HasToken(Level(a))
           left == IF ok THEN Level(a) - Ticks ELSE Level(a)
<1>1. /\ now \in Nat /\ now' = now /\ sweeps' = sweeps
      /\ buckets' = [buckets EXCEPT ![a] = [tokens |-> left, last |-> now]]
      /\ passed' = IF ok THEN [passed EXCEPT ![a] = Append(@, now)] ELSE passed
  BY DEF Allow, TypeOK
<1>2. Level(a) \in 0..Burst /\ left \in 0..Burst
  <2>1. Level(a) \in 0..Burst
    BY LevelType DEF IndInv
  <2> QED BY <2>1, BurstType DEF HasToken
<1>3. [tokens |-> left, last |-> now] \in Buckets
  BY <1>1, <1>2 DEF Buckets
<1>4. Level(a)' = left
  <2>1. buckets'[a] = [tokens |-> left, last |-> now] /\ buckets'[a] # NoBucket
    BY <1>1, <1>3 DEF TypeOK
  <2>2. left <= Burst /\ left + (now - now) = left
    BY <1>1, <1>2, BurstType
  <2>3. buckets'[a].tokens = left /\ buckets'[a].last = now
    BY <2>1
  <2>4. (buckets'[a].tokens + (now' - buckets'[a].last)) = left /\ ~(left > Burst)
    BY <1>1, <1>2, <2>2, <2>3, BurstType
  <2> HIDE DEF left
  <2>5. Capped(left) = left
    BY <2>4 DEF Capped
  <2> QED BY <2>1, <2>4, <2>5 DEF Level, Capped, Burst
<1>5. \A k \in Keys \ {a} : Level(k)' = Level(k)
  BY <1>1 DEF Level, Capped, Burst, TypeOK
<1> HIDE DEF left
<1>6. \A t : Since(t)' = Since(t)
  BY <1>1 DEF Since
<1>7. \A k \in Keys \ {a} : passed'[k] = passed[k]
  BY <1>1 DEF TypeOK
<1>8. CASE ~ok
  <2>1. passed' = passed /\ left = Level(a)
    BY <1>1, <1>8 DEF left
  <2>2. \A k \in Keys : Level(k)' = Level(k)
    BY <1>4, <1>5, <2>1
  <2>3. PastTimes'
    <3>1. \A k \in Keys : buckets'[k] # NoBucket => buckets'[k].last <= now
      BY <1>1 DEF IndInv, PastTimes, TypeOK
    <3> QED BY <1>1, <2>1, <3>1 DEF IndInv, PastTimes
  <2>4. Balanced'
    BY <1>1, <1>6, <2>1, <2>2 DEF IndInv, Balanced, Burst
  <2>5. Throttled'
    BY <1>1, <2>1 DEF IndInv, Throttled, Given, Burst
  <2> QED BY <2>3, <2>4, <2>5 DEF IndInv
<1>9. CASE ok
  <2> DEFINE n == Len(passed[a])
  <2>1. passed' = [passed EXCEPT ![a] = Append(@, now)] /\ left = Level(a) - Ticks
    BY <1>1, <1>9 DEF left
  <2>2. passed[a] \in Seq(Nat) /\ n \in Nat
    BY DEF TypeOK
  <2>3. /\ Len(passed'[a]) = n + 1 /\ passed'[a][n + 1] = now
        /\ \A i \in 1..n : passed'[a][i] = passed[a][i]
    BY <1>1, <2>1, <2>2 DEF TypeOK
  <2>4. PastTimes'
    <3>1. \A k \in Keys : buckets'[k] # NoBucket => buckets'[k].last <= now
      BY <1>1 DEF IndInv, PastTimes, TypeOK
    <3>2. \A k \in Keys : \A i \in 1..Len(passed'[k]) : passed'[k][i] <= now
      <4>1. ASSUME NEW i \in 1..(n + 1) PROVE passed'[a][i] <= now
        BY <1>1, <2>2, <2>3 DEF IndInv, PastTimes
      <4> QED BY <1>7, <2>3, <4>1 DEF IndInv, PastTimes
    <3> QED BY <1>1, <3>1, <3>2 DEF IndInv, PastTimes
  <2>5. ASSUME NEW i \in 1..(n + 1)
        PROVE  10 * (n + 1 - i + 1) * Ticks + 10 * left
                 <= 10 * (Burst + (now - passed'[a][i]))
                      + Burst * Cardinality(Since(passed'[a][i]))
    <3> DEFINE t == passed'[a][i]
               given == Burst * Cardinality(Since(t))
    <3>1. given \in Nat
      BY SinceCounts, BurstType DEF IndInv
    <3>2. CASE i = n + 1
      <4>1. t = now /\ n + 1 - i + 1 = 1
        BY <2>2, <2>3, <3>2
      <4> HIDE DEF given, t
      <4>2. 10 * 1 * Ticks + 10 * left <= 10 * (Burst + (now - t)) + given
        BY <1>1, <1>2, <2>1, <3>1, <4>1, BurstType
      <4> QED BY <4>1, <4>2 DEF given, t
    <3>3. CASE i \in 1..n
      <4> DEFINE old == n - i + 1
      <4>1. t = passed[a][i] /\ old \in Nat /\ n + 1 - i + 1 = old + 1 /\ t \in Nat
        <5>1. t = passed[a][i]
          BY <2>3, <3>3
        <5>2. old \in Nat /\ n + 1 - i + 1 = old + 1
          BY <2>2, <3>3
        <5>3. passed[a][i] \in Nat
          BY <2>2, <3>3
        <5> QED BY <5>1, <5>2, <5>3
      <4>2. 10 * old * Ticks + 10 * Level(a) <= 10 * (Burst + (now - t)) + given
        BY <3>3, <4>1 DEF IndInv, Balanced
      <4> HIDE DEF given, t, old
      <4>3. 10 * (old + 1) * Ticks = 10 * old * Ticks + 10 * Ticks /\ 10 * old * Ticks \in Int
        BY <4>1
      <4>4. 10 * (old + 1) * Ticks + 10 * left <= 10 * (Burst + (now - t)) + given
        BY <1>1, <1>2, <2>1, <3>1, <4>1, <4>2, <4>3, BurstType
      <4> QED BY <4>1, <4>4 DEF given, t
    <3> QED BY <2>2, <3>2, <3>3
  <2>6. Balanced'
    <3>1. ASSUME NEW k \in Keys \ {a}, NEW i \in 1..Len(passed[k])
          PROVE  10 * (Len(passed[k]) - i + 1) * Ticks + 10 * Level(k)
                   <= 10 * (Burst + (now - passed[k][i]))
                        + Burst * Cardinality(Since(passed[k][i]))
      BY DEF IndInv, Balanced
    <3>2. ASSUME NEW k \in Keys, NEW i \in 1..Len(passed'[k])
          PROVE  10 * (Len(passed'[k]) - i + 1) * Ticks + 10 * Level(k)'
                   <= 10 * (Burst + (now - passed'[k][i]))
                        + Burst * Cardinality(Since(passed'[k][i]))
      <4>1. CASE k = a
        <5>1. i \in 1..(n + 1)
          BY <2>3, <4>1
        <5>2. Level(k)' = left /\ passed'[k] = passed'[a]
          BY <1>4, <4>1
        <5>3. Len(passed'[k]) = n + 1
          BY <2>3, <5>2
        <5> QED BY <2>5, <5>1, <5>2, <5>3
      <4>2. CASE k # a
        BY <1>5, <1>7, <3>1, <4>2
      <4> QED BY <4>1, <4>2
    <3> QED BY <1>1, <1>6, <3>2 DEF Balanced, Burst
  <2>7. Throttled'
    <3> SUFFICES ASSUME NEW k \in Keys, NEW j \in 1..Len(passed'[k]), NEW i \in 1..j
                 PROVE  10 * (j - i + 1) * Ticks <= Given(i, j, k)'
      BY DEF Throttled
    <3>1. CASE k # a \/ j <= n
      <4>1. j \in 1..Len(passed[k]) /\ passed'[k][j] = passed[k][j] /\ passed'[k][i] = passed[k][i]
        <5>1. CASE k # a
          <6>1. passed'[k] = passed[k]
            BY <1>7, <5>1
          <6> QED BY <6>1
        <5>2. CASE k = a
          <6>1. j \in 1..n /\ i \in 1..n
            BY <2>2, <2>3, <3>1, <5>2
          <6> QED BY <2>3, <5>2, <6>1
        <5> QED BY <5>1, <5>2
      <4>2. Given(i, j, k)' = Given(i, j, k)
        BY <1>1, <4>1 DEF Given, Burst
      <4> QED BY <4>1, <4>2 DEF IndInv, Throttled
    <3>2. CASE k = a /\ j = n + 1
      <4>1. i \in 1..(n + 1) /\ j - i + 1 = n + 1 - i + 1 /\ passed'[k][j] = now
        BY <2>2, <2>3, <3>2
      <4>2. Given(i, j, k)' = 10 * (Burst + (now - passed'[a][i]))
                                + Burst * Cardinality(Since(passed'[a][i]))
        BY <1>1, <3>2, <4>1 DEF Given, Burst, Since
      <4> DEFINE spent == 10 * (n + 1 - i + 1) * Ticks
      <4>3. 10 * (j - i + 1) * Ticks = spent /\ spent \in Int
        <5>1. i \in Nat /\ j - i + 1 = n + 1 - i + 1
          BY <2>2, <4>1
        <5>2. 10 * (j - i + 1) * Ticks = spent
          BY <5>1
        <5>3. spent \in Int
          BY <2>2, <5>1
        <5> QED BY <5>2, <5>3
      <4>4. Given(i, j, k)' \in Int
        <5>1. passed'[a][i] \in Nat
          BY <1>1, <2>2, <2>3, <4>1
        <5>2. Cardinality(Since(passed'[a][i])) \in Nat
          BY SinceCounts DEF IndInv
        <5>3. Burst * Cardinality(Since(passed'[a][i])) \in Int
          BY <5>2, BurstType
        <5>4. 10 * (Burst + (now - passed'[a][i])) \in Int
          <6>1. now \in Nat
            BY <1>1
          <6> QED BY <5>1, <6>1, BurstType
        <5> QED BY <4>2, <5>3, <5>4
      <4>5. spent + 10 * left <= Given(i, j, k)'
        BY <2>5, <4>1, <4>2
      <4>6. left \in Nat
        BY <1>2, BurstType
      <4> HIDE DEF spent
      <4>7. spent <= Given(i, j, k)'
        BY <4>3, <4>4, <4>5, <4>6
      <4>8. 10 * (j - i + 1) * Ticks = spent
        BY <4>3
      <4> QED BY <4>7, <4>8, Zenon
    <3>3. k # a \/ j \in 1..(n + 1)
      BY <2>3
    <3>4. (k # a \/ j <= n) \/ (k = a /\ j = n + 1)
      BY <2>2, <3>3
    <3> QED BY <3>1, <3>2, <3>4, Zenon
  <2> QED BY <2>4, <2>6, <2>7 DEF IndInv
<1> QED BY <1>8, <1>9

(* Every reachable state is of its type.                                    *)
LEMMA TypeKeeps == ASSUME TypeOK, IndInv, [Next]_vars PROVE TypeOK'
<1>1. CASE Pass
  BY <1>1 DEF Pass, TypeOK
<1>2. CASE Cleanup
  BY <1>2 DEF Cleanup, TypeOK
<1>3. ASSUME NEW k \in Keys, Allow(k) PROVE TypeOK'
  <2> DEFINE b == [tokens |-> IF HasToken(Level(k)) THEN Level(k) - Ticks ELSE Level(k),
                   last |-> now]
  <2>1. Level(k) \in 0..Burst /\ now \in Nat
    BY LevelType DEF IndInv, TypeOK
  <2>2. b \in Buckets
    BY <2>1, BurstType DEF HasToken, Buckets
  <2>3. buckets' = [buckets EXCEPT ![k] = b]
    BY <1>3 DEF Allow
  <2>4. buckets' \in [Keys -> Buckets \cup {NoBucket}]
    <3> HIDE DEF b
    <3> QED BY <2>2, <2>3 DEF TypeOK
  <2>5. passed' \in [Keys -> Seq(Nat)]
    BY <1>3, <2>1 DEF Allow, TypeOK
  <2> QED BY <1>3, <2>4, <2>5 DEF Allow, TypeOK, Buckets, Burst
<1>4. CASE UNCHANGED vars
  BY <1>4 DEF vars, TypeOK, Buckets, Burst
<1> QED BY <1>1, <1>2, <1>3, <1>4 DEF Next

(* What has passed and what is left are balanced, always.                   *)
LEMMA Joint == Spec => [](TypeOK /\ IndInv)
<1>1. Init => TypeOK /\ IndInv
  BY FS_EmptySet DEF Init, TypeOK, IndInv, PastTimes, Balanced, Throttled
<1>2. ASSUME TypeOK, IndInv, [Next]_vars PROVE (TypeOK /\ IndInv)'
  <2>1. TypeOK'
    BY <1>2, TypeKeeps
  <2>2. CASE Next
    BY <1>2, <2>1, <2>2, PassKeeps, CleanupKeeps, AllowKeeps DEF Next
  <2>3. CASE UNCHANGED vars
    BY <1>2, <2>1, <2>3 DEF vars, IndInv, PastTimes, Balanced, Throttled, Given, Since,
       Level, Capped, Burst
  <2> QED BY <1>2, <2>1, <2>2, <2>3
<1>3. TypeOK /\ IndInv /\ [Next]_vars => (TypeOK /\ IndInv)'
  BY <1>2
<1> QED BY <1>1, <1>3, PTL DEF Spec

(* Every bucket, and every list of requests, is of its type.                *)
THEOREM TypeCorrect == Spec => []TypeOK
BY Joint, PTL

(* What passed since a request and what its bucket holds are paid for.      *)
THEOREM Inductive == Spec => []IndInv
BY Joint, PTL

(* No stretch of time lets more requests of a key through than a full       *)
(* bucket, the time and the sweeps in it give.                              *)
THEOREM ThrottleHolds == Spec => []Throttled
<1>1. IndInv => Throttled
  BY DEF IndInv
<1> QED BY <1>1, Joint, PTL
==============================================================================
