--------------------------- MODULE PinLimiterProofs --------------------------
(***************************************************************************)
(* The window holds for every limit, every length of the window and every   *)
(* number of users and addresses.                                           *)
(***************************************************************************)
EXTENDS PinLimiter, FiniteSetTheorems, TLAPS

USE KeysAssumption, NumbersAssumption

(* What a key was admitted for is finite, and so is what lies in a window.  *)
LEMMA WindowsAreFinite ==
  ASSUME TypeOK, NEW k \in Keys, NEW S \in SUBSET admitted[k]
  PROVE  IsFiniteSet(S) /\ Cardinality(S) \in Nat
<1>1. Len(at) \in Nat /\ IsFiniteSet(1..Len(at))
  BY FS_Interval DEF TypeOK
<1>2. S \subseteq 1..Len(at)
  BY DEF TypeOK
<1> QED BY <1>1, <1>2, FS_Subset, FS_CardinalityType

(* The attempts of the last window are among those the limiter remembers.   *)
LEMMA RecentCoversWindow ==
  ASSUME TypeOK, ForgottenAreOld, NEW k \in Keys,
         NEW n \in admitted[k], at[n] > now - Window
  PROVE  n \in Recent(k)
<1>1. n \in 1..Len(at) /\ at[n] \in Nat /\ now \in Nat
  BY DEF TypeOK
<1>2. n \in attempts[k]
  BY <1>1 DEF ForgottenAreOld
<1> QED BY <1>2 DEF Recent

(* Nothing is admitted: the windows are what they were.                     *)
LEMMA RefuseKeeps ==
  ASSUME IndInv, NEW user \in Users, NEW ip \in IPs, Refuse(user, ip)
  PROVE  IndInv'
<1>1. UNCHANGED <<now, at, admitted>>
  BY DEF Refuse
<1>2. \A k \in Keys : Recent(k) \subseteq attempts[k]
  BY DEF Recent
<1>3. ASSUME NEW k \in Keys
      PROVE  attempts'[k] = attempts[k] \/ attempts'[k] = Recent(k)
  BY DEF Refuse, RefuseIP, IndInv, TypeOK, Keys
<1>4. DOMAIN attempts' = Keys /\ attempts' = [k \in Keys |-> attempts'[k]]
  BY DEF Refuse, RefuseIP, IndInv, TypeOK
<1>5. \A k \in Keys : attempts'[k] \subseteq attempts[k]
  BY <1>2, <1>3
<1>6. TypeOK'
  BY <1>1, <1>4, <1>5 DEF IndInv, TypeOK
<1>7. WindowHolds'
  BY <1>1 DEF IndInv, WindowHolds, Within
<1>8. RefusalsAreFree'
  BY <1>1, <1>5 DEF IndInv, RefusalsAreFree
<1>9. ForgottenAreOld'
  <2> SUFFICES ASSUME NEW k \in Keys, NEW n \in admitted[k] \ attempts'[k]
               PROVE  at[n] <= now - Window
    BY <1>1 DEF ForgottenAreOld
  <2>1. CASE n \in attempts[k]
    <3>1. n \notin Recent(k)
      BY <1>3, <2>1
    <3>2. n \in 1..Len(at) /\ at[n] \in Nat /\ now \in Nat
      BY DEF IndInv, TypeOK
    <3> QED BY <2>1, <3>1, <3>2 DEF Recent
  <2>2. CASE n \notin attempts[k]
    BY <2>2 DEF IndInv, ForgottenAreOld
  <2> QED BY <2>1, <2>2
<1>10. TimesArePast'
  BY <1>1 DEF IndInv, TimesArePast
<1> QED BY <1>6, <1>7, <1>8, <1>9, <1>10 DEF IndInv

(* An attempt is admitted when less than Limit lie in the window that ends  *)
(* now; windows that ended before do not see it.                            *)
LEMMA AdmitKeeps ==
  ASSUME IndInv, NEW user \in Users, NEW ip \in IPs, Admit(user, ip)
  PROVE  IndInv'
<1> DEFINE m == Len(at) + 1
<1>1. /\ at' = Append(at, now) /\ now' = now
      /\ attempts' = [k \in Keys |->
           IF k \in {user, ip} THEN Recent(k) \cup {m} ELSE attempts[k]]
      /\ admitted' = [k \in Keys |->
           IF k \in {user, ip} THEN admitted[k] \cup {m} ELSE admitted[k]]
  BY DEF Admit
<1>2. now \in Nat /\ at \in Seq(Nat) /\ Len(at) \in Nat
  BY DEF IndInv, TypeOK
<1>3. /\ at' \in Seq(Nat) /\ Len(at') = m /\ at'[m] = now
      /\ \A n \in 1..Len(at) : at'[n] = at[n] /\ at[n] \in Nat
  BY <1>1, <1>2
<1>4. 1..Len(at') = (1..Len(at)) \cup {m} /\ m \notin 1..Len(at)
  BY <1>2, <1>3
<1>5. \A k \in Keys : admitted[k] \subseteq 1..Len(at) /\ Recent(k) \subseteq attempts[k]
                      /\ attempts[k] \subseteq admitted[k]
  BY DEF IndInv, TypeOK, Recent, RefusalsAreFree
<1>6. TypeOK'
  BY <1>1, <1>2, <1>3, <1>4, <1>5 DEF TypeOK
<1>7. RefusalsAreFree'
  BY <1>1, <1>5 DEF RefusalsAreFree
<1>8. TimesArePast'
  BY <1>1, <1>2, <1>3, <1>4 DEF IndInv, TimesArePast
<1>9. ForgottenAreOld'
  <2> SUFFICES ASSUME NEW k \in Keys, NEW n \in admitted'[k] \ attempts'[k]
               PROVE  at'[n] <= now - Window
    BY <1>1 DEF ForgottenAreOld
  <2>1. n # m /\ n \in admitted[k]
    BY <1>1, <1>4, <1>5
  <2>2. n \in 1..Len(at) /\ at'[n] = at[n] /\ at[n] \in Nat
    BY <1>3, <1>5, <2>1
  <2>3. n \notin Recent(k) \/ n \notin attempts[k]
    BY <1>1
  <2> QED BY <1>2, <2>1, <2>2, <2>3 DEF IndInv, ForgottenAreOld, Recent
<1>10. WindowHolds'
  <2> SUFFICES ASSUME NEW k \in Keys, NEW t \in 0..now
               PROVE  Cardinality(Within(k, t)') <= Limit
    BY <1>1 DEF WindowHolds
  <2>1. Cardinality(Within(k, t)) <= Limit
    BY DEF IndInv, WindowHolds
  <2>2. CASE m \notin Within(k, t)'
    <3>1. Within(k, t)' = Within(k, t)
      BY <1>1, <1>3, <1>4, <1>5, <2>2 DEF Within
    <3> QED BY <2>1, <3>1
  <2>3. CASE m \in Within(k, t)'
    <3>1. k \in {user, ip} /\ t = now
      <4>1. m \in admitted'[k] /\ at'[m] <= t
        BY <2>3 DEF Within
      <4>2. k \in {user, ip}
        BY <1>1, <1>4, <1>5, <4>1
      <4> QED BY <1>2, <1>3, <4>1, <4>2
    <3>2. Within(k, t)' \subseteq Recent(k) \cup {m}
      <4> SUFFICES ASSUME NEW n \in Within(k, t)', n # m
                   PROVE  n \in Recent(k)
        OBVIOUS
      <4>1. n \in admitted[k] /\ now - Window < at'[n]
        BY <1>1, <3>1 DEF Within
      <4>2. at'[n] = at[n] /\ at[n] \in Nat
        BY <1>3, <1>5, <4>1
      <4> QED BY <1>2, <4>1, <4>2, RecentCoversWindow DEF IndInv
    <3>3. IsFiniteSet(Recent(k)) /\ Cardinality(Recent(k)) \in Nat
      BY <1>5, WindowsAreFinite DEF IndInv
    <3>4. Cardinality(Recent(k)) < Limit
      BY <3>1, <3>3 DEF Admit, Exhausted
    <3>5. /\ IsFiniteSet(Recent(k) \cup {m})
          /\ Cardinality(Recent(k) \cup {m}) \in {Cardinality(Recent(k)), Cardinality(Recent(k)) + 1}
      BY <3>3, FS_AddElement
    <3>6. /\ Cardinality(Within(k, t)') <= Cardinality(Recent(k) \cup {m})
          /\ Cardinality(Within(k, t)') \in Nat
      BY <3>2, <3>5, FS_Subset, FS_CardinalityType
    <3> QED BY <3>3, <3>4, <3>5, <3>6
  <2> QED BY <2>2, <2>3
<1> QED BY <1>6, <1>7, <1>8, <1>9, <1>10 DEF IndInv

(* The window that ends at the new instant is part of the one before: no    *)
(* attempt has been made since.                                             *)
LEMMA PassKeeps == ASSUME IndInv, Pass PROVE IndInv'
<1>1. now' = now + 1 /\ UNCHANGED <<at, attempts, admitted>> /\ now \in Nat
  BY DEF Pass, IndInv, TypeOK
<1>2. \A k \in Keys : admitted[k] \subseteq 1..Len(at)
  BY DEF IndInv, TypeOK
<1>3. \A n \in 1..Len(at) : at[n] \in Nat
  BY DEF IndInv, TypeOK
<1>4. TypeOK' /\ RefusalsAreFree' /\ TimesArePast'
  BY <1>1, <1>3 DEF IndInv, TypeOK, RefusalsAreFree, TimesArePast
<1>5. ForgottenAreOld'
  BY <1>1, <1>2, <1>3 DEF IndInv, ForgottenAreOld
<1>6. WindowHolds'
  <2> SUFFICES ASSUME NEW k \in Keys, NEW t \in 0..(now + 1)
               PROVE  Cardinality(Within(k, t)') <= Limit
    BY <1>1 DEF WindowHolds
  <2>1. Within(k, t)' = Within(k, t)
    BY <1>1 DEF Within
  <2>2. CASE t \in 0..now
    BY <2>1, <2>2 DEF IndInv, WindowHolds
  <2>3. CASE t = now + 1
    <3>1. Within(k, t) \subseteq Within(k, now)
      BY <1>1, <1>2, <1>3, <2>3 DEF Within, IndInv, TimesArePast
    <3>2. Within(k, now) \in SUBSET admitted[k]
      BY DEF Within
    <3>3. IsFiniteSet(Within(k, now)) /\ Cardinality(Within(k, now)) \in Nat
      BY <3>2, WindowsAreFinite DEF IndInv
    <3>4. /\ Cardinality(Within(k, t)) <= Cardinality(Within(k, now))
          /\ Cardinality(Within(k, t)) \in Nat
      BY <3>1, <3>3, FS_Subset, FS_CardinalityType
    <3>5. Cardinality(Within(k, now)) <= Limit
      BY <1>1 DEF IndInv, WindowHolds
    <3> QED BY <2>1, <3>3, <3>4, <3>5
  <2> QED BY <1>1, <2>2, <2>3
<1> QED BY <1>4, <1>5, <1>6 DEF IndInv

(* Every call of allow and the passing of time keep the invariant.          *)
LEMMA IndNext == IndInv /\ [Next]_vars => IndInv'
<1> SUFFICES ASSUME IndInv, [Next]_vars PROVE IndInv'
  OBVIOUS
<1>1. CASE Pass
  BY <1>1, PassKeeps
<1>2. ASSUME NEW user \in Users, NEW ip \in IPs, Allow(user, ip) PROVE IndInv'
  BY <1>2, AdmitKeeps, RefuseKeeps DEF Allow
<1>3. CASE UNCHANGED vars
  BY <1>3 DEF vars, IndInv, TypeOK, WindowHolds, Within, RefusalsAreFree, ForgottenAreOld,
     TimesArePast
<1> QED BY <1>1, <1>2, <1>3 DEF Next

(* The limiter starts with nothing admitted.                                *)
LEMMA IndInit == Init => IndInv
<1> SUFFICES ASSUME Init PROVE IndInv
  OBVIOUS
<1>1. TypeOK /\ RefusalsAreFree /\ ForgottenAreOld /\ TimesArePast
  BY DEF Init, TypeOK, RefusalsAreFree, ForgottenAreOld, TimesArePast
<1>2. WindowHolds
  <2> SUFFICES ASSUME NEW k \in Keys, NEW t \in 0..now
               PROVE  Cardinality(Within(k, t)) <= Limit
    BY DEF WindowHolds
  <2>1. Within(k, t) = {}
    BY DEF Init, Within
  <2> QED BY <2>1, FS_EmptySet
<1> QED BY <1>1, <1>2 DEF IndInv

(* What the limiter remembers covers every window that still matters.       *)
THEOREM Inductive == Spec => []IndInv
BY IndInit, IndNext, PTL DEF Spec

(* No window, wherever it lies, holds more than Limit attempts of one user  *)
(* or of one address.                                                       *)
THEOREM WindowIsKept == Spec => []WindowHolds
<1>1. IndInv => WindowHolds
  BY DEF IndInv
<1> QED BY Inductive, <1>1, PTL

(* Refused attempts are charged to nobody.                                  *)
THEOREM RefusalsStayFree == Spec => []RefusalsAreFree
<1>1. IndInv => RefusalsAreFree
  BY DEF IndInv
<1> QED BY Inductive, <1>1, PTL
==============================================================================
