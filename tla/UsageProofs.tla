----------------------------- MODULE UsageProofs -----------------------------
(***************************************************************************)
(* What the row of an owner holds, for every number of machines,            *)
(* connections, requests and tokens, with or without failed statements and  *)
(* restarts.                                                                *)
(***************************************************************************)
EXTENDS Usage, FiniteSetTheorems, TLAPS

USE SessionsAssumption, ItemsAssumption, ReadersAssumption, TickAssumption, BoundsAssumption
    DEF ticker, registryVars, countVars, totals, ghosts

(* Any set of items, and any part of it, has a size.                        *)
LEMMA SizesAreNumbers ==
  ASSUME NEW S \in SUBSET Items, NEW kind
  PROVE  Value(S, kind) \in Nat /\ IsFiniteSet(S) /\ IsFiniteSet(S \cap kind)
<1>1. IsFiniteSet(Items)
  BY FS_Union DEF Items
<1>2. IsFiniteSet(S) /\ IsFiniteSet(S \cap kind)
  BY <1>1, FS_Subset, FS_Intersection
<1> QED BY <1>2, FS_CardinalityType DEF Value

(* Sets of items that are apart are counted apart.                          *)
LEMMA ApartAdds ==
  ASSUME NEW S \in SUBSET Items, NEW T \in SUBSET Items, NEW U, NEW kind,
         S \cap T = {}, U = S \cup T
  PROVE  Value(U, kind) = Value(S, kind) + Value(T, kind)
<1> DEFINE A == S \cap kind
           B == T \cap kind
<1>1. U \cap kind = A \cup B /\ A \cap B = {}
  OBVIOUS
<1>2. IsFiniteSet(A) /\ IsFiniteSet(B)
  BY SizesAreNumbers
<1> HIDE DEF A, B
<1>3. Cardinality(A \cup B) = Cardinality(A) + Cardinality(B) - Cardinality(A \cap B)
  BY <1>2, FS_Union
<1>4. Cardinality(A \cap B) = 0
  BY <1>1, FS_EmptySet
<1>5. Cardinality(A) \in Nat /\ Cardinality(B) \in Nat
  BY <1>2, FS_CardinalityType
<1>6. Cardinality(U \cap kind) = Cardinality(A \cup B)
  BY <1>1
<1>7. Cardinality(U \cap kind) = Cardinality(A) + Cardinality(B)
  BY <1>3, <1>4, <1>5, <1>6
<1> QED BY <1>7 DEF A, B, Value
------------------------------------------------------------------------------
(* Types.                                                                   *)

(* The number of any sessions is a number.                                  *)
LEMMA UptimeIsNumber ==
  ASSUME NEW S \in SUBSET Sessions
  PROVE  Cardinality(S) \in Nat
BY FS_Subset, FS_CardinalityType

(* A step that the ticker has no part in leaves it as it was.               *)
LEMMA TickerStays ==
  ASSUME TickerOK, UNCHANGED ticker
  PROVE  TickerOK'
BY DEF TickerOK

(* The clock and the ticker add uptime to the row, and nothing else.        *)
LEMMA TickerRests ==
  ASSUME TypeOK, Pass \/ Ticker
  PROVE  UNCHANGED <<registryVars, countVars, took, totalRequests, totalTokens, admitted,
                     answered, relayed, told, settled, lost>>
<1>1. Value({}, Requests) = 0 /\ Value({}, Tokens) = 0
  <2>1. {} \cap Requests = {} /\ {} \cap Tokens = {}
    OBVIOUS
  <2> QED BY <2>1, FS_EmptySet DEF Value
<1>2. ASSUME NEW s \in Sessions, AddTick(s)
      PROVE  /\ UNCHANGED <<registryVars, countVars, took, ghosts>>
             /\ UNCHANGED <<totalRequests, totalTokens>>
  BY <1>1, <1>2 DEF AddTick, Add, TypeOK
<1> QED BY <1>2 DEF Pass, Ticker, ReceiveTick, AllSessions, AddTickFails

(* Connections keep the types.                                              *)
LEMMA TypeConnection ==
  ASSUME IndInv, NEW s \in Sessions, Connection(s)
  PROVE  TypeOK'
<1> USE TickerStays DEF IndInv, TypeOK, Connected
<1>1. CASE Register(s)
  BY <1>1 DEF Register
<1>2. CASE Greet(s)
  BY <1>2 DEF Greet
<1>3. CASE GreetingFails(s)
  BY <1>3 DEF GreetingFails, Unregister
<1>4. CASE Close(s)
  BY <1>4 DEF Close
<1>5. CASE Disconnect(s)
  <2>1. Current(s) \in Sessions \cup {NoSession}
    BY DEF Current
  <2> QED BY <1>5, <2>1 DEF Disconnect, Unregister
<1>6. CASE Settle(s)
  <2>1. took[s] \in Sessions
    BY <1>6 DEF Settle, SettledOnce
  <2>2. counts[took[s]] \in SUBSET Items
    BY <2>1
  <2>5. /\ Value(counts[took[s]], Requests) \in Nat
        /\ Value(counts[took[s]], Tokens) \in Nat
    BY <2>2, SizesAreNumbers
  <2>3. totalRequests' \in Nat /\ totalTokens' \in Nat
    BY <1>6, <2>5 DEF Settle, Add
  <2>4. totalUptime' \in Nat
    BY <1>6 DEF Settle, Add, Uptime
  <2> QED BY <1>6, <2>2, <2>3, <2>4 DEF Settle
<1>7. CASE SettleFails(s)
  BY <1>7 DEF SettleFails
<1> QED BY <1>1, <1>2, <1>3, <1>4, <1>5, <1>6, <1>7 DEF Connection

(* The read loops keep the types.                                           *)
LEMMA TypeReadLoop ==
  ASSUME IndInv, NEW s \in Sessions, ReadLoop(s)
  PROVE  TypeOK'
<1> USE TickerStays DEF IndInv, TypeOK
<1>1. ASSUME NEW items \in SUBSET Items, Read(s, items), items \cap Requests \subseteq admitted
      PROVE  TypeOK'
  BY <1>1 DEF Read
<1>2. CASE RelayChunk(s)
  BY <1>1, <1>2 DEF RelayChunk, Items
<1>3. CASE RelayResponse(s)
  BY <1>1, <1>3 DEF RelayResponse, Waiting, Items
<1>4. CASE ReadTokens(s)
  <2> DEFINE t == Current(s)
  <2>1. t \in Sessions \cup {NoSession}
    BY DEF Current
  <2>2. UNCHANGED <<now, ticker, registryVars, counts, took, totals, ghosts>>
    BY <1>4 DEF ReadTokens
  <2>3. /\ home' \in [Items -> Sessions \cup {NoSession}]
        /\ seen' \in [Requests \cup Sessions -> SUBSET Items]
    BY <1>4, <2>1 DEF ReadTokens, Counter
  <2>4. /\ step' \in [Sessions -> {"read", "add", "adding", "tell"}]
        /\ batch' \in [Sessions -> SUBSET Items]
    BY <1>4 DEF ReadTokens, WithoutSession
  <2> QED BY <2>2, <2>3, <2>4
<1>5. CASE WriteTokens(s)
  <2>1. \A old \in {seen[s], Counter(Current(s), Tokens)} : Current(s) \in Sessions => old \in SUBSET Items
    BY DEF Counter
  <2>2. Current(s) \in Sessions
    BY <1>5 DEF WriteTokens, ReadersApart, Current
  <2> QED BY <1>5, <2>1, <2>2 DEF WriteTokens, Count
<1>6. CASE Tell(s)
  <2>1. batch[s] \in SUBSET Items
    OBVIOUS
  <2>3. /\ Value(batch[s], Requests) \in Nat
        /\ Value(batch[s], Tokens) \in Nat
    BY <2>1, SizesAreNumbers
  <2>2. totalRequests' \in Nat /\ totalTokens' \in Nat /\ totalUptime' = totalUptime
    BY <1>6, <2>3 DEF Tell, Add
  <2> QED BY <1>6, <2>1, <2>2 DEF Tell
<1>7. CASE TellFails(s)
  BY <1>7 DEF TellFails
<1> QED BY <1>2, <1>3, <1>4, <1>5, <1>6, <1>7 DEF ReadLoop

(* So do admissions, revocations, the ticker and a restart.                 *)
LEMMA TypeOthers ==
  ASSUME IndInv,
         \/ \E q \in Requests : Admission(q)
         \/ \E m \in Machines : Discard(m)
         \/ Pass \/ Ticker \/ Crash
  PROVE  TypeOK'
<1> USE TickerStays DEF IndInv, TypeOK
<1>1. ASSUME NEW q \in Requests, WriteRequests(q) PROVE TypeOK'
  <2>1. home[q] \in Sessions
    BY <1>1 DEF WriteRequests, Counting, Items
  <2>2. \A old \in {seen[q], Counter(home[q], Requests)} : old \in SUBSET Items
    BY <2>1 DEF Counter
  <2> QED BY <1>1, <2>1, <2>2 DEF WriteRequests, Count, Items
<1>2. ASSUME NEW q \in Requests, NEW m \in Machines, ReadRequests(q, m) PROVE TypeOK'
  BY <1>2 DEF ReadRequests, Counter, Items
<1>3. ASSUME NEW m \in Machines, Discard(m) PROVE TypeOK'
  BY <1>3 DEF Discard, Unregister
<1>4. CASE Pass
  <2>1. served' \in Nat
    BY <1>4, UptimeIsNumber DEF Pass, Open
  <2>2. now' \in Nat /\ elapsed' \in 0..Tick - 1 /\ fired' \in BOOLEAN
    BY <1>4 DEF Pass, TickerOK
  <2>3. TickerOK'
    BY <1>4, <2>2 DEF Pass, TickerOK
  <2> QED BY <1>4, <2>1, <2>2, <2>3, TickerRests DEF Pass
<1>5. CASE Crash
  <2>1. TickerOK'
    <3>1. 0 \in 0..Tick - 1
      OBVIOUS
    <3>2. elapsed' = 0 /\ fired' = FALSE /\ ticking' = FALSE /\ due' = {}
      BY <1>5 DEF Crash
    <3> HIDE DEF IndInv, TypeOK
    <3> QED BY <3>1, <3>2 DEF TickerOK
  <2> QED BY <1>5, <2>1 DEF Crash, Connected
<1>6. CASE Ticker
  <2>3. UNCHANGED <<now, elapsed, ghosts>>
    BY <1>6 DEF Ticker, ReceiveTick, AllSessions, AddTick, AddTickFails
  <2>4. totalUptime' \in Nat
    BY <1>6 DEF Ticker, ReceiveTick, AllSessions, AddTick, AddTickFails, Add
  <2>5. due' \subseteq due \/ due' = Registered
    BY <1>6 DEF Ticker, ReceiveTick, AllSessions, AddTick, AddTickFails
  <2>6. fired' \in {fired, FALSE} /\ ticking' \in {ticking, TRUE, FALSE}
    BY <1>6 DEF Ticker, ReceiveTick, AllSessions, AddTick, AddTickFails
  <2>1. UNCHANGED <<now, ghosts>> /\ TickerOK' /\ totalUptime' \in Nat
    BY <2>3, <2>4, <2>5, <2>6 DEF TickerOK, Registered
  <2>2. UNCHANGED <<registryVars, countVars, took, totalRequests, totalTokens>>
    BY <1>6, TickerRests
  <2> QED BY <2>1, <2>2
<1> QED BY <1>1, <1>2, <1>3, <1>4, <1>5, <1>6 DEF Admission
------------------------------------------------------------------------------
(* What Read changes, whoever calls it.                                     *)
LEMMA ReadersCount ==
  ASSUME IndInv, NEW s \in Sessions, RelayChunk(s) \/ RelayResponse(s)
  PROVE  \E items \in SUBSET Items :
           /\ Read(s, items) /\ items \cap Requests \subseteq admitted \ answered
           /\ items \cap Tokens \cap relayed = {}
<1>1. CASE RelayChunk(s)
  BY <1>1 DEF RelayChunk, Items
<1>2. CASE RelayResponse(s)
  <2>1. PICK q \in admitted \ answered, used \in SUBSET (Tokens \ relayed) : Read(s, {q} \cup used)
    BY <1>2 DEF RelayResponse, Waiting
  <2>2. q \in Requests
    BY DEF IndInv, TypeOK
  <2>3. {q} \cup used \in SUBSET Items
    BY <2>2 DEF Items
  <2>4. ({q} \cup used) \cap Requests \subseteq admitted \ answered
    BY <2>1, <2>2
  <2>5. ({q} \cup used) \cap Tokens \cap relayed = {}
    BY <2>1, <2>2
  <2> QED BY <2>1, <2>3, <2>4, <2>5
<1> QED BY <1>1, <1>2

(* Only the read loop and the end of a connection touch what Balanced       *)
(* speaks of.                                                               *)
LEMMA BalancedKept ==
  ASSUME IndInv, [Next]_vars
  PROVE  Balanced'
<1> USE DEF IndInv, TypeOK, Balanced
<1>1. CASE UNCHANGED <<totalRequests, totalTokens, told, settled>>
  BY <1>1
<1>2. ASSUME NEW s \in Sessions, Tell(s) PROVE Balanced'
  <2>1. told \cap batch[s] = {}
    BY DEF ReadersApart
  <2>2. told' = told \cup batch[s] /\ settled' = settled
    BY <1>2 DEF Tell
  <2>5. told \in SUBSET Items /\ batch[s] \in SUBSET Items
    OBVIOUS
  <2>3. \A kind \in {Requests, Tokens} :
          Value(told', kind) = Value(told, kind) + Value(batch[s], kind)
    BY <2>1, <2>2, <2>5, ApartAdds
  <2>4. \A kind \in {Requests, Tokens} :
          /\ Value(told, kind) \in Nat /\ Value(batch[s], kind) \in Nat
          /\ Value(settled, kind) \in Nat
    BY SizesAreNumbers
  <2> QED BY <1>2, <2>2, <2>3, <2>4 DEF Tell, Add
<1>3. ASSUME NEW s \in Sessions, Settle(s) PROVE Balanced'
  <2>1. took[s] \in Sessions
    BY <1>3 DEF Settle, SettledOnce
  <2>2. settled \cap counts[took[s]] = {}
    BY <1>3, <2>1 DEF Settle, SettledOnce, CountedAtHome
  <2>3. settled' = settled \cup counts[took[s]] /\ told' = told
    BY <1>3 DEF Settle
  <2>4. counts[took[s]] \in SUBSET Items
    BY <2>1
  <2>5. \A kind \in {Requests, Tokens} :
          Value(settled', kind)
            = Value(settled, kind) + Value(counts[took[s]], kind)
    BY <2>2, <2>3, <2>4, ApartAdds
  <2>6. \A kind \in {Requests, Tokens} :
          /\ Value(told, kind) \in Nat /\ Value(settled, kind) \in Nat
          /\ Value(counts[took[s]], kind) \in Nat
    BY <2>4, SizesAreNumbers
  <2> QED BY <1>3, <2>3, <2>5, <2>6 DEF Settle, Add
<1>4. ASSUME NEW s \in Sessions, Connection(s) PROVE Balanced'
  BY <1>1, <1>3, <1>4 DEF Connection, Register, Greet, GreetingFails, Close, Disconnect, SettleFails
<1>5. ASSUME NEW s \in Sessions, ReadLoop(s) PROVE Balanced'
  BY <1>1, <1>2, <1>5 DEF ReadLoop, RelayChunk, RelayResponse, Read, ReadTokens, WriteTokens, TellFails
<1>6. ASSUME NEW q \in Requests, Admission(q) PROVE Balanced'
  BY <1>1, <1>6 DEF Admission, ReadRequests, WriteRequests
<1>7. ASSUME NEW m \in Machines, Discard(m) PROVE Balanced'
  BY <1>1, <1>7 DEF Discard
<1>8. CASE Pass \/ Ticker \/ Crash
  BY <1>1, <1>8, TickerRests DEF Crash
<1>9. CASE UNCHANGED vars
  BY <1>1, <1>9 DEF vars
<1> QED BY <1>4, <1>5, <1>6, <1>7, <1>8, <1>9 DEF Next
------------------------------------------------------------------------------
(* The read loops stay apart, and nothing they relayed goes missing.        *)
Readers == ReadersApart /\ NoneMissing

(* Actions that leave batches, steps and homes of relayed tokens alone.     *)
LEMMA ReadersUndisturbed ==
  ASSUME IndInv, UNCHANGED <<step, batch, answered, relayed, told, lost>>,
         \A i \in Tokens : home'[i] = home[i],
         \A s \in Sessions : step[s] = "adding" => Current(s)' = Current(s)
  PROVE  Readers'
<1> USE DEF IndInv, TypeOK
<1>1. NoneMissing'
  BY DEF NoneMissing, Existing, InFlight
<1>2. ASSUME NEW s \in Sessions
      PROVE  /\ batch[s] \subseteq Existing \ told
             /\ step[s] = "read" => batch[s] = {}
             /\ step[s] = "add" => \A i \in batch[s] \cap Tokens : home'[i] = NoSession
             /\ step[s] = "adding" =>
                  /\ Current(s)' # NoSession
                  /\ \A i \in batch[s] \cap Tokens : home'[i] = Current(s)'
             /\ \A r \in Sessions \ {s} : batch[r] \cap batch[s] = {}
  BY DEF ReadersApart
<1> HIDE DEF IndInv, TypeOK
<1>3. ReadersApart'
  BY <1>2 DEF ReadersApart, Existing
<1> QED BY <1>1, <1>3 DEF Readers

(* Nobody registers or leaves the registry while a counter is written.      *)
LEMMA LockedKeepsCurrent ==
  ASSUME IndInv, WriteLocked, NEW s \in Sessions, step[s] = "adding"
  PROVE  FALSE
BY DEF WriteLocked

(* No two read loops count the same item, and none is forgotten on the way. *)
LEMMA ReadersKept ==
  ASSUME IndInv, [Next]_vars
  PROVE  Readers'
<1> USE DEF IndInv, TypeOK
<1>1. ASSUME NEW s \in Sessions, Connection(s) PROVE Readers'
  <2>1. UNCHANGED <<step, batch, answered, relayed, told, lost, home>>
    BY <1>1 DEF Connection, Register, Greet, GreetingFails, Close, Disconnect, Settle, SettleFails
  <2>2. UNCHANGED registry \/ WriteLocked
    BY <1>1 DEF Connection, Register, Greet, GreetingFails, Close, Disconnect, Settle, SettleFails,
       Unregister
  <2>3. \A r \in Sessions : step[r] = "adding" => Current(r)' = Current(r)
    BY <2>2, LockedKeepsCurrent DEF Current
  <2> QED BY <2>1, <2>3, ReadersUndisturbed
<1>2. ASSUME NEW q \in Requests, Admission(q) PROVE Readers'
  <2>1. UNCHANGED <<step, batch, answered, relayed, told, lost, registry>>
    BY <1>2 DEF Admission, ReadRequests, WriteRequests
  <2>2. \A i \in Tokens : home'[i] = home[i]
    BY <1>2 DEF Admission, ReadRequests, WriteRequests, Items
  <2>3. \A r \in Sessions : Current(r)' = Current(r)
    BY <2>1 DEF Current
  <2> QED BY <2>1, <2>2, <2>3, ReadersUndisturbed
<1>3. ASSUME NEW m \in Machines, Discard(m) PROVE Readers'
  <2>1. UNCHANGED <<step, batch, answered, relayed, told, lost, home>> /\ WriteLocked
    BY <1>3 DEF Discard, Unregister
  <2> QED BY <2>1, LockedKeepsCurrent, ReadersUndisturbed
<1>4. CASE Pass \/ Ticker \/ UNCHANGED vars
  <2>1. UNCHANGED <<step, batch, answered, relayed, told, lost, home, registry>>
    BY <1>4, TickerRests DEF vars
  <2> QED BY <2>1, ReadersUndisturbed DEF Current
<1>5. CASE Crash
  <2>1. /\ step' = [s \in Sessions |-> "read"] /\ batch' = [s \in Sessions |-> {}]
        /\ lost' = lost \cup InFlight
        /\ UNCHANGED <<told, answered, relayed>>
    BY <1>5 DEF Crash, InFlight
  <2>2. NoneMissing'
    BY <2>1 DEF NoneMissing, Existing
  <2>3. ReadersApart'
    BY <2>1 DEF ReadersApart
  <2> QED BY <2>2, <2>3 DEF Readers
<1>6. ASSUME NEW s \in Sessions, NEW items \in SUBSET Items, Read(s, items),
             items \cap Requests \subseteq admitted \ answered, items \cap Tokens \cap relayed = {}
      PROVE  Readers'
  <2>1. /\ step[s] = "read" /\ step' = [step EXCEPT ![s] = "add"]
        /\ batch' = [batch EXCEPT ![s] = items]
        /\ relayed' = relayed \cup (items \cap Tokens)
        /\ answered' = answered \cup (items \cap Requests)
        /\ UNCHANGED <<told, lost, home, registry>>
    BY <1>6 DEF Read
  <2>2. items \cap Existing = {} /\ Existing' = Existing \cup items
    BY <1>6, <2>1 DEF Existing, Items
  <2>3. batch[s] = {}
    BY <2>1 DEF ReadersApart
  <2>4. InFlight \subseteq InFlight'
    BY <2>1, <2>3 DEF InFlight
  <2>5. items \subseteq InFlight'
    BY <2>1 DEF InFlight
  <2>6. NoneMissing'
    BY <2>1, <2>2, <2>4, <2>5 DEF NoneMissing
  <2>7. \A i \in items \cap Tokens : home[i] = NoSession
    BY <1>6 DEF CountedAtHome
  <2>8. \A r \in Sessions : batch[r] \subseteq Existing \ told
    BY DEF ReadersApart
  <2>9. told \subseteq Existing
    BY DEF NoneMissing
  <2>10. \A r \in Sessions : Current(r)' = Current(r)
    BY <2>1 DEF Current
  <2>11. ReadersApart'
    <3> SUFFICES ASSUME NEW r \in Sessions
                 PROVE  /\ batch'[r] \subseteq Existing' \ told'
                        /\ step'[r] = "read" => batch'[r] = {}
                        /\ step'[r] = "add" => \A i \in batch'[r] \cap Tokens : home'[i] = NoSession
                        /\ step'[r] = "adding" =>
                             /\ Current(r)' # NoSession
                             /\ \A i \in batch'[r] \cap Tokens : home'[i] = Current(r)'
                        /\ \A t \in Sessions \ {r} : batch'[t] \cap batch'[r] = {}
      BY DEF ReadersApart
    <3>1. CASE r = s
      BY <2>1, <2>2, <2>7, <2>8, <2>9, <3>1
    <3>2. CASE r # s
      BY <2>1, <2>2, <2>8, <2>10, <3>2 DEF ReadersApart
    <3> QED BY <3>1, <3>2
  <2> QED BY <2>6, <2>11 DEF Readers
<1>7. ASSUME NEW s \in Sessions, ReadTokens(s) PROVE Readers'
  <2>1. /\ step[s] = "add" /\ UNCHANGED <<batch, registry, answered, relayed, told, lost>>
        /\ Current(s) = NoSession => step' = [step EXCEPT ![s] = "tell"] /\ home' = home
        /\ Current(s) # NoSession =>
             /\ step' = [step EXCEPT ![s] = "adding"]
             /\ \A i \in Items : home'[i] = IF i \in batch[s] \cap Tokens THEN Current(s) ELSE home[i]
    BY <1>7 DEF ReadTokens, WithoutSession
  <2>2. NoneMissing'
    BY <2>1 DEF NoneMissing, Existing, InFlight
  <2>3. \A r \in Sessions : Current(r)' = Current(r)
    BY <2>1 DEF Current
  <2>4. \A r \in Sessions \ {s} : \A i \in batch[r] : home'[i] = home[i]
    BY <2>1 DEF ReadersApart
  <2>5. ReadersApart'
    <3> SUFFICES ASSUME NEW r \in Sessions
                 PROVE  /\ batch[r] \subseteq Existing \ told
                        /\ step'[r] = "read" => batch[r] = {}
                        /\ step'[r] = "add" => \A i \in batch[r] \cap Tokens : home'[i] = NoSession
                        /\ step'[r] = "adding" =>
                             /\ Current(r) # NoSession
                             /\ \A i \in batch[r] \cap Tokens : home'[i] = Current(r)
                        /\ \A t \in Sessions \ {r} : batch[t] \cap batch[r] = {}
      BY <2>1, <2>3 DEF ReadersApart, Existing
    <3>1. CASE r = s
      BY <2>1, <3>1 DEF ReadersApart
    <3>2. CASE r # s
      BY <2>1, <2>4, <3>2 DEF ReadersApart
    <3> QED BY <3>1, <3>2
  <2> QED BY <2>2, <2>5 DEF Readers
<1>8. ASSUME NEW s \in Sessions, WriteTokens(s) PROVE Readers'
  <2>1. /\ step' = [step EXCEPT ![s] = "tell"]
        /\ UNCHANGED <<batch, registry, answered, relayed, told, lost, home>>
    BY <1>8 DEF WriteTokens
  <2>2. NoneMissing'
    BY <2>1 DEF NoneMissing, Existing, InFlight
  <2>3. ReadersApart'
    BY <2>1 DEF ReadersApart, Existing, Current
  <2> QED BY <2>2, <2>3 DEF Readers
<1>9. ASSUME NEW s \in Sessions, Tell(s) \/ TellFails(s) PROVE Readers'
  <2>1. /\ step' = [step EXCEPT ![s] = "read"] /\ batch' = [batch EXCEPT ![s] = {}]
        /\ UNCHANGED <<registry, answered, relayed, home>>
        /\ \/ told' = told \cup batch[s] /\ lost' = lost
           \/ told' = told /\ lost' = lost \cup batch[s]
    BY <1>9 DEF Tell, TellFails
  <2>2. InFlight \subseteq InFlight' \cup batch[s]
    BY <2>1 DEF InFlight
  <2>3. batch[s] \subseteq Existing
    BY DEF ReadersApart
  <2>4. NoneMissing'
    BY <2>1, <2>2, <2>3 DEF NoneMissing, Existing
  <2>5. \A r \in Sessions \ {s} : batch[r] \cap batch[s] = {}
    BY DEF ReadersApart
  <2>6. \A r \in Sessions \ {s} : batch'[r] = batch[r] /\ batch[r] \cap told' = {}
    BY <2>1, <2>5 DEF ReadersApart
  <2>7. ReadersApart'
    BY <2>1, <2>6 DEF ReadersApart, Existing, Current
  <2> QED BY <2>4, <2>7 DEF Readers
<1>10. ASSUME NEW s \in Sessions, ReadLoop(s) PROVE Readers'
  BY <1>6, <1>7, <1>8, <1>9, <1>10, ReadersCount DEF ReadLoop
<1> QED BY <1>1, <1>2, <1>3, <1>4, <1>5, <1>10 DEF Next
------------------------------------------------------------------------------
(* An item is counted at its home only.                                     *)

(* Actions that neither count nor relay.                                    *)
LEMMA HomesUndisturbed ==
  ASSUME IndInv, UNCHANGED <<counts, home, seen, step, admitted, relayed>>,
         \A s \in Sessions : step[s] = "adding" => Current(s)' = Current(s)
  PROVE  CountedAtHome'
<1>1. \A q \in Requests : Counting(q)' = Counting(q)
  BY DEF Counting
<1> QED BY <1>1 DEF IndInv, CountedAtHome

(* Every step keeps each item at the one session that counts it.            *)
LEMMA CountedAtHomeKept ==
  ASSUME IndInv, [Next]_vars
  PROVE  CountedAtHome'
<1> USE DEF IndInv, TypeOK
<1>1. ASSUME NEW s \in Sessions, Connection(s) PROVE CountedAtHome'
  <2>1. UNCHANGED <<counts, home, seen, step, admitted, relayed>>
    BY <1>1 DEF Connection, Register, Greet, GreetingFails, Close, Disconnect, Settle, SettleFails
  <2>2. UNCHANGED registry \/ WriteLocked
    BY <1>1 DEF Connection, Register, Greet, GreetingFails, Close, Disconnect, Settle, SettleFails,
       Unregister
  <2> QED BY <2>1, <2>2, LockedKeepsCurrent, HomesUndisturbed DEF Current
<1>2. ASSUME NEW m \in Machines, Discard(m) PROVE CountedAtHome'
  <2>1. UNCHANGED <<counts, home, seen, step, admitted, relayed>> /\ WriteLocked
    BY <1>2 DEF Discard, Unregister
  <2> QED BY <2>1, LockedKeepsCurrent, HomesUndisturbed
<1>3. CASE Pass \/ Ticker \/ UNCHANGED vars
  <2>1. UNCHANGED <<counts, home, seen, step, admitted, relayed, registry>>
    BY <1>3, TickerRests DEF vars
  <2> QED BY <2>1, HomesUndisturbed DEF Current
<1>4. ASSUME NEW s \in Sessions, Tell(s) \/ TellFails(s) PROVE CountedAtHome'
  <2>1. /\ UNCHANGED <<counts, home, seen, admitted, relayed, registry>>
        /\ \A r \in Sessions : step'[r] = "adding" => step[r] = "adding"
    BY <1>4 DEF Tell, TellFails
  <2> QED BY <2>1 DEF CountedAtHome, Counting, Current
<1>5. ASSUME NEW s \in Sessions, NEW items \in SUBSET Items, Read(s, items) PROVE CountedAtHome'
  <2>1. /\ UNCHANGED <<counts, home, seen, admitted, registry>>
        /\ relayed' = relayed \cup (items \cap Tokens)
        /\ \A r \in Sessions : step'[r] = "adding" => step[r] = "adding"
    BY <1>5 DEF Read
  <2> QED BY <2>1 DEF CountedAtHome, Counting, Current
<1>6. ASSUME NEW s \in Sessions, ReadTokens(s) PROVE CountedAtHome'
  <2>1. step[s] = "add" /\ UNCHANGED <<counts, admitted, relayed, registry>>
    BY <1>6 DEF ReadTokens
  <2>2. CASE Current(s) = NoSession
    <3>1. /\ UNCHANGED <<home, seen>>
          /\ \A r \in Sessions : step'[r] = "adding" => step[r] = "adding"
      BY <1>6, <2>2 DEF ReadTokens, WithoutSession
    <3> QED BY <2>1, <3>1 DEF CountedAtHome, Counting, Current
  <2>3. CASE Current(s) # NoSession
    <3> DEFINE t == Current(s)
    <3>1. /\ home' = [i \in Items |-> IF i \in batch[s] \cap Tokens THEN t ELSE home[i]]
          /\ seen' = [seen EXCEPT ![s] = Counter(t, Tokens)]
          /\ step' = [step EXCEPT ![s] = "adding"]
      BY <1>6, <2>3 DEF ReadTokens
    <3>2. t \in Sessions
      BY <2>3 DEF Current
    <3> HIDE DEF t
    <3>3. \A i \in Items : home[i] # NoSession => home'[i] = home[i]
      BY <2>1, <3>1 DEF ReadersApart
    <3>4. \A q \in Requests : home'[q] = home[q] /\ seen'[q] = seen[q] /\ Counting(q)' = Counting(q)
      BY <2>1, <3>1 DEF Items, Counting
    <3>5. \A r \in Sessions : Current(r)' = Current(r)
      BY <2>1 DEF Current
    <3>6. \A r \in Sessions : \A i \in counts[r] : home'[i] = r /\ i \in admitted \cup relayed
      BY <3>3 DEF CountedAtHome
    <3>7. \A q \in Requests : \A i \in seen[q] :
            Counting(q) => home'[i] = home[q] /\ i \in admitted
      BY <3>3 DEF CountedAtHome, Counting
    <3>8. ASSUME NEW r \in Sessions, NEW i \in seen'[r], step'[r] = "adding"
          PROVE  home'[i] = Current(r) /\ i \in relayed
      <4>1. CASE r = s
        <5>1. i \in counts[t] /\ i \in Tokens
          BY <3>1, <3>8, <4>1 DEF Counter
        <5>2. i \notin admitted
          BY <5>1
        <5> QED BY <3>2, <3>6, <4>1, <5>1, <5>2 DEF t
      <4>2. CASE r # s
        <5>1. i \in seen[r] /\ step[r] = "adding"
          BY <3>1, <3>8, <4>2
        <5>2. home[i] = Current(r) /\ i \in relayed
          BY <5>1 DEF CountedAtHome
        <5>3. Current(r) # NoSession
          BY <5>1 DEF ReadersApart
        <5> QED BY <3>3, <5>2, <5>3 DEF Items
      <4> QED BY <4>1, <4>2
    <3>9. \A i \in Tokens \ relayed : home'[i] = NoSession
      <4>1. batch[s] \cap Tokens \subseteq relayed
        BY DEF ReadersApart, Existing
      <4> QED BY <3>1, <4>1 DEF CountedAtHome, Items
    <3>10. \A q \in admitted : home'[q] # NoSession
      BY <3>4 DEF CountedAtHome
    <3> QED BY <2>1, <3>4, <3>5, <3>6, <3>7, <3>8, <3>9, <3>10 DEF CountedAtHome
  <2> QED BY <2>2, <2>3
<1>7. ASSUME NEW s \in Sessions, WriteTokens(s) PROVE CountedAtHome'
  <2> DEFINE t == Current(s)
  <2>1. /\ step[s] = "adding" /\ step' = [step EXCEPT ![s] = "tell"]
        /\ seen' = [seen EXCEPT ![s] = {}]
        /\ UNCHANGED <<home, admitted, relayed, registry>>
    BY <1>7 DEF WriteTokens
  <2>2. PICK old \in {seen[s], Counter(t, Tokens)} : Count(t, Tokens, old, batch[s] \cap Tokens)
    BY <1>7 DEF WriteTokens
  <2>3. t \in Sessions
    BY <2>1 DEF ReadersApart, Current
  <2>4. \A i \in old : home[i] = t /\ i \in admitted \cup relayed
    BY <2>1, <2>3 DEF CountedAtHome, Counter
  <2>5. \A i \in batch[s] \cap Tokens : home[i] = t /\ i \in relayed
    BY <2>1 DEF ReadersApart, Existing
  <2> HIDE DEF t
  <2>6. \A r \in Sessions : \A i \in counts'[r] : home[i] = r /\ i \in admitted \cup relayed
    BY <2>2, <2>3, <2>4, <2>5 DEF Count, CountedAtHome
  <2>7. \A q \in Requests : seen'[q] = seen[q] /\ Counting(q)' = Counting(q)
    BY <2>1 DEF Counting
  <2> QED BY <2>1, <2>6, <2>7 DEF CountedAtHome, Current
<1>8. ASSUME NEW q \in Requests, NEW m \in Machines, ReadRequests(q, m) PROVE CountedAtHome'
  <2> DEFINE t == registry[m]
  <2>1. /\ home[q] = NoSession /\ t \in Sessions
        /\ home' = [home EXCEPT ![q] = t] /\ seen' = [seen EXCEPT ![q] = Counter(t, Requests)]
        /\ UNCHANGED <<counts, step, admitted, relayed, registry>>
    BY <1>8 DEF ReadRequests
  <2> HIDE DEF t
  <2>2. \A i \in Items : home[i] # NoSession => home'[i] = home[i]
    BY <2>1
  <2>3. \A r \in Sessions : \A i \in counts[r] : home'[i] = r /\ i \in admitted \cup relayed
    BY <2>2 DEF CountedAtHome
  <2>4. q \notin admitted /\ home'[q] = t
    BY <2>1 DEF CountedAtHome, Items
  <2>5. ASSUME NEW p \in Requests, NEW i \in seen'[p], Counting(p)'
        PROVE  home'[i] = home'[p] /\ i \in admitted
    <3>1. CASE p = q
      <4>1. i \in counts[t] /\ i \in Requests
        BY <2>1, <2>5, <3>1 DEF Counter
      <4> QED BY <2>1, <2>3, <2>4, <3>1, <4>1
    <3>2. CASE p # q
      <4>1. i \in seen[p] /\ Counting(p) /\ home'[p] = home[p]
        BY <2>1, <2>5, <3>2 DEF Counting
      <4>2. home[i] = home[p] /\ i \in admitted
        BY <4>1 DEF CountedAtHome
      <4> QED BY <2>2, <4>1, <4>2 DEF Counting, Items
    <3> QED BY <3>1, <3>2
  <2>6. ASSUME NEW r \in Sessions, NEW i \in seen'[r], step'[r] = "adding"
        PROVE  home'[i] = Current(r)' /\ i \in relayed'
    <3>1. i \in seen[r] /\ step[r] = "adding"
      BY <2>1, <2>6
    <3>2. home[i] = Current(r) /\ Current(r) # NoSession /\ i \in relayed
      BY <3>1 DEF CountedAtHome, ReadersApart
    <3> QED BY <2>1, <2>2, <3>2 DEF Current, Items
  <2>7. \A i \in Tokens \ relayed : home'[i] = NoSession
    BY <2>1 DEF CountedAtHome, Items
  <2>8. \A p \in admitted : home'[p] # NoSession
    BY <2>2 DEF CountedAtHome, Items
  <2> QED BY <2>1, <2>3, <2>5, <2>6, <2>7, <2>8 DEF CountedAtHome
<1>9. ASSUME NEW q \in Requests, WriteRequests(q) PROVE CountedAtHome'
  <2> DEFINE t == home[q]
  <2>1. /\ Counting(q) /\ seen' = [seen EXCEPT ![q] = {}] /\ admitted' = admitted \cup {q}
        /\ UNCHANGED <<home, step, relayed, registry>>
    BY <1>9 DEF WriteRequests
  <2>2. PICK old \in {seen[q], Counter(t, Requests)} : Count(t, Requests, old, {q})
    BY <1>9 DEF WriteRequests
  <2>3. t \in Sessions
    BY <2>1 DEF Counting, Items
  <2>4. \A i \in old : home[i] = t /\ i \in admitted \cup relayed
    BY <2>1, <2>3 DEF CountedAtHome, Counter
  <2> HIDE DEF t
  <2>5. \A r \in Sessions : \A i \in counts'[r] : home[i] = r /\ i \in admitted' \cup relayed
    <3>1. home[q] = t
      BY DEF t
    <3> QED BY <2>1, <2>2, <2>3, <2>4, <3>1 DEF Count, CountedAtHome
  <2>6. \A p \in Requests : \A i \in seen'[p] : Counting(p)' => home[i] = home[p] /\ i \in admitted'
    BY <2>1 DEF CountedAtHome, Counting
  <2>7. \A r \in Sessions : seen'[r] = seen[r]
    BY <2>1
  <2>8. \A p \in admitted' : home[p] # NoSession
    BY <2>1 DEF CountedAtHome, Counting
  <2> QED BY <2>1, <2>5, <2>6, <2>7, <2>8 DEF CountedAtHome, Current
<1>10. CASE Crash
  <2>1. /\ UNCHANGED <<counts, admitted, relayed>>
        /\ home' = [i \in Items |-> IF i \in Requests \ admitted THEN NoSession ELSE home[i]]
        /\ seen' = [a \in Requests \cup Sessions |-> {}]
    BY <1>10 DEF Crash
  <2>2. \A i \in admitted \cup relayed : home'[i] = home[i]
    BY <2>1 DEF Items
  <2>3. \A r \in Sessions : \A i \in counts[r] : home'[i] = r /\ i \in admitted \cup relayed
    BY <2>2 DEF CountedAtHome
  <2>4. \A i \in Tokens \ relayed : home'[i] = NoSession
    BY <2>1 DEF CountedAtHome, Items
  <2>5. \A p \in admitted : home'[p] # NoSession
    BY <2>2 DEF CountedAtHome
  <2> QED BY <2>1, <2>3, <2>4, <2>5 DEF CountedAtHome
<1>11. ASSUME NEW s \in Sessions, ReadLoop(s) PROVE CountedAtHome'
  BY <1>4, <1>5, <1>6, <1>7, <1>11, ReadersCount DEF ReadLoop
<1>12. ASSUME NEW q \in Requests, Admission(q) PROVE CountedAtHome'
  BY <1>8, <1>9, <1>12 DEF Admission
<1> QED BY <1>1, <1>2, <1>3, <1>10, <1>11, <1>12 DEF Next
------------------------------------------------------------------------------
(* The counters of a session are settled once.                              *)
SpentNext(s) == registry'[MachineOf[s]] # s /\ stage'[s] # "none"

(* Whoever leaves the registry as it is, or takes a session out of it, and  *)
(* lets nobody settle.                                                      *)
LEMMA SettledUndisturbed ==
  ASSUME IndInv, UNCHANGED <<took, settled>>,
         \A i \in settled : home'[i] = home[i],
         admitted \subseteq admitted', relayed \subseteq relayed',
         \A m \in Machines : registry'[m] = registry[m] \/ registry'[m] = NoSession,
         \A s \in Sessions : stage[s] # "none" => stage'[s] # "none",
         \A s \in Sessions : stage'[s] = "settling" => stage[s] = "settling"
  PROVE  SettledOnce'
<1> USE DEF IndInv, TypeOK, SettledOnce
<1>1. \A s \in Sessions : Spent(s) => SpentNext(s)
  BY DEF Spent, SpentNext, Registered, Current
<1>2. \A s \in Sessions : stage'[s] = "settling" => took[s] \in Sessions /\ SpentNext(took[s])
  BY <1>1
<1>3. \A i \in settled : home[i] \in Sessions /\ SpentNext(home[i])
  BY <1>1
<1>4. \A i \in settled : home'[i] # NoSession /\ SpentNext(home'[i])
  BY <1>3
<1>5. \A m \in Machines : registry'[m] # NoSession =>
        MachineOf[registry'[m]] = m /\ stage'[registry'[m]] # "none"
  OBVIOUS
<1> QED BY <1>2, <1>4, <1>5 DEF Spent, SpentNext, Current

(* Every step keeps it: what went into the row is not registered again.     *)
LEMMA SettledOnceKept ==
  ASSUME IndInv, [Next]_vars
  PROVE  SettledOnce'
<1> USE DEF IndInv, TypeOK
<1>1. ASSUME NEW s \in Sessions, Register(s) PROVE SettledOnce'
  <2>1. /\ stage[s] = "none" /\ UNCHANGED <<took, settled, home, admitted, relayed>>
        /\ registry' = [registry EXCEPT ![MachineOf[s]] = s]
        /\ stage' = [stage EXCEPT ![s] = "greeting"]
    BY <1>1 DEF Register
  <2>2. ASSUME NEW r \in Sessions, Spent(r) PROVE SpentNext(r)
    BY <2>1, <2>2 DEF Spent, SpentNext, Registered, Current
  <2>3. \A r \in Sessions : stage'[r] = "settling" => stage[r] = "settling"
    BY <2>1
  <2>4. \A r \in Sessions : stage'[r] = "settling" => took[r] \in Sessions /\ SpentNext(took[r])
    BY <2>2, <2>3 DEF SettledOnce
  <2>5. \A i \in settled : home[i] \in Sessions /\ SpentNext(home[i])
    BY <2>2 DEF SettledOnce
  <2>6. \A m \in Machines : registry'[m] # NoSession =>
          MachineOf[registry'[m]] = m /\ stage'[registry'[m]] # "none"
    BY <2>1 DEF SettledOnce
  <2> QED BY <2>1, <2>3, <2>4, <2>5, <2>6 DEF SettledOnce, Spent, SpentNext, Current
<1>2. ASSUME NEW s \in Sessions, Disconnect(s) PROVE SettledOnce'
  <2> DEFINE t == Current(s)
  <2>1. /\ UNCHANGED <<settled, home, admitted, relayed>>
        /\ registry' = [registry EXCEPT ![MachineOf[s]] = NoSession]
        /\ stage[s] = "closed"
    BY <1>2 DEF Disconnect, Unregister
  <2>2. CASE t # NoSession /\ counts[t] # {}
    <3>1. stage' = [stage EXCEPT ![s] = "settling"] /\ took' = [took EXCEPT ![s] = t]
      BY <1>2, <2>2 DEF Disconnect
    <3>2. t \in Registered /\ stage[t] # "none"
      BY <2>2 DEF SettledOnce, Registered, Current
    <3>3. \A r \in Sessions : Spent(r) => r # t /\ SpentNext(r)
      BY <2>1, <3>1, <3>2 DEF Spent, SpentNext, Registered, Current
    <3>4. t \in Sessions /\ MachineOf[t] = MachineOf[s]
      BY <2>2, <3>2 DEF Registered, Current, SettledOnce
    <3>5. SpentNext(t)
      BY <2>1, <3>1, <3>2, <3>4 DEF Spent, SpentNext, Registered, Current
    <3> HIDE DEF t
    <3>6. \A r \in Sessions \ {s} : stage'[r] = stage[r] /\ took'[r] = took[r]
      BY <3>1
    <3>7. \A r \in Sessions \ {s} : stage[r] = "settling" =>
            took[r] \in Sessions /\ took[r] # t /\ SpentNext(took[r])
      BY <3>3 DEF SettledOnce
    <3>8. took'[s] = t
      BY <3>1
    <3>9. \A r \in Sessions : stage'[r] = "settling" => took'[r] # NoSession /\ SpentNext(took'[r])
      BY <3>4, <3>5, <3>6, <3>7, <3>8
    <3>10. \A r, u \in Sessions :
             stage'[r] = "settling" /\ stage'[u] = "settling" /\ took'[r] = took'[u] => r = u
      BY <3>6, <3>7, <3>8 DEF SettledOnce
    <3>11. \A i \in settled :
             i \in admitted \cup relayed /\ home[i] \in Sessions /\ home[i] # t /\ SpentNext(home[i])
      BY <3>3 DEF SettledOnce
    <3>12. \A i \in settled : \A r \in Sessions : stage'[r] = "settling" => took'[r] # home[i]
      BY <3>6, <3>8, <3>11 DEF SettledOnce
    <3>13. \A m \in Machines : registry'[m] # NoSession =>
             MachineOf[registry'[m]] = m /\ stage'[registry'[m]] # "none"
      BY <2>1, <3>1 DEF SettledOnce
    <3> QED BY <2>1, <3>9, <3>10, <3>11, <3>12, <3>13 DEF SettledOnce, Spent, SpentNext, Current
  <2>3. CASE ~(t # NoSession /\ counts[t] # {})
    <3>1. stage' = [stage EXCEPT ![s] = "gone"] /\ took' = took
      BY <1>2, <2>3 DEF Disconnect
    <3> QED BY <2>1, <3>1, SettledUndisturbed
  <2> QED BY <2>2, <2>3
<1>3. ASSUME NEW s \in Sessions, Settle(s) PROVE SettledOnce'
  <2> DEFINE t == took[s]
  <2>1. /\ stage[s] = "settling" /\ stage' = [stage EXCEPT ![s] = "gone"]
        /\ settled' = settled \cup counts[t]
        /\ UNCHANGED <<took, home, admitted, relayed, registry>>
    BY <1>3 DEF Settle
  <2>2. t \in Sessions /\ Spent(t)
    BY <2>1 DEF SettledOnce
  <2>3. \A i \in counts[t] : home[i] = t /\ i \in admitted \cup relayed
    BY <2>2 DEF CountedAtHome
  <2>4. \A r \in Sessions : Spent(r) => SpentNext(r)
    BY <2>1 DEF Spent, SpentNext, Registered, Current
  <2>5. \A r \in Sessions : stage'[r] = "settling" => stage[r] = "settling" /\ took[r] # t
    BY <2>1 DEF SettledOnce
  <2> HIDE DEF t
  <2>6. \A i \in settled' : i \in admitted \cup relayed /\ home[i] \in Sessions /\ SpentNext(home[i])
    BY <2>1, <2>2, <2>3, <2>4 DEF SettledOnce
  <2>7. \A i \in settled' : \A r \in Sessions : stage'[r] = "settling" => took[r] # home[i]
    BY <2>1, <2>3, <2>5 DEF SettledOnce
  <2>8. \A r \in Sessions : stage'[r] = "settling" => took[r] # NoSession /\ SpentNext(took[r])
    BY <2>4, <2>5 DEF SettledOnce
  <2>9. \A m \in Machines : registry'[m] # NoSession =>
          MachineOf[registry'[m]] = m /\ stage'[registry'[m]] # "none"
    BY <2>1 DEF SettledOnce
  <2>10. \A r, u \in Sessions :
           stage'[r] = "settling" /\ stage'[u] = "settling" /\ took[r] = took[u] => r = u
    BY <2>5 DEF SettledOnce
  <2> QED BY <2>1, <2>6, <2>7, <2>8, <2>9, <2>10 DEF SettledOnce, Spent, SpentNext, Current
<1>4. ASSUME NEW s \in Sessions, Greet(s) \/ GreetingFails(s) \/ Close(s) \/ SettleFails(s)
      PROVE  SettledOnce'
  <2>1. /\ UNCHANGED <<took, settled, home, admitted, relayed>>
        /\ registry' = registry \/ registry' = [registry EXCEPT ![MachineOf[s]] = NoSession]
        /\ \E to \in {"serving", "gone", "closed"} : stage' = [stage EXCEPT ![s] = to]
    BY <1>4 DEF Greet, GreetingFails, Close, SettleFails, Unregister
  <2> QED BY <2>1, SettledUndisturbed
<1>5. ASSUME NEW m \in Machines, Discard(m) PROVE SettledOnce'
  <2>1. /\ UNCHANGED <<took, settled, home, admitted, relayed, stage>>
        /\ registry' = [registry EXCEPT ![m] = NoSession]
    BY <1>5 DEF Discard, Unregister
  <2> QED BY <2>1, SettledUndisturbed
<1>6. CASE Pass \/ Ticker \/ UNCHANGED vars
  <2>1. UNCHANGED <<took, settled, home, admitted, relayed, stage, registry>>
    BY <1>6, TickerRests DEF vars
  <2> QED BY <2>1, SettledUndisturbed
<1>7. CASE Crash
  <2>1. /\ UNCHANGED <<took, settled, admitted, relayed>>
        /\ registry' = [m \in Machines |-> NoSession]
        /\ stage' = [s \in Sessions |-> IF stage[s] = "none" THEN "none" ELSE "gone"]
        /\ home' = [i \in Items |-> IF i \in Requests \ admitted THEN NoSession ELSE home[i]]
    BY <1>7 DEF Crash
  <2>2. \A i \in settled : home'[i] = home[i]
    BY <2>1 DEF SettledOnce, Items
  <2> QED BY <2>1, <2>2, SettledUndisturbed
<1>8. ASSUME NEW s \in Sessions, ReadLoop(s) PROVE SettledOnce'
  <2>1. UNCHANGED <<took, settled, admitted, stage, registry>> /\ relayed \subseteq relayed'
    BY <1>8 DEF ReadLoop, RelayChunk, RelayResponse, Read, ReadTokens, WriteTokens, Tell, TellFails
  <2>2. UNCHANGED home \/ ReadTokens(s)
    BY <1>8 DEF ReadLoop, RelayChunk, RelayResponse, Read, WriteTokens, Tell, TellFails
  <2>3. ASSUME ReadTokens(s) PROVE \A i \in settled : home'[i] = home[i]
    <3>1. \A i \in batch[s] \cap Tokens : home[i] = NoSession
      BY <2>3 DEF ReadTokens, ReadersApart
    <3>2. \A i \in settled : home[i] # NoSession
      BY DEF SettledOnce
    <3> QED BY <2>3, <3>1, <3>2 DEF ReadTokens
  <2> QED BY <2>1, <2>2, <2>3, SettledUndisturbed
<1>9. ASSUME NEW q \in Requests, Admission(q) PROVE SettledOnce'
  <2>1. UNCHANGED <<took, settled, relayed, stage, registry>> /\ admitted \subseteq admitted'
    BY <1>9 DEF Admission, ReadRequests, WriteRequests
  <2>2. \A i \in settled : home'[i] = home[i]
    BY <1>9 DEF Admission, ReadRequests, WriteRequests, SettledOnce
  <2> QED BY <2>1, <2>2, SettledUndisturbed
<1>10. ASSUME NEW s \in Sessions, Connection(s) PROVE SettledOnce'
  BY <1>1, <1>2, <1>3, <1>4, <1>10 DEF Connection
<1> QED BY <1>5, <1>6, <1>7, <1>8, <1>9, <1>10 DEF Next
------------------------------------------------------------------------------
(* The time that connections have stood.                                    *)

(* The seconds of any connections can be counted.                           *)
LEMMA SecondsAreFinite ==
  ASSUME NEW t \in Nat, NEW S \in SUBSET (Sessions \X (1..t))
  PROVE  IsFiniteSet(S) /\ Cardinality(S) \in Nat
<1>1. IsFiniteSet(1..t)
  BY FS_Interval
<1>2. IsFiniteSet(Sessions \X (1..t))
  BY <1>1, FS_Product
<1> QED BY <1>2, FS_Subset, FS_CardinalityType

(* So can those of the connections there are, before and after a step.      *)
LEMMA StandingIsFinite ==
  /\ TypeOK => IsFiniteSet(Standing) /\ Cardinality(Standing) \in Nat
  /\ TypeOK' => IsFiniteSet(Standing') /\ Cardinality(Standing') \in Nat
<1>1. Standing \in SUBSET (Sessions \X (1..now)) /\ Standing' \in SUBSET (Sessions \X (1..now'))
  BY DEF Standing
<1>2. (TypeOK => now \in Nat) /\ (TypeOK' => now' \in Nat)
  BY DEF TypeOK
<1> QED BY <1>1, <1>2, SecondsAreFinite

(* Whoever connects now, or leaves, adds nothing to them.                   *)
LEMMA StandsNoLonger ==
  ASSUME TypeOK, TypeOK', now' = now,
         \A s \in Sessions : stage'[s] \in Connected =>
           since'[s] = now \/ (stage[s] \in Connected /\ since'[s] = since[s])
  PROVE  Standing' \subseteq Standing /\ Cardinality(Standing') <= Cardinality(Standing)
<1>1. ASSUME NEW p \in Standing' PROVE p \in Standing
  <2>1. /\ p \in Sessions \X (1..now) /\ stage'[p[1]] \in Connected
        /\ since'[p[1]] < p[2] /\ p[1] \in Sessions /\ p[2] \in Nat /\ p[2] <= now
    BY DEF Standing, TypeOK
  <2>2. since'[p[1]] # now
    BY <2>1 DEF TypeOK
  <2> QED BY <2>1, <2>2 DEF Standing
<1> QED BY <1>1, StandingIsFinite, FS_Subset

(* The end of a connection adds no more than it has stood.                  *)
LEMMA EndOfStanding ==
  ASSUME TypeOK, TypeOK', UNCHANGED <<now, since>>, NEW s \in Sessions,
         stage[s] \in Connected, stage' = [stage EXCEPT ![s] = "gone"]
  PROVE  Cardinality(Standing') + Uptime(s) <= Cardinality(Standing)
<1> DEFINE D == {s} \X (since[s] + 1..now)
<1>1. since[s] \in Nat /\ now \in Nat /\ since[s] <= now
  BY DEF TypeOK
<1>2. IsFiniteSet(since[s] + 1..now) /\ Cardinality(since[s] + 1..now) = now - since[s]
  <2>1. since[s] + 1 \in Int /\ now \in Int
    BY <1>1
  <2>2. /\ IsFiniteSet(since[s] + 1..now)
        /\ Cardinality(since[s] + 1..now) =
             IF since[s] + 1 > now THEN 0 ELSE now - (since[s] + 1) + 1
    BY ONLY <2>1, FS_Interval
  <2> QED BY <1>1, <2>2
<1>3. IsFiniteSet({s}) /\ Cardinality({s}) = 1
  BY FS_Singleton
<1>4. IsFiniteSet(D) /\ Cardinality(D) = now - since[s]
  <2>1. IsFiniteSet(D) /\ Cardinality(D) = Cardinality({s}) * Cardinality(since[s] + 1..now)
    BY <1>2, <1>3, FS_Product
  <2>2. \A n \in Int : 1 * n = n
    OBVIOUS
  <2> HIDE DEF D
  <2> QED BY <1>1, <1>2, <1>3, <2>1, <2>2
<1>5. D \subseteq Standing
  BY <1>1 DEF Standing
<1>6. Standing' \subseteq Standing /\ Standing' \cap D = {}
  BY DEF Standing, Connected, TypeOK
<1> HIDE DEF D
<1>7. IsFiniteSet(Standing) /\ Cardinality(Standing) \in Nat
  BY StandingIsFinite
<1>8. IsFiniteSet(Standing') /\ Cardinality(Standing') \in Nat
  BY StandingIsFinite
<1>9. /\ IsFiniteSet(Standing' \cup D)
      /\ Cardinality(Standing' \cup D) = Cardinality(Standing') + Cardinality(D) - 0
  <2>1. Cardinality(Standing' \cap D) = 0
    BY <1>6, FS_EmptySet
  <2> QED BY <1>4, <1>8, <2>1, FS_Union
<1>10. Cardinality(Standing' \cup D) <= Cardinality(Standing)
  BY <1>5, <1>6, <1>7, FS_Subset
<1> QED BY <1>1, <1>4, <1>7, <1>8, <1>9, <1>10 DEF Uptime

(* A second makes every connection stand a second longer.                   *)
LEMMA SecondStands ==
  ASSUME TypeOK, TypeOK', Pass
  PROVE  Cardinality(Standing') <= Cardinality(Standing) + Cardinality(Open)
<1> DEFINE D == Open \X {now + 1}
<1>1. now \in Nat /\ now' = now + 1 /\ UNCHANGED <<stage, since>>
  BY DEF Pass, TypeOK
<1>2. Standing' \subseteq Standing \cup D
  <2> SUFFICES ASSUME NEW p \in Standing', p \notin D PROVE p \in Standing
    OBVIOUS
  <2>1. /\ p \in Sessions \X (1..now + 1) /\ stage[p[1]] \in Connected
        /\ since[p[1]] < p[2]
    BY <1>1 DEF Standing
  <2>2. p[2] # now + 1
    BY <2>1 DEF Open
  <2>3. p \in Sessions \X (1..now)
    BY <1>1, <2>1, <2>2
  <2> QED BY <2>1, <2>3 DEF Standing
<1>3. IsFiniteSet(Open) /\ Cardinality(Open) \in Nat
  <2>1. Open \in SUBSET Sessions
    BY DEF Open
  <2> QED BY <2>1, FS_Subset, FS_CardinalityType
<1>4. IsFiniteSet(D) /\ Cardinality(D) = Cardinality(Open)
  <2>1. IsFiniteSet({now + 1}) /\ Cardinality({now + 1}) = 1
    BY FS_Singleton
  <2>2. IsFiniteSet(D) /\ Cardinality(D) = Cardinality(Open) * Cardinality({now + 1})
    BY <1>3, <2>1, FS_Product
  <2>3. \A n \in Int : n * 1 = n
    OBVIOUS
  <2> HIDE DEF D
  <2> QED BY <1>3, <2>1, <2>2, <2>3
<1> HIDE DEF D
<1>5. IsFiniteSet(Standing) /\ Cardinality(Standing) \in Nat
  BY StandingIsFinite
<1>6. IsFiniteSet(Standing') /\ Cardinality(Standing') \in Nat
  BY StandingIsFinite
<1>7. /\ IsFiniteSet(Standing \cup D) /\ IsFiniteSet(Standing \cap D)
      /\ Cardinality(Standing \cup D) =
           Cardinality(Standing) + Cardinality(D) - Cardinality(Standing \cap D)
  BY <1>4, <1>5, FS_Union, FS_Intersection
<1>8. Cardinality(Standing \cap D) \in Nat
  BY <1>7, FS_CardinalityType
<1>9. Cardinality(Standing') <= Cardinality(Standing \cup D)
  BY <1>2, <1>7, FS_Subset
<1> QED BY <1>3, <1>4, <1>5, <1>6, <1>7, <1>8, <1>9

(* What is registered is connected, also after the step.                    *)
LEMMA RegisteredAreOpenKept ==
  ASSUME IndInv, [Next]_vars
  PROVE  RegisteredAreOpen'
<1> USE DEF IndInv, TypeOK, RegisteredAreOpen
<1>1. ASSUME NEW s \in Sessions, Connection(s) PROVE RegisteredAreOpen'
  <2>1. CASE Register(s)
    BY <2>1 DEF Register
  <2>2. CASE Greet(s) \/ Close(s)
    BY <2>2 DEF Greet, Close
  <2>3. CASE GreetingFails(s) \/ Disconnect(s)
    <3>1. /\ registry' = [registry EXCEPT ![MachineOf[s]] = NoSession]
          /\ \A r \in Sessions \ {s} : stage'[r] = stage[r]
      BY <2>3 DEF GreetingFails, Disconnect, Unregister
    <3>2. \A m \in Machines : registry'[m] # NoSession =>
            registry'[m] = registry[m] /\ registry[m] # s
      BY <3>1 DEF SettledOnce
    <3> QED BY <3>1, <3>2
  <2>4. CASE Settle(s) \/ SettleFails(s)
    <3>1. /\ registry' = registry /\ stage[s] = "settling"
          /\ \A r \in Sessions \ {s} : stage'[r] = stage[r]
      BY <2>4 DEF Settle, SettleFails
    <3> QED BY <3>1
  <2> QED BY <1>1, <2>1, <2>2, <2>3, <2>4 DEF Connection
<1>2. ASSUME NEW m \in Machines, Discard(m) PROVE RegisteredAreOpen'
  BY <1>2 DEF Discard, Unregister
<1>3. CASE Crash
  BY <1>3 DEF Crash
<1>4. ASSUME NEW s \in Sessions, ReadLoop(s) PROVE UNCHANGED <<registry, stage>>
  BY <1>4 DEF ReadLoop, RelayChunk, RelayResponse, Read, ReadTokens, WriteTokens, Tell, TellFails
<1>5. ASSUME NEW q \in Requests, Admission(q) PROVE UNCHANGED <<registry, stage>>
  BY <1>5 DEF Admission, ReadRequests, WriteRequests
<1>6. CASE Pass \/ Ticker \/ UNCHANGED vars
  BY <1>6, TickerRests DEF vars
<1> QED BY <1>1, <1>2, <1>3, <1>4, <1>5, <1>6 DEF Next

(* Parts of the sessions are counted by numbers, a smaller part by a smaller *)
(* one, and those that begin or end one by one.                             *)
LEMMA PartsAreCounted ==
  ASSUME NEW S \in SUBSET Sessions
  PROVE  /\ IsFiniteSet(S) /\ Cardinality(S) \in Nat
         /\ \A T \in SUBSET S : Cardinality(T) <= Cardinality(S)
         /\ \A s \in S : Cardinality(S \ {s}) = Cardinality(S) - 1
         /\ \A s \in Sessions \ S : Cardinality(S \cup {s}) = Cardinality(S) + 1
<1>1. IsFiniteSet(S)
  BY FS_Subset
<1> QED BY <1>1, FS_Subset, FS_CardinalityType, FS_AddElement, FS_RemoveElement

(* Products grow with their factors.                                        *)
LEMMA MoreOf ==
  ASSUME NEW a \in Nat, NEW b \in Nat, NEW c \in Nat, a <= b
  PROVE  c * a \in Nat /\ c * b \in Nat /\ c * a <= c * b
<1>1. PICK d \in Nat : b = a + d
  <2>1. b - a \in Nat /\ b = a + (b - a)
    OBVIOUS
  <2> QED BY <2>1
<1>2. c * b = c * a + c * d /\ c * d \in Nat /\ c * a \in Nat
  BY <1>1
<1> QED BY <1>2

(* What counts in TimeCovered is a number.                                  *)
LEMMA Numbers ==
  /\ TypeOK => /\ totalUptime \in Nat /\ served \in Nat /\ now \in Nat /\ Debt \in Nat
               /\ Debt < 3 * Tick /\ Cardinality(Standing) \in Nat
               /\ Cardinality(due) \in Nat /\ Cardinality(Open) \in Nat
               /\ Cardinality(Begun) \in Nat
  /\ TypeOK' => /\ totalUptime' \in Nat /\ served' \in Nat /\ now' \in Nat /\ Debt' \in Nat
                /\ Cardinality(Standing') \in Nat
                /\ Cardinality(due') \in Nat /\ Cardinality(Open') \in Nat
                /\ Cardinality(Begun') \in Nat
<1>1. /\ Open \in SUBSET Sessions /\ Begun \in SUBSET Sessions
      /\ Open' \in SUBSET Sessions /\ Begun' \in SUBSET Sessions
  BY DEF Open, Begun
<1>2. ASSUME TypeOK PROVE Debt \in Nat /\ Debt < 3 * Tick /\ Cardinality(due) \in Nat
  BY <1>2, PartsAreCounted DEF TypeOK, TickerOK, Debt, Ticks
<1>3. ASSUME TypeOK' PROVE Debt' \in Nat /\ Cardinality(due') \in Nat
  <2>1. due' \in SUBSET Sessions /\ elapsed' \in 0..Tick - 1
    BY <1>3 DEF TypeOK, TickerOK
  <2>2. Cardinality(due') \in Nat
    BY <2>1, PartsAreCounted
  <2>3. \A b : Ticks(b) \in Nat
    BY DEF Ticks
  <2> QED BY <2>1, <2>2, <2>3 DEF Debt
<1> QED BY <1>1, <1>2, <1>3, PartsAreCounted, StandingIsFinite DEF TypeOK

(* A step that takes something away and adds nothing keeps the bound.       *)
LEMMA RoomStays ==
  ASSUME TypeOK, TypeOK', TimeCovered,
         totalUptime' + Cardinality(Standing') <= totalUptime + Cardinality(Standing),
         served' = served, Debt' <= Debt,
         due' \subseteq due, Open' \subseteq Open, Begun' = Begun
  PROVE  TimeCovered'
<1>1. /\ Cardinality(due') <= Cardinality(due) /\ Cardinality(Open') <= Cardinality(Open)
      /\ Cardinality(Begun') = Cardinality(Begun)
  <2>1. Open \in SUBSET Sessions /\ due \in SUBSET Sessions
    BY DEF Open, TypeOK, TickerOK
  <2> QED BY <2>1, PartsAreCounted
<1>2. Tick * Cardinality(due') <= Tick * Cardinality(due)
  BY <1>1, Numbers, MoreOf
<1>3. Debt' * Cardinality(Open') <= Debt * Cardinality(Open)
  <2>1. Debt' * Cardinality(Open') <= Debt' * Cardinality(Open)
    BY <1>1, Numbers, MoreOf
  <2>2. Cardinality(Open) * Debt' <= Cardinality(Open) * Debt
    BY Numbers, MoreOf
  <2>3. \A i, j \in Nat : i * j = j * i
    OBVIOUS
  <2> QED BY <2>1, <2>2, <2>3, Numbers, MoreOf
<1>4. /\ Tick * Cardinality(due') \in Nat /\ Tick * Cardinality(due) \in Nat
      /\ Debt' * Cardinality(Open') \in Nat /\ Debt * Cardinality(Open) \in Nat
      /\ 3 * Tick * Cardinality(Begun) \in Nat
  BY Numbers, MoreOf
<1>5. 3 * Tick * Cardinality(Begun') = 3 * Tick * Cardinality(Begun)
  BY <1>1
<1> HIDE DEF TypeOK
<1> QED BY <1>2, <1>3, <1>4, <1>5, Numbers DEF TimeCovered

(* A connection that begins brings the room for the ticks it may get.       *)
LEMMA RegisterBringsRoom ==
  ASSUME TypeOK, TypeOK', TimeCovered, NEW s \in Sessions, Register(s)
  PROVE  TimeCovered'
<1>1. /\ UNCHANGED <<totalUptime, served, now, elapsed, fired, ticking, due>>
      /\ Open' = Open \cup {s} /\ s \notin Open
      /\ Begun' = Begun \cup {s} /\ s \notin Begun
  BY DEF Register, Open, Begun, Connected, TypeOK
<1>2. /\ Cardinality(Open') = Cardinality(Open) + 1
      /\ Cardinality(Begun') = Cardinality(Begun) + 1
  <2>1. Open \in SUBSET Sessions /\ Begun \in SUBSET Sessions
    BY DEF Open, Begun
  <2> QED BY <1>1, <2>1, PartsAreCounted
<1>3. Cardinality(Standing') <= Cardinality(Standing)
  <2>1. \A r \in Sessions : stage'[r] \in Connected =>
          since'[r] = now \/ (stage[r] \in Connected /\ since'[r] = since[r])
    BY DEF Register, TypeOK
  <2> QED BY <1>1, <2>1, StandsNoLonger
<1>4. Debt' = Debt /\ Debt * (Cardinality(Open) + 1) = Debt * Cardinality(Open) + Debt
      /\ 3 * Tick * (Cardinality(Begun) + 1) = 3 * Tick * Cardinality(Begun) + 3 * Tick
  <2>1. \A i, j \in Nat : i * (j + 1) = i * j + i
    OBVIOUS
  <2> QED BY <1>1, <2>1, Numbers DEF Debt
<1>5. /\ Tick * Cardinality(due) \in Nat /\ Debt * Cardinality(Open) \in Nat
      /\ 3 * Tick * Cardinality(Begun) \in Nat
  BY Numbers, MoreOf
<1>6. Tick * Cardinality(due') = Tick * Cardinality(due)
  BY <1>1
<1> HIDE DEF TypeOK
<1> QED BY <1>1, <1>2, <1>3, <1>4, <1>5, <1>6, Numbers DEF TimeCovered

(* A second adds one to what every connection has stood, and at most one to *)
(* what the ticker may add for it.                                          *)
LEMMA PassKeepsRoom ==
  ASSUME TypeOK, TypeOK', TimeCovered, Pass
  PROVE  TimeCovered'
<1>1. /\ UNCHANGED <<totalUptime, due, stage>> /\ Open' = Open /\ Begun' = Begun
      /\ served' = served + Cardinality(Open)
  BY DEF Pass, Open, Begun
<1>2. Debt' <= Debt + 1
  <2>1. elapsed' = IF elapsed + 1 = Tick THEN 0 ELSE elapsed + 1
    BY DEF Pass, TypeOK, TickerOK
  <2>2. fired' = (fired \/ elapsed' = 0) /\ ticking' = ticking
    BY DEF Pass
  <2> QED BY <2>1, <2>2 DEF Debt, Ticks, TypeOK, TickerOK
<1>3. Debt' * Cardinality(Open) <= Debt * Cardinality(Open) + Cardinality(Open)
  <2>1. Cardinality(Open) * Debt' <= Cardinality(Open) * (Debt + 1)
    BY <1>2, Numbers, MoreOf
  <2>2. \A i, j \in Nat : i * j = j * i /\ i * (j + 1) = j * i + i
    OBVIOUS
  <2> QED BY <2>1, <2>2, Numbers
<1>4. Cardinality(Standing') <= Cardinality(Standing) + Cardinality(Open)
  BY SecondStands
<1>5. /\ Tick * Cardinality(due) \in Nat /\ Debt * Cardinality(Open) \in Nat
      /\ Debt' * Cardinality(Open) \in Nat /\ 3 * Tick * Cardinality(Begun) \in Nat
  BY Numbers, MoreOf
<1>6. /\ Tick * Cardinality(due') = Tick * Cardinality(due)
      /\ Debt' * Cardinality(Open') = Debt' * Cardinality(Open)
      /\ 3 * Tick * Cardinality(Begun') = 3 * Tick * Cardinality(Begun)
  BY <1>1
<1> HIDE DEF TypeOK
<1> QED BY <1>1, <1>3, <1>4, <1>5, <1>6, Numbers DEF TimeCovered

(* The ticker uses the room it has: a tick goes from its channel into its   *)
(* hands, from there to the sessions that are registered, and into the row. *)
LEMMA TickerKeepsRoom ==
  ASSUME TypeOK, TypeOK', TimeCovered, RegisteredAreOpen, Ticker
  PROVE  TimeCovered'
<1>1. /\ UNCHANGED <<served, now, stage, since, elapsed>>
      /\ Open' = Open /\ Begun' = Begun /\ Standing' = Standing
  BY DEF Ticker, ReceiveTick, AllSessions, AddTick, AddTickFails, Open, Begun, Standing
<1>2. /\ Tick * Cardinality(due) \in Nat /\ Debt * Cardinality(Open) \in Nat
      /\ 3 * Tick * Cardinality(Begun) \in Nat /\ Tick * Cardinality(Open) \in Nat
  BY Numbers, MoreOf
<1>3. Tick * Cardinality(due') \in Nat /\ Debt' * Cardinality(Open) \in Nat
  BY Numbers, MoreOf
<1>4. /\ Debt' * Cardinality(Open') = Debt' * Cardinality(Open)
      /\ 3 * Tick * Cardinality(Begun') = 3 * Tick * Cardinality(Begun)
      /\ Cardinality(Standing') = Cardinality(Standing)
  BY <1>1
<1>5. CASE ReceiveTick
  <2>1. Debt' = Debt /\ UNCHANGED <<totalUptime, due>>
    BY <1>1, <1>5 DEF ReceiveTick, Debt, Ticks, TypeOK
  <2> HIDE DEF TypeOK
  <2> QED BY <1>1, <2>1, RoomStays, Numbers
<1>6. CASE AllSessions
  <2>1. Debt = Debt' + Tick /\ totalUptime' = totalUptime /\ due' = Registered
    BY <1>1, <1>6 DEF AllSessions, Debt, Ticks, TypeOK, TickerOK
  <2>2. Cardinality(due') <= Cardinality(Open)
    <3>1. due' \subseteq Open /\ Open \in SUBSET Sessions
      BY <2>1 DEF RegisteredAreOpen, Registered, Current, Open, Connected, TypeOK
    <3> QED BY <3>1, PartsAreCounted
  <2>3. Tick * Cardinality(due') <= Tick * Cardinality(Open)
    BY <2>2, Numbers, MoreOf
  <2>4. Debt * Cardinality(Open) = Debt' * Cardinality(Open) + Tick * Cardinality(Open)
    <3>1. \A i, j, k \in Nat : (i + j) * k = i * k + j * k
      OBVIOUS
    <3> QED BY <2>1, <3>1, Numbers
  <2> HIDE DEF TypeOK
  <2> QED BY <1>1, <1>2, <1>3, <1>4, <2>1, <2>3, <2>4, Numbers DEF TimeCovered
<1>7. ASSUME NEW s \in Sessions, AddTick(s) \/ AddTickFails(s) PROVE TimeCovered'
  <2>1. /\ s \in due /\ due' = due \ {s} /\ UNCHANGED <<fired, ticking>>
        /\ totalUptime' <= totalUptime + Tick
    BY <1>7, Numbers DEF AddTick, AddTickFails, Add
  <2>2. Debt' = Debt
    BY <1>1, <2>1 DEF Debt
  <2>3. Cardinality(due) = Cardinality(due') + 1
    BY <2>1, PartsAreCounted, Numbers DEF TypeOK, TickerOK
  <2>4. Tick * Cardinality(due) = Tick * Cardinality(due') + Tick
    <3>1. \A i, j \in Nat : i * (j + 1) = i * j + i
      OBVIOUS
    <3> QED BY <2>3, <3>1, Numbers
  <2>5. Debt' * Cardinality(Open) = Debt * Cardinality(Open)
    BY <2>2
  <2> HIDE DEF TypeOK
  <2> QED BY <1>1, <1>2, <1>3, <1>4, <2>1, <2>4, <2>5, Numbers DEF TimeCovered
<1> QED BY <1>5, <1>6, <1>7 DEF Ticker

(* No step adds more than there is room for.                                *)
LEMMA TimeCoveredKept ==
  ASSUME IndInv, TypeOK', [Next]_vars
  PROVE  TimeCovered'
<1>1. TypeOK /\ TimeCovered /\ RegisteredAreOpen
  BY DEF IndInv
<1>2. ASSUME UNCHANGED <<totalUptime, served, now, ticker, since>>,
             \A s \in Sessions : stage'[s] \in Connected => stage[s] \in Connected,
             \A s \in Sessions : stage'[s] # "none" <=> stage[s] # "none"
      PROVE  TimeCovered'
  <2>1. Cardinality(Standing') <= Cardinality(Standing)
    BY <1>1, <1>2, StandsNoLonger
  <2>2. Open' \subseteq Open /\ Begun' = Begun /\ Debt' = Debt
    BY <1>2 DEF Open, Begun, Debt
  <2> QED BY <1>1, <1>2, <2>1, <2>2, RoomStays, Numbers
<1>3. ASSUME NEW s \in Sessions, Connection(s) PROVE TimeCovered'
  <2>1. CASE Settle(s)
    <3>1. /\ stage[s] \in Connected /\ UNCHANGED <<now, ticker, since, served>>
          /\ stage' = [stage EXCEPT ![s] = "gone"]
          /\ totalUptime' = totalUptime + Uptime(s)
      BY <2>1 DEF Settle, Add, Connected
    <3>2. Cardinality(Standing') + Uptime(s) <= Cardinality(Standing)
      BY <1>1, <3>1, EndOfStanding
    <3>3. Uptime(s) \in Int
      BY <1>1 DEF Uptime, TypeOK
    <3>4. Open' \subseteq Open /\ Begun' = Begun /\ Debt' = Debt
      BY <1>1, <3>1 DEF Open, Begun, Debt, Connected, TypeOK
    <3>5. totalUptime' + Cardinality(Standing') <= totalUptime + Cardinality(Standing)
      BY <1>1, <3>1, <3>2, <3>3, Numbers
    <3> QED BY <1>1, <3>1, <3>4, <3>5, RoomStays, Numbers
  <2>2. CASE Greet(s) \/ GreetingFails(s) \/ Close(s) \/ Disconnect(s) \/ SettleFails(s)
    <3>1. /\ UNCHANGED <<totalUptime, served, now, ticker, since>> /\ stage[s] \in Connected
          /\ \A r \in Sessions \ {s} : stage'[r] = stage[r]
          /\ stage'[s] # "none"
      BY <1>1, <2>2 DEF Greet, GreetingFails, Close, Disconnect, SettleFails, Connected, TypeOK
    <3>2. stage[s] # "none"
      BY <3>1 DEF Connected
    <3> QED BY <1>2, <3>1, <3>2
  <2> QED BY <1>1, <1>3, <2>1, <2>2, RegisterBringsRoom DEF Connection
<1>4. CASE Crash
  <2>1. /\ UNCHANGED <<totalUptime, served, now, since>>
        /\ Open' = {} /\ Begun' = Begun /\ due' = {} /\ Debt' = 0
    BY <1>4 DEF Crash, Open, Begun, Connected, Debt, Ticks
  <2>2. \A s \in Sessions : stage'[s] \notin Connected
    BY <2>1 DEF Open
  <2>3. Cardinality(Standing') <= Cardinality(Standing)
    BY <1>1, <2>1, <2>2, StandsNoLonger
  <2> QED BY <1>1, <2>1, <2>3, RoomStays, Numbers
<1>5. ASSUME UNCHANGED <<totalUptime, served, now, ticker, since, stage>> PROVE TimeCovered'
  BY <1>2, <1>5
<1>6. ASSUME NEW s \in Sessions, ReadLoop(s)
      PROVE  UNCHANGED <<totalUptime, served, now, ticker, since, stage>>
  BY <1>1, <1>6, Numbers DEF ReadLoop, RelayChunk, RelayResponse, Read, ReadTokens, WriteTokens,
    Tell, TellFails, Add
<1>7. ASSUME NEW q \in Requests, Admission(q)
      PROVE  UNCHANGED <<totalUptime, served, now, ticker, since, stage>>
  BY <1>7 DEF Admission, ReadRequests, WriteRequests
<1>8. ASSUME NEW m \in Machines, Discard(m)
      PROVE  UNCHANGED <<totalUptime, served, now, ticker, since, stage>>
  BY <1>8 DEF Discard
<1>9. CASE UNCHANGED vars
  BY <1>5, <1>9 DEF vars
<1> QED BY <1>1, <1>3, <1>4, <1>5, <1>6, <1>7, <1>8, <1>9, PassKeepsRoom, TickerKeepsRoom DEF Next
------------------------------------------------------------------------------
(* The theorems.                                                            *)

(* At the start nothing is counted and nobody connected.                    *)
LEMMA InitHolds == Init => IndInv
<1> SUFFICES ASSUME Init PROVE IndInv
  OBVIOUS
<1> USE DEF Init
<1>1. TypeOK
  <2>1. 0 \in 0..Tick - 1
    OBVIOUS
  <2>2. TickerOK
    BY <2>1 DEF TickerOK
  <2> QED BY <2>2 DEF TypeOK, Connected
<1>2. Value({}, Tokens) = 0 /\ Value({}, Requests) = 0
  <2>1. {} \cap Tokens = {} /\ {} \cap Requests = {}
    OBVIOUS
  <2> QED BY <2>1, FS_EmptySet DEF Value
<1>3. Balanced
  BY <1>2 DEF Balanced
<1>4. ReadersApart /\ NoneMissing
  BY DEF ReadersApart, NoneMissing, Existing
<1>5. CountedAtHome
  BY DEF CountedAtHome, Items
<1>6. SettledOnce
  BY DEF SettledOnce
<1>7. RegisteredAreOpen
  BY DEF RegisteredAreOpen
<1>8. TimeCovered
  <2>1. Standing = {} /\ due = {} /\ Open = {} /\ Begun = {}
    BY DEF Standing, Open, Begun, Connected
  <2>2. Cardinality({}) = 0
    BY FS_EmptySet
  <2>3. \A i \in Nat : i * 0 = 0
    OBVIOUS
  <2>4. Debt \in Nat
    BY DEF Debt, Ticks
  <2> QED BY <2>1, <2>2, <2>3, <2>4 DEF TimeCovered
<1> QED BY <1>1, <1>3, <1>4, <1>5, <1>6, <1>7, <1>8 DEF IndInv

(* Every step keeps all of it.                                              *)
LEMMA NextKeeps == ASSUME IndInv, [Next]_vars PROVE IndInv'
<1>1. TypeOK'
  <2>1. CASE UNCHANGED vars
    BY <2>1, TickerStays DEF vars, IndInv, TypeOK
  <2> QED BY <2>1, TypeConnection, TypeReadLoop, TypeOthers DEF Next
<1> QED BY <1>1, BalancedKept, ReadersKept, CountedAtHomeKept, SettledOnceKept,
  RegisteredAreOpenKept, TimeCoveredKept DEF IndInv, Readers

(* The inductive invariant holds of every run of the statistics.            *)
THEOREM UsageInductive == Spec => []IndInv
BY InitHolds, NextKeeps, PTL DEF Spec

(* Every variable keeps its type, the counters that lose updates included.  *)
THEOREM TypeCorrect == Spec => []TypeOK
<1>1. IndInv => TypeOK
  BY DEF IndInv
<1> QED BY <1>1, UsageInductive, PTL

(* What is in the row once through the read loops and once through ends.   *)
LEMMA BoundedAbove == ASSUME IndInv PROVE CountedAtMostTwice
<1> USE DEF IndInv, TypeOK
<1>1. /\ told \cap Tokens \subseteq relayed /\ settled \cap Tokens \subseteq relayed
      /\ told \cap Requests \subseteq answered /\ settled \cap Requests \subseteq admitted
  BY DEF NoneMissing, Existing, SettledOnce
<1>2. IsFiniteSet(relayed) /\ IsFiniteSet(admitted) /\ IsFiniteSet(answered)
  BY FS_Subset
<1>3. /\ Value(told, Tokens) <= Cardinality(relayed)
      /\ Value(settled, Tokens) <= Cardinality(relayed)
      /\ Value(told, Requests) <= Cardinality(answered)
      /\ Value(settled, Requests) <= Cardinality(admitted)
  BY <1>1, <1>2, FS_Subset DEF Value
<1>4. /\ Value(told, Tokens) \in Nat /\ Value(settled, Tokens) \in Nat
      /\ Value(told, Requests) \in Nat /\ Value(settled, Requests) \in Nat
  BY SizesAreNumbers
<1>5. /\ Cardinality(relayed) \in Nat /\ Cardinality(admitted) \in Nat
      /\ Cardinality(answered) \in Nat
  BY <1>2, FS_CardinalityType
<1> QED BY <1>3, <1>4, <1>5 DEF Balanced, CountedAtMostTwice

(* No token and no request is in the owner's row more than twice, whichever *)
(* way sessions were replaced, ended, evicted or revoked.                   *)
THEOREM StatisticsAtMostTwice == Spec => []CountedAtMostTwice
BY BoundedAbove, UsageInductive, PTL

(* What is not in the row is lost or under way.                             *)
LEMMA BoundedBelow == ASSUME IndInv PROVE TokensKept
<1> USE DEF IndInv, TypeOK
<1> DEFINE T == told \cap Tokens
           L == (lost \cup InFlight) \cap Tokens
<1>1. relayed \subseteq T \cup L
  BY DEF NoneMissing
<1>2. InFlight \subseteq Items
  BY DEF InFlight
<1>3. /\ IsFiniteSet(T) /\ IsFiniteSet(L) /\ Value(told, Tokens) \in Nat
      /\ Value(settled, Tokens) \in Nat /\ Value(lost \cup InFlight, Tokens) \in Nat
  <2>1. lost \cup InFlight \in SUBSET Items
    BY <1>2
  <2> QED BY <2>1, SizesAreNumbers
<1>4. Cardinality(T) = Value(told, Tokens) /\ Cardinality(L) = Value(lost \cup InFlight, Tokens)
  BY DEF Value
<1> HIDE DEF T, L
<1>5. IsFiniteSet(T \cup L) /\ IsFiniteSet(T \cap L)
      /\ Cardinality(T \cup L) = Cardinality(T) + Cardinality(L) - Cardinality(T \cap L)
  BY <1>3, FS_Union, FS_Intersection
<1>6. Cardinality(T \cap L) \in Nat /\ Cardinality(T \cup L) \in Nat
  BY <1>5, FS_CardinalityType
<1>7. Cardinality(relayed) <= Cardinality(T \cup L) /\ Cardinality(relayed) \in Nat
  <2>1. IsFiniteSet(relayed)
    BY FS_Subset
  <2> QED BY <1>1, <1>5, <2>1, FS_Subset, FS_CardinalityType
<1>8. totalTokens = Value(told, Tokens) + Value(settled, Tokens)
  BY DEF Balanced
<1> QED BY <1>3, <1>4, <1>5, <1>6, <1>7, <1>8 DEF TokensKept

(* No token is missing in the row but for those of a failed statement, of a *)
(* crash, or still with a read loop.                                        *)
THEOREM StatisticsKeepTokens == Spec => []TokensKept
BY BoundedBelow, UsageInductive, PTL

(* The uptime in the row is bounded by the time of all connections and      *)
(* their number: whatever was replaced, evicted, cut short or left out by   *)
(* the ticker, and however late its goroutine runs, the end of a connection *)
(* adds each second of it once, and the ticker each second once more and no *)
(* more than three ticks besides.                                           *)
THEOREM UptimeStaysBounded == Spec => []UptimeBounded
<1>1. ASSUME IndInv PROVE UptimeBounded
  <2>1. TypeOK /\ TimeCovered
    BY <1>1 DEF IndInv
  <2>2. /\ Tick * Cardinality(due) \in Nat /\ Debt * Cardinality(Open) \in Nat
        /\ 3 * Tick * Cardinality(Begun) \in Nat
    BY <2>1, Numbers, MoreOf
  <2> QED BY <2>1, <2>2, Numbers DEF UptimeBounded, TimeCovered
<1> QED BY <1>1, UsageInductive, PTL
==============================================================================
