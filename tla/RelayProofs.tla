----------------------------- MODULE RelayProofs -----------------------------
(***************************************************************************)
(* What holds of the relay plane for every number of machines, connections  *)
(* and requests, every capacity and every choice of Events.                 *)
(***************************************************************************)
EXTENDS Relay, FiniteSetTheorems, TLAPS

USE TopologyAssumption, BoundsAssumption, NoSessionAssumption
    DEF sessVars, reqVars, chanVars, relayVars, agentVars, admVars, ghosts
------------------------------------------------------------------------------
(* Types.                                                                   *)

(* The request id a handler uses is an id, generateRequestID never runs out.*)
LEMMA IdType == ASSUME TypeOK, NEW q \in Requests PROVE Id(q) \in Ids
  BY DEF TypeOK, RequestTypes, Id, Ids

(* GetSession returns a session or nil.                                     *)
LEMMA CurrentType ==
  ASSUME TypeOK, NEW q \in Requests PROVE Current(q) \in Sessions \cup {NoSession}
  BY DEF TypeOK, RegistryTypes, Current

(* What Registry.Unregister leaves behind has the types of what it found.   *)
LEMMA UnregisterTypes ==
  ASSUME TypeOK, NEW m \in Machines, Unregister(m)
  PROVE  /\ registry' \in [Machines -> Sessions \cup {NoSession}]
         /\ chunkCh' \in [Sessions -> SUBSET Ids]
         /\ nilMap' \in SUBSET Sessions
         /\ closed' \in SUBSET Ids
<1> USE DEF TypeOK, RegistryTypes, ChannelTypes
<1>1. CASE registry[m] = NoSession
  BY <1>1 DEF Unregister
<1>2. CASE registry[m] # NoSession
  <2>1. registry[m] \in Sessions
    BY <1>2
  <2>2. /\ closed' = closed \cup chunkCh[registry[m]]
        /\ chunkCh' = [chunkCh EXCEPT ![registry[m]] = {}]
        /\ nilMap' = nilMap \cup {registry[m]}
        /\ registry' = [registry EXCEPT ![m] = NoSession]
    BY <1>2 DEF Unregister, Wake
  <2> QED BY <2>1, <2>2
<1> QED BY <1>1, <1>2

(* The empty registry and idle goroutines of Init are well typed.           *)
LEMMA TypeInit == Init => TypeOK
<1> SUFFICES ASSUME Init PROVE TypeOK
  OBVIOUS
<1>1. RegistryTypes
  BY DEF Init, RegistryTypes
<1>2. RequestTypes
  BY DEF Init, RequestTypes, Phases
<1>3. ChannelTypes
  BY DEF Init, ChannelTypes
<1>4. RelayTypes
  <2>1. inbox \in [Sessions -> Seq(Messages)] /\ relay \in [Sessions -> {Idle, Acking} \cup Relaying]
    BY DEF Init
  <2>2. worker \in [Ids -> Sessions \cup {NoSession}] /\ sent \in [Ids -> Nat] /\ crashed \in BOOLEAN
    BY DEF Init
  <2> QED BY <2>1, <2>2 DEF RelayTypes
<1> QED BY <1>1, <1>2, <1>3, <1>4 DEF TypeOK

(* The WebSocket handler keeps the types.                                   *)
LEMMA TypeConnection == ASSUME TypeOK, NEW s \in Sessions, Connection(s) PROVE TypeOK'
<1> USE DEF TypeOK
<1>1. CASE Accept(s)
  <2>1. RegistryTypes'
    BY <1>1 DEF RegistryTypes, Accept
  <2>2. RequestTypes'
    BY <1>1 DEF RequestTypes, Accept, Goto, Phases
  <2>3. ChannelTypes'
    BY <1>1 DEF ChannelTypes, Accept
  <2>4. RelayTypes'
    BY <1>1 DEF RelayTypes, Accept, SetRelay, Idle, Acking, Relaying
  <2> QED BY <2>1, <2>2, <2>3, <2>4
<1>2. CASE HandshakeFails(s)
  <2>1. RegistryTypes'
    BY <1>2 DEF RegistryTypes, HandshakeFails
  <2>2. RequestTypes'
    BY <1>2 DEF RequestTypes, HandshakeFails, Goto, Phases
  <2>3. ChannelTypes'
    BY <1>2 DEF ChannelTypes, HandshakeFails
  <2>4. RelayTypes'
    BY <1>2 DEF RelayTypes, HandshakeFails, SetRelay, Idle, Acking, Relaying
  <2> QED BY <2>1, <2>2, <2>3, <2>4
<1>3. CASE Register(s)
  <2>1. RegistryTypes'
    BY <1>3 DEF RegistryTypes, Register
  <2>2. RequestTypes'
    BY <1>3 DEF RequestTypes, Register, Goto, Phases
  <2>3. ChannelTypes'
    BY <1>3 DEF ChannelTypes, Register, Wake, RegistryTypes
  <2>4. RelayTypes'
    BY <1>3 DEF RelayTypes, Register, SetRelay, Idle, Acking, Relaying
  <2> QED BY <2>1, <2>2, <2>3, <2>4
<1>4. CASE Drop(s)
  <2>1. RegistryTypes'
    BY <1>4 DEF RegistryTypes, Drop
  <2>2. RequestTypes'
    BY <1>4 DEF RequestTypes, Drop, Goto, Phases
  <2>3. ChannelTypes'
    BY <1>4 DEF ChannelTypes, Drop
  <2>4. RelayTypes'
    BY <1>4 DEF RelayTypes, Drop, SetRelay, Idle, Acking, Relaying
  <2> QED BY <2>1, <2>2, <2>3, <2>4
<1>7. CASE Stall(s)
  <2>1. RegistryTypes'
    BY <1>7 DEF RegistryTypes, Stall
  <2>2. RequestTypes'
    BY <1>7 DEF RequestTypes, Stall, Goto, Phases
  <2>3. ChannelTypes'
    BY <1>7 DEF ChannelTypes, Stall
  <2>4. RelayTypes'
    BY <1>7 DEF RelayTypes, Stall, SetRelay, Idle, Acking, Relaying
  <2> QED BY <2>1, <2>2, <2>3, <2>4
<1>5. CASE ReadLoopEnds(s)
  <2>1. RegistryTypes'
    BY <1>5 DEF RegistryTypes, ReadLoopEnds
  <2>2. RequestTypes'
    BY <1>5 DEF RequestTypes, ReadLoopEnds, Goto, Phases
  <2>3. ChannelTypes'
    BY <1>5 DEF ChannelTypes, ReadLoopEnds
  <2>4. RelayTypes'
    BY <1>5 DEF RelayTypes, ReadLoopEnds, SetRelay, Idle, Acking, Relaying
  <2> QED BY <2>1, <2>2, <2>3, <2>4
<1>6. CASE Disconnect(s)
  <2>1. RegistryTypes'
    BY <1>6, UnregisterTypes DEF RegistryTypes, Disconnect
  <2>2. RequestTypes'
    BY <1>6 DEF RequestTypes, Disconnect, Goto, Phases
  <2>3. ChannelTypes'
    BY <1>6, UnregisterTypes DEF ChannelTypes, Disconnect
  <2>4. RelayTypes'
    BY <1>6 DEF RelayTypes, Disconnect, SetRelay, Idle, Acking, Relaying
  <2> QED BY <2>1, <2>2, <2>3, <2>4
<1> QED BY <1>1, <1>2, <1>3, <1>4, <1>5, <1>6, <1>7 DEF Connection

(* The read loop keeps the types.                                           *)
LEMMA TypeReadLoop == ASSUME TypeOK, NEW s \in Sessions, ReadLoop(s) PROVE TypeOK'
<1> USE DEF TypeOK
<1>1. CASE RelayRead(s)
  <2>1. RegistryTypes'
    BY <1>1 DEF RegistryTypes, RelayRead
  <2>2. RequestTypes'
    BY <1>1 DEF RequestTypes, RelayRead, Goto, Phases
  <2>3. ChannelTypes'
    BY <1>1 DEF ChannelTypes, RelayRead
  <2>4. RelayTypes'
    BY <1>1 DEF RelayTypes, RelayRead, SetRelay, Idle, Acking, Relaying, Afterwards, RegistryTypes
  <2> QED BY <2>1, <2>2, <2>3, <2>4
<1>2. CASE RelayLookup(s)
  <2>1. RegistryTypes'
    BY <1>2 DEF RegistryTypes, RelayLookup
  <2>2. RequestTypes'
    BY <1>2 DEF RequestTypes, RelayLookup, Goto, Phases
  <2>3. ChannelTypes'
    BY <1>2 DEF ChannelTypes, RelayLookup
  <2>4. RelayTypes'
    BY <1>2 DEF RelayTypes, RelayLookup, SetRelay, Idle, Acking, Relaying, At, Afterwards
  <2> QED BY <2>1, <2>2, <2>3, <2>4
<1>3. CASE RelaySend(s)
  <2>1. RegistryTypes'
    BY <1>3 DEF RegistryTypes, RelaySend
  <2>2. RequestTypes'
    BY <1>3 DEF RequestTypes, RelaySend, Goto, Phases
  <2>3. ChannelTypes'
    <3>1. relay[s].msg \in Messages /\ relay[s].msg.id \in Ids
      <4>1. relay[s].step = "send" /\ Acking.step = "ack" /\ Idle.step = "read"
        BY <1>3 DEF RelaySend, At, Acking, Idle
      <4>2. relay[s] \in Relaying
        BY <4>1 DEF RelayTypes
      <4> QED BY <4>2 DEF Relaying, Messages
    <3>2. buf' \in [Ids -> Seq(Messages)]
      <4>1. CASE buf' = [buf EXCEPT ![relay[s].msg.id] = Append(@, relay[s].msg)]
        BY <3>1, <4>1 DEF ChannelTypes
      <4> QED BY <1>3, <4>1 DEF ChannelTypes, RelaySend
    <3>3. dropped' \in SUBSET Ids
      BY <1>3, <3>1 DEF ChannelTypes, RelaySend
    <3> QED BY <1>3, <3>2, <3>3 DEF ChannelTypes, RelaySend
  <2>4. RelayTypes'
    BY <1>3 DEF RelayTypes, RelaySend, SetRelay, Idle, Acking, Relaying, At
  <2> QED BY <2>1, <2>2, <2>3, <2>4
<1>4. CASE RelayFinish(s)
  <2>1. RegistryTypes'
    BY <1>4 DEF RegistryTypes, RelayFinish, At, RelayTypes
  <2>2. RequestTypes'
    BY <1>4 DEF RequestTypes, RelayFinish, Goto, Phases
  <2>3. ChannelTypes'
    BY <1>4 DEF ChannelTypes, RelayFinish
  <2>4. RelayTypes'
    BY <1>4 DEF RelayTypes, RelayFinish, SetRelay, Idle, Acking, Relaying, At, Afterwards
  <2> QED BY <2>1, <2>2, <2>3, <2>4
<1>5. CASE RelayHealth(s)
  <2>1. RegistryTypes'
    BY <1>5 DEF RegistryTypes, RelayHealth
  <2>2. RequestTypes'
    BY <1>5 DEF RequestTypes, RelayHealth, Goto, Phases
  <2>3. ChannelTypes'
    BY <1>5 DEF ChannelTypes, RelayHealth
  <2>4. RelayTypes'
    BY <1>5 DEF RelayTypes, RelayHealth, SetRelay, Idle, Acking, Relaying
  <2> QED BY <2>1, <2>2, <2>3, <2>4
<1>6. CASE AckHangs(s)
  <2>1. RegistryTypes'
    BY <1>6 DEF RegistryTypes, AckHangs
  <2>2. RequestTypes'
    BY <1>6 DEF RequestTypes, AckHangs, Goto, Phases
  <2>3. ChannelTypes'
    BY <1>6 DEF ChannelTypes, AckHangs
  <2>4. RelayTypes'
    BY <1>6 DEF RelayTypes, AckHangs, SetRelay, Idle, Acking, Relaying
  <2> QED BY <2>1, <2>2, <2>3, <2>4
<1>7. CASE AckReturns(s)
  <2>1. RegistryTypes'
    BY <1>7 DEF RegistryTypes, AckReturns
  <2>2. RequestTypes'
    BY <1>7 DEF RequestTypes, AckReturns, Goto, Phases
  <2>3. ChannelTypes'
    BY <1>7 DEF ChannelTypes, AckReturns
  <2>4. RelayTypes'
    BY <1>7 DEF RelayTypes, AckReturns, SetRelay, Idle, Acking, Relaying
  <2> QED BY <2>1, <2>2, <2>3, <2>4
<1> QED BY <1>1, <1>2, <1>3, <1>4, <1>5, <1>6, <1>7 DEF ReadLoop, Serving

(* A chat handler keeps the types.                                          *)
LEMMA TypeHandler == ASSUME TypeOK, NEW q \in Requests, Handler(q) PROVE TypeOK'
<1> USE DEF TypeOK
<1>1. CASE Admit(q)
  <2>1. RegistryTypes'
    BY <1>1 DEF RegistryTypes, Admit
  <2>2. RequestTypes'
    <3>1. phase' \in [Requests -> Phases]
      BY <1>1 DEF RequestTypes, Admit, Goto, Phases, FirstPhase
    <3>2. sess' \in [Requests -> Sessions \cup {NoSession}]
      BY <1>1, CurrentType DEF RequestTypes, Admit, Serves
    <3> QED BY <1>1, <3>1, <3>2 DEF RequestTypes, Admit
  <2>3. ChannelTypes'
    BY <1>1 DEF ChannelTypes, Admit
  <2>4. RelayTypes'
    BY <1>1 DEF RelayTypes, Admit, SetRelay, Idle, Acking, Relaying
  <2> QED BY <2>1, <2>2, <2>3, <2>4
<1>2. CASE RegisterChunkChannel(q)
  <2>1. RegistryTypes'
    <3>1. chunkCh' \in [Sessions -> SUBSET Ids]
      BY <1>2, IdType DEF RegistryTypes, RegisterChunkChannel
    <3>2. poisoned' \in SUBSET Sessions
      BY <1>2 DEF RegistryTypes, RegisterChunkChannel
    <3> QED BY <1>2, <3>1, <3>2 DEF RegistryTypes, RegisterChunkChannel
  <2>2. RequestTypes'
    BY <1>2 DEF RequestTypes, RegisterChunkChannel, Goto, Phases
  <2>3. ChannelTypes'
    BY <1>2, IdType DEF ChannelTypes, RegisterChunkChannel
  <2>4. RelayTypes'
    BY <1>2 DEF RelayTypes, RegisterChunkChannel, SetRelay, Idle, Acking, Relaying
  <2> QED BY <2>1, <2>2, <2>3, <2>4
<1>3. CASE CheckLoad(q)
  <2>1. RegistryTypes'
    BY <1>3 DEF RegistryTypes, CheckLoad
  <2>2. RequestTypes'
    <3>1. phase' \in [Requests -> Phases]
      BY <1>3 DEF RequestTypes, CheckLoad, Goto, Phases
    <3>2. slot' \in [Requests -> Sessions \cup {NoSession}]
      BY <1>3, CurrentType DEF RequestTypes, CheckLoad
    <3>3. seen' \in [Requests -> Int]
      BY <1>3, CurrentType DEF RequestTypes, CheckLoad, RegistryTypes
    <3>4. result' \in [Requests -> {"none", "ok", "error", "panic"}]
      BY <1>3 DEF RequestTypes, CheckLoad
    <3> QED BY <1>3, <3>1, <3>2, <3>3, <3>4 DEF RequestTypes, CheckLoad
  <2>3. ChannelTypes'
    BY <1>3 DEF ChannelTypes, CheckLoad
  <2>4. RelayTypes'
    BY <1>3 DEF RelayTypes, CheckLoad, SetRelay, Idle, Acking, Relaying
  <2> QED BY <2>1, <2>2, <2>3, <2>4
<1>4. CASE IncrementLoad(q)
  <2>1. RegistryTypes'
    <3>1. load' \in [Sessions -> Int]
      <4>1. PICK old \in {seen[q], load[Current(q)]} : load' = [load EXCEPT ![Current(q)] = old + 1]
        BY <1>4 DEF IncrementLoad
      <4>2. CASE Current(q) = NoSession
        BY <4>1, <4>2 DEF RegistryTypes
      <4>3. CASE Current(q) \in Sessions
        BY <4>1, <4>3 DEF RegistryTypes, RequestTypes
      <4> QED BY <4>2, <4>3, CurrentType
    <3> QED BY <1>4, <3>1 DEF RegistryTypes, IncrementLoad
  <2>2. RequestTypes'
    BY <1>4 DEF RequestTypes, IncrementLoad, Goto, Phases
  <2>3. ChannelTypes'
    BY <1>4 DEF ChannelTypes, IncrementLoad
  <2>4. RelayTypes'
    BY <1>4 DEF RelayTypes, IncrementLoad, SetRelay, Idle, Acking, Relaying
  <2> QED BY <2>1, <2>2, <2>3, <2>4
<1>5. CASE SendRequest(q)
  <2>1. RegistryTypes'
    BY <1>5 DEF RegistryTypes, SendRequest
  <2>2. RequestTypes'
    <3>1. phase' \in [Requests -> Phases]
      BY <1>5 DEF RequestTypes, SendRequest, Goto, Phases
    <3>2. result' \in [Requests -> {"none", "ok", "error", "panic"}]
      BY <1>5 DEF RequestTypes, SendRequest
    <3> QED BY <1>5, <3>1, <3>2 DEF RequestTypes, SendRequest
  <2>3. ChannelTypes'
    BY <1>5 DEF ChannelTypes, SendRequest
  <2>4. RelayTypes'
    BY <1>5, IdType DEF RelayTypes, SendRequest, SetRelay, Idle, Acking, Relaying, RequestTypes
  <2> QED BY <2>1, <2>2, <2>3, <2>4
<1>6. CASE Receive(q)
  <2>1. RegistryTypes'
    BY <1>6 DEF RegistryTypes, Receive
  <2>2. RequestTypes'
    <3>1. Head(buf[Id(q)]) \in Messages
      BY <1>6, IdType DEF ChannelTypes, Receive
    <3>2. phase' \in [Requests -> Phases]
      <4>1. CASE Ends(Head(buf[Id(q)]))
        <5>1. phase' = [phase EXCEPT ![q] = IF Stream(q) THEN "release" ELSE "leave"]
          BY <1>6, <4>1 DEF Receive, EndWait, Goto
        <5> QED BY <5>1 DEF RequestTypes, Phases
      <4> QED BY <1>6, <4>1 DEF RequestTypes, Receive
    <3>3. recv' \in [Requests -> Nat]
      BY <1>6, <3>1 DEF RequestTypes, Receive, Messages
    <3>4. result' \in [Requests -> {"none", "ok", "error", "panic"}]
      BY <1>6 DEF RequestTypes, Receive, EndWait
    <3> QED BY <1>6, <3>2, <3>3, <3>4 DEF RequestTypes, Receive
  <2>3. ChannelTypes'
    BY <1>6, IdType DEF ChannelTypes, Receive
  <2>4. RelayTypes'
    BY <1>6 DEF RelayTypes, Receive, SetRelay, Idle, Acking, Relaying
  <2> QED BY <2>1, <2>2, <2>3, <2>4
<1>7. CASE SeeClosed(q)
  <2>1. RegistryTypes'
    BY <1>7 DEF RegistryTypes, SeeClosed
  <2>2. RequestTypes'
    BY <1>7 DEF RequestTypes, SeeClosed, Goto, Phases, EndWait
  <2>3. ChannelTypes'
    BY <1>7 DEF ChannelTypes, SeeClosed
  <2>4. RelayTypes'
    BY <1>7 DEF RelayTypes, SeeClosed, SetRelay, Idle, Acking, Relaying
  <2> QED BY <2>1, <2>2, <2>3, <2>4
<1>8. CASE GiveUp(q)
  <2>1. RegistryTypes'
    BY <1>8 DEF RegistryTypes, GiveUp
  <2>2. RequestTypes'
    BY <1>8 DEF RequestTypes, GiveUp, Goto, Phases, EndWait
  <2>3. ChannelTypes'
    BY <1>8 DEF ChannelTypes, GiveUp
  <2>4. RelayTypes'
    BY <1>8 DEF RelayTypes, GiveUp, SetRelay, Idle, Acking, Relaying
  <2> QED BY <2>1, <2>2, <2>3, <2>4
<1>13. CASE CancelReturns(q)
  <2>1. RegistryTypes'
    BY <1>13 DEF RegistryTypes, CancelReturns
  <2>2. RequestTypes'
    BY <1>13 DEF RequestTypes, CancelReturns, Goto, Phases, EndWait
  <2>3. ChannelTypes'
    BY <1>13 DEF ChannelTypes, CancelReturns
  <2>4. RelayTypes'
    BY <1>13 DEF RelayTypes, CancelReturns, SetRelay, Idle, Acking, Relaying
  <2> QED BY <2>1, <2>2, <2>3, <2>4
<1>9. CASE StartDecrement(q)
  <2>1. RegistryTypes'
    BY <1>9 DEF RegistryTypes, StartDecrement
  <2>2. RequestTypes'
    <3>1. phase' \in [Requests -> Phases]
      BY <1>9 DEF RequestTypes, StartDecrement, Goto, Phases, AfterRelease
    <3>2. slot' \in [Requests -> Sessions \cup {NoSession}]
      BY <1>9 DEF RequestTypes, StartDecrement
    <3>3. seen' \in [Requests -> Int]
      BY <1>9, CurrentType DEF RequestTypes, StartDecrement, RegistryTypes
    <3> QED BY <1>9, <3>1, <3>2, <3>3 DEF RequestTypes, StartDecrement
  <2>3. ChannelTypes'
    BY <1>9 DEF ChannelTypes, StartDecrement, Release
  <2>4. RelayTypes'
    BY <1>9 DEF RelayTypes, StartDecrement, SetRelay, Idle, Acking, Relaying
  <2> QED BY <2>1, <2>2, <2>3, <2>4
<1>10. CASE DecrementLoad(q)
  <2>1. RegistryTypes'
    <3>1. load' \in [Sessions -> Int]
      <4>1. PICK old \in {seen[q], load[Current(q)]} : load' = [load EXCEPT ![Current(q)] = old - 1]
        BY <1>10 DEF DecrementLoad
      <4>2. CASE Current(q) = NoSession
        BY <4>1, <4>2 DEF RegistryTypes
      <4>3. CASE Current(q) \in Sessions
        BY <4>1, <4>3 DEF RegistryTypes, RequestTypes
      <4> QED BY <4>2, <4>3, CurrentType
    <3> QED BY <1>10, <3>1 DEF RegistryTypes, DecrementLoad
  <2>2. RequestTypes'
    BY <1>10, CurrentType DEF RequestTypes, DecrementLoad, Goto, Phases, AfterRelease
  <2>3. ChannelTypes'
    BY <1>10 DEF ChannelTypes, DecrementLoad, Release
  <2>4. RelayTypes'
    BY <1>10 DEF RelayTypes, DecrementLoad, SetRelay, Idle, Acking, Relaying
  <2> QED BY <2>1, <2>2, <2>3, <2>4
<1>11. CASE UnregisterChunkChannel(q)
  <2>1. RegistryTypes'
    BY <1>11 DEF RegistryTypes, UnregisterChunkChannel
  <2>2. RequestTypes'
    BY <1>11 DEF RequestTypes, UnregisterChunkChannel, Goto, Phases, AfterLeave
  <2>3. ChannelTypes'
    BY <1>11, IdType DEF ChannelTypes, UnregisterChunkChannel
  <2>4. RelayTypes'
    BY <1>11 DEF RelayTypes, UnregisterChunkChannel, SetRelay, Idle, Acking, Relaying
  <2> QED BY <2>1, <2>2, <2>3, <2>4
<1>12. CASE Retry(q)
  <2>1. RegistryTypes'
    BY <1>12 DEF RegistryTypes, Retry
  <2>2. RequestTypes'
    <3>1. phase' \in [Requests -> Phases]
      BY <1>12 DEF RequestTypes, Retry, Goto, Phases
    <3>2. sess' \in [Requests -> Sessions \cup {NoSession}]
      BY <1>12, CurrentType DEF RequestTypes, Retry
    <3>3. try' \in [Requests -> 1..MaxRetries]
      BY <1>12 DEF RequestTypes, Retry, MayRetry
    <3> QED BY <1>12, <3>1, <3>2, <3>3 DEF RequestTypes, Retry
  <2>3. ChannelTypes'
    BY <1>12 DEF ChannelTypes, Retry
  <2>4. RelayTypes'
    BY <1>12 DEF RelayTypes, Retry, SetRelay, Idle, Acking, Relaying
  <2> QED BY <2>1, <2>2, <2>3, <2>4
<1> QED BY <1>1, <1>2, <1>3, <1>4, <1>5, <1>6, <1>7, <1>8, <1>9, <1>10, <1>11, <1>12, <1>13 DEF Handler

(* Eviction, cancellation and key revocation keeps the types.               *)
LEMMA TypeAdministration == ASSUME TypeOK, NEW m \in Machines, Administration(m) PROVE TypeOK'
<1> USE DEF TypeOK
<1>1. CASE Evict(m)
  <2>1. RegistryTypes'
    BY <1>1 DEF RegistryTypes, Evict
  <2>2. RequestTypes'
    BY <1>1 DEF RequestTypes, Evict, Goto, Phases
  <2>3. ChannelTypes'
    BY <1>1 DEF ChannelTypes, Evict, Wake, RegistryTypes
  <2>4. RelayTypes'
    BY <1>1 DEF RelayTypes, Evict, SetRelay, Idle, Acking, Relaying
  <2> QED BY <2>1, <2>2, <2>3, <2>4
<1>2. CASE GetSessionToCancel(m)
  <2>1. RegistryTypes'
    BY <1>2 DEF RegistryTypes, GetSessionToCancel
  <2>2. RequestTypes'
    BY <1>2 DEF RequestTypes, GetSessionToCancel, Goto, Phases
  <2>3. ChannelTypes'
    BY <1>2 DEF ChannelTypes, GetSessionToCancel
  <2>4. RelayTypes'
    BY <1>2 DEF RelayTypes, GetSessionToCancel, SetRelay, Idle, Acking, Relaying
  <2> QED BY <2>1, <2>2, <2>3, <2>4
<1>3. CASE CancelAllRequests(m)
  <2>1. RegistryTypes'
    BY <1>3 DEF RegistryTypes, CancelAllRequests
  <2>2. RequestTypes'
    BY <1>3 DEF RequestTypes, CancelAllRequests, Goto, Phases
  <2>3. ChannelTypes'
    BY <1>3 DEF ChannelTypes, CancelAllRequests, RegistryTypes
  <2>4. RelayTypes'
    BY <1>3 DEF RelayTypes, CancelAllRequests, SetRelay, Idle, Acking, Relaying
  <2> QED BY <2>1, <2>2, <2>3, <2>4
<1>4. CASE RevokeKey(m)
  <2>1. RegistryTypes'
    BY <1>4 DEF RegistryTypes, RevokeKey
  <2>2. RequestTypes'
    BY <1>4 DEF RequestTypes, RevokeKey, Goto, Phases
  <2>3. ChannelTypes'
    BY <1>4 DEF ChannelTypes, RevokeKey
  <2>4. RelayTypes'
    BY <1>4 DEF RelayTypes, RevokeKey, SetRelay, Idle, Acking, Relaying
  <2> QED BY <2>1, <2>2, <2>3, <2>4
<1>5. CASE UnregisterRevoked(m)
  <2>1. RegistryTypes'
    BY <1>5, UnregisterTypes DEF RegistryTypes, UnregisterRevoked
  <2>2. RequestTypes'
    BY <1>5 DEF RequestTypes, UnregisterRevoked, Goto, Phases
  <2>3. ChannelTypes'
    BY <1>5, UnregisterTypes DEF ChannelTypes, UnregisterRevoked
  <2>4. RelayTypes'
    BY <1>5 DEF RelayTypes, UnregisterRevoked, SetRelay, Idle, Acking, Relaying
  <2> QED BY <2>1, <2>2, <2>3, <2>4
<1> QED BY <1>1, <1>2, <1>3, <1>4, <1>5 DEF Administration

(* The agent's answers keep the types.                                      *)
LEMMA TypeAgent == ASSUME TypeOK, NEW id \in Ids, Agent(id) PROVE TypeOK'
<1> USE DEF TypeOK, RegistryTypes, RequestTypes, ChannelTypes, RelayTypes
<1>1. CASE AgentQuits(id)
  BY <1>1 DEF AgentQuits
<1>2. ASSUME NEW kind \in Kinds, AgentSend(id, kind) PROVE TypeOK'
  <2>1. [id |-> id, kind |-> kind, n |-> sent[id] + 1] \in Messages
    BY DEF Messages
  <2>2. worker[id] \in Sessions
    BY <1>2 DEF AgentSend
  <2>3. inbox' \in [Sessions -> Seq(Messages)]
    BY <1>2, <2>1, <2>2 DEF AgentSend
  <2>4. worker' \in [Ids -> Sessions \cup {NoSession}] /\ sent' \in [Ids -> Nat]
    BY <1>2, <2>2 DEF AgentSend
  <2> QED BY <1>2, <2>3, <2>4 DEF AgentSend
<1> QED BY <1>1, <1>2 DEF Agent

(* Every operation of the coordinator keeps the types.                      *)
LEMMA TypeNext == TypeOK /\ [Next]_vars => TypeOK'
<1> SUFFICES ASSUME TypeOK, [Next]_vars PROVE TypeOK'
  OBVIOUS
<1>1. CASE Next
  BY <1>1, TypeConnection, TypeReadLoop, TypeHandler, TypeAdministration, TypeAgent DEF Next
<1>2. CASE UNCHANGED vars
  BY <1>2 DEF vars, TypeOK, RegistryTypes, RequestTypes, ChannelTypes, RelayTypes
<1> QED BY <1>1, <1>2

(* The registry, the handlers, the relay channels and the read loops stay   *)
(* within their types, in every run of the coordinator.                     *)
THEOREM TypeCorrect == Spec => []TypeOK
<1>1. Init => TypeOK
  BY TypeInit
<1>2. TypeOK /\ [Next]_vars => TypeOK'
  BY TypeNext
<1> QED BY <1>1, <1>2, PTL DEF Spec
------------------------------------------------------------------------------
(* The inductive invariant.                                                 *)

(* An id is an attempt of a request.                                        *)
LEMMA IdParts ==
  ASSUME NEW id \in Ids PROVE id[1] \in Requests /\ id[2] \in 1..MaxRetries
  BY DEF Ids

(* No two sessions know the channel of the same request, so closing the     *)
(* channels of one closes none of another.                                  *)
LEMMA MapsAreDisjoint ==
  ASSUME MappedIds, NEW s \in Sessions, NEW t \in Sessions, s # t
  PROVE  chunkCh[s] \cap chunkCh[t] = {}
  BY DEF MappedIds

(* A handler that moves on without touching a map or a channel, and not     *)
(* back before its RegisterChunkChannel, disturbs neither.                  *)
LEMMA PhaseStep ==
  ASSUME TypeOK, IndInv, NEW q \in Requests,
         \A p \in Requests \ {q} : phase'[p] = phase[p],
         UNCHANGED <<closed, chunkCh, try, sess>>,
         NotYet(q)' => NotYet(q), NoChannel(q)' => NoChannel(q)
  PROVE  ClosedIds' /\ MappedIds'
<1>1. \A p \in Requests : (NotYet(p)' => NotYet(p)) /\ (NoChannel(p)' => NoChannel(p))
  BY DEF NotYet, NoChannel, Stream
<1>2. ClosedIds'
  <2> SUFFICES ASSUME NEW id \in closed
               PROVE  id[2] <= try[id[1]] /\ (id[2] = try[id[1]] => ~NotYet(id[1])')
    BY DEF ClosedIds
  <2>1. id[1] \in Requests
    BY IdParts DEF TypeOK, ChannelTypes
  <2> QED BY <1>1, <2>1 DEF IndInv, ClosedIds
<1>3. MappedIds'
  <2> SUFFICES ASSUME NEW s \in Sessions, NEW id \in chunkCh[s]
               PROVE  id[2] = try[id[1]] /\ sess[id[1]] = s /\ ~NoChannel(id[1])'
    BY DEF MappedIds
  <2>1. id[1] \in Requests
    BY IdParts DEF TypeOK, RegistryTypes
  <2> QED BY <1>1, <2>1 DEF IndInv, MappedIds
<1> QED BY <1>2, <1>3

(* Closing channels that a session knows leaves ClosedIds true.             *)
LEMMA ClosedGrows ==
  ASSUME TypeOK, IndInv, NEW s \in Sessions, closed' \subseteq closed \cup chunkCh[s],
         UNCHANGED <<phase, try>>
  PROVE  ClosedIds'
<1> SUFFICES ASSUME NEW id \in closed \cup chunkCh[s]
             PROVE  id[2] <= try[id[1]] /\ (id[2] = try[id[1]] => ~NotYet(id[1]))
  BY DEF ClosedIds, NotYet, Stream
<1>1. CASE id \in closed
  BY <1>1 DEF IndInv, ClosedIds
<1>2. CASE id \in chunkCh[s]
  <2>1. id[1] \in Requests /\ id[2] \in 1..MaxRetries
    BY <1>2, IdParts DEF TypeOK, RegistryTypes
  <2>2. id[2] = try[id[1]] /\ ~NoChannel(id[1])
    BY <1>2 DEF IndInv, MappedIds
  <2> QED BY <2>1, <2>2 DEF NoChannel
<1> QED BY <1>1, <1>2

(* Registry.Unregister, called by the handler of a connection or by         *)
(* handleRevokeKey.                                                         *)
LEMMA UnregisterInd ==
  ASSUME TypeOK, IndInv, NEW m \in Machines, Unregister(m), UNCHANGED <<phase, try>>,
         \A t \in Sessions : MachineOf[t] # m => conn'[t] = conn[t],
         \A t \in Sessions : conn'[t] \in {"none", "accepted"} => conn'[t] = conn[t]
  PROVE  RegisteredAreLive' /\ FreshSessions' /\ ClosedIds'
<1> USE DEF TypeOK, IndInv, RegistryTypes, Unregister
<1>1. CASE registry[m] = NoSession
  <2>1. UNCHANGED <<registry, chunkCh, nilMap, closed>>
    BY <1>1
  <2>2. RegisteredAreLive'
    <3> SUFFICES ASSUME NEW n \in Machines, registry[n] # NoSession
                 PROVE  /\ MachineOf[registry[n]] = n
                        /\ conn'[registry[n]] \in {"open", "stalled", "lost", "closed"}
                        /\ registry[n] \notin nilMap
                        /\ chunkCh[registry[n]] \cap closed = {}
      BY <2>1 DEF RegisteredAreLive
    <3>1. n # m /\ registry[n] \in Sessions
      BY <1>1
    <3> QED BY <3>1 DEF RegisteredAreLive
  <2>3. FreshSessions'
    BY <2>1 DEF FreshSessions
  <2>4. ClosedIds'
    BY <2>1 DEF ClosedIds, NotYet
  <2> QED BY <2>2, <2>3, <2>4
<1>2. CASE registry[m] # NoSession
  <2> DEFINE s == registry[m]
  <2>1. s \in Sessions /\ MachineOf[s] = m /\ conn[s] \in {"open", "stalled", "lost", "closed"}
    BY <1>2 DEF RegisteredAreLive
  <2>2. /\ closed' = closed \cup chunkCh[s]
        /\ chunkCh' = [chunkCh EXCEPT ![s] = {}]
        /\ nilMap' = nilMap \cup {s}
        /\ registry' = [registry EXCEPT ![m] = NoSession]
    BY <1>2 DEF Wake
  <2> HIDE DEF s
  <2>3. RegisteredAreLive'
    <3> SUFFICES ASSUME NEW n \in Machines, registry'[n] # NoSession
                 PROVE  /\ MachineOf[registry'[n]] = n
                        /\ conn'[registry'[n]] \in {"open", "stalled", "lost", "closed"}
                        /\ registry'[n] \notin nilMap'
                        /\ chunkCh'[registry'[n]] \cap closed' = {}
      BY DEF RegisteredAreLive
    <3>1. n # m /\ registry'[n] = registry[n] /\ registry[n] \in Sessions
      BY <2>2
    <3>2. /\ MachineOf[registry[n]] = n /\ registry[n] \notin nilMap
          /\ conn[registry[n]] \in {"open", "stalled", "lost", "closed"}
          /\ chunkCh[registry[n]] \cap closed = {}
      BY <3>1 DEF RegisteredAreLive
    <3>3. registry[n] # s
      BY <2>1, <3>1, <3>2
    <3>4. chunkCh[registry[n]] \cap chunkCh[s] = {}
      BY <2>1, <3>1, <3>3, MapsAreDisjoint
    <3> QED BY <2>2, <3>1, <3>2, <3>3, <3>4
  <2>4. FreshSessions'
    BY <2>1, <2>2 DEF FreshSessions
  <2>5. ClosedIds'
    BY <2>1, <2>2, ClosedGrows
  <2> QED BY <2>3, <2>4, <2>5
<1> QED BY <1>1, <1>2

(* The WebSocket handler keeps the inductive invariant.                     *)
LEMMA IndConnection ==
  ASSUME TypeOK, IndInv, NEW s \in Sessions, Connection(s) PROVE IndInv'
<1> USE DEF TypeOK, IndInv
<1>1. CASE Accept(s)
  <2>1. PoisonedAreNil'
    BY <1>1 DEF Accept, PoisonedAreNil
  <2>2. RegisteredAreLive'
    BY <1>1 DEF Accept, RegisteredAreLive, RegistryTypes
  <2>3. FreshSessions'
    BY <1>1 DEF Accept, FreshSessions, RegistryTypes
  <2>4. HeldSessions'
    BY <1>1 DEF Accept, HeldSessions, RegistryTypes, RequestTypes
  <2>5. ClosedIds'
    BY <1>1 DEF Accept, ClosedIds, NotYet, ChannelTypes, RequestTypes
  <2>6. MappedIds'
    BY <1>1 DEF Accept, MappedIds, NoChannel, NotYet, RegistryTypes, RequestTypes
  <2>7. ReplacedAreWoken'
    BY <1>1 DEF Accept, ReplacedAreWoken, RegistryTypes
  <2> QED BY <2>1, <2>2, <2>3, <2>4, <2>5, <2>6, <2>7
<1>2. CASE HandshakeFails(s)
  <2>1. PoisonedAreNil'
    BY <1>2 DEF HandshakeFails, PoisonedAreNil
  <2>2. RegisteredAreLive'
    BY <1>2 DEF HandshakeFails, RegisteredAreLive, RegistryTypes
  <2>3. FreshSessions'
    BY <1>2 DEF HandshakeFails, FreshSessions, RegistryTypes
  <2>4. HeldSessions'
    BY <1>2 DEF HandshakeFails, HeldSessions, RegistryTypes, RequestTypes
  <2>5. ClosedIds'
    BY <1>2 DEF HandshakeFails, ClosedIds, NotYet, ChannelTypes, RequestTypes
  <2>6. MappedIds'
    BY <1>2 DEF HandshakeFails, MappedIds, NoChannel, NotYet, RegistryTypes, RequestTypes
  <2>7. ReplacedAreWoken'
    BY <1>2 DEF HandshakeFails, ReplacedAreWoken, RegistryTypes
  <2> QED BY <2>1, <2>2, <2>3, <2>4, <2>5, <2>6, <2>7
<1>3. CASE Register(s)
  <2>1. PoisonedAreNil'
    BY <1>3 DEF Register, Wake, Closable, PoisonedAreNil
  <2>2. RegisteredAreLive'
    <3> SUFFICES ASSUME NEW m \in Machines, registry'[m] # NoSession
                 PROVE  /\ MachineOf[registry'[m]] = m
                        /\ conn'[registry'[m]] \in {"open", "stalled", "lost", "closed"}
                        /\ registry'[m] \notin nilMap
                        /\ chunkCh[registry'[m]] \cap closed' = {}
      BY <1>3 DEF Register, RegisteredAreLive
    <3>1. CASE m = MachineOf[s]
      BY <1>3, <3>1 DEF Register, RegistryTypes, FreshSessions
    <3>2. CASE m # MachineOf[s]
      <4>1. registry'[m] = registry[m] /\ registry[m] \in Sessions
        BY <1>3, <3>2 DEF Register, RegistryTypes
      <4>2. /\ MachineOf[registry[m]] = m /\ registry[m] \notin nilMap
            /\ conn[registry[m]] \in {"open", "stalled", "lost", "closed"}
            /\ chunkCh[registry[m]] \cap closed = {}
        BY <4>1 DEF RegisteredAreLive
      <4>3. conn'[registry[m]] = conn[registry[m]]
        BY <1>3, <4>1, <4>2 DEF Register, RegistryTypes
      <4>4. chunkCh[registry[m]] \cap closed' = {}
        <5>1. CASE registry[MachineOf[s]] = NoSession
          BY <1>3, <4>2, <5>1 DEF Register
        <5>2. CASE registry[MachineOf[s]] # NoSession
          <6>1. /\ registry[MachineOf[s]] \in Sessions /\ registry[MachineOf[s]] # registry[m]
            BY <3>2, <4>2, <5>2 DEF RegistryTypes, RegisteredAreLive
          <6>2. closed' = closed \cup chunkCh[registry[MachineOf[s]]]
            BY <1>3, <5>2 DEF Register, Wake
          <6>3. chunkCh[registry[m]] \cap chunkCh[registry[MachineOf[s]]] = {}
            BY <4>1, <6>1, MapsAreDisjoint
          <6> QED BY <4>2, <6>2, <6>3
        <5> QED BY <5>1, <5>2
      <4> QED BY <4>1, <4>2, <4>3, <4>4
    <3> QED BY <3>1, <3>2
  <2>3. FreshSessions'
    BY <1>3 DEF Register, Wake, Closable, FreshSessions, RegistryTypes
  <2>4. HeldSessions'
    BY <1>3 DEF Register, Wake, Closable, HeldSessions, RegistryTypes, RequestTypes
  <2>5. ClosedIds'
    <3>1. CASE registry[MachineOf[s]] = NoSession
      BY <1>3, <3>1 DEF Register, ClosedIds, NotYet
    <3>2. CASE registry[MachineOf[s]] # NoSession
      <4>1. registry[MachineOf[s]] \in Sessions
        BY <3>2 DEF RegistryTypes
      <4>2. closed' = closed \cup chunkCh[registry[MachineOf[s]]] /\ UNCHANGED <<phase, try>>
        BY <1>3, <3>2 DEF Register, Wake
      <4> QED BY <4>1, <4>2, ClosedGrows
    <3> QED BY <3>1, <3>2
  <2>6. MappedIds'
    BY <1>3 DEF Register, Wake, Closable, MappedIds, NoChannel, NotYet, RegistryTypes, RequestTypes
  <2>7. ReplacedAreWoken'
    BY <1>3 DEF Register, Wake, Closable, ReplacedAreWoken, RegistryTypes
  <2> QED BY <2>1, <2>2, <2>3, <2>4, <2>5, <2>6, <2>7
<1>4. CASE Drop(s)
  <2>1. PoisonedAreNil'
    BY <1>4 DEF Drop, PoisonedAreNil
  <2>2. RegisteredAreLive'
    BY <1>4 DEF Drop, RegisteredAreLive, RegistryTypes
  <2>3. FreshSessions'
    BY <1>4 DEF Drop, FreshSessions, RegistryTypes
  <2>4. HeldSessions'
    BY <1>4 DEF Drop, HeldSessions, RegistryTypes, RequestTypes
  <2>5. ClosedIds'
    BY <1>4 DEF Drop, ClosedIds, NotYet, ChannelTypes, RequestTypes
  <2>6. MappedIds'
    BY <1>4 DEF Drop, MappedIds, NoChannel, NotYet, RegistryTypes, RequestTypes
  <2>7. ReplacedAreWoken'
    BY <1>4 DEF Drop, ReplacedAreWoken, RegistryTypes
  <2> QED BY <2>1, <2>2, <2>3, <2>4, <2>5, <2>6, <2>7
<1>7. CASE Stall(s)
  <2>1. PoisonedAreNil'
    BY <1>7 DEF Stall, PoisonedAreNil
  <2>2. RegisteredAreLive'
    BY <1>7 DEF Stall, RegisteredAreLive, RegistryTypes
  <2>3. FreshSessions'
    BY <1>7 DEF Stall, FreshSessions, RegistryTypes
  <2>4. HeldSessions'
    BY <1>7 DEF Stall, HeldSessions, RegistryTypes, RequestTypes
  <2>5. ClosedIds'
    BY <1>7 DEF Stall, ClosedIds, NotYet, ChannelTypes, RequestTypes
  <2>6. MappedIds'
    BY <1>7 DEF Stall, MappedIds, NoChannel, NotYet, RegistryTypes, RequestTypes
  <2>7. ReplacedAreWoken'
    BY <1>7 DEF Stall, ReplacedAreWoken, RegistryTypes
  <2> QED BY <2>1, <2>2, <2>3, <2>4, <2>5, <2>6, <2>7
<1>5. CASE ReadLoopEnds(s)
  <2>1. PoisonedAreNil'
    BY <1>5 DEF ReadLoopEnds, PoisonedAreNil
  <2>2. RegisteredAreLive'
    BY <1>5 DEF ReadLoopEnds, RegisteredAreLive, RegistryTypes
  <2>3. FreshSessions'
    BY <1>5 DEF ReadLoopEnds, FreshSessions, RegistryTypes
  <2>4. HeldSessions'
    BY <1>5 DEF ReadLoopEnds, HeldSessions, RegistryTypes, RequestTypes
  <2>5. ClosedIds'
    BY <1>5 DEF ReadLoopEnds, ClosedIds, NotYet, ChannelTypes, RequestTypes
  <2>6. MappedIds'
    BY <1>5 DEF ReadLoopEnds, MappedIds, NoChannel, NotYet, RegistryTypes, RequestTypes
  <2>7. ReplacedAreWoken'
    BY <1>5 DEF ReadLoopEnds, ReplacedAreWoken, RegistryTypes
  <2> QED BY <2>1, <2>2, <2>3, <2>4, <2>5, <2>6, <2>7
<1>6. CASE Disconnect(s)
  <2>0. RegisteredAreLive' /\ FreshSessions' /\ ClosedIds'
    <3>1. MachineOf[s] \in Machines /\ Unregister(MachineOf[s]) /\ UNCHANGED <<phase, try>>
      BY <1>6 DEF Disconnect
    <3>2. /\ \A t \in Sessions : MachineOf[t] # MachineOf[s] => conn'[t] = conn[t]
          /\ \A t \in Sessions : conn'[t] \in {"none", "accepted"} => conn'[t] = conn[t]
      BY <1>6 DEF Disconnect, RegistryTypes
    <3> QED BY <3>1, <3>2, UnregisterInd
  <2>1. PoisonedAreNil'
    BY <1>6 DEF Disconnect, Unregister, Wake, Closable, PoisonedAreNil
  <2>2. RegisteredAreLive'
    BY <2>0
  <2>3. FreshSessions'
    BY <2>0
  <2>4. HeldSessions'
    BY <1>6 DEF Disconnect, Unregister, Wake, Closable, HeldSessions, RegistryTypes, RequestTypes
  <2>5. ClosedIds'
    BY <2>0
  <2>6. MappedIds'
    BY <1>6 DEF Disconnect, Unregister, Wake, Closable, MappedIds, NoChannel, NotYet, RegistryTypes, RequestTypes
  <2>7. ReplacedAreWoken'
    BY <1>6 DEF Disconnect, Unregister, Wake, Closable, ReplacedAreWoken, RegistryTypes
  <2> QED BY <2>1, <2>2, <2>3, <2>4, <2>5, <2>6, <2>7
<1> QED BY <1>1, <1>2, <1>3, <1>4, <1>5, <1>6, <1>7 DEF Connection

(* The read loop keeps the inductive invariant.                             *)
LEMMA IndReadLoop ==
  ASSUME TypeOK, IndInv, NEW s \in Sessions, ReadLoop(s) PROVE IndInv'
<1> USE DEF TypeOK, IndInv
<1>1. CASE RelayRead(s)
  BY <1>1 DEF RelayRead, PoisonedAreNil, RegisteredAreLive, FreshSessions, HeldSessions, ClosedIds, MappedIds, ReplacedAreWoken, NotYet, NoChannel
<1>2. CASE RelayLookup(s)
  BY <1>2 DEF RelayLookup, PoisonedAreNil, RegisteredAreLive, FreshSessions, HeldSessions, ClosedIds, MappedIds, ReplacedAreWoken, NotYet, NoChannel
<1>3. CASE RelaySend(s)
  BY <1>3 DEF RelaySend, PoisonedAreNil, RegisteredAreLive, FreshSessions, HeldSessions, ClosedIds, MappedIds, ReplacedAreWoken, NotYet, NoChannel
<1>4. CASE RelayFinish(s)
  <2>1. PoisonedAreNil'
    BY <1>4 DEF RelayFinish, PoisonedAreNil
  <2>2. RegisteredAreLive'
    BY <1>4 DEF RelayFinish, RegisteredAreLive, RegistryTypes
  <2>3. FreshSessions'
    BY <1>4 DEF RelayFinish, FreshSessions, RegistryTypes
  <2>4. HeldSessions'
    BY <1>4 DEF RelayFinish, HeldSessions, RegistryTypes, RequestTypes
  <2>5. ClosedIds'
    BY <1>4 DEF RelayFinish, ClosedIds, NotYet, ChannelTypes, RequestTypes
  <2>6. MappedIds'
    BY <1>4 DEF RelayFinish, MappedIds, NoChannel, NotYet, RegistryTypes, RequestTypes
  <2>7. ReplacedAreWoken'
    BY <1>4 DEF RelayFinish, ReplacedAreWoken, RegistryTypes
  <2> QED BY <2>1, <2>2, <2>3, <2>4, <2>5, <2>6, <2>7
<1>5. CASE RelayHealth(s)
  BY <1>5 DEF RelayHealth, PoisonedAreNil, RegisteredAreLive, FreshSessions, HeldSessions, ClosedIds, MappedIds, ReplacedAreWoken, NotYet, NoChannel
<1>6. CASE AckHangs(s)
  BY <1>6 DEF AckHangs, PoisonedAreNil, RegisteredAreLive, FreshSessions, HeldSessions, ClosedIds, MappedIds, ReplacedAreWoken, NotYet, NoChannel
<1>7. CASE AckReturns(s)
  BY <1>7 DEF AckReturns, PoisonedAreNil, RegisteredAreLive, FreshSessions, HeldSessions, ClosedIds, MappedIds, ReplacedAreWoken, NotYet, NoChannel
<1> QED BY <1>1, <1>2, <1>3, <1>4, <1>5, <1>6, <1>7 DEF ReadLoop, Serving

(* A chat handler keeps the inductive invariant.                            *)
LEMMA IndHandler ==
  ASSUME TypeOK, IndInv, NEW q \in Requests, Handler(q) PROVE IndInv'
<1> USE DEF TypeOK, IndInv
<1>1. CASE Admit(q)
  <2>1. PoisonedAreNil'
    BY <1>1 DEF Admit, Goto, FirstPhase, Serves, Current, Stream, PoisonedAreNil
  <2>2. RegisteredAreLive'
    BY <1>1 DEF Admit, Goto, FirstPhase, Serves, Current, Stream, RegisteredAreLive, RegistryTypes
  <2>3. FreshSessions'
    BY <1>1 DEF Admit, Goto, FirstPhase, Serves, Current, Stream, FreshSessions, RegistryTypes
  <2>4. HeldSessions'
    <3> SUFFICES ASSUME NEW p \in Requests, sess'[p] # NoSession
                 PROVE  conn[sess'[p]] \notin {"none", "accepted"} /\ MachineOf[sess'[p]] = TargetOf[p]
      BY <1>1 DEF Admit, HeldSessions
    <3>1. CASE sess'[p] = sess[p]
      BY <3>1 DEF HeldSessions
    <3>2. CASE sess'[p] # sess[p]
      <4>1. p = q /\ sess'[p] = registry[TargetOf[q]]
        BY <1>1, <3>2 DEF Admit, Current, RequestTypes
      <4> QED BY <4>1 DEF RegisteredAreLive
    <3> QED BY <3>1, <3>2
  <2>5. ClosedIds'
    <3> SUFFICES ASSUME NEW id \in closed
                 PROVE  id[2] <= try'[id[1]] /\ (id[2] = try'[id[1]] => ~NotYet(id[1])')
      BY <1>1 DEF Admit, ClosedIds
    <3>1. id[1] \in Requests /\ id[2] \in 1..MaxRetries /\ try[id[1]] \in 1..MaxRetries
      BY IdParts DEF ChannelTypes, RequestTypes
    <3>2. id[2] <= try[id[1]] /\ (id[2] = try[id[1]] => ~NotYet(id[1]))
      BY DEF ClosedIds
    <3>3. CASE id[1] # q
      <4>1. phase'[id[1]] = phase[id[1]] /\ try'[id[1]] = try[id[1]]
        BY <1>1, <3>1, <3>3 DEF Admit, Goto, RequestTypes
      <4> QED BY <3>2, <4>1 DEF NotYet, Stream
    <3>4. CASE id[1] = q
      <4>1. NotYet(q) /\ try' = try
        BY <1>1 DEF Admit, NotYet
      <4> QED BY <3>1, <3>2, <3>4, <4>1
    <3> QED BY <3>3, <3>4
  <2>6. MappedIds'
    <3> SUFFICES ASSUME NEW s \in Sessions, NEW id \in chunkCh[s]
                 PROVE  id[2] = try'[id[1]] /\ sess'[id[1]] = s /\ ~NoChannel(id[1])'
      BY <1>1 DEF Admit, MappedIds
    <3>1. id[1] \in Requests
      BY IdParts DEF RegistryTypes
    <3>2. id[2] = try[id[1]] /\ sess[id[1]] = s /\ ~NoChannel(id[1])
      BY DEF MappedIds
    <3>3. id[1] # q
      BY <1>1, <3>2 DEF Admit, NoChannel, NotYet
    <3>4. phase'[id[1]] = phase[id[1]] /\ try'[id[1]] = try[id[1]] /\ sess'[id[1]] = sess[id[1]]
      BY <1>1, <3>1, <3>3 DEF Admit, Goto, RequestTypes
    <3> QED BY <3>2, <3>4 DEF NoChannel, NotYet, Stream
  <2>7. ReplacedAreWoken'
    BY <1>1 DEF Admit, Goto, FirstPhase, Serves, Current, Stream, ReplacedAreWoken, RegistryTypes
  <2> QED BY <2>1, <2>2, <2>3, <2>4, <2>5, <2>6, <2>7
<1>2. CASE RegisterChunkChannel(q)
  <2> DEFINE s == sess[q]  id == Id(q)
  <2>1. /\ NotYet(q) /\ UNCHANGED <<registry, conn, nilMap, closed, try, sess>>
        /\ \A p \in Requests \ {q} : phase'[p] = phase[p]
    BY <1>2 DEF RegisterChunkChannel, NotYet, Goto, RequestTypes
  <2>2. CASE s \in nilMap \/ s = NoSession
    <3>1. /\ chunkCh' = chunkCh /\ late \subseteq late'
          /\ poisoned' \subseteq poisoned \cup nilMap
      <4>1. CASE s \in nilMap
        BY <1>2, <4>1 DEF RegisterChunkChannel
      <4>2. CASE s \notin nilMap
        <5>1. /\ chunkCh' = [chunkCh EXCEPT ![s] = @ \cup {id}] /\ poisoned' = poisoned
              /\ late' = IF Current(q) # s THEN late \cup {id} ELSE late
          BY <1>2, <4>2 DEF RegisterChunkChannel
        <5>2. s \notin Sessions
          BY <2>2, <4>2, NoSessionAssumption
        <5> HIDE DEF s, id
        <5> QED BY <5>1, <5>2 DEF RegistryTypes
      <4> QED BY <4>1, <4>2
    <3>2. ClosedIds' /\ MappedIds'
      <4>1. NoChannel(q)
        BY <2>1 DEF NoChannel
      <4> QED BY <2>1, <3>1, <4>1, PhaseStep
    <3>3. PoisonedAreNil' /\ RegisteredAreLive' /\ FreshSessions' /\ HeldSessions'
      BY <2>1, <3>1 DEF PoisonedAreNil, RegisteredAreLive, FreshSessions, HeldSessions
    <3>4. ReplacedAreWoken'
      BY <2>1, <3>1 DEF ReplacedAreWoken
    <3> QED BY <3>2, <3>3, <3>4
  <2>3. CASE s \notin nilMap /\ s # NoSession
    <3>1. /\ chunkCh' = [chunkCh EXCEPT ![s] = @ \cup {id}] /\ poisoned' = poisoned
          /\ late' = IF Current(q) # s THEN late \cup {id} ELSE late
          /\ phase'[q] = IF Stream(q) THEN "count" ELSE "send"
      BY <1>2, <2>3 DEF RegisterChunkChannel, Goto, RequestTypes
    <3>2. s \in Sessions /\ id \in Ids /\ id[1] = q /\ id[2] = try[q]
      BY <2>3, IdType DEF Id, RequestTypes
    <3>3. id \notin closed
      BY <2>1, <3>2 DEF ClosedIds
    <3> HIDE DEF id
    <3>4. /\ conn[s] \notin {"none", "accepted"} /\ MachineOf[s] = TargetOf[q]
      BY <2>3 DEF HeldSessions
    <3> HIDE DEF s
    <3>5. \A t \in Sessions : chunkCh'[t] = IF t = s THEN chunkCh[t] \cup {id} ELSE chunkCh[t]
      BY <3>1 DEF RegistryTypes
    <3>6. PoisonedAreNil' /\ FreshSessions' /\ HeldSessions'
      BY <2>1, <3>1, <3>4, <3>5 DEF PoisonedAreNil, FreshSessions, HeldSessions
    <3>7. RegisteredAreLive'
      <4> SUFFICES ASSUME NEW m \in Machines, registry[m] # NoSession
                   PROVE  chunkCh'[registry[m]] \cap closed = {}
        BY <2>1 DEF RegisteredAreLive
      <4>1. registry[m] \in Sessions /\ chunkCh[registry[m]] \cap closed = {}
        BY DEF RegisteredAreLive, RegistryTypes
      <4> QED BY <3>3, <3>5, <4>1
    <3>8. ReplacedAreWoken'
      <4>1. Current(q) = registry[MachineOf[s]]
        BY <3>4 DEF Current
      <4> QED BY <2>1, <3>1, <3>5, <4>1 DEF ReplacedAreWoken
    <3>9. ClosedIds'
      <4> SUFFICES ASSUME NEW i \in closed
                   PROVE  i[2] <= try[i[1]] /\ (i[2] = try[i[1]] => ~NotYet(i[1])')
        BY <2>1 DEF ClosedIds
      <4>1. i[1] \in Requests /\ i[2] <= try[i[1]] /\ (i[2] = try[i[1]] => ~NotYet(i[1]))
        BY IdParts DEF ClosedIds, ChannelTypes
      <4>2. CASE i[1] = q
        BY <2>1, <4>1, <4>2
      <4>3. CASE i[1] # q
        BY <2>1, <4>1, <4>3 DEF NotYet, Stream
      <4> QED BY <4>2, <4>3
    <3>10. MappedIds'
      <4> SUFFICES ASSUME NEW t \in Sessions, NEW i \in chunkCh'[t]
                   PROVE  i[2] = try[i[1]] /\ sess[i[1]] = t /\ ~NoChannel(i[1])'
        BY <2>1 DEF MappedIds
      <4>1. CASE i \in chunkCh[t]
        <5>1. i[1] \in Requests /\ i[2] = try[i[1]] /\ sess[i[1]] = t /\ ~NoChannel(i[1])
          BY <4>1, IdParts DEF MappedIds, RegistryTypes
        <5>2. i[1] # q
          BY <2>1, <5>1 DEF NoChannel
        <5> QED BY <2>1, <5>1, <5>2 DEF NoChannel, NotYet, Stream
      <4>2. CASE i \notin chunkCh[t]
        <5>1. t = s /\ i = id
          BY <3>5, <4>2
        <5>2. ~NoChannel(q)'
          BY <3>1 DEF NoChannel, NotYet, Stream
        <5> QED BY <3>2, <5>1, <5>2 DEF s
      <4> QED BY <4>1, <4>2
    <3> QED BY <3>6, <3>7, <3>8, <3>9, <3>10
  <2> QED BY <2>2, <2>3
<1>3. CASE CheckLoad(q)
  <2>0. ClosedIds' /\ MappedIds'
    <3>1. /\ \A p \in Requests \ {q} : phase'[p] = phase[p]
          /\ UNCHANGED <<closed, chunkCh, try, sess>>
      BY <1>3 DEF CheckLoad, RequestTypes, Goto
    <3>2. NotYet(q)' => NotYet(q)
      BY <1>3 DEF CheckLoad, NotYet, RequestTypes, Goto, Stream
    <3>3. NoChannel(q)' => NoChannel(q)
      BY <1>3 DEF CheckLoad, NoChannel, NotYet, RequestTypes, Goto, Stream
    <3> QED BY <3>1, <3>2, <3>3, PhaseStep
  <2>1. PoisonedAreNil'
    BY <1>3 DEF CheckLoad, Goto, Stream, PoisonedAreNil
  <2>2. RegisteredAreLive'
    BY <1>3 DEF CheckLoad, Goto, Stream, RegisteredAreLive, RegistryTypes
  <2>3. FreshSessions'
    BY <1>3 DEF CheckLoad, Goto, Stream, FreshSessions, RegistryTypes
  <2>4. HeldSessions'
    BY <1>3 DEF CheckLoad, Goto, Stream, HeldSessions, RegistryTypes, RequestTypes
  <2>5. ClosedIds'
    BY <2>0
  <2>6. MappedIds'
    BY <2>0
  <2>7. ReplacedAreWoken'
    BY <1>3 DEF CheckLoad, Goto, Stream, ReplacedAreWoken, RegistryTypes
  <2> QED BY <2>1, <2>2, <2>3, <2>4, <2>5, <2>6, <2>7
<1>4. CASE IncrementLoad(q)
  <2>0. ClosedIds' /\ MappedIds'
    <3>1. /\ \A p \in Requests \ {q} : phase'[p] = phase[p]
          /\ UNCHANGED <<closed, chunkCh, try, sess>>
      BY <1>4 DEF IncrementLoad, RequestTypes, Goto
    <3>2. NotYet(q)' => NotYet(q)
      BY <1>4 DEF IncrementLoad, NotYet, RequestTypes, Goto, Stream
    <3>3. NoChannel(q)' => NoChannel(q)
      BY <1>4 DEF IncrementLoad, NoChannel, NotYet, RequestTypes, Goto, Stream
    <3> QED BY <3>1, <3>2, <3>3, PhaseStep
  <2>1. PoisonedAreNil'
    BY <1>4 DEF IncrementLoad, Goto, Stream, PoisonedAreNil
  <2>2. RegisteredAreLive'
    BY <1>4 DEF IncrementLoad, Goto, Stream, RegisteredAreLive, RegistryTypes
  <2>3. FreshSessions'
    BY <1>4 DEF IncrementLoad, Goto, Stream, FreshSessions, RegistryTypes
  <2>4. HeldSessions'
    BY <1>4 DEF IncrementLoad, Goto, Stream, HeldSessions, RegistryTypes, RequestTypes
  <2>5. ClosedIds'
    BY <2>0
  <2>6. MappedIds'
    BY <2>0
  <2>7. ReplacedAreWoken'
    BY <1>4 DEF IncrementLoad, Goto, Stream, ReplacedAreWoken, RegistryTypes
  <2> QED BY <2>1, <2>2, <2>3, <2>4, <2>5, <2>6, <2>7
<1>5. CASE SendRequest(q)
  <2>0. ClosedIds' /\ MappedIds'
    <3>1. /\ \A p \in Requests \ {q} : phase'[p] = phase[p]
          /\ UNCHANGED <<closed, chunkCh, try, sess>>
      BY <1>5 DEF SendRequest, RequestTypes, Goto
    <3>2. NotYet(q)' => NotYet(q)
      BY <1>5 DEF SendRequest, NotYet, RequestTypes, Goto, Stream
    <3>3. NoChannel(q)' => NoChannel(q)
      BY <1>5 DEF SendRequest, NoChannel, NotYet, RequestTypes, Goto, Stream
    <3> QED BY <3>1, <3>2, <3>3, PhaseStep
  <2>1. PoisonedAreNil'
    BY <1>5 DEF SendRequest, Goto, Stream, PoisonedAreNil
  <2>2. RegisteredAreLive'
    BY <1>5 DEF SendRequest, Goto, Stream, RegisteredAreLive, RegistryTypes
  <2>3. FreshSessions'
    BY <1>5 DEF SendRequest, Goto, Stream, FreshSessions, RegistryTypes
  <2>4. HeldSessions'
    BY <1>5 DEF SendRequest, Goto, Stream, HeldSessions, RegistryTypes, RequestTypes
  <2>5. ClosedIds'
    BY <2>0
  <2>6. MappedIds'
    BY <2>0
  <2>7. ReplacedAreWoken'
    BY <1>5 DEF SendRequest, Goto, Stream, ReplacedAreWoken, RegistryTypes
  <2> QED BY <2>1, <2>2, <2>3, <2>4, <2>5, <2>6, <2>7
<1>6. CASE Receive(q)
  <2>0. ClosedIds' /\ MappedIds'
    <3>1. /\ \A p \in Requests \ {q} : phase'[p] = phase[p]
          /\ UNCHANGED <<closed, chunkCh, try, sess>>
      BY <1>6 DEF Receive, RequestTypes, Goto, EndWait
    <3>2. NotYet(q)' => NotYet(q)
      BY <1>6 DEF Receive, NotYet, RequestTypes, Goto, Stream, EndWait
    <3>3. NoChannel(q)' => NoChannel(q)
      BY <1>6 DEF Receive, NoChannel, NotYet, RequestTypes, Goto, Stream, EndWait
    <3> QED BY <3>1, <3>2, <3>3, PhaseStep
  <2>1. PoisonedAreNil'
    BY <1>6 DEF Receive, Goto, Stream, EndWait, PoisonedAreNil
  <2>2. RegisteredAreLive'
    BY <1>6 DEF Receive, Goto, Stream, EndWait, RegisteredAreLive, RegistryTypes
  <2>3. FreshSessions'
    BY <1>6 DEF Receive, Goto, Stream, EndWait, FreshSessions, RegistryTypes
  <2>4. HeldSessions'
    BY <1>6 DEF Receive, Goto, Stream, EndWait, HeldSessions, RegistryTypes, RequestTypes
  <2>5. ClosedIds'
    BY <2>0
  <2>6. MappedIds'
    BY <2>0
  <2>7. ReplacedAreWoken'
    BY <1>6 DEF Receive, Goto, Stream, EndWait, ReplacedAreWoken, RegistryTypes
  <2> QED BY <2>1, <2>2, <2>3, <2>4, <2>5, <2>6, <2>7
<1>7. CASE SeeClosed(q)
  <2>0. ClosedIds' /\ MappedIds'
    <3>1. /\ \A p \in Requests \ {q} : phase'[p] = phase[p]
          /\ UNCHANGED <<closed, chunkCh, try, sess>>
      BY <1>7 DEF SeeClosed, RequestTypes, Goto, EndWait
    <3>2. NotYet(q)' => NotYet(q)
      BY <1>7 DEF SeeClosed, NotYet, RequestTypes, Goto, Stream, EndWait
    <3>3. NoChannel(q)' => NoChannel(q)
      BY <1>7 DEF SeeClosed, NoChannel, NotYet, RequestTypes, Goto, Stream, EndWait
    <3> QED BY <3>1, <3>2, <3>3, PhaseStep
  <2>1. PoisonedAreNil'
    BY <1>7 DEF SeeClosed, Goto, Stream, EndWait, PoisonedAreNil
  <2>2. RegisteredAreLive'
    BY <1>7 DEF SeeClosed, Goto, Stream, EndWait, RegisteredAreLive, RegistryTypes
  <2>3. FreshSessions'
    BY <1>7 DEF SeeClosed, Goto, Stream, EndWait, FreshSessions, RegistryTypes
  <2>4. HeldSessions'
    BY <1>7 DEF SeeClosed, Goto, Stream, EndWait, HeldSessions, RegistryTypes, RequestTypes
  <2>5. ClosedIds'
    BY <2>0
  <2>6. MappedIds'
    BY <2>0
  <2>7. ReplacedAreWoken'
    BY <1>7 DEF SeeClosed, Goto, Stream, EndWait, ReplacedAreWoken, RegistryTypes
  <2> QED BY <2>1, <2>2, <2>3, <2>4, <2>5, <2>6, <2>7
<1>8. CASE GiveUp(q)
  <2>0. ClosedIds' /\ MappedIds'
    <3>1. /\ \A p \in Requests \ {q} : phase'[p] = phase[p]
          /\ UNCHANGED <<closed, chunkCh, try, sess>>
      BY <1>8 DEF GiveUp, RequestTypes, Goto, EndWait
    <3>2. NotYet(q)' => NotYet(q)
      BY <1>8 DEF GiveUp, NotYet, RequestTypes, Goto, Stream, EndWait
    <3>3. NoChannel(q)' => NoChannel(q)
      BY <1>8 DEF GiveUp, NoChannel, NotYet, RequestTypes, Goto, Stream, EndWait
    <3> QED BY <3>1, <3>2, <3>3, PhaseStep
  <2>1. PoisonedAreNil'
    BY <1>8 DEF GiveUp, Goto, Stream, EndWait, PoisonedAreNil
  <2>2. RegisteredAreLive'
    BY <1>8 DEF GiveUp, Goto, Stream, EndWait, RegisteredAreLive, RegistryTypes
  <2>3. FreshSessions'
    BY <1>8 DEF GiveUp, Goto, Stream, EndWait, FreshSessions, RegistryTypes
  <2>4. HeldSessions'
    BY <1>8 DEF GiveUp, Goto, Stream, EndWait, HeldSessions, RegistryTypes, RequestTypes
  <2>5. ClosedIds'
    BY <2>0
  <2>6. MappedIds'
    BY <2>0
  <2>7. ReplacedAreWoken'
    BY <1>8 DEF GiveUp, Goto, Stream, EndWait, ReplacedAreWoken, RegistryTypes
  <2> QED BY <2>1, <2>2, <2>3, <2>4, <2>5, <2>6, <2>7
<1>13. CASE CancelReturns(q)
  <2>0. ClosedIds' /\ MappedIds'
    <3>1. /\ \A p \in Requests \ {q} : phase'[p] = phase[p]
          /\ UNCHANGED <<closed, chunkCh, try, sess>>
      BY <1>13 DEF CancelReturns, RequestTypes, Goto, EndWait
    <3>2. NotYet(q)' => NotYet(q)
      BY <1>13 DEF CancelReturns, NotYet, RequestTypes, Goto, Stream, EndWait
    <3>3. NoChannel(q)' => NoChannel(q)
      BY <1>13 DEF CancelReturns, NoChannel, NotYet, RequestTypes, Goto, Stream, EndWait
    <3> QED BY <3>1, <3>2, <3>3, PhaseStep
  <2>1. PoisonedAreNil'
    BY <1>13 DEF CancelReturns, Goto, Stream, EndWait, PoisonedAreNil
  <2>2. RegisteredAreLive'
    BY <1>13 DEF CancelReturns, Goto, Stream, EndWait, RegisteredAreLive, RegistryTypes
  <2>3. FreshSessions'
    BY <1>13 DEF CancelReturns, Goto, Stream, EndWait, FreshSessions, RegistryTypes
  <2>4. HeldSessions'
    BY <1>13 DEF CancelReturns, Goto, Stream, EndWait, HeldSessions, RegistryTypes, RequestTypes
  <2>5. ClosedIds'
    BY <2>0
  <2>6. MappedIds'
    BY <2>0
  <2>7. ReplacedAreWoken'
    BY <1>13 DEF CancelReturns, Goto, Stream, EndWait, ReplacedAreWoken, RegistryTypes
  <2> QED BY <2>1, <2>2, <2>3, <2>4, <2>5, <2>6, <2>7
<1>9. CASE StartDecrement(q)
  <2>0. ClosedIds' /\ MappedIds'
    <3>1. /\ \A p \in Requests \ {q} : phase'[p] = phase[p]
          /\ UNCHANGED <<closed, chunkCh, try, sess>>
      BY <1>9 DEF StartDecrement, RequestTypes, Goto, AfterRelease
    <3>2. NotYet(q)' => NotYet(q)
      BY <1>9 DEF StartDecrement, NotYet, RequestTypes, Goto, Stream, AfterRelease
    <3>3. NoChannel(q)' => NoChannel(q)
      BY <1>9 DEF StartDecrement, NoChannel, NotYet, RequestTypes, Goto, Stream, AfterRelease
    <3> QED BY <3>1, <3>2, <3>3, PhaseStep
  <2>1. PoisonedAreNil'
    BY <1>9 DEF StartDecrement, Goto, Stream, AfterRelease, PoisonedAreNil
  <2>2. RegisteredAreLive'
    BY <1>9 DEF StartDecrement, Goto, Stream, AfterRelease, RegisteredAreLive, RegistryTypes
  <2>3. FreshSessions'
    BY <1>9 DEF StartDecrement, Goto, Stream, AfterRelease, FreshSessions, RegistryTypes
  <2>4. HeldSessions'
    BY <1>9 DEF StartDecrement, Goto, Stream, AfterRelease, HeldSessions, RegistryTypes, RequestTypes
  <2>5. ClosedIds'
    BY <2>0
  <2>6. MappedIds'
    BY <2>0
  <2>7. ReplacedAreWoken'
    BY <1>9 DEF StartDecrement, Goto, Stream, AfterRelease, ReplacedAreWoken, RegistryTypes
  <2> QED BY <2>1, <2>2, <2>3, <2>4, <2>5, <2>6, <2>7
<1>10. CASE DecrementLoad(q)
  <2>0. ClosedIds' /\ MappedIds'
    <3>1. /\ \A p \in Requests \ {q} : phase'[p] = phase[p]
          /\ UNCHANGED <<closed, chunkCh, try, sess>>
      BY <1>10 DEF DecrementLoad, RequestTypes, Goto, AfterRelease
    <3>2. NotYet(q)' => NotYet(q)
      BY <1>10 DEF DecrementLoad, NotYet, RequestTypes, Goto, Stream, AfterRelease
    <3>3. NoChannel(q)' => NoChannel(q)
      BY <1>10 DEF DecrementLoad, NoChannel, NotYet, RequestTypes, Goto, Stream, AfterRelease
    <3> QED BY <3>1, <3>2, <3>3, PhaseStep
  <2>1. PoisonedAreNil'
    BY <1>10 DEF DecrementLoad, Goto, Stream, AfterRelease, PoisonedAreNil
  <2>2. RegisteredAreLive'
    BY <1>10 DEF DecrementLoad, Goto, Stream, AfterRelease, RegisteredAreLive, RegistryTypes
  <2>3. FreshSessions'
    BY <1>10 DEF DecrementLoad, Goto, Stream, AfterRelease, FreshSessions, RegistryTypes
  <2>4. HeldSessions'
    BY <1>10 DEF DecrementLoad, Goto, Stream, AfterRelease, HeldSessions, RegistryTypes, RequestTypes
  <2>5. ClosedIds'
    BY <2>0
  <2>6. MappedIds'
    BY <2>0
  <2>7. ReplacedAreWoken'
    BY <1>10 DEF DecrementLoad, Goto, Stream, AfterRelease, ReplacedAreWoken, RegistryTypes
  <2> QED BY <2>1, <2>2, <2>3, <2>4, <2>5, <2>6, <2>7
<1>11. CASE UnregisterChunkChannel(q)
  <2>1. PoisonedAreNil'
    BY <1>11 DEF UnregisterChunkChannel, Goto, Stream, AfterLeave, Id, PoisonedAreNil
  <2>2. RegisteredAreLive'
    BY <1>11 DEF UnregisterChunkChannel, Goto, Stream, AfterLeave, Id, RegisteredAreLive, RegistryTypes
  <2>3. FreshSessions'
    BY <1>11 DEF UnregisterChunkChannel, Goto, Stream, AfterLeave, Id, FreshSessions, RegistryTypes
  <2>4. HeldSessions'
    BY <1>11 DEF UnregisterChunkChannel, Goto, Stream, AfterLeave, Id, HeldSessions, RegistryTypes, RequestTypes
  <2>5. ClosedIds'
    BY <1>11 DEF UnregisterChunkChannel, Goto, Stream, AfterLeave, Id, ClosedIds, NotYet, ChannelTypes, RequestTypes
  <2>6. MappedIds'
    <3>1. /\ \A t \in Sessions : chunkCh'[t] \subseteq chunkCh[t] \ (IF t = sess[q] THEN {Id(q)} ELSE {})
          /\ try' = try /\ \A p \in Requests \ {q} : phase'[p] = phase[p] /\ sess'[p] = sess[p]
      BY <1>11 DEF UnregisterChunkChannel, Goto, RegistryTypes, RequestTypes
    <3> SUFFICES ASSUME NEW s \in Sessions, NEW id \in chunkCh'[s]
                 PROVE  id[2] = try[id[1]] /\ sess'[id[1]] = s /\ ~NoChannel(id[1])'
      BY <3>1 DEF MappedIds
    <3>2. id \in chunkCh[s] /\ id \in Ids
      BY <3>1 DEF RegistryTypes
    <3>3. id[1] \in Requests /\ id[2] = try[id[1]] /\ sess[id[1]] = s /\ ~NoChannel(id[1])
      BY <3>2, IdParts DEF MappedIds
    <3>4. id[1] # q
      <4> SUFFICES ASSUME id[1] = q PROVE FALSE
        OBVIOUS
      <4>1. id = Id(q)
        BY <3>2, <3>3 DEF Id, Ids
      <4> QED BY <3>1, <3>3, <4>1
    <3> QED BY <3>1, <3>3, <3>4 DEF NoChannel, NotYet, Stream
  <2>7. ReplacedAreWoken'
    <3> SUFFICES ASSUME NEW t \in Sessions, registry[MachineOf[t]] # t,
                        NEW id \in chunkCh'[t]
                 PROVE  id \in closed \cup (late \ {Id(q)})
      BY <1>11 DEF UnregisterChunkChannel, ReplacedAreWoken
    <3>1. id \in chunkCh[t] /\ (t = sess[q] => id # Id(q))
      BY <1>11 DEF UnregisterChunkChannel, RegistryTypes
    <3>2. id \in closed \cup late
      BY <3>1 DEF ReplacedAreWoken
    <3>3. id # Id(q)
      <4> SUFFICES ASSUME id = Id(q) PROVE FALSE
        OBVIOUS
      <4>1. sess[q] = t
        BY <3>1 DEF MappedIds, Id
      <4> QED BY <3>1, <4>1
    <3> QED BY <3>2, <3>3
  <2> QED BY <2>1, <2>2, <2>3, <2>4, <2>5, <2>6, <2>7
<1>12. CASE Retry(q)
  <2>1. PoisonedAreNil'
    BY <1>12 DEF Retry, Goto, Stream, MayRetry, Current, Serves, PoisonedAreNil
  <2>2. RegisteredAreLive'
    BY <1>12 DEF Retry, Goto, Stream, MayRetry, Current, Serves, RegisteredAreLive, RegistryTypes
  <2>3. FreshSessions'
    BY <1>12 DEF Retry, Goto, Stream, MayRetry, Current, Serves, FreshSessions, RegistryTypes
  <2>4. HeldSessions'
    <3> SUFFICES ASSUME NEW p \in Requests, sess'[p] # NoSession
                 PROVE  conn[sess'[p]] \notin {"none", "accepted"} /\ MachineOf[sess'[p]] = TargetOf[p]
      BY <1>12 DEF Retry, HeldSessions
    <3>1. CASE sess'[p] = sess[p]
      BY <3>1 DEF HeldSessions
    <3>2. CASE sess'[p] # sess[p]
      <4>1. p = q /\ sess'[p] = registry[TargetOf[q]]
        BY <1>12, <3>2 DEF Retry, Current, RequestTypes
      <4> QED BY <4>1 DEF RegisteredAreLive
    <3> QED BY <3>1, <3>2
  <2>5. ClosedIds'
    <3> SUFFICES ASSUME NEW id \in closed
                 PROVE  id[2] <= try'[id[1]] /\ (id[2] = try'[id[1]] => ~NotYet(id[1])')
      BY <1>12 DEF Retry, ClosedIds
    <3>1. id[1] \in Requests /\ id[2] \in 1..MaxRetries /\ try[id[1]] \in 1..MaxRetries
      BY IdParts DEF ChannelTypes, RequestTypes
    <3>2. id[2] <= try[id[1]] /\ (id[2] = try[id[1]] => ~NotYet(id[1]))
      BY DEF ClosedIds
    <3>3. CASE id[1] # q
      <4>1. phase'[id[1]] = phase[id[1]] /\ try'[id[1]] = try[id[1]]
        BY <1>12, <3>1, <3>3 DEF Retry, Goto, RequestTypes
      <4> QED BY <3>2, <4>1 DEF NotYet, Stream
    <3>4. CASE id[1] = q
      <4>1. CASE MayRetry(q)
        <5>1. try'[q] = try[q] + 1
          BY <1>12, <4>1 DEF Retry, RequestTypes
        <5> QED BY <3>1, <3>2, <3>4, <5>1
      <4>2. CASE ~MayRetry(q)
        <5>1. try' = try /\ phase'[q] = "done"
          BY <1>12, <4>2 DEF Retry, Goto, RequestTypes
        <5> QED BY <3>2, <3>4, <5>1 DEF NotYet
      <4> QED BY <4>1, <4>2
    <3> QED BY <3>3, <3>4
  <2>6. MappedIds'
    <3> SUFFICES ASSUME NEW s \in Sessions, NEW id \in chunkCh[s]
                 PROVE  id[2] = try'[id[1]] /\ sess'[id[1]] = s /\ ~NoChannel(id[1])'
      BY <1>12 DEF Retry, MappedIds
    <3>1. id[1] \in Requests
      BY IdParts DEF RegistryTypes
    <3>2. id[2] = try[id[1]] /\ sess[id[1]] = s /\ ~NoChannel(id[1])
      BY DEF MappedIds
    <3>3. id[1] # q
      BY <1>12, <3>2 DEF Retry, NoChannel, NotYet
    <3>4. phase'[id[1]] = phase[id[1]] /\ try'[id[1]] = try[id[1]] /\ sess'[id[1]] = sess[id[1]]
      BY <1>12, <3>1, <3>3 DEF Retry, Goto, RequestTypes
    <3> QED BY <3>2, <3>4 DEF NoChannel, NotYet, Stream
  <2>7. ReplacedAreWoken'
    BY <1>12 DEF Retry, Goto, Stream, MayRetry, Current, Serves, ReplacedAreWoken, RegistryTypes
  <2> QED BY <2>1, <2>2, <2>3, <2>4, <2>5, <2>6, <2>7
<1> QED BY <1>1, <1>2, <1>3, <1>4, <1>5, <1>6, <1>7, <1>8, <1>9, <1>10, <1>11, <1>12, <1>13 DEF Handler

(* Eviction, cancellation and key revocation keeps the inductive invariant. *)
LEMMA IndAdministration ==
  ASSUME TypeOK, IndInv, NEW m \in Machines, Administration(m) PROVE IndInv'
<1> USE DEF TypeOK, IndInv
<1>1. CASE Evict(m)
  <2>1. PoisonedAreNil'
    BY <1>1 DEF Evict, Wake, Closable, PoisonedAreNil
  <2>2. RegisteredAreLive'
    <3> SUFFICES ASSUME NEW n \in Machines, registry'[n] # NoSession
                 PROVE  /\ MachineOf[registry'[n]] = n
                        /\ conn[registry'[n]] \in {"open", "stalled", "lost", "closed"}
                        /\ registry'[n] \notin nilMap
                        /\ chunkCh[registry'[n]] \cap closed' = {}
      BY <1>1 DEF Evict, RegisteredAreLive
    <3>1. /\ n # m /\ registry'[n] = registry[n] /\ registry[n] \in Sessions
          /\ registry[m] \in Sessions /\ closed' = closed \cup chunkCh[registry[m]]
      BY <1>1 DEF Evict, Wake, RegistryTypes
    <3>2. /\ MachineOf[registry[n]] = n /\ registry[n] \notin nilMap
          /\ conn[registry[n]] \in {"open", "stalled", "lost", "closed"}
          /\ chunkCh[registry[n]] \cap closed = {} /\ registry[n] # registry[m]
      BY <3>1 DEF RegisteredAreLive
    <3>3. chunkCh[registry[n]] \cap chunkCh[registry[m]] = {}
      BY <3>1, <3>2, MapsAreDisjoint
    <3> QED BY <3>1, <3>2, <3>3
  <2>3. FreshSessions'
    BY <1>1 DEF Evict, Wake, Closable, FreshSessions, RegistryTypes
  <2>4. HeldSessions'
    BY <1>1 DEF Evict, Wake, Closable, HeldSessions, RegistryTypes, RequestTypes
  <2>5. ClosedIds'
    <3>1. /\ registry[m] \in Sessions /\ closed' = closed \cup chunkCh[registry[m]]
          /\ UNCHANGED <<phase, try>>
      BY <1>1 DEF Evict, Wake, RegistryTypes
    <3> QED BY <3>1, ClosedGrows
  <2>6. MappedIds'
    BY <1>1 DEF Evict, Wake, Closable, MappedIds, NoChannel, NotYet, RegistryTypes, RequestTypes
  <2>7. ReplacedAreWoken'
    BY <1>1 DEF Evict, Wake, Closable, ReplacedAreWoken, RegistryTypes
  <2> QED BY <2>1, <2>2, <2>3, <2>4, <2>5, <2>6, <2>7
<1>2. CASE GetSessionToCancel(m)
  BY <1>2 DEF GetSessionToCancel, PoisonedAreNil, RegisteredAreLive, FreshSessions, HeldSessions, ClosedIds, MappedIds, ReplacedAreWoken, NotYet, NoChannel
<1>3. CASE CancelAllRequests(m)
  <2>0. PICK gone \in SUBSET chunkCh[canceller[m]] :
          /\ canceller[m] \in Sessions
          /\ closed' = closed \cup gone
          /\ chunkCh' = [chunkCh EXCEPT ![canceller[m]] = @ \ gone]
          /\ UNCHANGED <<registry, conn, nilMap, phase, try>>
    BY <1>3 DEF CancelAllRequests, RegistryTypes
  <2>1. PoisonedAreNil'
    BY <1>3 DEF CancelAllRequests, Closable, PoisonedAreNil
  <2>2. RegisteredAreLive'
    <3> SUFFICES ASSUME NEW n \in Machines, registry[n] # NoSession
                 PROVE  chunkCh'[registry[n]] \cap closed' = {}
      BY <2>0 DEF RegisteredAreLive
    <3>1. registry[n] \in Sessions /\ chunkCh[registry[n]] \cap closed = {}
      BY DEF RegisteredAreLive, RegistryTypes
    <3>2. CASE registry[n] = canceller[m]
      BY <2>0, <3>1, <3>2 DEF RegistryTypes
    <3>3. CASE registry[n] # canceller[m]
      <4>1. chunkCh[registry[n]] \cap chunkCh[canceller[m]] = {}
        BY <2>0, <3>1, <3>3, MapsAreDisjoint
      <4> QED BY <2>0, <3>1, <3>3, <4>1 DEF RegistryTypes
    <3> QED BY <3>2, <3>3
  <2>3. FreshSessions'
    BY <1>3 DEF CancelAllRequests, Closable, FreshSessions, RegistryTypes
  <2>4. HeldSessions'
    BY <1>3 DEF CancelAllRequests, Closable, HeldSessions, RegistryTypes, RequestTypes
  <2>5. ClosedIds'
    BY <2>0, ClosedGrows
  <2>6. MappedIds'
    BY <1>3 DEF CancelAllRequests, Closable, MappedIds, NoChannel, NotYet, RegistryTypes, RequestTypes
  <2>7. ReplacedAreWoken'
    BY <1>3 DEF CancelAllRequests, Closable, ReplacedAreWoken, RegistryTypes
  <2> QED BY <2>1, <2>2, <2>3, <2>4, <2>5, <2>6, <2>7
<1>4. CASE RevokeKey(m)
  BY <1>4 DEF RevokeKey, PoisonedAreNil, RegisteredAreLive, FreshSessions, HeldSessions, ClosedIds, MappedIds, ReplacedAreWoken, NotYet, NoChannel
<1>5. CASE UnregisterRevoked(m)
  <2>0. RegisteredAreLive' /\ FreshSessions' /\ ClosedIds'
    <3>1. m \in Machines /\ Unregister(m) /\ UNCHANGED <<phase, try>>
      BY <1>5 DEF UnregisterRevoked
    <3>2. /\ \A t \in Sessions : MachineOf[t] # m => conn'[t] = conn[t]
          /\ \A t \in Sessions : conn'[t] \in {"none", "accepted"} => conn'[t] = conn[t]
      BY <1>5 DEF UnregisterRevoked, RegistryTypes
    <3> QED BY <3>1, <3>2, UnregisterInd
  <2>1. PoisonedAreNil'
    BY <1>5 DEF UnregisterRevoked, Unregister, Wake, Closable, PoisonedAreNil
  <2>2. RegisteredAreLive'
    BY <2>0
  <2>3. FreshSessions'
    BY <2>0
  <2>4. HeldSessions'
    BY <1>5 DEF UnregisterRevoked, Unregister, Wake, Closable, HeldSessions, RegistryTypes, RequestTypes
  <2>5. ClosedIds'
    BY <2>0
  <2>6. MappedIds'
    BY <1>5 DEF UnregisterRevoked, Unregister, Wake, Closable, MappedIds, NoChannel, NotYet, RegistryTypes, RequestTypes
  <2>7. ReplacedAreWoken'
    BY <1>5 DEF UnregisterRevoked, Unregister, Wake, Closable, ReplacedAreWoken, RegistryTypes
  <2> QED BY <2>1, <2>2, <2>3, <2>4, <2>5, <2>6, <2>7
<1> QED BY <1>1, <1>2, <1>3, <1>4, <1>5 DEF Administration

(* The agent's goroutines only put messages on the wire.                    *)
LEMMA IndAgent == ASSUME TypeOK, IndInv, NEW id \in Ids, Agent(id) PROVE IndInv'
<1>1. UNCHANGED <<registry, conn, chunkCh, nilMap, poisoned, closed, phase, try, sess, late>>
  BY DEF Agent, AgentQuits, AgentSend
<1> QED BY <1>1 DEF IndInv, PoisonedAreNil, RegisteredAreLive, FreshSessions, HeldSessions,
                    ClosedIds, MappedIds, ReplacedAreWoken, NotYet, NoChannel, Stream

(* Nothing is registered, mapped or closed when the coordinator starts.     *)
LEMMA IndInit == Init => IndInv
  BY DEF Init, IndInv, PoisonedAreNil, RegisteredAreLive, FreshSessions, HeldSessions,
         ClosedIds, MappedIds, ReplacedAreWoken

(* Every operation of the coordinator keeps the inductive invariant.        *)
LEMMA IndNext == TypeOK /\ IndInv /\ [Next]_vars => IndInv'
<1> SUFFICES ASSUME TypeOK, IndInv, [Next]_vars PROVE IndInv'
  OBVIOUS
<1>1. CASE Next
  BY <1>1, IndConnection, IndReadLoop, IndHandler, IndAdministration, IndAgent DEF Next
<1>2. CASE UNCHANGED vars
  BY <1>2 DEF vars, IndInv, PoisonedAreNil, RegisteredAreLive, FreshSessions, HeldSessions,
              ClosedIds, MappedIds, ReplacedAreWoken, NotYet, NoChannel, Stream
<1> QED BY <1>1, <1>2

(* Who may be in the registry, which ids a session knows and which of them  *)
(* have been closed, in every run of the coordinator.                       *)
THEOREM Inductive == Spec => []IndInv
<1>1. Init => TypeOK /\ IndInv
  BY TypeInit, IndInit
<1>2. TypeOK /\ IndInv /\ [Next]_vars => (TypeOK /\ IndInv)'
  BY TypeNext, IndNext
<1> QED BY <1>1, <1>2, PTL DEF Spec

(* Register, Unregister and evictStale never block on the session they      *)
(* remove and never close one of its channels twice: a poisoned session is  *)
(* one whose map is nil, and such a session left the registry for good.     *)
THEOREM RegisteredStayUsable == Spec => []RegisteredUsable
<1>1. TypeOK /\ IndInv => RegisteredUsable
  BY DEF IndInv, PoisonedAreNil, RegisteredAreLive, RegisteredUsable, Closable
<1> QED BY <1>1, TypeCorrect, Inductive, PTL

(* A session leaves the registry with every handler that waits on it woken. *)
THEOREM ReplacedSessionsAreWoken == Spec => []ReplacedAreWoken
<1>1. IndInv => ReplacedAreWoken
  BY DEF IndInv
<1> QED BY <1>1, Inductive, PTL
------------------------------------------------------------------------------
(* Load, although two updates of one CurrentLoad may overlap.               *)

(* The handlers counted in a session are finitely many.                     *)
LEMMA CountedIsFinite ==
  ASSUME LoadInv, NEW s \in Sessions
  PROVE  IsFiniteSet(Counted(s)) /\ Cardinality(Counted(s)) \in Nat
<1>1. Counted(s) \subseteq {q \in Requests : slot[q] # NoSession}
  BY DEF Counted
<1> QED BY <1>1, FS_Subset, FS_CardinalityType DEF LoadInv, SlotsAreFinite

(* A step of a handler that updates no load, holds on to its slot and does  *)
(* not finish with it.                                                      *)
LEMMA HandlerFrame ==
  ASSUME TypeOK, LoadInv, NEW q \in Requests,
         UNCHANGED <<registry, load, slot, seen, conn, overlapped>>,
         \A p \in Requests \ {q} : phase'[p] = phase[p],
         ~Updating(q), ~Updating(q)',
         slot[q] # NoSession => /\ phase'[q] \in Holding
                                /\ phase'[q] \in {"register", "leave"} => ~Stream(q)
  PROVE  LoadInv'
<1>1. \A p \in Requests : Updating(p)' <=> Updating(p)
  BY DEF Updating
<1>2. \A p \in Requests : (phase'[p] = "counting") <=> (phase[p] = "counting")
  BY DEF Updating
<1>3. \A p \in Requests : Current(p)' = Current(p)
  BY DEF Current
<1>4. \A s \in Sessions : Counted(s)' = Counted(s)
  BY <1>2 DEF Counted
<1>5. SlotsAreHeld'
  BY DEF LoadInv, SlotsAreHeld, Stream
<1>6. UpdatesAreCovered'
  BY <1>1, <1>2, <1>3, <1>4, CurrentType DEF LoadInv, UpdatesAreCovered, Covers
<1>7. FreshLoads' /\ SlotsAreFinite'
  BY DEF LoadInv, FreshLoads, SlotsAreFinite
<1>8. LoadIsCovered'
  BY <1>4 DEF LoadInv, LoadIsCovered, Covers, TypeOK, RegistryTypes
<1> QED BY <1>5, <1>6, <1>7, <1>8 DEF LoadInv

(* A step of anybody else that leaves the registry alone.                   *)
LEMMA OtherFrame ==
  ASSUME TypeOK, LoadInv, UNCHANGED <<registry, load, slot, seen, phase, overlapped>>,
         \A s \in Sessions : conn'[s] \in {"none", "accepted"} => conn[s] \in {"none", "accepted"}
  PROVE  LoadInv'
<1>1. \A p \in Requests : (Updating(p)' <=> Updating(p)) /\ Current(p)' = Current(p)
  BY DEF Updating, Current
<1>2. \A s \in Sessions : Counted(s)' = Counted(s)
  BY DEF Counted
<1>3. SlotsAreHeld' /\ SlotsAreFinite'
  BY DEF LoadInv, SlotsAreHeld, Stream, SlotsAreFinite
<1>4. UpdatesAreCovered'
  BY <1>1, <1>2 DEF LoadInv, UpdatesAreCovered, Covers, Counted
<1>5. FreshLoads'
  BY DEF LoadInv, FreshLoads
<1>6. LoadIsCovered'
  BY <1>2 DEF LoadInv, LoadIsCovered, Covers, Counted
<1> QED BY <1>3, <1>4, <1>5, <1>6 DEF LoadInv

(* A session enters or leaves the registry: nobody updates a load meanwhile,*)
(* and a session that enters has none.                                      *)
LEMMA RegistryFrame ==
  ASSUME TypeOK, LoadInv, WriteLocked, UNCHANGED <<load, slot, seen, phase, overlapped>>,
         \A s \in Sessions : conn'[s] \in {"none", "accepted"} => conn[s] \in {"none", "accepted"},
         \A m \in Machines :
           \/ registry'[m] \in {registry[m], NoSession}
           \/ registry'[m] \in Sessions /\ conn[registry'[m]] = "accepted"
  PROVE  LoadInv'
<1>1. \A p \in Requests : ~Updating(p)'
  BY DEF Updating, WriteLocked
<1>2. \A s \in Sessions : Counted(s)' = Counted(s)
  BY DEF Counted
<1>3. SlotsAreHeld' /\ SlotsAreFinite'
  BY DEF LoadInv, SlotsAreHeld, Stream, SlotsAreFinite
<1>4. UpdatesAreCovered'
  BY <1>1 DEF UpdatesAreCovered
<1>5. FreshLoads'
  BY DEF LoadInv, FreshLoads
<1>6. LoadIsCovered'
  <2> SUFFICES ASSUME NEW m \in Machines, registry'[m] # NoSession
               PROVE  Covers(registry'[m], load[registry'[m]])
    BY <1>2 DEF LoadIsCovered, Covers, Counted
  <2>1. CASE registry'[m] = registry[m]
    BY <2>1 DEF LoadInv, LoadIsCovered
  <2>2. CASE registry'[m] \in Sessions /\ conn[registry'[m]] = "accepted"
    <3>1. load[registry'[m]] = 0
      BY <2>2 DEF LoadInv, FreshLoads
    <3>2. Cardinality(Counted(registry'[m])) \in Nat /\ overlapped[registry'[m]] \in Nat
      BY <2>2, CountedIsFinite DEF TypeOK, ChannelTypes
    <3> QED BY <3>1, <3>2 DEF Covers
  <2> QED BY <2>1, <2>2
<1> QED BY <1>3, <1>4, <1>5, <1>6 DEF LoadInv

------------------------------------------------------------------------------
(* The steps that update a load.                                            *)

(* The numbers a load is compared with.                                     *)
LEMMA LoadNumbers ==
  ASSUME TypeOK, LoadInv, NEW s \in Sessions
  PROVE  load[s] \in Int /\ overlapped[s] \in Nat /\ Cardinality(Counted(s)) \in Nat
  BY CountedIsFinite DEF TypeOK, RegistryTypes, ChannelTypes

(* The session an update works on is the registered one of its machine.     *)
LEMMA UpdatedSession ==
  ASSUME TypeOK, IndInv, LoadInv, NEW q \in Requests, Updating(q)
  PROVE  /\ Current(q) \in Sessions /\ Current(q) # NoSession
         /\ MachineOf[Current(q)] = TargetOf[q]
         /\ conn[Current(q)] \notin {"none", "accepted"}
<1>1. Current(q) \in Sessions /\ Current(q) # NoSession
  BY CurrentType DEF LoadInv, UpdatesAreCovered
<1> QED BY <1>1 DEF IndInv, RegisteredAreLive, Current, TypeOK, RegistryTypes

(* Handlers of one machine work on one session.                             *)
LEMMA SessionOfMachine ==
  ASSUME NEW p \in Requests, NEW q \in Requests
  PROVE  (TargetOf[p] = TargetOf[q] => Current(p) = Current(q))
         /\ (Machine(p) = Machine(q) <=> TargetOf[p] = TargetOf[q])
  BY DEF Current, Machine

(* CheckLoad reads the load of the registered session, which is covered.    *)
LEMMA LoadCheckLoad ==
  ASSUME TypeOK, IndInv, LoadInv, NEW q \in Requests, CheckLoad(q)
  PROVE  LoadInv'
<1>1. phase[q] = "count" /\ slot[q] = NoSession
  BY DEF CheckLoad, LoadInv, SlotsAreHeld, Holding
<1>2. CASE Current(q) = NoSession \/ load[Current(q)] >= MaxConcurrent
  <2>1. phase' = [phase EXCEPT ![q] = IF Stream(q) THEN "leave" ELSE "retry"]
    BY <1>2 DEF CheckLoad, Goto
  <2>2. UNCHANGED <<registry, load, slot, seen, conn, overlapped>>
    BY <1>2 DEF CheckLoad
  <2>3. ~Updating(q) /\ ~Updating(q)'
    BY <1>1, <2>1 DEF Updating, TypeOK, RequestTypes
  <2> QED BY <1>1, <2>1, <2>2, <2>3, HandlerFrame
<1>3. CASE ~(Current(q) = NoSession \/ load[Current(q)] >= MaxConcurrent)
  <2>1. /\ phase' = [phase EXCEPT ![q] = "counting"]
        /\ seen' = [seen EXCEPT ![q] = load[Current(q)]]
        /\ slot' = [slot EXCEPT ![q] = Current(q)]
        /\ UNCHANGED <<registry, load, conn, overlapped>>
    BY <1>3 DEF CheckLoad, Goto
  <2>2. Current(q) \in Sessions /\ MachineOf[Current(q)] = TargetOf[q]
    BY <1>3, CurrentType DEF IndInv, RegisteredAreLive, Current
  <2>3. \A p \in Requests : Updating(p)' <=> (Updating(p) \/ p = q)
    BY <1>1, <2>1 DEF Updating, TypeOK, RequestTypes
  <2>5. \A p \in Requests : Current(p)' = Current(p)
    BY <2>1 DEF Current
  <2>6. \A s \in Sessions : Counted(s)' = Counted(s)
    BY <1>1, <2>1, <2>2 DEF Counted, TypeOK, RequestTypes
  <2>7. SlotsAreHeld'
    BY <2>1, <2>2 DEF LoadInv, SlotsAreHeld, Holding, Stream, TypeOK, RequestTypes
  <2>8. UpdatesAreCovered'
    <3>1. Covers(Current(q), load[Current(q)])
      BY <1>3, <2>2 DEF LoadInv, LoadIsCovered, Current
    <3>2. \A p \in Requests \ {q} :
            seen'[p] = seen[p] /\ slot'[p] = slot[p] /\ phase'[p] = phase[p]
      BY <2>1 DEF TypeOK, RequestTypes
    <3>3. seen'[q] = load[Current(q)] /\ slot'[q] = Current(q) /\ phase'[q] = "counting"
      BY <2>1 DEF TypeOK, RequestTypes
    <3> SUFFICES ASSUME NEW p \in Requests, Updating(p)', NEW t \in Sessions, t = Current(p)
                 PROVE  /\ t # NoSession /\ Covers(t, seen[p])'
                        /\ IF phase'[p] = "counting" THEN slot'[p] = t
                           ELSE seen'[p] > 0 /\ load[t] + overlapped[t] > 0
      BY <2>1, <2>2, <2>3, <2>5, UpdatedSession DEF UpdatesAreCovered
    <3>4. CASE p = q
      BY <1>3, <2>1, <2>2, <2>6, <3>1, <3>3, <3>4 DEF Covers
    <3>5. CASE p # q
      <4>1. Updating(p)
        BY <2>3, <3>5
      <4>2. Covers(t, seen[p])
        BY <4>1 DEF LoadInv, UpdatesAreCovered
      <4>3. Covers(t, seen[p])'
        BY <2>1, <2>6, <3>2, <3>5, <4>2 DEF Covers
      <4> QED BY <3>2, <3>5, <4>1, <4>3 DEF LoadInv, UpdatesAreCovered
    <3> QED BY <3>4, <3>5
  <2>9. FreshLoads'
    BY <2>1 DEF LoadInv, FreshLoads
  <2>10. SlotsAreFinite'
    <3>1. {p \in Requests : slot'[p] # NoSession} = {p \in Requests : slot[p] # NoSession} \cup {q}
      BY <1>3, <2>1 DEF TypeOK, RequestTypes
    <3> QED BY <3>1, FS_AddElement DEF LoadInv, SlotsAreFinite
  <2>11. LoadIsCovered'
    BY <2>1, <2>6 DEF LoadInv, LoadIsCovered, Covers, TypeOK, RegistryTypes
  <2> QED BY <2>7, <2>8, <2>9, <2>10, <2>11 DEF LoadInv
<1> QED BY <1>2, <1>3

(* What follows a DecrementLoad.                                            *)
LEMMA AfterReleaseRests ==
  ASSUME NEW q \in Requests
  PROVE  AfterRelease(q) \in IF Stream(q) THEN {"leave"} ELSE {"panicked", "retry"}
<1>1. CASE Stream(q)
  BY <1>1 DEF AfterRelease
<1>2. CASE ~Stream(q) /\ result[q] = "panic"
  BY <1>2 DEF AfterRelease
<1>3. CASE ~Stream(q) /\ result[q] # "panic"
  BY <1>3 DEF AfterRelease
<1> QED BY <1>1, <1>2, <1>3

(* A slot is forgotten.                                                     *)
LEMMA SlotIsForgotten ==
  ASSUME TypeOK, LoadInv, NEW q \in Requests, slot' = [slot EXCEPT ![q] = NoSession]
  PROVE  SlotsAreFinite'
<1>1. {p \in Requests : slot'[p] # NoSession} \subseteq {p \in Requests : slot[p] # NoSession}
  BY DEF TypeOK, RequestTypes
<1> QED BY <1>1, FS_Subset DEF LoadInv, SlotsAreFinite

(* IncrementLoad adds one to what it read or to what is there, and its      *)
(* handler is counted from now on.                                          *)
LEMMA LoadIncrement ==
  ASSUME TypeOK, IndInv, LoadInv, NEW q \in Requests, IncrementLoad(q)
  PROVE  LoadInv'
<1>1. Updating(q) /\ phase[q] = "counting"
  BY DEF IncrementLoad, Updating
<1>0. PICK s \in Sessions : s = Current(q)
  BY <1>1, UpdatedSession
<1>2. slot[q] = s /\ s # NoSession /\ Covers(s, seen[q]) /\ Covers(s, load[s])
      /\ seen[q] \in Int /\ conn[s] \notin {"none", "accepted"}
  <2>1. slot[q] = s /\ s # NoSession /\ Covers(s, seen[q])
    BY <1>0, <1>1 DEF LoadInv, UpdatesAreCovered
  <2>2. Covers(s, load[s])
    BY <1>0, <2>1 DEF LoadInv, LoadIsCovered, Current
  <2> QED BY <1>0, <1>1, <2>1, <2>2, UpdatedSession DEF TypeOK, RequestTypes
<1>3. PICK old \in {seen[q], load[s]} : load' = [load EXCEPT ![s] = old + 1]
  BY <1>0 DEF IncrementLoad
<1>4. /\ phase' = [phase EXCEPT ![q] = IF Stream(q) THEN "send" ELSE "register"]
      /\ seen' = [seen EXCEPT ![q] = 0]
      /\ UNCHANGED <<registry, slot, conn, overlapped>>
  BY DEF IncrementLoad, Goto
<1>5. \A p \in Requests : Updating(p)' <=> (Updating(p) /\ p # q)
  BY <1>4 DEF Updating, TypeOK, RequestTypes
<1>7. \A p \in Requests : Current(p)' = Current(p)
  BY <1>4 DEF Current
<1>8. Counted(s)' = Counted(s) \cup {q} /\ q \notin Counted(s)
  BY <1>1, <1>2, <1>4 DEF Counted, TypeOK, RequestTypes
<1>9. \A t \in Sessions \ {s} : Counted(t)' = Counted(t) /\ load'[t] = load[t]
  BY <1>2, <1>3, <1>4 DEF Counted, TypeOK, RequestTypes, RegistryTypes
<1>n. load[s] \in Int /\ overlapped[s] \in Nat /\ Cardinality(Counted(s)) \in Nat
  BY LoadNumbers
<1>c. Cardinality(Counted(s)') = Cardinality(Counted(s)) + 1
  BY <1>8, CountedIsFinite, FS_AddElement
<1>l. load'[s] = old + 1 /\ old \in Int /\ -overlapped[s] <= old
      /\ old <= Cardinality(Counted(s)) + overlapped[s]
  <2>1. load'[s] = old + 1
    BY <1>3 DEF TypeOK, RegistryTypes
  <2> QED BY <2>1, <1>2, <1>3, <1>n DEF Covers
<1>10. SlotsAreHeld'
  BY <1>4 DEF LoadInv, SlotsAreHeld, Holding, Stream, TypeOK, RequestTypes
<1>11. UpdatesAreCovered'
  <2> SUFFICES ASSUME NEW p \in Requests, p # q, Updating(p), NEW t \in Sessions, t = Current(p)
               PROVE  /\ t # NoSession /\ Covers(t, seen[p])'
                      /\ IF phase'[p] = "counting" THEN slot'[p] = t
                         ELSE seen'[p] > 0 /\ load'[t] + overlapped'[t] > 0
    BY <1>5, <1>7, UpdatedSession DEF UpdatesAreCovered
  <2>1. seen'[p] = seen[p] /\ phase'[p] = phase[p] /\ slot'[p] = slot[p]
    BY <1>4 DEF TypeOK, RequestTypes
  <2>2. /\ t # NoSession /\ Covers(t, seen[p])
        /\ IF phase[p] = "counting" THEN slot[p] = t
           ELSE seen[p] > 0 /\ load[t] + overlapped[t] > 0
    BY DEF LoadInv, UpdatesAreCovered
  <2>3. CASE t # s
    BY <1>4, <1>9, <2>1, <2>2, <2>3 DEF Covers
  <2>4. CASE t = s
    <3>1. Covers(t, seen[p])'
      <4>1. seen[p] \in Int
        BY DEF TypeOK, RequestTypes
      <4> QED BY <1>4, <1>n, <1>c, <2>1, <2>2, <2>4, <4>1 DEF Covers
    <3>2. load'[t] + overlapped'[t] > 0
      BY <1>4, <1>n, <1>l, <2>4
    <3> QED BY <2>1, <2>2, <3>1, <3>2
  <2> QED BY <2>3, <2>4
<1>12. FreshLoads'
  BY <1>2, <1>4, <1>9 DEF LoadInv, FreshLoads
<1>13. SlotsAreFinite'
  BY <1>4 DEF LoadInv, SlotsAreFinite
<1>14. LoadIsCovered'
  <2>1. Covers(s, load[s])'
    BY <1>4, <1>n, <1>c, <1>l DEF Covers
  <2>2. \A t \in Sessions \ {s} : Covers(t, load[t]) => Covers(t, load[t])'
    BY <1>4, <1>9 DEF Covers
  <2>3. \A m \in Machines : registry[m] \in Sessions \cup {NoSession}
    BY DEF TypeOK, RegistryTypes
  <2>4. ASSUME NEW m \in Machines, NEW t \in Sessions, t = registry[m], t # NoSession
        PROVE  Covers(t, load[t])'
    <3>1. Covers(t, load[t])
      BY <2>4 DEF LoadInv, LoadIsCovered
    <3> QED BY <2>1, <2>2, <3>1
  <2> QED BY <1>4, <2>3, <2>4 DEF LoadIsCovered
<1> QED BY <1>10, <1>11, <1>12, <1>13, <1>14 DEF LoadInv

(* A release takes its handler from those counted; where another update of  *)
(* the load is under way the ghost makes up for it.                         *)
LEMMA ReleaseIsCovered ==
  ASSUME TypeOK, IndInv, LoadInv, NEW q \in Requests, Release(q),
         phase[q] \in {"release", "releasing"},
         phase' = [phase EXCEPT ![q] = AfterRelease(q)],
         slot' = [slot EXCEPT ![q] = NoSession]
  PROVE  /\ \A s \in Sessions :
              /\ overlapped'[s] \in {overlapped[s], overlapped[s] + 1}
              /\ Cardinality(Counted(s)') \in {Cardinality(Counted(s)), Cardinality(Counted(s)) - 1}
              /\ Cardinality(Counted(s)') \in Nat
              /\ slot[q] # s => Counted(s)' = Counted(s)
         /\ \A p \in Requests \ {q}, s \in Sessions : Updating(p) /\ s = Current(p) =>
              /\ Cardinality(Counted(s)') + overlapped'[s] >= Cardinality(Counted(s)) + overlapped[s]
              /\ s = Current(q) => overlapped'[s] = overlapped[s] + 1
<1>1. \A s \in Sessions : overlapped'[s] = IF s = Current(q) /\ Overlaps(q) THEN overlapped[s] + 1
                                           ELSE overlapped[s]
  BY DEF Release
<1>2. AfterRelease(q) # "counting"
  BY AfterReleaseRests
<1>3. \A s \in Sessions : Counted(s)' = Counted(s) \ {q}
  BY <1>2, NoSessionAssumption DEF Counted, TypeOK, RequestTypes
<1>4. \A s \in Sessions : slot[q] # s => Counted(s)' = Counted(s)
  BY <1>3 DEF Counted
<1>5. ASSUME NEW s \in Sessions
      PROVE  /\ Cardinality(Counted(s)') \in {Cardinality(Counted(s)), Cardinality(Counted(s)) - 1}
             /\ Cardinality(Counted(s)') \in Nat
  <2>1. IsFiniteSet(Counted(s)) /\ Cardinality(Counted(s)) \in Nat
    BY CountedIsFinite
  <2> QED BY <1>3, <2>1, FS_RemoveElement, FS_CardinalityType
<1>6. ASSUME NEW p \in Requests \ {q}, Updating(p), NEW s \in Sessions, s = Current(p)
      PROVE  /\ Cardinality(Counted(s)') + overlapped'[s] >= Cardinality(Counted(s)) + overlapped[s]
             /\ s = Current(q) => overlapped'[s] = overlapped[s] + 1
  <2>1. MachineOf[s] = TargetOf[p] /\ s # NoSession
    BY <1>6, UpdatedSession
  <2>2. ASSUME s = Current(q) PROVE overlapped'[s] = overlapped[s] + 1
    <3>1. MachineOf[s] = TargetOf[q]
      BY <2>1, <2>2 DEF IndInv, RegisteredAreLive, Current
    <3>2. Overlaps(q)
      BY <1>6, <2>1, <3>1, SessionOfMachine DEF Overlaps
    <3> QED BY <1>1, <2>2, <3>2
  <2>3. Cardinality(Counted(s)) \in Nat /\ overlapped[s] \in Nat
    BY LoadNumbers
  <2>4. Cardinality(Counted(s)') + overlapped'[s] >= Cardinality(Counted(s)) + overlapped[s]
    <3>1. CASE slot[q] # s
      BY <1>1, <1>4, <2>3, <3>1
    <3>2. CASE slot[q] = s
      <4>1. TargetOf[q] = TargetOf[p]
        BY <2>1, <3>2 DEF LoadInv, SlotsAreHeld
      <4>2. overlapped'[s] = overlapped[s] + 1
        BY <1>6, <2>2, <4>1, SessionOfMachine
      <4> QED BY <1>5, <2>3, <4>2
    <3> QED BY <3>1, <3>2
  <2> QED BY <2>2, <2>4
<1> QED
  <2>1. \A s \in Sessions : overlapped'[s] \in {overlapped[s], overlapped[s] + 1}
    BY <1>1
  <2> QED BY <1>4, <1>5, <1>6, <2>1

(* Of the others that update a load, none notices a release.                *)
LEMMA ReleaseKeepsUpdates ==
  ASSUME TypeOK, IndInv, LoadInv, NEW q \in Requests, Release(q),
         phase[q] \in {"release", "releasing"},
         phase' = [phase EXCEPT ![q] = AfterRelease(q)],
         slot' = [slot EXCEPT ![q] = NoSession],
         UNCHANGED registry,
         \A p \in Requests \ {q} : seen'[p] = seen[p],
         \A p \in Requests \ {q} : Updating(p) /\ load[Current(p)] + overlapped[Current(p)] > 0 =>
           load'[Current(p)] + overlapped'[Current(p)] > 0
  PROVE  UpdatesAreCovered'
<1>1. \A p \in Requests : Updating(p)' <=> (Updating(p) /\ p # q)
  BY AfterReleaseRests DEF Updating, TypeOK, RequestTypes
<1>2. \A p \in Requests : Current(p)' = Current(p)
  BY DEF Current
<1> SUFFICES ASSUME NEW p \in Requests \ {q}, Updating(p), NEW t \in Sessions, t = Current(p)
             PROVE  /\ t # NoSession /\ Covers(t, seen[p])'
                    /\ IF phase'[p] = "counting" THEN slot'[p] = t
                       ELSE seen'[p] > 0 /\ load'[t] + overlapped'[t] > 0
  BY <1>1, <1>2, UpdatedSession DEF UpdatesAreCovered
<1>3. seen'[p] = seen[p] /\ phase'[p] = phase[p] /\ slot'[p] = slot[p]
  BY DEF TypeOK, RequestTypes
<1>4. /\ t # NoSession /\ Covers(t, seen[p])
      /\ IF phase[p] = "counting" THEN slot[p] = t
         ELSE seen[p] > 0 /\ load[t] + overlapped[t] > 0
  BY DEF LoadInv, UpdatesAreCovered
<1>5. Covers(t, seen[p])'
  <2>1. overlapped[t] \in Nat /\ Cardinality(Counted(t)) \in Nat /\ seen[p] \in Int
    BY LoadNumbers DEF TypeOK, RequestTypes
  <2>2. /\ overlapped'[t] \in {overlapped[t], overlapped[t] + 1}
        /\ Cardinality(Counted(t)') \in Nat
        /\ Cardinality(Counted(t)') + overlapped'[t] >= Cardinality(Counted(t)) + overlapped[t]
    BY ReleaseIsCovered
  <2> QED BY <1>3, <1>4, <2>1, <2>2 DEF Covers
<1> QED BY <1>3, <1>4, <1>5

(* DecrementLoad with nothing to subtract: the slot is forgotten.           *)
LEMMA LoadStartDecrement ==
  ASSUME TypeOK, IndInv, LoadInv, NEW q \in Requests, StartDecrement(q)
  PROVE  LoadInv'
<1>1. phase[q] = "release" /\ ~Updating(q)
  BY DEF StartDecrement, Updating
<1>2. CASE Current(q) = NoSession \/ load[Current(q)] <= 0
  <2>1. /\ phase' = [phase EXCEPT ![q] = AfterRelease(q)]
        /\ slot' = [slot EXCEPT ![q] = NoSession]
        /\ Release(q)
        /\ UNCHANGED <<registry, load, seen, conn>>
    BY <1>2 DEF StartDecrement, Goto
  <2>5. SlotsAreHeld'
    BY <2>1 DEF LoadInv, SlotsAreHeld, Stream, TypeOK, RequestTypes
  <2>6. UpdatesAreCovered'
    <3>1. ASSUME NEW p \in Requests \ {q}, Updating(p), NEW t \in Sessions, t = Current(p),
                 load[t] + overlapped[t] > 0
          PROVE  load'[t] + overlapped'[t] > 0
      <4>1. overlapped'[t] \in {overlapped[t], overlapped[t] + 1}
        BY <1>1, <2>1, ReleaseIsCovered
      <4> QED BY <2>1, <3>1, <4>1, LoadNumbers
    <3>2. \A p \in Requests \ {q} : Updating(p) => Current(p) \in Sessions
      BY UpdatedSession
    <3>3. \A p \in Requests \ {q} : Updating(p) /\ load[Current(p)] + overlapped[Current(p)] > 0 =>
            load'[Current(p)] + overlapped'[Current(p)] > 0
      BY <3>1, <3>2
    <3> QED BY <1>1, <2>1, <3>3, ReleaseKeepsUpdates
  <2>7. FreshLoads'
    BY <2>1 DEF LoadInv, FreshLoads
  <2>8. SlotsAreFinite'
    BY <2>1, SlotIsForgotten
  <2>10. LoadIsCovered'
    <3>1. ASSUME NEW m \in Machines, NEW t \in Sessions, t = registry[m], t # NoSession
          PROVE  Covers(t, load[t])'
      <4>1. Covers(t, load[t])
        BY <3>1 DEF LoadInv, LoadIsCovered
      <4>2. load[t] \in Int /\ overlapped[t] \in Nat /\ Cardinality(Counted(t)) \in Nat
        BY LoadNumbers
      <4>3. /\ overlapped'[t] \in {overlapped[t], overlapped[t] + 1}
            /\ Cardinality(Counted(t)') \in Nat
            /\ slot[q] # t => Counted(t)' = Counted(t)
        BY <1>1, <2>1, ReleaseIsCovered
      <4>4. CASE slot[q] # t
        BY <2>1, <4>1, <4>2, <4>3, <4>4 DEF Covers
      <4>5. CASE slot[q] = t
        <5>1. Current(q) = t
          BY <3>1, <4>5 DEF LoadInv, SlotsAreHeld, IndInv, RegisteredAreLive, Current
        <5>2. load[t] <= 0
          BY <1>2, <3>1, <5>1
        <5> QED BY <2>1, <4>1, <4>2, <4>3, <5>2 DEF Covers
      <4> QED BY <4>4, <4>5
    <3> QED BY <2>1, <3>1 DEF LoadIsCovered, TypeOK, RegistryTypes
  <2> QED BY <2>5, <2>6, <2>7, <2>8, <2>10 DEF LoadInv
<1>3. CASE ~(Current(q) = NoSession \/ load[Current(q)] <= 0)
  <2>1. /\ phase' = [phase EXCEPT ![q] = "releasing"]
        /\ seen' = [seen EXCEPT ![q] = load[Current(q)]]
        /\ UNCHANGED <<registry, load, slot, conn, overlapped>>
    BY <1>3 DEF StartDecrement, Goto
  <2>2. \A p \in Requests : Updating(p)' <=> (Updating(p) \/ p = q)
    BY <1>1, <2>1 DEF Updating, TypeOK, RequestTypes
  <2>4. \A p \in Requests : Current(p)' = Current(p)
    BY <2>1 DEF Current
  <2>5. \A s \in Sessions : Counted(s)' = Counted(s)
    BY <1>1, <2>1 DEF Counted, TypeOK, RequestTypes
  <2>6. SlotsAreHeld'
    BY <2>1 DEF LoadInv, SlotsAreHeld, Holding, Stream, TypeOK, RequestTypes
  <2>7. UpdatesAreCovered'
    <3>1. PICK s \in Sessions : s = Current(q) /\ s # NoSession
      BY <1>3, CurrentType
    <3>2. Covers(s, load[s])
      BY <3>1 DEF LoadInv, LoadIsCovered, Current
    <3>3. load[s] > 0 /\ load[s] + overlapped[s] > 0
      <4>1. load[s] \in Int /\ overlapped[s] \in Nat
        BY LoadNumbers
      <4>2. ~(load[s] <= 0)
        BY <1>3, <3>1
      <4> QED BY <4>1, <4>2
    <3>4. \A p \in Requests \ {q} : seen'[p] = seen[p] /\ phase'[p] = phase[p]
      BY <2>1 DEF TypeOK, RequestTypes
    <3>5. seen'[q] = load[s] /\ phase'[q] = "releasing"
      BY <2>1, <3>1 DEF TypeOK, RequestTypes
    <3> SUFFICES ASSUME NEW p \in Requests, Updating(p)', NEW t \in Sessions, t = Current(p)
                 PROVE  /\ t # NoSession /\ Covers(t, seen[p])'
                        /\ IF phase'[p] = "counting" THEN slot[p] = t
                           ELSE seen'[p] > 0 /\ load[t] + overlapped[t] > 0
      BY <2>1, <2>2, <2>4, <3>1, UpdatedSession DEF UpdatesAreCovered
    <3>6. CASE p = q
      <4>1. Covers(t, seen[p])'
        BY <3>1, <2>1, <2>5, <3>2, <3>5, <3>6 DEF Covers
      <4> QED BY <3>1, <3>3, <3>5, <3>6, <4>1
    <3>7. CASE p # q
      <4>1. Updating(p)
        BY <2>2, <3>7
      <4>2. Covers(t, seen[p])
        BY <4>1 DEF LoadInv, UpdatesAreCovered
      <4>3. Covers(t, seen[p])'
        BY <2>1, <2>5, <3>4, <3>7, <4>2 DEF Covers
      <4> QED BY <3>4, <3>7, <4>1, <4>3 DEF LoadInv, UpdatesAreCovered
    <3> QED BY <3>6, <3>7
  <2>8. FreshLoads' /\ SlotsAreFinite'
    BY <2>1 DEF LoadInv, FreshLoads, SlotsAreFinite
  <2>9. LoadIsCovered'
    BY <2>1, <2>5 DEF LoadInv, LoadIsCovered, Covers, TypeOK, RegistryTypes
  <2> QED BY <2>6, <2>7, <2>8, <2>9 DEF LoadInv
<1> QED BY <1>2, <1>3

(* DecrementLoad takes one from the registered session, which counted the   *)
(* handler itself or, if it is a newer one, another.                        *)
LEMMA LoadDecrement ==
  ASSUME TypeOK, IndInv, LoadInv, NEW q \in Requests, DecrementLoad(q)
  PROVE  LoadInv'
<1>1. Updating(q) /\ phase[q] = "releasing"
  BY DEF DecrementLoad, Updating
<1>0. PICK s \in Sessions : s = Current(q)
  BY <1>1, UpdatedSession
<1>2. /\ s # NoSession /\ conn[s] \notin {"none", "accepted"}
      /\ Covers(s, seen[q]) /\ Covers(s, load[s])
      /\ seen[q] > 0 /\ load[s] + overlapped[s] > 0
  <2>1. s # NoSession /\ Covers(s, seen[q]) /\ seen[q] > 0 /\ load[s] + overlapped[s] > 0
    BY <1>0, <1>1 DEF LoadInv, UpdatesAreCovered
  <2>2. Covers(s, load[s])
    BY <1>0, <2>1 DEF LoadInv, LoadIsCovered, Current
  <2> QED BY <1>0, <1>1, <2>1, <2>2, UpdatedSession
<1>3. PICK old \in {seen[q], load[s]} : load' = [load EXCEPT ![s] = old - 1]
  BY <1>0 DEF DecrementLoad
<1>4. /\ phase' = [phase EXCEPT ![q] = AfterRelease(q)]
      /\ seen' = [seen EXCEPT ![q] = 0]
      /\ slot' = [slot EXCEPT ![q] = NoSession]
      /\ Release(q)
      /\ UNCHANGED <<registry, conn>>
  BY DEF DecrementLoad, Goto
<1>n. /\ load[s] \in Int /\ overlapped[s] \in Nat /\ Cardinality(Counted(s)) \in Nat
      /\ seen[q] \in Int
  BY LoadNumbers DEF TypeOK, RequestTypes
<1>5. \A t \in Sessions :
        /\ overlapped'[t] \in {overlapped[t], overlapped[t] + 1}
        /\ Cardinality(Counted(t)') \in {Cardinality(Counted(t)), Cardinality(Counted(t)) - 1}
        /\ Cardinality(Counted(t)') \in Nat
        /\ slot[q] # t => Counted(t)' = Counted(t)
  BY <1>1, <1>4, ReleaseIsCovered
<1>6. \A t \in Sessions \ {s} : load'[t] = load[t]
  BY <1>3 DEF TypeOK, RegistryTypes
<1>7. load'[s] = old - 1
  BY <1>3 DEF TypeOK, RegistryTypes
<1>8. old \in Int /\ old + overlapped[s] > 0 /\ old <= Cardinality(Counted(s)) + overlapped[s]
  BY <1>2, <1>3, <1>n DEF Covers
<1>10. SlotsAreHeld'
  BY <1>4 DEF LoadInv, SlotsAreHeld, Stream, TypeOK, RequestTypes
<1>11. UpdatesAreCovered'
  <2>1. ASSUME NEW p \in Requests \ {q}, Updating(p), NEW t \in Sessions, t = Current(p),
               load[t] + overlapped[t] > 0
        PROVE  load'[t] + overlapped'[t] > 0
    <3>1. CASE t = s
      <4>1. overlapped'[s] = overlapped[s] + 1
        BY <1>0, <1>1, <1>4, <2>1, <3>1, ReleaseIsCovered
      <4> QED BY <1>7, <1>8, <1>n, <3>1, <4>1
    <3>2. CASE t # s
      BY <1>5, <1>6, <2>1, <3>2, LoadNumbers
    <3> QED BY <3>1, <3>2
  <2>2. \A p \in Requests \ {q} : Updating(p) => Current(p) \in Sessions
    BY UpdatedSession
  <2>3. \A p \in Requests \ {q} : Updating(p) /\ load[Current(p)] + overlapped[Current(p)] > 0 =>
          load'[Current(p)] + overlapped'[Current(p)] > 0
    BY <2>1, <2>2
  <2>4. \A p \in Requests \ {q} : seen'[p] = seen[p]
    BY <1>4 DEF TypeOK, RequestTypes
  <2> QED BY <1>1, <1>4, <2>3, <2>4, ReleaseKeepsUpdates
<1>12. FreshLoads'
  BY <1>2, <1>4, <1>6 DEF LoadInv, FreshLoads
<1>13. SlotsAreFinite'
  BY <1>4, SlotIsForgotten
<1>14. LoadIsCovered'
  <2>1. ASSUME NEW m \in Machines, NEW t \in Sessions, t = registry[m], t # NoSession
        PROVE  Covers(t, load[t])'
    <3>1. Covers(t, load[t])
      BY <2>1 DEF LoadInv, LoadIsCovered
    <3>2. CASE t = s
      BY <1>5, <1>7, <1>8, <1>n, <3>2 DEF Covers
    <3>3. CASE t # s
      <4>1. slot[q] # t
        BY <1>0, <2>1, <3>3 DEF LoadInv, SlotsAreHeld, IndInv, RegisteredAreLive, Current
      <4> QED BY <1>5, <1>6, <3>1, <3>3, <4>1, LoadNumbers DEF Covers
    <3> QED BY <3>2, <3>3
  <2> QED BY <1>4, <2>1 DEF LoadIsCovered, TypeOK, RegistryTypes
<1> QED BY <1>10, <1>11, <1>12, <1>13, <1>14 DEF LoadInv
------------------------------------------------------------------------------
(* Every step keeps it.                                                     *)

(* The WebSocket handler: a session enters the registry with no load.       *)
LEMMA LoadConnection ==
  ASSUME TypeOK, IndInv, LoadInv, NEW s \in Sessions, Connection(s) PROVE LoadInv'
<1>1. CASE Accept(s) \/ HandshakeFails(s) \/ Drop(s) \/ Stall(s) \/ ReadLoopEnds(s)
  <2>1. UNCHANGED <<registry, load, slot, seen, phase, overlapped>>
    BY <1>1 DEF Accept, HandshakeFails, Drop, Stall, ReadLoopEnds
  <2>2. \A t \in Sessions : conn'[t] \in {"none", "accepted"} => conn[t] \in {"none", "accepted"}
    BY <1>1 DEF Accept, HandshakeFails, Drop, Stall, ReadLoopEnds, TypeOK, RegistryTypes
  <2> QED BY <2>1, <2>2, OtherFrame
<1>2. CASE Register(s)
  <2>1. WriteLocked /\ UNCHANGED <<load, slot, seen, phase, overlapped>>
    BY <1>2 DEF Register
  <2>2. \A t \in Sessions : conn'[t] \in {"none", "accepted"} => conn[t] \in {"none", "accepted"}
    BY <1>2 DEF Register, TypeOK, RegistryTypes
  <2>3. registry' = [registry EXCEPT ![MachineOf[s]] = s] /\ conn[s] = "accepted"
    BY <1>2 DEF Register
  <2>4. \A m \in Machines :
          \/ registry'[m] \in {registry[m], NoSession}
          \/ registry'[m] \in Sessions /\ conn[registry'[m]] = "accepted"
    BY <2>3 DEF TypeOK, RegistryTypes
  <2> QED BY <2>1, <2>2, <2>4, RegistryFrame
<1>3. CASE Disconnect(s)
  <2>1. WriteLocked /\ UNCHANGED <<load, slot, seen, phase, overlapped>>
    BY <1>3 DEF Disconnect, Unregister
  <2>2. \A t \in Sessions : conn'[t] \in {"none", "accepted"} => conn[t] \in {"none", "accepted"}
    BY <1>3 DEF Disconnect, TypeOK, RegistryTypes
  <2>3. \A m \in Machines : registry'[m] \in {registry[m], NoSession}
    BY <1>3 DEF Disconnect, Unregister, TypeOK, RegistryTypes
  <2> QED BY <2>1, <2>2, <2>3, RegistryFrame
<1> QED BY <1>1, <1>2, <1>3 DEF Connection

(* The read loop never touches a load.                                      *)
LEMMA LoadReadLoop ==
  ASSUME TypeOK, LoadInv, NEW s \in Sessions, ReadLoop(s) PROVE LoadInv'
<1>1. UNCHANGED <<registry, load, slot, seen, phase, conn, overlapped>>
  <2>1. CASE RelayRead(s) \/ RelayLookup(s) \/ RelaySend(s)
    BY <2>1 DEF RelayRead, RelayLookup, RelaySend
  <2>2. CASE RelayFinish(s) \/ RelayHealth(s)
    BY <2>2 DEF RelayFinish, RelayHealth
  <2>3. CASE AckHangs(s) \/ AckReturns(s)
    BY <2>3 DEF AckHangs, AckReturns
  <2> QED BY <2>1, <2>2, <2>3 DEF ReadLoop, Serving
<1> QED BY <1>1, OtherFrame

(* A chat handler keeps its slot from IncrementLoad to DecrementLoad.       *)
LEMMA LoadHandler ==
  ASSUME TypeOK, IndInv, LoadInv, NEW q \in Requests, Handler(q) PROVE LoadInv'
<1> USE DEF TypeOK, RequestTypes, Goto
<1>0. slot[q] # NoSession => phase[q] \in Holding /\ (phase[q] \in {"register", "leave"} => ~Stream(q))
  BY DEF LoadInv, SlotsAreHeld
<1>1. CASE Admit(q)
  <2>1. phase[q] = "idle" /\ phase'[q] \in {"register", "count", "done"}
    BY <1>1 DEF Admit, FirstPhase
  <2>2. /\ UNCHANGED <<registry, load, slot, seen, conn, overlapped>>
        /\ \A p \in Requests \ {q} : phase'[p] = phase[p]
    BY <1>1 DEF Admit
  <2> QED BY <1>0, <2>1, <2>2, HandlerFrame DEF Updating, Holding
<1>2. CASE RegisterChunkChannel(q)
  <2>1. /\ phase[q] = "register"
        /\ phase'[q] \in IF Stream(q) THEN {"panicked", "count"} ELSE {"release", "send"}
    BY <1>2 DEF RegisterChunkChannel
  <2>2. /\ UNCHANGED <<registry, load, slot, seen, conn, overlapped>>
        /\ \A p \in Requests \ {q} : phase'[p] = phase[p]
    BY <1>2 DEF RegisterChunkChannel
  <2> QED BY <1>0, <2>1, <2>2, HandlerFrame DEF Updating, Holding
<1>3. CASE SendRequest(q)
  <2>1. /\ phase[q] = "send"
        /\ phase'[q] \in IF Stream(q) THEN {"wait", "release"} ELSE {"wait", "leave"}
    BY <1>3 DEF SendRequest
  <2>2. /\ UNCHANGED <<registry, load, slot, seen, conn, overlapped>>
        /\ \A p \in Requests \ {q} : phase'[p] = phase[p]
    BY <1>3 DEF SendRequest
  <2> QED BY <1>0, <2>1, <2>2, HandlerFrame DEF Updating, Holding
<1>4. CASE Receive(q) \/ SeeClosed(q) \/ GiveUp(q) \/ CancelReturns(q)
  <2>1. /\ phase[q] \in {"wait", "cancel"}
        /\ phase'[q] \in IF Stream(q) THEN {"wait", "cancel", "release"} ELSE {"wait", "cancel", "leave"}
    <3>1. CASE Receive(q)
      BY <3>1 DEF Receive, EndWait
    <3>2. CASE SeeClosed(q)
      BY <3>2 DEF SeeClosed, EndWait
    <3>3. CASE GiveUp(q)
      BY <3>3 DEF GiveUp, EndWait
    <3>4. CASE CancelReturns(q)
      BY <3>4 DEF CancelReturns, EndWait
    <3> QED BY <1>4, <3>1, <3>2, <3>3, <3>4
  <2>2. /\ UNCHANGED <<registry, load, slot, seen, conn, overlapped>>
        /\ \A p \in Requests \ {q} : phase'[p] = phase[p]
    BY <1>4 DEF Receive, SeeClosed, GiveUp, CancelReturns, EndWait
  <2> QED BY <1>0, <2>1, <2>2, HandlerFrame DEF Updating, Holding
<1>5. CASE UnregisterChunkChannel(q)
  <2>1. phase[q] = "leave" /\ phase'[q] = IF Stream(q) THEN "done" ELSE "release"
    BY <1>5 DEF UnregisterChunkChannel, AfterLeave
  <2>2. /\ UNCHANGED <<registry, load, slot, seen, conn, overlapped>>
        /\ \A p \in Requests \ {q} : phase'[p] = phase[p]
    BY <1>5 DEF UnregisterChunkChannel
  <2> QED BY <1>0, <2>1, <2>2, HandlerFrame DEF Updating, Holding
<1>6. CASE Retry(q)
  <2>1. phase[q] = "retry" /\ phase'[q] \in {"count", "done"}
    BY <1>6 DEF Retry
  <2>2. /\ UNCHANGED <<registry, load, slot, seen, conn, overlapped>>
        /\ \A p \in Requests \ {q} : phase'[p] = phase[p]
    BY <1>6 DEF Retry
  <2> QED BY <1>0, <2>1, <2>2, HandlerFrame DEF Updating, Holding
<1> QED BY <1>1, <1>2, <1>3, <1>4, <1>5, <1>6, LoadCheckLoad, LoadIncrement,
           LoadStartDecrement, LoadDecrement DEF Handler

(* Administration only takes sessions out of the registry.                  *)
LEMMA LoadAdministration ==
  ASSUME TypeOK, LoadInv, NEW m \in Machines, Administration(m) PROVE LoadInv'
<1>1. CASE GetSessionToCancel(m) \/ CancelAllRequests(m) \/ RevokeKey(m)
  <2>1. UNCHANGED <<registry, load, slot, seen, phase, conn, overlapped>>
    BY <1>1 DEF GetSessionToCancel, CancelAllRequests, RevokeKey
  <2> QED BY <2>1, OtherFrame
<1>2. CASE Evict(m) \/ UnregisterRevoked(m)
  <2>1. WriteLocked /\ UNCHANGED <<load, slot, seen, phase, conn, overlapped>>
    BY <1>2 DEF Evict, UnregisterRevoked, Unregister
  <2>2. \A n \in Machines : registry'[n] \in {registry[n], NoSession}
    BY <1>2 DEF Evict, UnregisterRevoked, Unregister, TypeOK, RegistryTypes
  <2> QED BY <2>1, <2>2, RegistryFrame
<1> QED BY <1>1, <1>2 DEF Administration

(* Every operation of the coordinator keeps the loads owned.                *)
LEMMA LoadNext ==
  TypeOK /\ IndInv /\ LoadInv /\ [Next]_vars => LoadInv'
<1> SUFFICES ASSUME TypeOK, IndInv, LoadInv, [Next]_vars PROVE LoadInv'
  OBVIOUS
<1>1. ASSUME NEW id \in Ids, Agent(id) PROVE LoadInv'
  <2>1. UNCHANGED <<registry, load, slot, seen, phase, conn, overlapped>>
    BY <1>1 DEF Agent, AgentQuits, AgentSend
  <2> QED BY <2>1, OtherFrame
<1>2. CASE UNCHANGED vars
  BY <1>2, OtherFrame DEF vars
<1>3. CASE Next
  BY <1>1, <1>3, LoadConnection, LoadReadLoop, LoadHandler, LoadAdministration DEF Next
<1> QED BY <1>2, <1>3

(* No handler holds a slot when the coordinator starts.                     *)
LEMMA LoadInit == Init => LoadInv
<1> SUFFICES ASSUME Init PROVE LoadInv
  OBVIOUS
<1>1. SlotsAreHeld /\ UpdatesAreCovered /\ FreshLoads /\ LoadIsCovered
  BY DEF Init, SlotsAreHeld, UpdatesAreCovered, Updating, FreshLoads, LoadIsCovered
<1>2. {q \in Requests : slot[q] # NoSession} = {}
  BY DEF Init
<1> QED BY <1>1, <1>2, FS_EmptySet DEF LoadInv, SlotsAreFinite

(* Every handler counted in a session holds a slot of it.                   *)
LEMMA CountedHold == ASSUME TypeOK, LoadInv PROVE LeaksAreOverlaps
<1> SUFFICES ASSUME NEW m \in Machines, NEW s \in Sessions, s = registry[m], s # NoSession
             PROVE  /\ -overlapped[s] <= load[s]
                    /\ load[s] <= Cardinality(Holders(s)) + overlapped[s]
  BY DEF LeaksAreOverlaps, TypeOK, RegistryTypes
<1>1. Counted(s) \subseteq Holders(s) /\ Holders(s) \subseteq {q \in Requests : slot[q] # NoSession}
  BY DEF Counted, Holders, LoadInv, SlotsAreHeld, Holding
<1>2. IsFiniteSet(Holders(s))
  BY <1>1, FS_Subset DEF LoadInv, SlotsAreFinite
<1>3. Cardinality(Counted(s)) <= Cardinality(Holders(s))
  BY <1>1, <1>2, FS_Subset
<1>4. Cardinality(Counted(s)) \in Nat /\ Cardinality(Holders(s)) \in Nat
  BY <1>2, CountedIsFinite, FS_CardinalityType
<1>5. Covers(s, load[s]) /\ load[s] \in Int /\ overlapped[s] \in Nat
  BY DEF LoadInv, LoadIsCovered, TypeOK, RegistryTypes, ChannelTypes
<1> QED BY <1>3, <1>4, <1>5 DEF Covers

(* Whatever reconnects, panics, late releases and failed attempts do, the   *)
(* load of the registered session is the number of the handlers that hold a *)
(* slot of it, give or take the releases that overlapped another update: for*)
(* any number of handlers, and although load updates only share the lock.   *)
THEOREM LoadsStayOwned == Spec => []LeaksAreOverlaps
<1>1. Init => TypeOK /\ IndInv /\ LoadInv
  BY TypeInit, IndInit, LoadInit
<1>2. TypeOK /\ IndInv /\ LoadInv /\ [Next]_vars => (TypeOK /\ IndInv /\ LoadInv)'
  BY TypeNext, IndNext, LoadNext
<1>3. TypeOK /\ LoadInv => LeaksAreOverlaps
  BY CountedHold
<1> QED BY <1>1, <1>2, <1>3, PTL DEF Spec
==============================================================================
