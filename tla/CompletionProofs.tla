-------------------------- MODULE CompletionProofs ---------------------------
(***************************************************************************)
(* Relay implements Completion, for every number of machines, connections,  *)
(* requests, attempts and messages and whatever the bounds are: to its      *)
(* client the relay plane is one question at a time over a medium that      *)
(* loses messages and does nothing worse.                                   *)
(***************************************************************************)
EXTENDS HandlerProofs

USE TopologyAssumption, BoundsAssumption, NoSessionAssumption
    DEF sessVars, reqVars, chanVars, relayVars, agentVars, admVars, ghosts
------------------------------------------------------------------------------
(* Channels hold what is addressed to them.                                 *)

(* Steps other than those of read loops and of two of the handlers'.        *)
LEMMA ChannelsRest ==
  ASSUME [Next]_vars,
         \A s \in Sessions : ~RelaySend(s),
         \A q \in Requests : ~Receive(q) /\ ~UnregisterChunkChannel(q)
  PROVE  buf' = buf
<1>1. \A s \in Sessions : Connection(s) => buf' = buf
  BY DEF Connection, Accept, HandshakeFails, Register, Drop, Stall, ReadLoopEnds, Disconnect
<1>2. \A s \in Sessions : ReadLoop(s) => buf' = buf
  BY DEF ReadLoop, Serving, RelayRead, RelayLookup, RelayFinish, RelayHealth, AckHangs, AckReturns
<1>3. \A q \in Requests : Handler(q) => buf' = buf
  BY DEF Handler, Admit, RegisterChunkChannel, CheckLoad, IncrementLoad, SendRequest, SeeClosed,
         GiveUp, CancelReturns, StartDecrement, DecrementLoad, Retry
<1>4. \A m \in Machines : Administration(m) => buf' = buf
  BY DEF Administration, Evict, GetSessionToCancel, CancelAllRequests, RevokeKey, UnregisterRevoked
<1>5. \A id \in Ids : Agent(id) => buf' = buf
  BY DEF Agent, AgentQuits, AgentSend
<1> QED BY <1>1, <1>2, <1>3, <1>4, <1>5 DEF Next, vars

(* What is left of a channel, or added at its end.                          *)
LEMMA ChannelElements ==
  ASSUME NEW channel \in Seq(Messages)
  PROVE  /\ channel # <<>> => Tail(channel) \in Seq(Messages) /\ Elements(Tail(channel)) \subseteq Elements(channel)
         /\ \A msg \in Messages : Elements(Append(channel, msg)) = Elements(channel) \cup {msg}
         /\ Elements(<<>>) = {} /\ Elements(channel) \subseteq Messages
         /\ channel # <<>> => Head(channel) \in Elements(channel)
<1>1. ASSUME channel # <<>>
      PROVE  Tail(channel) \in Seq(Messages) /\ Elements(Tail(channel)) \subseteq Elements(channel)
  <2>1. \A i \in DOMAIN Tail(channel) : i + 1 \in DOMAIN channel /\ Tail(channel)[i] = channel[i + 1]
    BY <1>1
  <2> QED BY <1>1, <2>1 DEF Elements
<1>2. ASSUME NEW msg \in Messages
      PROVE  Elements(Append(channel, msg)) = Elements(channel) \cup {msg}
  <2> DEFINE longer == Append(channel, msg)
             last == Len(channel) + 1
  <2>1. /\ DOMAIN longer = DOMAIN channel \cup {last} /\ longer[last] = msg
        /\ \A i \in DOMAIN channel : longer[i] = channel[i]
    OBVIOUS
  <2> HIDE DEF longer, last
  <2>2. Elements(longer) = Elements(channel) \cup {msg}
    BY <2>1 DEF Elements
  <2> QED BY <2>2 DEF longer
<1>3. Elements(<<>>) = {} /\ Elements(channel) \subseteq Messages
  BY DEF Elements
<1>4. channel # <<>> => Head(channel) \in Elements(channel)
  BY HeadIsFirst DEF Elements
<1> QED BY <1>1, <1>2, <1>3, <1>4

(* ChannelsKeepIds in terms of elements.                                    *)
LEMMA KeepIdsMeans ==
  /\ ChannelsKeepIds <=> \A id \in Ids : \A msg \in Elements(buf[id]) : msg.id = id
  /\ ChannelsKeepIds' <=> \A id \in Ids : \A msg \in Elements(buf'[id]) : msg.id = id
BY DEF ChannelsKeepIds, Elements

LEMMA ChannelsInit == Init => ChannelsKeepIds
BY DEF Init, ChannelsKeepIds

LEMMA ChannelsNext == TypeOK /\ ChannelsKeepIds /\ [Next]_vars => ChannelsKeepIds'
<1> SUFFICES ASSUME TypeOK, [Next]_vars,
                    \A id \in Ids : \A msg \in Elements(buf[id]) : msg.id = id
             PROVE  \A id \in Ids : \A msg \in Elements(buf'[id]) : msg.id = id
  BY KeepIdsMeans
<1>0. /\ buf \in [Ids -> Seq(Messages)]
      /\ \A id \in Ids : buf[id] \in Seq(Messages)
      /\ \A q \in Requests : Id(q) \in Ids
  BY IdType DEF TypeOK, ChannelTypes
<1>1. ASSUME NEW s \in Sessions, RelaySend(s)
      PROVE  \A id \in Ids : \A msg \in Elements(buf'[id]) : msg.id = id
  <2>1. relay[s].msg \in Messages /\ relay[s].msg.id \in Ids
    BY <1>1, RelayType DEF RelaySend, At, Acking
  <2>2. buf' = buf \/ buf' = [buf EXCEPT ![relay[s].msg.id] = Append(@, relay[s].msg)]
    BY <1>1 DEF RelaySend
  <2>3. Elements(Append(buf[relay[s].msg.id], relay[s].msg)) = Elements(buf[relay[s].msg.id]) \cup {relay[s].msg}
    BY <1>0, <2>1, ChannelElements
  <2>4. \A id \in Ids : \/ buf'[id] = buf[id]
                        \/ id = relay[s].msg.id /\ buf'[id] = Append(buf[id], relay[s].msg)
    BY <1>0, <2>1, <2>2
  <2> HIDE DEF TypeOK
  <2> QED BY <2>3, <2>4
<1>2. ASSUME NEW q \in Requests, Receive(q)
      PROVE  \A id \in Ids : \A msg \in Elements(buf'[id]) : msg.id = id
  BY <1>0, <1>2, ChannelElements DEF Receive
<1>3. ASSUME NEW q \in Requests, UnregisterChunkChannel(q)
      PROVE  \A id \in Ids : \A msg \in Elements(buf'[id]) : msg.id = id
  <2>1. Elements(<<>>) = {}
    BY DEF Elements
  <2> QED BY <1>0, <1>3, <2>1 DEF UnregisterChunkChannel
<1> QED BY <1>1, <1>2, <1>3, ChannelsRest
------------------------------------------------------------------------------
(* The medium.                                                              *)

(* Where a message can be that is under way.                                *)
LEMMA Carries ==
  /\ \A s \in Sessions : Elements(inbox[s]) \subseteq UnderWay
  /\ \A s \in Sessions : At(s, "lock") \/ At(s, "send") => relay[s].msg \in UnderWay
  /\ \A id \in Ids : Elements(buf[id]) \subseteq UnderWay
BY DEF UnderWay

LEMMA CarriesNow ==
  ASSUME NEW msg \in UnderWay'
  PROVE  \/ \E s \in Sessions : msg \in Elements(inbox'[s])
         \/ \E s \in Sessions : At(s, "lock")' /\ msg = relay'[s].msg
         \/ \E s \in Sessions : At(s, "send")' /\ msg = relay'[s].msg
         \/ \E id \in Ids : msg \in Elements(buf'[id])
BY DEF UnderWay, At

LEMMA MediumRests ==
  ASSUME UNCHANGED <<inbox, relay, buf>> PROVE UNCHANGED UnderWay
BY DEF UnderWay, At

LEMMA LossyMedium ==
  ASSUME \A s \in Sessions : Elements(inbox'[s]) \subseteq UnderWay,
         \A s \in Sessions : At(s, "lock")' \/ At(s, "send")' => relay'[s].msg \in UnderWay,
         \A id \in Ids : Elements(buf'[id]) \subseteq UnderWay
  PROVE  Asked!Lossy
BY CarriesNow DEF Asked!Lossy

(* Connections: their end loses what is on them.                            *)
LEMMA ConnectionLoses ==
  ASSUME TypeOK, NEW s \in Sessions, Connection(s)
  PROVE  Asked!Lossy /\ UNCHANGED <<phase, result, recv, try, sent, Answering>>
<1>1. CASE Accept(s)
  <2>1. UNCHANGED <<phase, result, recv, try, sent, inbox, relay, buf>>
    BY <1>1 DEF Accept
  <2>2. PICK survivors \in {{}} \cup {Lost(MachineOf[s]) : e \in Events \cap {"survive"}} :
          worker' = [id \in Ids |-> IF worker[id] \in survivors THEN s ELSE worker[id]]
    BY <1>1 DEF Accept
  <2>3. NoSession \notin survivors
    BY <2>2 DEF Lost
  <2>4. Answering' = Answering
    BY <2>2, <2>3 DEF Answering
  <2> QED BY <2>1, <2>4, MediumRests DEF Asked!Lossy
<1>2. CASE ReadLoopEnds(s)
  <2>1. /\ inbox' = [inbox EXCEPT ![s] = <<>>]
        /\ UNCHANGED <<phase, result, recv, try, sent, worker, relay, buf>>
    BY <1>2 DEF ReadLoopEnds
  <2>2. Elements(<<>>) = {} /\ \A t \in Sessions : inbox'[t] \in {<<>>, inbox[t]}
    BY <2>1 DEF Elements, TypeOK, RelayTypes
  <2>3. Asked!Lossy
    BY <2>1, <2>2, Carries, LossyMedium DEF At
  <2> QED BY <2>1, <2>3 DEF Answering
<1>3. CASE HandshakeFails(s) \/ Register(s) \/ Drop(s) \/ Stall(s) \/ Disconnect(s)
  <2>1. UNCHANGED <<phase, result, recv, try, sent, worker, inbox, relay, buf>>
    BY <1>3 DEF HandshakeFails, Register, Drop, Stall, Disconnect
  <2> QED BY <2>1, MediumRests DEF Asked!Lossy, Answering
<1> QED BY <1>1, <1>2, <1>3 DEF Connection

LEMMA AdministrationLoses ==
  ASSUME NEW m \in Machines, Administration(m)
  PROVE  Asked!Lossy /\ UNCHANGED <<phase, result, recv, try, sent, Answering>>
<1>1. UNCHANGED <<phase, result, recv, try, sent, worker, inbox, relay, buf>>
  BY DEF Administration, Evict, GetSessionToCancel, CancelAllRequests, RevokeKey, UnregisterRevoked
<1> QED BY <1>1, MediumRests DEF Asked!Lossy, Answering

(* Read loops: what they take from a connection they put into a channel, or *)
(* lose.                                                                    *)
LEMMA ReadLoopLoses ==
  ASSUME TypeOK, NEW s \in Sessions, ReadLoop(s)
  PROVE  Asked!Lossy /\ UNCHANGED <<phase, result, recv, try, sent, Answering>>
<1>0. /\ UNCHANGED <<phase, result, recv, try, sent, worker>>
      /\ relay' = [relay EXCEPT ![s] = relay'[s]]
  BY DEF ReadLoop, Serving, RelayRead, RelayLookup, RelaySend, RelayFinish, RelayHealth, AckHangs,
         AckReturns, SetRelay, TypeOK, RelayTypes
<1>1. SUFFICES Asked!Lossy
  BY <1>0 DEF Answering
<1>2. /\ inbox \in [Sessions -> Seq(Messages)] /\ buf \in [Ids -> Seq(Messages)]
      /\ \A t \in Sessions \ {s} : relay'[t] = relay[t]
  BY <1>0 DEF TypeOK, RelayTypes, ChannelTypes
<1>3. ASSUME At(s, "lock")' \/ At(s, "send")' => relay'[s].msg \in UnderWay,
             \A t \in Sessions : Elements(inbox'[t]) \subseteq UnderWay,
             \A id \in Ids : Elements(buf'[id]) \subseteq UnderWay
      PROVE  Asked!Lossy
  BY <1>2, <1>3, Carries, LossyMedium DEF At
<1>4. /\ inbox' = inbox => \A t \in Sessions : Elements(inbox'[t]) \subseteq UnderWay
      /\ buf' = buf => \A id \in Ids : Elements(buf'[id]) \subseteq UnderWay
  BY Carries
<1>5. CASE RelayRead(s)
  <2>1. /\ inbox[s] # <<>> /\ inbox' = [inbox EXCEPT ![s] = Tail(@)] /\ buf' = buf
        /\ At(s, "lock")' \/ At(s, "send")' => relay'[s].msg = Head(inbox[s])
    BY <1>5 DEF RelayRead, SetRelay, TypeOK, RelayTypes, At, Afterwards
  <2>2. Elements(Tail(inbox[s])) \subseteq UnderWay /\ Head(inbox[s]) \in UnderWay
    BY <1>2, <2>1, ChannelElements, Carries
  <2>3. \A t \in Sessions : inbox'[t] \in {inbox[t], Tail(inbox[s])}
    BY <1>2, <2>1
  <2> QED BY <1>3, <1>4, <2>1, <2>2, <2>3, Carries
<1>6. CASE RelayLookup(s)
  <2>1. /\ At(s, "lock") /\ inbox' = inbox /\ buf' = buf
        /\ At(s, "lock")' \/ At(s, "send")' => relay'[s].msg = relay[s].msg
    BY <1>6 DEF RelayLookup, SetRelay, TypeOK, RelayTypes, At, Afterwards
  <2> QED BY <1>3, <1>4, <2>1, Carries
<1>7. CASE RelaySend(s)
  <2>1. relay[s].msg \in Messages /\ relay[s].msg.id \in Ids /\ relay[s].msg \in UnderWay
    BY <1>7, RelayType, Carries DEF RelaySend, At, Acking
  <2>2. /\ inbox' = inbox /\ ~At(s, "lock")' /\ ~At(s, "send")'
        /\ buf' = buf \/ buf' = [buf EXCEPT ![relay[s].msg.id] = Append(@, relay[s].msg)]
    BY <1>7 DEF RelaySend, SetRelay, TypeOK, RelayTypes, At
  <2>3. Elements(Append(buf[relay[s].msg.id], relay[s].msg)) \subseteq UnderWay
    BY <1>2, <2>1, ChannelElements, Carries
  <2>4. \A id \in Ids : buf'[id] \in {buf[id], Append(buf[relay[s].msg.id], relay[s].msg)}
    BY <1>2, <2>1, <2>2
  <2> QED BY <1>3, <1>4, <2>2, <2>3, <2>4, Carries
<1>8. CASE RelayFinish(s) \/ RelayHealth(s) \/ AckHangs(s) \/ AckReturns(s)
  <2>1. inbox' = inbox /\ buf' = buf /\ ~At(s, "lock")' /\ ~At(s, "send")'
    BY <1>8 DEF RelayFinish, RelayHealth, AckHangs, AckReturns, SetRelay, TypeOK, RelayTypes, At,
                Afterwards, Acking
  <2> QED BY <1>3, <1>4, <2>1
<1> QED BY <1>5, <1>6, <1>7, <1>8 DEF ReadLoop, Serving
------------------------------------------------------------------------------
(* What the client sees.                                                    *)

LEMMA ViewRests ==
  ASSUME UNCHANGED <<phase, result, recv>> PROVE UNCHANGED <<Stages, Outcomes, Showns>>
BY DEF Stages, Outcomes, Showns

(* Steps that no client sees.                                               *)
LEMMA Loses ==
  ASSUME Asked!Lossy, UNCHANGED <<phase, result, recv, try, sent, Answering>>
  PROVE  Asked!Next
BY ViewRests DEF Asked!Lose, Asked!Next

(* An agent says something, says the last word, or falls silent.            *)
LEMMA AgentRefines ==
  ASSUME TypeOK, NEW id \in Ids, Agent(id)
  PROVE  Asked!Next
<1>0. worker \in [Ids -> Sessions \cup {NoSession}] /\ inbox \in [Sessions -> Seq(Messages)]
      /\ sent \in [Ids -> Nat]
  BY DEF TypeOK, RelayTypes
<1>1. /\ id \in Asked!Ids /\ id \in Answering
      /\ UNCHANGED <<phase, result, recv, try, relay, buf, Stages, Outcomes, Showns>>
  <2>1. worker[id] # NoSession /\ UNCHANGED <<phase, result, recv, try, relay, buf>>
    BY DEF Agent, AgentQuits, AgentSend
  <2> QED BY <2>1, ViewRests DEF Answering, Asked!Ids, Ids
<1>2. worker' = [worker EXCEPT ![id] = NoSession] => Answering' = Answering \ {id}
  BY <1>0 DEF Answering
<1>3. CASE AgentQuits(id)
  <2>1. Asked!FallSilent(id)
    BY <1>1, <1>2, <1>3, MediumRests DEF AgentQuits, Asked!FallSilent
  <2> QED BY <1>1, <2>1 DEF Asked!Agent, Asked!Next
<1>4. ASSUME NEW kind \in Kinds, AgentSend(id, kind) PROVE Asked!Next
  <2> DEFINE msg == [id |-> id, kind |-> kind, n |-> sent[id] + 1]
             s == worker[id]
  <2>1. s \in Sessions /\ msg \in Messages
    BY <1>0, <1>4 DEF AgentSend, Messages
  <2>2. /\ inbox' = [inbox EXCEPT ![s] = Append(@, msg)]
        /\ sent' = [sent EXCEPT ![id] = IF kind = "chunk" THEN @ + 1 ELSE 0]
        /\ worker' = IF kind = "chunk" THEN worker ELSE [worker EXCEPT ![id] = NoSession]
        /\ kind = "chunk" => Stream(id[1])
    BY <1>4 DEF AgentSend
  <2> HIDE DEF msg, s
  <2>3. Elements(inbox'[s]) = Elements(inbox[s]) \cup {msg}
    BY <1>0, <2>1, <2>2, ChannelElements
  <2>4. \A t \in Sessions \ {s} : inbox'[t] = inbox[t]
    BY <1>0, <2>2
  <2>5. UnderWay' = UnderWay \cup {msg}
    <3>1. ASSUME NEW m \in UnderWay' PROVE m \in UnderWay \cup {msg}
      BY <1>1, <2>3, <2>4, <3>1, CarriesNow, Carries DEF At
    <3>2. ASSUME NEW m \in UnderWay \cup {msg} PROVE m \in UnderWay'
      BY <1>1, <2>1, <2>3, <2>4, <3>2 DEF UnderWay, At
    <3> QED BY <3>1, <3>2
  <2>6. CASE kind = "chunk"
    <3>1. Asked!Say(id)
      BY <1>1, <2>2, <2>5, <2>6 DEF msg, Asked!Say, Asked!Utter, Answering, Stream
    <3> QED BY <1>1, <3>1 DEF Asked!Agent, Asked!Next
  <2>7. CASE kind # "chunk"
    <3>1. Asked!Conclude(id, kind)
      BY <1>1, <1>2, <2>2, <2>5, <2>7 DEF msg, Asked!Conclude, Asked!Utter
    <3>2. kind \in Asked!Endings
      BY <2>7 DEF Kinds, Asked!Endings
    <3> QED BY <1>1, <3>1, <3>2 DEF Asked!Agent, Asked!Next
  <2> QED BY <2>6, <2>7
<1> QED BY <1>3, <1>4 DEF Agent
------------------------------------------------------------------------------
(* Handlers.                                                                *)

LEMMA ResultsInit == Init => IdleHaveNoResult
BY DEF Init, IdleHaveNoResult

(* No step makes a request idle, and an idle one has no steps but Admit.    *)
LEMMA ResultsNext == TypeOK /\ IdleHaveNoResult /\ [Next]_vars => IdleHaveNoResult'
<1> SUFFICES ASSUME TypeOK, IdleHaveNoResult, [Next]_vars PROVE IdleHaveNoResult'
  OBVIOUS
<1>1. ASSUME UNCHANGED <<phase, result>> PROVE IdleHaveNoResult'
  BY <1>1 DEF IdleHaveNoResult
<1>2. ASSUME NEW q \in Requests, Handler(q) PROVE IdleHaveNoResult'
  <2>1. /\ \A p \in Requests \ {q} : phase'[p] = phase[p] /\ result'[p] = result[p]
        /\ phase'[q] # "idle" \/ UNCHANGED <<phase, result>>
    BY <1>2, AfterReleaseRests
       DEF Handler, Admit, RegisterChunkChannel, CheckLoad, IncrementLoad, SendRequest, Receive,
           SeeClosed, GiveUp, CancelReturns, EndWait, StartDecrement, DecrementLoad,
           UnregisterChunkChannel, Retry, Goto, FirstPhase, AfterLeave, TypeOK, RequestTypes
  <2> QED BY <2>1 DEF IdleHaveNoResult
<1>3. ASSUME NEW id \in Ids, Agent(id) PROVE UNCHANGED <<phase, result>>
  BY <1>3 DEF Agent, AgentQuits, AgentSend
<1> QED BY <1>1, <1>2, <1>3, ConnectionLoses, ReadLoopLoses, AdministrationLoses DEF Next, vars

LEMMA StageValues ==
  /\ Stage("idle") = "new" /\ Stage("done") = "over"
  /\ \A p \in {"register", "count", "counting", "send"} : Stage(p) = "open"
  /\ Stage("wait") = "asked" /\ Stage("cancel") = "asked"
  /\ \A p \in {"release", "releasing", "leave", "retry", "panicked"} : Stage(p) = "ended"
BY DEF Stage

(* A handler's step is seen at its own request alone.                       *)
LEMMA HandlerView ==
  ASSUME NEW q \in Requests,
         \A p \in Requests \ {q} : phase'[p] = phase[p] /\ result'[p] = result[p] /\ recv'[p] = recv[p]
  PROVE  /\ Stages' = [Stages EXCEPT ![q] = Stage(phase'[q])]
         /\ Outcomes' = [Outcomes EXCEPT ![q] = Outcome(phase'[q], result'[q])]
         /\ Showns' = [Showns EXCEPT ![q] = Shown(phase'[q], recv'[q])]
         /\ Stages[q] = Stage(phase[q]) /\ Outcomes[q] = Outcome(phase[q], result[q])
         /\ Showns[q] = Shown(phase[q], recv[q])
         /\ Stages = [Stages EXCEPT ![q] = Stage(phase[q])]
         /\ Outcomes = [Outcomes EXCEPT ![q] = Outcome(phase[q], result[q])]
         /\ Showns = [Showns EXCEPT ![q] = Shown(phase[q], recv[q])]
BY DEF Stages, Outcomes, Showns

(* Steps within a stage.                                                    *)
LEMMA HandlerStutters ==
  ASSUME NEW q \in Requests,
         \A p \in Requests \ {q} : phase'[p] = phase[p] /\ result'[p] = result[p] /\ recv'[p] = recv[p],
         Asked!Lossy, UNCHANGED <<try, sent, Answering>>,
         Stage(phase'[q]) = Stage(phase[q]),
         Stage(phase[q]) = "ended" => result'[q] = result[q],
         Stage(phase[q]) = "asked" => recv'[q] = recv[q],
         Stage(phase[q]) \in {"open", "asked", "ended"}
  PROVE  Asked!Next
<1>1. Outcome(phase'[q], result'[q]) = Outcome(phase[q], result[q])
  BY DEF Outcome
<1>2. Shown(phase'[q], recv'[q]) = Shown(phase[q], recv[q])
  BY DEF Shown
<1>3. UNCHANGED <<Stages, Outcomes, Showns>>
  BY <1>1, <1>2, HandlerView
<1> QED BY <1>3 DEF Asked!Lose, Asked!Next

(* Steps with which an attempt fails.                                       *)
LEMMA HandlerFails ==
  ASSUME NEW q \in Requests,
         \A p \in Requests \ {q} : phase'[p] = phase[p] /\ result'[p] = result[p] /\ recv'[p] = recv[p],
         Asked!Lossy, UNCHANGED <<try, sent, Answering>>,
         Stage(phase[q]) \in {"open", "asked"}, Stage(phase'[q]) = "ended",
         result'[q] \in {"error", "panic"}
  PROVE  Asked!Next
<1>1. Outcome(phase'[q], result'[q]) = "error" /\ Shown(phase'[q], recv'[q]) = 0
  BY DEF Outcome, Shown
<1>2. Asked!Fail(q)
  BY <1>1, HandlerView DEF Asked!Fail, Asked!End
<1> QED BY <1>2 DEF Asked!Client, Asked!Next

(* Admission.                                                               *)
LEMMA AdmitRefines ==
  ASSUME TypeOK, IdleHaveNoResult, NEW q \in Requests, Admit(q) PROVE Asked!Next
<1>1. /\ phase[q] = "idle" /\ result[q] = "none"
      /\ UNCHANGED <<result, recv, try, sent, worker, inbox, relay, buf>>
      /\ \A p \in Requests \ {q} : phase'[p] = phase[p]
      /\ phase'[q] \in {"register", "count", "done"}
  BY DEF Admit, FirstPhase, Goto, IdleHaveNoResult, TypeOK, RequestTypes
<1>2. UNCHANGED <<UnderWay, Answering>>
  BY <1>1, MediumRests DEF Answering
<1>3. Shown(phase'[q], recv'[q]) = Shown(phase[q], recv[q])
  BY <1>1, StageValues DEF Shown
<1>4. Outcome(phase'[q], result'[q]) = Outcome(phase[q], result[q])
  BY <1>1, StageValues DEF Outcome
<1>5. UNCHANGED <<Outcomes, Showns>> /\ Stages[q] = "new"
      /\ Stages' = [Stages EXCEPT ![q] = Stage(phase'[q])]
  BY <1>1, <1>3, <1>4, HandlerView, StageValues
<1>6. Stage(phase'[q]) = "open" => Asked!Open(q)
  BY <1>1, <1>2, <1>5 DEF Asked!Open
<1>7. Stage(phase'[q]) = "over" => Asked!Refuse(q)
  BY <1>1, <1>2, <1>5 DEF Asked!Refuse
<1>8. Stage(phase'[q]) \in {"open", "over"}
  BY <1>1, StageValues
<1> QED BY <1>6, <1>7, <1>8 DEF Asked!Client, Asked!Next

(* Nobody knows a question that was not put.                                *)
LEMMA QuestionIsNew ==
  ASSUME TypeOK, WaitInv, OrderInv, ChannelsKeepIds, NEW q \in Requests, phase[q] = "send"
  PROVE  /\ Id(q) \notin Answering /\ sent[Id(q)] = 0 /\ recv[q] = 0
         /\ \A msg \in UnderWay : msg.id # Id(q)
<1>1. Id(q) \in Ids /\ try[q] \in Nat
  BY IdType DEF TypeOK, RequestTypes
<1>2. ~WasSent(Id(q))
  BY <1>1 DEF WasSent, Id
<1>3. sent[Id(q)] = 0 /\ buf[Id(q)] = <<>> /\ recv[q] = 0
  BY <1>1, <1>2 DEF OrderInv, UnsentAreEmpty
<1>4. Id(q) \notin Answering
  BY <1>2 DEF WaitInv, MessagesWereSent, Answering
<1>5. ASSUME NEW msg \in UnderWay PROVE msg.id # Id(q)
  <2>1. ASSUME NEW s \in Sessions, msg \in Elements(inbox[s]) PROVE msg.id # Id(q)
    BY <1>2, <2>1 DEF Elements, WaitInv, MessagesWereSent
  <2>2. ASSUME NEW s \in Sessions, At(s, "lock") \/ At(s, "send"), msg = relay[s].msg
        PROVE  msg.id # Id(q)
    BY <1>2, <2>2 DEF WaitInv, MessagesWereSent, At, Acking
  <2>3. ASSUME NEW id \in Ids, msg \in Elements(buf[id]) PROVE msg.id # Id(q)
    BY <1>3, <2>3, KeepIdsMeans DEF Elements
  <2> QED BY <2>1, <2>2, <2>3 DEF UnderWay
<1> QED BY <1>3, <1>4, <1>5

(* The question is put, or cannot be.                                       *)
LEMMA SendRefines ==
  ASSUME TypeOK, WaitInv, OrderInv, ChannelsKeepIds, NEW q \in Requests, SendRequest(q)
  PROVE  Asked!Next
<1>1. /\ phase[q] = "send" /\ UNCHANGED <<recv, try, sent, inbox, relay, buf>>
      /\ \A p \in Requests \ {q} : phase'[p] = phase[p] /\ result'[p] = result[p]
      /\ \/ phase'[q] = "wait" /\ result' = result
         \/ phase'[q] \in {"release", "leave"} /\ result'[q] = "error" /\ worker' = worker
      /\ worker' = worker \/ worker' = [worker EXCEPT ![Id(q)] = sess[q]]
  BY DEF SendRequest, Goto, TypeOK, RequestTypes
<1>2. UNCHANGED UnderWay /\ (worker' = worker => UNCHANGED Answering)
  BY <1>1, MediumRests DEF Answering
<1>3. CASE phase'[q] = "wait"
  <2>1. sess[q] \in Sessions /\ Id(q) \in Ids
    BY <1>1, IdType DEF WaitInv, HandlersHold, TypeOK, RequestTypes
  <2>2. Answering' \in {Answering, Answering \cup {Id(q)}}
    BY <1>1, <1>2, <2>1 DEF Answering, TypeOK, RelayTypes
  <2>3. /\ Stages[q] = "open" /\ Stages' = [Stages EXCEPT ![q] = "asked"]
        /\ UNCHANGED <<Outcomes, Showns>>
    <3>1. Outcome(phase'[q], result'[q]) = Outcome(phase[q], result[q])
      BY <1>1, <1>3, StageValues DEF Outcome
    <3>2. Shown(phase'[q], recv'[q]) = Shown(phase[q], recv[q])
      BY <1>1, <1>3, StageValues, QuestionIsNew DEF Shown
    <3> QED BY <1>1, <1>3, <3>1, <3>2, HandlerView, StageValues
  <2>4. Asked!Ask(q)
    BY <1>1, <1>2, <2>2, <2>3, QuestionIsNew DEF Asked!Ask, Asked!Id, Id
  <2> QED BY <2>4 DEF Asked!Client, Asked!Next
<1>4. CASE phase'[q] # "wait"
  <2>1. Stage(phase[q]) = "open" /\ Stage(phase'[q]) = "ended" /\ result'[q] = "error"
        /\ UNCHANGED Answering
    BY <1>1, <1>2, <1>4, StageValues
  <2> QED BY <1>1, <1>2, <2>1, HandlerFails DEF Asked!Lossy
<1> QED BY <1>3, <1>4

(* What a channel shows the handler is news about its own question.         *)
LEMMA ReceiveRefines ==
  ASSUME TypeOK, OrderInv, ChannelsKeepIds, NEW q \in Requests, Receive(q)
  PROVE  Asked!Next
<1> DEFINE msg == buf[Id(q)][1]
<1>1. /\ phase[q] = "wait" /\ buf[Id(q)] # <<>> /\ buf' = [buf EXCEPT ![Id(q)] = Tail(@)]
      /\ UNCHANGED <<try, sent, worker, inbox, relay>>
      /\ \A p \in Requests \ {q} :
           phase'[p] = phase[p] /\ result'[p] = result[p] /\ recv'[p] = recv[p]
  BY DEF Receive, EndWait, Goto, TypeOK, RequestTypes
<1>2. /\ buf \in [Ids -> Seq(Messages)] /\ Id(q) \in Ids /\ buf[Id(q)] \in Seq(Messages)
      /\ 1 \in DOMAIN buf[Id(q)] /\ Head(buf[Id(q)]) = msg /\ msg \in Messages
  <2>1. buf \in [Ids -> Seq(Messages)] /\ Id(q) \in Ids /\ buf[Id(q)] \in Seq(Messages)
    BY IdType DEF TypeOK, ChannelTypes
  <2> QED BY <1>1, <2>1, HeadIsFirst
<1>3. msg.id = Id(q) /\ msg.n > recv[q] /\ msg.kind \in Kinds /\ msg \in UnderWay
  <2>1. msg.id = Id(q)
    BY <1>2 DEF ChannelsKeepIds
  <2>2. recv[q] < msg.n /\ recv[q] \in Nat /\ msg.n \in Nat
    BY <1>1, <1>2 DEF OrderInv, NumbersGrow, Messages, TypeOK, RequestTypes
  <2>3. msg \in Elements(buf[Id(q)])
    BY <1>2 DEF Elements
  <2> HIDE DEF msg
  <2> QED BY <1>2, <2>1, <2>2, <2>3, Carries DEF Messages
<1>4. Asked!Lossy /\ UNCHANGED Answering
  <2>1. Elements(Tail(buf[Id(q)])) \subseteq UnderWay
    BY <1>1, <1>2, ChannelElements, Carries
  <2>2. \A id \in Ids : buf'[id] \in {buf[id], Tail(buf[Id(q)])}
    BY <1>1, <1>2
  <2>3. \A id \in Ids : Elements(buf'[id]) \subseteq UnderWay
    BY <2>1, <2>2, Carries
  <2> QED BY <1>1, <2>3, Carries, LossyMedium DEF Answering, At
<1>5. /\ msg.kind \in {"chunk", "final"} => recv'[q] = msg.n
      /\ msg.kind = "chunk" => phase'[q] = "wait" /\ result'[q] = result[q]
      /\ msg.kind # "chunk" =>
           /\ phase'[q] \in {"release", "leave"}
           /\ result'[q] = IF msg.kind = "final" THEN "ok" ELSE "error"
  BY <1>1, <1>2 DEF Receive, EndWait, Goto, Ends, TypeOK, RequestTypes
<1> HIDE DEF msg
<1>6. Stages[q] = "asked" /\ Showns[q] = recv[q] /\ Asked!News(q, msg)
  <2>1. Stages[q] = "asked" /\ Showns[q] = recv[q]
    BY <1>1, HandlerView, StageValues DEF Shown
  <2> QED BY <1>3, <2>1 DEF Asked!News, Asked!Id, Id
<1>7. CASE msg.kind = "chunk"
  <2>1. /\ Outcome(phase'[q], result'[q]) = Outcome(phase[q], result[q])
        /\ Stage(phase'[q]) = Stage(phase[q]) /\ Shown(phase'[q], recv'[q]) = msg.n
    BY <1>1, <1>5, <1>7, StageValues DEF Shown
  <2>2. UNCHANGED <<Stages, Outcomes>> /\ Showns' = [Showns EXCEPT ![q] = msg.n]
    BY <1>1, <2>1, HandlerView
  <2>3. Asked!Show(q, msg)
    BY <1>1, <1>4, <1>6, <1>7, <2>2 DEF Asked!Show
  <2> QED BY <1>3, <2>3 DEF Asked!Client, Asked!Next
<1>8. CASE msg.kind = "final"
  <2>1. /\ Outcome(phase'[q], result'[q]) = "ok" /\ Stage(phase'[q]) = "ended"
        /\ Shown(phase'[q], recv'[q]) = 0
    BY <1>5, <1>8, StageValues DEF Shown, Outcome
  <2>2. Asked!Answer(q, msg)
    BY <1>1, <1>4, <1>6, <1>8, <2>1, HandlerView DEF Asked!Answer, Asked!End
  <2> QED BY <1>3, <2>2 DEF Asked!Client, Asked!Next
<1>9. CASE msg.kind \notin {"chunk", "final"}
  <2>1. Stage(phase[q]) = "asked" /\ Stage(phase'[q]) = "ended" /\ result'[q] = "error"
    BY <1>1, <1>5, <1>9, StageValues
  <2> QED BY <1>1, <1>4, <2>1, HandlerFails
<1> QED BY <1>7, <1>8, <1>9

(* An attempt that has no answer ends.                                      *)
LEMMA WaitEndRefines ==
  ASSUME TypeOK, NEW q \in Requests, SeeClosed(q) \/ GiveUp(q) \/ CancelReturns(q)
  PROVE  Asked!Next
<1>1. /\ phase[q] \in {"wait", "cancel"}
      /\ UNCHANGED <<recv, try, sent, worker, inbox, relay, buf>>
      /\ \A p \in Requests \ {q} : phase'[p] = phase[p] /\ result'[p] = result[p]
      /\ \/ phase'[q] = "cancel"
         \/ phase'[q] \in {"release", "leave"} /\ result'[q] = "error"
  BY DEF SeeClosed, GiveUp, CancelReturns, EndWait, Goto, TypeOK, RequestTypes
<1>2. Asked!Lossy /\ UNCHANGED Answering
  BY <1>1, MediumRests DEF Answering, Asked!Lossy
<1>3. CASE phase'[q] = "cancel"
  <2>1. Stage(phase[q]) = "asked" /\ Stage(phase'[q]) = "asked"
    BY <1>1, <1>3, StageValues
  <2> QED BY <1>1, <1>2, <2>1, HandlerStutters
<1>4. CASE phase'[q] # "cancel"
  <2>1. Stage(phase[q]) = "asked" /\ Stage(phase'[q]) = "ended" /\ result'[q] = "error"
    BY <1>1, <1>4, StageValues
  <2> QED BY <1>1, <1>2, <2>1, HandlerFails
<1> QED BY <1>3, <1>4

(* What comes before the question may fail, and is not seen otherwise.      *)
LEMMA PreparationRefines ==
  ASSUME TypeOK, NEW q \in Requests,
         RegisterChunkChannel(q) \/ CheckLoad(q) \/ IncrementLoad(q)
  PROVE  Asked!Next
<1>1. /\ phase[q] \in {"register", "count", "counting"}
      /\ UNCHANGED <<recv, try, sent, worker, inbox, relay, buf>>
      /\ \A p \in Requests \ {q} : phase'[p] = phase[p] /\ result'[p] = result[p]
      /\ \/ phase'[q] \in {"count", "counting", "register", "send"}
         \/ phase'[q] \in {"panicked", "release", "leave", "retry"}
              /\ result'[q] \in {"error", "panic"}
  BY DEF RegisterChunkChannel, CheckLoad, IncrementLoad, Goto, TypeOK, RequestTypes
<1>2. Asked!Lossy /\ UNCHANGED Answering
  BY <1>1, MediumRests DEF Answering, Asked!Lossy
<1>3. Stage(phase[q]) = "open"
  BY <1>1, StageValues
<1>4. CASE phase'[q] \in {"count", "counting", "register", "send"}
  <2>1. Stage(phase'[q]) = "open"
    BY <1>4, StageValues
  <2> QED BY <1>1, <1>2, <1>3, <2>1, HandlerStutters
<1>5. CASE phase'[q] \notin {"count", "counting", "register", "send"}
  <2>1. Stage(phase'[q]) = "ended" /\ result'[q] \in {"error", "panic"}
    BY <1>1, <1>5, StageValues
  <2> QED BY <1>1, <1>2, <1>3, <2>1, HandlerFails
<1> QED BY <1>4, <1>5

(* What follows an attempt is not seen until the handler returns.           *)
LEMMA ReleaseRefines ==
  ASSUME TypeOK, NEW q \in Requests, StartDecrement(q) \/ DecrementLoad(q)
  PROVE  Asked!Next
<1>1. /\ phase[q] \in {"release", "releasing"} /\ phase'[q] \in {"releasing", AfterRelease(q)}
      /\ UNCHANGED <<result, recv, try, sent, worker, inbox, relay, buf>>
      /\ \A p \in Requests \ {q} : phase'[p] = phase[p]
  BY DEF StartDecrement, DecrementLoad, Goto, TypeOK, RequestTypes
<1>2. phase'[q] \in {"releasing", "leave", "panicked", "retry"}
  BY <1>1, AfterReleaseRests
<1>3. Stage(phase[q]) = "ended" /\ Stage(phase'[q]) = "ended"
  BY <1>1, <1>2, StageValues
<1>4. Asked!Lossy /\ UNCHANGED Answering
  BY <1>1, MediumRests DEF Answering, Asked!Lossy
<1> QED BY <1>1, <1>3, <1>4, HandlerStutters

(* The end of a request.                                                    *)
LEMMA HandlerFinishes ==
  ASSUME NEW q \in Requests,
         \A p \in Requests \ {q} : phase'[p] = phase[p] /\ result'[p] = result[p] /\ recv'[p] = recv[p],
         Asked!Lossy, UNCHANGED <<try, sent, Answering>>,
         Stage(phase[q]) = "ended", phase'[q] = "done", result'[q] = result[q]
  PROVE  Asked!Next
<1>1. /\ Outcome(phase'[q], result'[q]) = Outcome(phase[q], result[q])
      /\ Shown(phase'[q], recv'[q]) = Shown(phase[q], recv[q])
  BY StageValues DEF Outcome, Shown
<1>2. Asked!Finish(q)
  BY <1>1, HandlerView, StageValues DEF Asked!Finish
<1> QED BY <1>2 DEF Asked!Client, Asked!Next

LEMMA UnregisterRefines ==
  ASSUME TypeOK, NEW q \in Requests, UnregisterChunkChannel(q)
  PROVE  Asked!Next
<1>1. /\ phase[q] = "leave" /\ phase'[q] \in {"done", "release"}
      /\ buf' = [buf EXCEPT ![Id(q)] = <<>>]
      /\ UNCHANGED <<result, try, sent, worker, inbox, relay>>
      /\ \A p \in Requests \ {q} : phase'[p] = phase[p] /\ recv'[p] = recv[p]
  BY DEF UnregisterChunkChannel, AfterLeave, Goto, TypeOK, RequestTypes
<1>2. Asked!Lossy /\ UNCHANGED Answering
  <2>1. Elements(<<>>) = {} /\ \A id \in Ids : buf'[id] \in {buf[id], <<>>}
    BY <1>1 DEF Elements, TypeOK, ChannelTypes
  <2>2. \A id \in Ids : Elements(buf'[id]) \subseteq UnderWay
    BY <2>1, Carries
  <2> QED BY <1>1, <2>2, Carries, LossyMedium DEF Answering, At
<1>3. CASE phase'[q] = "done"
  BY <1>1, <1>2, <1>3, HandlerFinishes, StageValues
<1>4. CASE phase'[q] = "release"
  BY <1>1, <1>2, <1>4, HandlerStutters, StageValues
<1> QED BY <1>1, <1>3, <1>4

(* Another attempt, or none.                                                *)
LEMMA RetryRefines ==
  ASSUME TypeOK, WaitInv, NEW q \in Requests, Retry(q)
  PROVE  Asked!Next
<1>1. /\ phase[q] = "retry" /\ ~Stream(q)
      /\ UNCHANGED <<result, recv, sent, worker, inbox, relay, buf>>
      /\ \A p \in Requests \ {q} : phase'[p] = phase[p]
      /\ \/ phase'[q] = "done" /\ try' = try
         \/ /\ phase'[q] = "count" /\ try' = [try EXCEPT ![q] = @ + 1]
            /\ result[q] # "ok" /\ try[q] < MaxRetries
  BY DEF Retry, MayRetry, Goto, WaitInv, HandlersHold, TypeOK, RequestTypes
<1>2. UNCHANGED <<UnderWay, Answering>>
  BY <1>1, MediumRests DEF Answering
<1>3. CASE phase'[q] = "done"
  BY <1>1, <1>2, <1>3, HandlerFinishes, StageValues DEF Asked!Lossy
<1>4. CASE phase'[q] = "count"
  <2>1. /\ Stage(phase[q]) = "ended" /\ Stage(phase'[q]) = "open"
        /\ Outcome(phase[q], result[q]) # "ok" /\ Outcome(phase'[q], result'[q]) = "none"
        /\ Shown(phase'[q], recv'[q]) = Shown(phase[q], recv[q])
    BY <1>1, <1>4, StageValues DEF Outcome, Shown
  <2>2. q \notin Streams /\ try[q] < MaxRetries /\ try' = [try EXCEPT ![q] = @ + 1]
    BY <1>1, <1>4 DEF Stream
  <2>3. Asked!Retry(q)
    BY <1>1, <1>2, <2>1, <2>2, HandlerView DEF Asked!Retry
  <2> QED BY <2>3 DEF Asked!Client, Asked!Next
<1> QED BY <1>1, <1>3, <1>4
------------------------------------------------------------------------------
(* Whatever is replaced, evicted, cut off, lost or answered late, a chat    *)
(* completion is one question at a time, and what its client sees of it are *)
(* answers to that question, in order and none twice.                       *)
THEOREM CompletionRefines == Spec => CompletionIsOneQuestion
<1> DEFINE Inv == /\ TypeOK /\ IndInv /\ WaitInv /\ OrderInv
                  /\ ChannelsKeepIds /\ IdleHaveNoResult
<1>1. Init => Asked!Init
  <2> SUFFICES ASSUME Init PROVE Asked!Init
    OBVIOUS
  <2>1. Stages = [q \in Requests |-> "new"] /\ Outcomes = [q \in Requests |-> "none"]
        /\ Showns = [q \in Requests |-> 0]
    BY StageValues DEF Init, Stages, Outcomes, Showns, Outcome, Shown
  <2>2. UnderWay = {} /\ Answering = {}
    BY DEF Init, UnderWay, Answering, At, Elements
  <2> QED BY <2>1, <2>2 DEF Init, Asked!Init, Asked!Ids, Ids
<1>2. Init => Inv
  BY TypeInit, IndInit, WaitInit, OrderInit, ChannelsInit, ResultsInit
<1>3. Inv /\ [Next]_vars => Inv'
  BY TypeNext, IndNext, WaitNext, OrderNext, ChannelsNext, ResultsNext
<1>4. Inv /\ [Next]_vars => [Asked!Next]_Asked!vars
  <2> SUFFICES ASSUME TypeOK, WaitInv, OrderInv, ChannelsKeepIds, IdleHaveNoResult, [Next]_vars
               PROVE  [Asked!Next]_Asked!vars
    OBVIOUS
  <2>1. ASSUME NEW q \in Requests, Handler(q) PROVE Asked!Next
    BY <2>1, AdmitRefines, PreparationRefines, SendRefines, ReceiveRefines, WaitEndRefines,
       ReleaseRefines, UnregisterRefines, RetryRefines DEF Handler
  <2>2. CASE UNCHANGED vars
    <3>1. UNCHANGED <<phase, result, recv, try, sent, worker, inbox, relay, buf>>
      BY <2>2 DEF vars
    <3> QED BY <3>1, ViewRests, MediumRests DEF Asked!vars, Answering
  <2> QED BY <2>1, <2>2, ConnectionLoses, ReadLoopLoses, AdministrationLoses, Loses, AgentRefines
          DEF Next
<1> HIDE DEF Inv
<1> QED BY <1>1, <1>2, <1>3, <1>4, PTL DEF Spec, CompletionIsOneQuestion, Asked!Spec
==============================================================================
