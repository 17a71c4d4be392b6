---------------------------- MODULE AgentProofs ----------------------------
(***************************************************************************)
(* What holds of the agent for every number of requests and connections,    *)
(* every limit of concurrency and every body, whatever breaks.              *)
(***************************************************************************)
EXTENDS Agent, FiniteSetTheorems, TLAPS

USE RequestsAssumption, BoundsAssumption
    DEF runVars, beatVars, handleVars, bodyVars, cancelVars, coordVars
------------------------------------------------------------------------------
(* What the steps of each goroutine leave alone.                            *)

(* Dialing and registering leave the requests and their handlers alone.     *)
LEMMA RunKeeps ==
  ASSUME Run
  PROVE  UNCHANGED <<handleVars, cancelVars, issued, withdrawn, cut, beatVia>>
BY DEF Run, Dial, DialFails, Discover, NoModels, BeginRegister, EndRegister, ReadRegistered,
       ReadRegisteredFails, Retry

(* The read loop leaves what handlers write and know alone.                 *)
LEMMA ReadKeeps ==
  ASSUME Read
  PROVE  UNCHANGED <<dialed, api, first, beatVars, via, out, bodyVars, load, answers,
                     coordVars, panicked>>
BY DEF Read, NextRead, ConnGone, ReadAck, ReadFails, ReadRequest, ReadCancel

(* Heartbeats change a.conn and nothing else that others read.              *)
LEMMA HeartbeatKeeps ==
  ASSUME NEW b \in Conns, Heartbeat(b)
  PROVE  UNCHANGED <<runVars, open, inbox, handleVars, cancelVars, coordVars>>
BY DEF Heartbeat, Tick, BeginBeat, EndBeat, StopBeat

(* The coordinator and the network change connections only.                 *)
LEMMA CoordinateKeeps ==
  ASSUME Coordinate
  PROVE  UNCHANGED <<runVars, conn, first, beatVars, handleVars, cancelVars, panicked>>
BY DEF Coordinate, AcceptRegister, AnswerRegistered, Cut, Break, SendRequest, SendCancel

(* A message takes a handler to its write, or to where it goes without one. *)
Where == {"idle", "spawned", "overloaded", "sending", "writing", "left", "done"} \cup Holding
Sends(q, message, otherwise) ==
  \/ conn = NoConn /\ pc'[q] = otherwise /\ via'[q] = via[q] /\ out'[q] = out[q]
  \/ conn # NoConn /\ pc'[q] = "sending" /\ via'[q] = conn /\ out'[q] = message

(* Send does that, and changes nothing of other handlers.                   *)
LEMMA SendSends ==
  ASSUME HandlerTypes, NEW q \in Requests, NEW message \in Kinds, NEW otherwise \in Where,
         Send(q, message, otherwise)
  PROVE  /\ Sends(q, message, otherwise) /\ answers' = answers
         /\ pc' \in [Requests -> Where] /\ out' \in [Requests -> Kinds \cup {"none"}]
         /\ \A r \in Requests \ {q} : pc'[r] = pc[r] /\ via'[r] = via[r] /\ out'[r] = out[r]
         /\ speaks' = speaks /\ load' = load /\ UNCHANGED cancelVars
         /\ UNCHANGED <<runVars, conn, open, first, inbox, beatVars, coordVars, panicked>>
<1> USE DEF HandlerTypes, Where, Send
<1>1. CASE conn = NoConn
  BY <1>1 DEF Sends
<1>2. CASE conn # NoConn
  <2>1. /\ pc' = [pc EXCEPT ![q] = "sending"]
        /\ via' = [via EXCEPT ![q] = conn] /\ out' = [out EXCEPT ![q] = message]
    BY <1>2
  <2>2. pc' \in [Requests -> Where]
    BY <2>1
  <2>3. out' \in [Requests -> Kinds \cup {"none"}]
    BY <2>1
  <2>4. Sends(q, message, otherwise)
    BY <1>2, <2>1 DEF Sends
  <2> QED BY <2>1, <2>2, <2>3, <2>4
<1> QED BY <1>1, <1>2

(* A step of a handler is about its own request only.                       *)
Stays(r) ==
  /\ pc'[r] = pc[r] /\ via'[r] = via[r] /\ out'[r] = out[r] /\ made'[r] = made[r]
  /\ answers'[r] = answers[r]
Moves(q) ==
  /\ pc[q] # "idle" /\ pc'[q] # "idle"
  /\ \A r \in Requests \ {q} : Stays(r)
  /\ inbox' = inbox /\ issued' = issued /\ cancelled' = cancelled /\ dialed' = dialed
  /\ cut' = cut
  /\ open' = open /\ conn' = conn /\ heeded' = heeded

(* Every step of a handler is one of this kind.                             *)
LEMMA HandlerMoves ==
  ASSUME TypeOK, NEW q \in Requests, Handle(q)
  PROVE  Moves(q)
<1>1. CASE Admit(q)
  BY <1>1 DEF Admit, HasCapacity, Moves, Stays, TypeOK, HandlerTypes, Conns
<1>2. CASE AddCancel(q)
  BY <1>2 DEF AddCancel, Moves, Stays, TypeOK, HandlerTypes, Conns
<1>3. CASE CallBackend(q)
  <2>1. ASSUME NEW x \in Where \ {"idle"}, Goto(q, x), pc[q] # "idle" PROVE Moves(q)
    BY <2>1 DEF Goto, Moves, Stays, TypeOK, HandlerTypes
  <2>2. ASSUME pc[q] = "calling", pc' = [pc EXCEPT ![q] = "responding"],
               UNCHANGED <<dialed, conn, open, inbox, via, out, made, answers, cancelVars,
                          issued, cut>>
        PROVE  Moves(q)
    BY <2>2 DEF Moves, Stays, TypeOK, HandlerTypes
  <2> QED BY <1>3, <2>1, <2>2 DEF CallBackend, Where, Holding
<1>4. CASE Report(q)
  <2>1. ASSUME NEW x \in Where \ {"idle"}, Goto(q, x), pc[q] # "idle" PROVE Moves(q)
    BY <2>1 DEF Goto, Moves, Stays, TypeOK, HandlerTypes
  <2>2. ASSUME NEW m \in Kinds, NEW o \in Where \ {"idle"}, Send(q, m, o), made' = made,
               pc[q] # "idle"
        PROVE  Moves(q)
    BY <2>2, SendSends DEF Sends, Moves, Stays, TypeOK
  <2> QED BY <1>4, <2>1, <2>2 DEF Report, Where, Holding, Kinds
<1>5. CASE ReadLine(q)
  <2>1. \A r \in Requests \ {q} : made'[r] = made[r]
    BY <1>5 DEF ReadLine, TypeOK, HandlerTypes
  <2>2. ASSUME NEW m \in Kinds, NEW o \in Where \ {"idle"}, Send(q, m, o)
        PROVE  Moves(q)
    BY <1>5, <2>1, <2>2, SendSends DEF ReadLine, Sends, Moves, Stays, TypeOK
  <2> QED BY <1>5, <2>2 DEF ReadLine, Where, Holding, Kinds
<1>6. CASE TearLine(q)
  <2>1. \A r \in Requests \ {q} : made'[r] = made[r]
    BY <1>6 DEF TearLine, TypeOK, HandlerTypes
  <2>2. ASSUME NEW m \in Kinds, NEW o \in Where \ {"idle"}, Send(q, m, o)
        PROVE  Moves(q)
    BY <1>6, <2>1, <2>2, SendSends DEF TearLine, Sends, Moves, Stays, TypeOK
  <2> QED BY <1>6, <2>2 DEF TearLine, Where, Holding, Kinds
<1>7. CASE BodyEnds(q)
  <2>1. ASSUME NEW x \in Where \ {"idle"}, Goto(q, x), pc[q] # "idle" PROVE Moves(q)
    BY <2>1 DEF Goto, Moves, Stays, TypeOK, HandlerTypes
  <2> QED BY <1>7, <2>1 DEF BodyEnds, EndStream, Where, Holding
<1>8. CASE ReportEnd(q)
  <2>1. ASSUME NEW m \in Kinds, NEW o \in Where \ {"idle"}, Send(q, m, o), made' = made,
               pc[q] # "idle"
        PROVE  Moves(q)
    BY <2>1, SendSends DEF Sends, Moves, Stays, TypeOK
  <2> QED BY <1>8, <2>1 DEF ReportEnd, Where, Holding, Kinds
<1>9. CASE ReadBody(q)
  <2>1. ASSUME NEW x \in Where \ {"idle"}, Goto(q, x), pc[q] # "idle" PROVE Moves(q)
    BY <2>1 DEF Goto, Moves, Stays, TypeOK, HandlerTypes
  <2>2. ASSUME NEW m \in Kinds, NEW o \in Where \ {"idle"}, Send(q, m, o), made' = made,
               pc[q] # "idle"
        PROVE  Moves(q)
    BY <2>2, SendSends DEF Sends, Moves, Stays, TypeOK
  <2> QED BY <1>9, <2>1, <2>2 DEF ReadBody, Where, Holding, Kinds
<1>10. CASE BeginWrite(q)
  BY <1>10 DEF BeginWrite, MayPanic, Moves, Stays, TypeOK, HandlerTypes, Conns
<1>11. CASE EndWrite(q)
  <2>1. AfterWrite(q, via[q] \in open) # "idle"
    BY DEF AfterWrite, AfterOther, Chunk
  <2> QED BY <1>11, <2>1 DEF EndWrite, WriteReturns, Moves, Stays, TypeOK, HandlerTypes
<1>12. CASE Leave(q)
  BY <1>12 DEF Leave, Moves, Stays, TypeOK, HandlerTypes, Conns
<1>13. CASE Forget(q)
  BY <1>13 DEF Forget, Unlist, Moves, Stays, TypeOK, HandlerTypes, Conns
<1> QED BY <1>1, <1>2, <1>3, <1>4, <1>5, <1>6, <1>7, <1>8, <1>9, <1>10, <1>11, <1>12,
           <1>13 DEF Handle

------------------------------------------------------------------------------
(* Types.                                                                   *)

(* Run keeps the types of its variables.                                     *)
LEMMA RunTypesRun ==
  ASSUME TypeOK, Run
  PROVE  RunTypes'
<1>1. CASE Dial
  BY <1>1 DEF Dial, TypeOK, RunTypes, Conns, NoConn, Apis
<1>2. CASE DialFails
  BY <1>2 DEF DialFails, TypeOK, RunTypes, Conns, NoConn, Apis
<1>3. CASE Discover
  BY <1>3 DEF Discover, TypeOK, RunTypes, Conns, NoConn, Apis
<1>4. CASE NoModels
  BY <1>4 DEF NoModels, TypeOK, RunTypes, Conns, NoConn, Apis
<1>5. CASE BeginRegister
  BY <1>5 DEF BeginRegister, MayPanic, TypeOK, RunTypes, Conns, NoConn, Apis
<1>6. CASE EndRegister
  BY <1>6 DEF EndRegister, Wrote, TypeOK, RunTypes, Conns, NoConn, Apis
<1>7. CASE ReadRegistered
  BY <1>7 DEF ReadRegistered, TypeOK, RunTypes, Conns, NoConn, Apis
<1>8. CASE ReadRegisteredFails
  BY <1>8 DEF ReadRegisteredFails, TypeOK, RunTypes, Conns, NoConn, Apis
<1>9. CASE Retry
  BY <1>9 DEF Retry, Longer, TypeOK, RunTypes, Conns, NoConn, Apis
<1> QED BY <1>1, <1>2, <1>3, <1>4, <1>5, <1>6, <1>7, <1>8, <1>9 DEF Run

(* So does the read loop ...                                                 *)
LEMMA RunTypesRead ==
  ASSUME TypeOK, Read
  PROVE  RunTypes'
<1>1. CASE NextRead
  BY <1>1 DEF NextRead, TypeOK, RunTypes, Conns, NoConn, Apis
<1>2. CASE ConnGone
  BY <1>2 DEF ConnGone, TypeOK, RunTypes, Conns, NoConn, Apis
<1>3. CASE ReadAck
  BY <1>3 DEF ReadAck, TypeOK, RunTypes, Conns, NoConn, Apis
<1>4. CASE ReadFails
  BY <1>4 DEF ReadFails, TypeOK, RunTypes, Conns, NoConn, Apis
<1>5. ASSUME NEW q \in Requests, ReadRequest(q) PROVE RunTypes'
  BY <1>5 DEF ReadRequest, TypeOK, RunTypes, Conns, NoConn, Apis
<1>6. ASSUME NEW q \in Requests, ReadCancel(q) PROVE RunTypes'
  BY <1>6 DEF ReadCancel, TypeOK, RunTypes, Conns, NoConn, Apis
<1> QED BY <1>1, <1>2, <1>3, <1>4, <1>5, <1>6 DEF Read

(* ... and everyone else.                                                   *)
LEMMA RunTypesElse ==
  ASSUME TypeOK, (\E b \in Conns : Heartbeat(b)) \/ (\E q \in Requests : Handle(q)) \/ Coordinate
  PROVE  RunTypes'
<1> USE DEF TypeOK, RunTypes, Conns, NoConn
<1>1. ASSUME NEW b \in Conns, Heartbeat(b) PROVE RunTypes'
  <2>1. conn' \in {conn, NoConn}
    BY <1>1 DEF Heartbeat, Tick, BeginBeat, EndBeat, StopBeat, ForgetConn
  <2>2. panicked' \in BOOLEAN
    BY <1>1 DEF Heartbeat, Tick, BeginBeat, EndBeat, StopBeat, MayPanic
  <2>3. UNCHANGED <<phase, dialed, backoff, api, open, cut>>
    BY <1>1, HeartbeatKeeps
  <2>4. conn' \in 0..MaxDials
    BY <2>1
  <2> QED BY <2>2, <2>3, <2>4
<1>2. ASSUME NEW q \in Requests, Handle(q) PROVE RunTypes'
  BY <1>2 DEF Handle, Admit, AddCancel, CallBackend, Goto, Report, Send, ReadLine, TearLine,
              BodyEnds, EndStream, ReportEnd, ReadBody, BeginWrite, MayPanic, EndWrite, Leave,
              Forget
<1>3. CASE Coordinate
  BY <1>3 DEF Coordinate, AcceptRegister, AnswerRegistered, Cut, Break, SendRequest,
    SendCancel
<1> QED BY <1>1, <1>2, <1>3

(* Connections and their messages keep their types.                          *)
LEMMA ConnTypesRun ==
  ASSUME TypeOK, Run
  PROVE  ConnTypes'
<1>1. CASE Dial
  BY <1>1 DEF Dial, TypeOK, RunTypes, ConnTypes, Conns, NoConn, Messages
<1>2. CASE DialFails
  BY <1>2 DEF DialFails, TypeOK, RunTypes, ConnTypes, Conns, NoConn, Messages
<1>3. CASE Discover
  BY <1>3 DEF Discover, TypeOK, RunTypes, ConnTypes, Conns, NoConn, Messages
<1>4. CASE NoModels
  BY <1>4 DEF NoModels, TypeOK, RunTypes, ConnTypes, Conns, NoConn, Messages
<1>5. CASE BeginRegister
  BY <1>5 DEF BeginRegister, MayPanic, TypeOK, RunTypes, ConnTypes, Conns, NoConn, Messages
<1>6. CASE EndRegister
  BY <1>6 DEF EndRegister, Wrote, TypeOK, RunTypes, ConnTypes, Conns, NoConn, Messages
<1>7. CASE ReadRegistered
  BY <1>7 DEF ReadRegistered, TypeOK, RunTypes, ConnTypes, Conns, NoConn, Messages
<1>8. CASE ReadRegisteredFails
  BY <1>8 DEF ReadRegisteredFails, TypeOK, RunTypes, ConnTypes, Conns, NoConn, Messages
<1>9. CASE Retry
  BY <1>9 DEF Retry, Longer, TypeOK, RunTypes, ConnTypes, Conns, NoConn, Messages
<1> QED BY <1>1, <1>2, <1>3, <1>4, <1>5, <1>6, <1>7, <1>8, <1>9 DEF Run

(* Reading takes messages away.                                              *)
LEMMA ConnTypesRead ==
  ASSUME TypeOK, Read
  PROVE  ConnTypes'
<1>1. CASE NextRead
  BY <1>1 DEF NextRead, TypeOK, RunTypes, ConnTypes, Conns, NoConn, Messages
<1>2. CASE ConnGone
  BY <1>2 DEF ConnGone, TypeOK, RunTypes, ConnTypes, Conns, NoConn, Messages
<1>3. CASE ReadAck
  BY <1>3 DEF ReadAck, TypeOK, RunTypes, ConnTypes, Conns, NoConn, Messages
<1>4. CASE ReadFails
  BY <1>4 DEF ReadFails, TypeOK, RunTypes, ConnTypes, Conns, NoConn, Messages
<1>5. ASSUME NEW q \in Requests, ReadRequest(q) PROVE ConnTypes'
  BY <1>5 DEF ReadRequest, TypeOK, RunTypes, ConnTypes, Conns, NoConn, Messages
<1>6. ASSUME NEW q \in Requests, ReadCancel(q) PROVE ConnTypes'
  BY <1>6 DEF ReadCancel, TypeOK, RunTypes, ConnTypes, Conns, NoConn, Messages
<1> QED BY <1>1, <1>2, <1>3, <1>4, <1>5, <1>6 DEF Read

(* The coordinator adds some.                                                *)
LEMMA ConnTypesCoordinate ==
  ASSUME TypeOK, Coordinate
  PROVE  ConnTypes'
<1>1. ASSUME NEW c \in Conns, AcceptRegister(c) PROVE ConnTypes'
  BY <1>1 DEF AcceptRegister, TypeOK, RunTypes, ConnTypes, Conns, NoConn, Messages
<1>2. ASSUME NEW c \in Conns, AnswerRegistered(c) PROVE ConnTypes'
  <2>1. [type |-> "registered"] \in Messages
    BY DEF Messages
  <2>2. inbox' \in [Conns -> Seq(Messages)]
    BY <1>2, <2>1 DEF AnswerRegistered, TypeOK, ConnTypes
  <2> QED BY <1>2, <2>2 DEF AnswerRegistered, TypeOK, ConnTypes
<1>3. ASSUME NEW c \in Conns, Break(c) PROVE ConnTypes'
  BY <1>3 DEF Break, TypeOK, RunTypes, ConnTypes, Conns, NoConn, Messages
<1>4. ASSUME NEW q \in Requests, NEW c \in Conns, SendRequest(q, c) PROVE ConnTypes'
  BY <1>4 DEF SendRequest, TypeOK, RunTypes, ConnTypes, Conns, NoConn, Messages
<1>5. ASSUME NEW q \in Requests, SendCancel(q) PROVE ConnTypes'
  BY <1>5 DEF SendCancel, TypeOK, RunTypes, ConnTypes, Conns, NoConn, Messages
<1>6. ASSUME NEW c \in Conns, Cut(c) PROVE ConnTypes'
  BY <1>6 DEF Cut, TypeOK, ConnTypes
<1> QED BY <1>1, <1>2, <1>3, <1>4, <1>5, <1>6 DEF Coordinate

(* The others write the first message of a connection at most.              *)
LEMMA ConnTypesElse ==
  ASSUME TypeOK, (\E b \in Conns : Heartbeat(b)) \/ (\E q \in Requests : Handle(q))
  PROVE  ConnTypes'
<1> USE DEF TypeOK, RunTypes, ConnTypes, Conns
<1>1. ASSUME NEW b \in Conns, Heartbeat(b) PROVE ConnTypes'
  BY <1>1 DEF Heartbeat, Tick, BeginBeat, EndBeat, StopBeat, Wrote
<1>2. ASSUME NEW q \in Requests, Handle(q) PROVE ConnTypes'
  <2>1. first' = first \/ Wrote(via[q], "other")
    BY <1>2 DEF Handle, Admit, AddCancel, CallBackend, Goto, Report, Send, ReadLine,
      TearLine,
              BodyEnds, EndStream, ReportEnd, ReadBody, BeginWrite, EndWrite, Leave, Forget
  <2>2. UNCHANGED <<inbox, coord, issued, withdrawn>>
    BY <1>2 DEF Handle, Admit, AddCancel, CallBackend, Goto, Report, Send, ReadLine,
      TearLine,
              BodyEnds, EndStream, ReportEnd, ReadBody, BeginWrite, EndWrite, Leave, Forget
  <2> QED BY <2>1, <2>2 DEF Wrote
<1> QED BY <1>1, <1>2

(* Heartbeat loops keep the types of their variables; ReadRegistered starts *)
(* one.                                                                     *)
LEMMA BeatTypesKept ==
  ASSUME TypeOK, Run \/ Read \/ (\E b \in Conns : Heartbeat(b))
                   \/ (\E q \in Requests : Handle(q)) \/ Coordinate
  PROVE  BeatTypes'
<1> USE DEF TypeOK, RunTypes, BeatTypes, Conns, NoConn
<1>1. CASE Run
  BY <1>1 DEF Run, Dial, DialFails, Discover, NoModels, BeginRegister, EndRegister,
              ReadRegistered, ReadRegisteredFails, Retry
<1>2. ASSUME NEW b \in Conns, Heartbeat(b) PROVE BeatTypes'
  BY <1>2 DEF Heartbeat, Tick, BeginBeat, EndBeat, StopBeat
<1>3. ASSUME NEW q \in Requests, Handle(q) PROVE BeatTypes'
  BY <1>3 DEF Handle, Admit, AddCancel, CallBackend, Goto, Report, Send, ReadLine, TearLine,
              BodyEnds, EndStream, ReportEnd, ReadBody, BeginWrite, EndWrite, Leave, Forget
<1> QED BY <1>1, <1>2, <1>3, ReadKeeps, CoordinateKeeps

(* A message that is written or dropped keeps the types of the handlers.    *)
LEMMA SendKeepsTypes ==
  ASSUME TypeOK, NEW q \in Requests, NEW message \in Kinds, NEW otherwise \in Where,
         Send(q, message, otherwise), made' \in [Requests -> 0..MaxChunks]
  PROVE  HandlerTypes'
<1>1. via' \in [Requests -> 0..MaxDials]
  BY DEF Send, TypeOK, RunTypes, HandlerTypes
<1> QED BY <1>1, SendSends DEF TypeOK, HandlerTypes, Where

(* Handlers keep their types.                                               *)
LEMMA HandlerTypesHandle ==
  ASSUME IndInv, NEW q \in Requests, Handle(q)
  PROVE  HandlerTypes'
<1> USE DEF IndInv
<1>1. CASE Admit(q)
  <2>1. pc' \in [Requests -> Where]
    BY <1>1 DEF Admit, TypeOK, HandlerTypes, Where, Holding
  <2>2. load' \in Nat
    BY <1>1 DEF Admit, TypeOK, HandlerTypes
  <2> QED BY <1>1, <2>1, <2>2 DEF Admit, TypeOK, HandlerTypes, Where
<1>2. CASE AddCancel(q)
  BY <1>2 DEF AddCancel, TypeOK, RunTypes, HandlerTypes, Conns, NoConn, Apis, Holding, Kinds
<1>3. CASE CallBackend(q)
  <2>1. ASSUME NEW x \in Where, Goto(q, x) PROVE HandlerTypes'
    BY <2>1 DEF Goto, TypeOK, HandlerTypes, Where
  <2>2. ASSUME pc' = [pc EXCEPT ![q] = "responding"], speaks' = [speaks EXCEPT ![q] = api],
               UNCHANGED <<via, out, made, load, answers, cancelVars>>
        PROVE  HandlerTypes'
    BY <2>2 DEF TypeOK, RunTypes, HandlerTypes, Holding
  <2> QED BY <1>3, <2>1, <2>2 DEF CallBackend, Where, Holding
<1>4. CASE Report(q)
  <2>1. ASSUME NEW x \in Where, Goto(q, x) PROVE HandlerTypes'
    BY <2>1 DEF Goto, TypeOK, HandlerTypes, Where
  <2>2. ASSUME NEW m \in {"overloaded", "error"}, NEW o \in {"leaving", "done"},
               Send(q, m, o), made' = made
        PROVE  HandlerTypes'
    BY <2>2, SendKeepsTypes DEF TypeOK, HandlerTypes, Where, Holding, Kinds
  <2> QED BY <1>4, <2>1, <2>2 DEF Report, Where, Holding
<1>5. CASE ReadLine(q)
  <2>1. made' \in [Requests -> 0..MaxChunks]
    <3>1. made \in [Requests -> 0..MaxChunks]
      BY DEF TypeOK, HandlerTypes
    <3>2. made' = made \/ (made[q] < MaxChunks /\ made' = [made EXCEPT ![q] = @ + 1])
      BY <1>5 DEF ReadLine
    <3> QED BY <3>1, <3>2
  <2>2. ASSUME NEW m \in {"chunk", "done", "sentinel"}, NEW o \in {"leaving", "ending"},
               Send(q, m, o)
        PROVE  HandlerTypes'
    BY <2>1, <2>2, SendKeepsTypes DEF Where, Holding, Kinds
  <2> QED BY <1>5, <2>2 DEF ReadLine
<1>6. CASE TearLine(q)
  <2>1. made' \in [Requests -> 0..MaxChunks]
    BY <1>6 DEF TearLine, TypeOK, HandlerTypes
  <2> QED BY <1>6, <2>1, SendKeepsTypes DEF TearLine, Where, Holding, Kinds
<1>7. CASE BodyEnds(q)
  BY <1>7 DEF BodyEnds, EndStream, Goto, TypeOK, RunTypes, HandlerTypes, Conns, NoConn,
    Apis,
     Holding, Kinds
<1>8. CASE ReportEnd(q)
  BY <1>8, SendKeepsTypes DEF ReportEnd, TypeOK, HandlerTypes, Where, Holding, Kinds
<1>9. CASE ReadBody(q)
  <2>1. ASSUME NEW x \in Where, Goto(q, x) PROVE HandlerTypes'
    BY <2>1 DEF Goto, TypeOK, HandlerTypes, Where
  <2>2. ASSUME NEW m \in {"response", "empty"}, Send(q, m, "leaving"), made' = made
        PROVE  HandlerTypes'
    BY <2>2, SendKeepsTypes DEF TypeOK, HandlerTypes, Where, Holding, Kinds
  <2> QED BY <1>9, <2>1, <2>2 DEF ReadBody, Where, Holding
<1>10. CASE BeginWrite(q)
  BY <1>10 DEF BeginWrite, MayPanic, TypeOK, RunTypes, HandlerTypes, Conns, NoConn, Apis,
     Holding, Kinds
<1>11. CASE EndWrite(q)
  <2>1. pc' \in [Requests -> Where]
    BY <1>11 DEF EndWrite, AfterWrite, AfterOther, Chunk, TypeOK, HandlerTypes, Where,
      Holding
  <2>2. answers' \in [Requests -> Seq(Answers)]
    <3>1. CASE via[q] \notin open
      BY <1>11, <3>1 DEF EndWrite, TypeOK, HandlerTypes
    <3>2. CASE via[q] \in open
      <4>1. out[q] \in Kinds
        BY <1>11 DEF EndWrite, WriteReturns, Writes, IndInv, HandlersKeepCount, KeepsCount,
           TypeOK, HandlerTypes
      <4>2. PICK m \in Answers : answers' = [answers EXCEPT ![q] = Append(@, m)]
        <5>1. via[q] \in Conns /\ made[q] \in 0..MaxChunks /\ Carries(via[q]) \in BOOLEAN
          BY <3>2 DEF TypeOK, RunTypes, HandlerTypes, Carries
        <5>2. [kind |-> out[q], n |-> made[q], on |-> via[q], arrives |-> Carries(via[q])]
                \in Answers
          BY <4>1, <5>1 DEF Answers
        <5> QED BY <1>11, <3>2, <5>2 DEF EndWrite
      <4>3. answers \in [Requests -> Seq(Answers)]
        BY DEF TypeOK, HandlerTypes
      <4>4. Append(answers[q], m) \in Seq(Answers)
        BY <4>2, <4>3
      <4> QED BY <4>2, <4>3, <4>4
    <3> QED BY <3>1, <3>2
  <2> QED BY <1>11, <2>1, <2>2 DEF EndWrite, TypeOK, HandlerTypes, Where
<1>12. CASE Leave(q)
  <2>1. load - 1 \in Nat
    <3> DEFINE H == {r \in Requests : Admitted(r)}
    <3>1. q \in H /\ IsFiniteSet(H)
      BY <1>12, FS_Subset DEF Leave, Admitted, Holding
    <3>2. Cardinality(H) \in Nat /\ Cardinality(H) # 0
      BY <3>1, FS_CardinalityType, FS_EmptySet
    <3> QED BY <3>2 DEF IndInv, LoadIsCounted
  <2> QED BY <1>12, <2>1 DEF Leave, TypeOK, HandlerTypes
<1>13. CASE Forget(q)
  BY <1>13 DEF Forget, Unlist, TypeOK, RunTypes, HandlerTypes, Conns, NoConn, Apis, Holding,
     Kinds
<1> QED BY <1>1, <1>2, <1>3, <1>4, <1>5, <1>6, <1>7, <1>8, <1>9, <1>10, <1>11, <1>12,
           <1>13 DEF Handle

(* So do all others: only the read loop touches handlers, and cancels them. *)
LEMMA HandlerTypesElse ==
  ASSUME TypeOK, Run \/ Read \/ (\E b \in Conns : Heartbeat(b)) \/ Coordinate
  PROVE  HandlerTypes'
<1> USE DEF TypeOK, HandlerTypes
<1>1. CASE Read
  BY <1>1, ReadKeeps DEF Read, NextRead, ConnGone, ReadAck, ReadFails, ReadRequest,
    ReadCancel
<1> QED BY <1>1, RunKeeps, HeartbeatKeeps, CoordinateKeeps

(* Every step keeps the types.                                              *)
LEMMA TypesKept ==
  ASSUME IndInv, Next
  PROVE  TypeOK'
<1> USE DEF IndInv
<1>1. CASE Run
  BY <1>1, RunTypesRun, ConnTypesRun, BeatTypesKept, HandlerTypesElse DEF TypeOK
<1>2. CASE Read
  BY <1>2, RunTypesRead, ConnTypesRead, BeatTypesKept, HandlerTypesElse DEF TypeOK
<1>3. CASE \E b \in Conns : Heartbeat(b)
  BY <1>3, RunTypesElse, ConnTypesElse, BeatTypesKept, HandlerTypesElse DEF TypeOK
<1>4. CASE \E q \in Requests : Handle(q)
  BY <1>4, RunTypesElse, ConnTypesElse, BeatTypesKept, HandlerTypesHandle DEF TypeOK
<1>5. CASE Coordinate
  BY <1>5, RunTypesElse, ConnTypesCoordinate, BeatTypesKept, HandlerTypesElse DEF TypeOK
<1> QED BY <1>1, <1>2, <1>3, <1>4, <1>5 DEF Next
------------------------------------------------------------------------------
(* One connection.                                                          *)

(* Dialing opens a connection when there is none, a failure closes it.       *)
LEMMA OneConnectionRun ==
  ASSUME IndInv, Run
  PROVE  OneConnection'
<1>1. CASE Dial
  BY <1>1 DEF Dial, IndInv, TypeOK, RunTypes, OneConnection, Conns, NoConn
<1>2. CASE DialFails
  BY <1>2 DEF DialFails, IndInv, TypeOK, RunTypes, OneConnection, Conns, NoConn
<1>3. CASE Discover
  BY <1>3 DEF Discover, IndInv, TypeOK, RunTypes, OneConnection, Conns, NoConn
<1>4. CASE NoModels
  BY <1>4 DEF NoModels, IndInv, TypeOK, RunTypes, OneConnection, Conns, NoConn
<1>5. CASE BeginRegister
  BY <1>5 DEF BeginRegister, MayPanic, IndInv, TypeOK, RunTypes, OneConnection, Conns,
    NoConn
<1>6. CASE EndRegister
  BY <1>6 DEF EndRegister, Wrote, IndInv, TypeOK, RunTypes, OneConnection, Conns, NoConn
<1>7. CASE ReadRegistered
  BY <1>7 DEF ReadRegistered, IndInv, TypeOK, RunTypes, OneConnection, Conns, NoConn
<1>8. CASE ReadRegisteredFails
  BY <1>8 DEF ReadRegisteredFails, IndInv, TypeOK, RunTypes, OneConnection, Conns, NoConn
<1>9. CASE Retry
  BY <1>9 DEF Retry, Longer, IndInv, TypeOK, RunTypes, OneConnection, Conns, NoConn
<1> QED BY <1>1, <1>2, <1>3, <1>4, <1>5, <1>6, <1>7, <1>8, <1>9 DEF Run

(* The read loop goes back to dialing when its connection is gone.           *)
LEMMA OneConnectionRead ==
  ASSUME IndInv, Read
  PROVE  OneConnection'
<1>1. CASE NextRead
  BY <1>1 DEF NextRead, IndInv, TypeOK, RunTypes, OneConnection, Conns, NoConn
<1>2. CASE ConnGone
  BY <1>2 DEF ConnGone, IndInv, TypeOK, RunTypes, OneConnection, Conns, NoConn
<1>3. CASE ReadAck
  BY <1>3 DEF ReadAck, IndInv, TypeOK, RunTypes, OneConnection, Conns, NoConn
<1>4. CASE ReadFails
  <2>1. open = {} /\ phase' = "waiting" /\ conn' = NoConn /\ dialed' = dialed
    BY <1>4 DEF ReadFails, IndInv, OneConnection
  <2>2. open' = {}
    BY <1>4, <2>1 DEF ReadFails
  <2>3. NoConn <= dialed
    BY DEF IndInv, TypeOK, RunTypes, NoConn
  <2> QED BY <2>1, <2>2, <2>3 DEF OneConnection
<1>5. ASSUME NEW q \in Requests, ReadRequest(q) PROVE OneConnection'
  BY <1>5 DEF ReadRequest, IndInv, TypeOK, RunTypes, OneConnection, Conns, NoConn
<1>6. ASSUME NEW q \in Requests, ReadCancel(q) PROVE OneConnection'
  BY <1>6 DEF ReadCancel, IndInv, TypeOK, RunTypes, OneConnection, Conns, NoConn
<1> QED BY <1>1, <1>2, <1>3, <1>4, <1>5, <1>6 DEF Read

(* The others close connections only, or clear an a.conn that is closed.    *)
LEMMA OneConnectionElse ==
  ASSUME IndInv,
         (\E b \in Conns : Heartbeat(b)) \/ (\E q \in Requests : Handle(q)) \/ Coordinate
  PROVE  OneConnection'
<1> USE DEF IndInv, TypeOK, RunTypes, OneConnection, Conns, NoConn
<1>1. ASSUME NEW b \in Conns, Heartbeat(b) PROVE OneConnection'
  <2>1. UNCHANGED <<phase, dialed, open>>
    BY <1>1, HeartbeatKeeps
  <2>2. conn' = conn \/ (conn' = NoConn /\ conn \notin open)
    BY <1>1 DEF Heartbeat, Tick, BeginBeat, EndBeat, StopBeat, ForgetConn
  <2>3. CASE conn' = NoConn /\ conn \notin open
    <3>1. open = {} /\ NoConn <= dialed
      BY <2>3
    <3> QED BY <2>1, <2>3, <3>1
  <2> QED BY <2>1, <2>2, <2>3
<1>2. ASSUME NEW q \in Requests, Handle(q) PROVE OneConnection'
  BY <1>2 DEF Handle, Admit, AddCancel, CallBackend, Goto, Report, Send, ReadLine, TearLine,
              BodyEnds, EndStream, ReportEnd, ReadBody, BeginWrite, EndWrite, Leave, Forget
<1>3. CASE Coordinate
  BY <1>3 DEF Coordinate, AcceptRegister, AnswerRegistered, Cut, Break, SendRequest,
    SendCancel
<1> QED BY <1>1, <1>2, <1>3

------------------------------------------------------------------------------
(* One goroutine for each request.                                          *)

(* Taking the first message away leaves the others in their order.          *)
LEMMA TailOfInbox ==
  ASSUME IndInv, inbox[dialed] # <<>>, dialed \in Conns, NEW c \in Conns,
         inbox' = [inbox EXCEPT ![dialed] = Tail(@)]
  PROVE  /\ Len(inbox'[c]) \in Nat /\ Len(inbox[c]) \in Nat
         /\ c # dialed => inbox'[c] = inbox[c]
         /\ c = dialed => Len(inbox[c]) = Len(inbox'[c]) + 1
         /\ c = dialed => \A i \in 1..Len(inbox'[c]) : inbox'[c][i] = inbox[c][i + 1]
<1>1. inbox \in [Conns -> Seq(Messages)]
  BY DEF IndInv, TypeOK, ConnTypes
<1>2. inbox[c] \in Seq(Messages) /\ inbox[dialed] \in Seq(Messages)
  BY <1>1
<1>3. CASE c # dialed
  BY <1>1, <1>2, <1>3
<1>4. CASE c = dialed
  <2> DEFINE s == inbox[c]
  <2>1. inbox'[c] = Tail(s) /\ s \in Seq(Messages) /\ s # <<>>
    BY <1>1, <1>4
  <2> HIDE DEF s
  <2>2. /\ Len(s) \in Nat /\ Len(Tail(s)) \in Nat /\ Len(s) = Len(Tail(s)) + 1
        /\ \A i \in 1..Len(Tail(s)) : Tail(s)[i] = s[i + 1]
    BY <2>1
  <2> QED BY <1>4, <2>1, <2>2 DEF s
<1> QED BY <1>3, <1>4

(* Whatever takes the first message away, and starts the goroutine that the *)
(* message asks for at most, starts no second one.                          *)
LEMMA GoroutineAfterTail ==
  ASSUME IndInv, dialed \in Conns, inbox[dialed] # <<>>, UNCHANGED issued,
         inbox' = [inbox EXCEPT ![dialed] = Tail(@)],
         \/ pc' = pc
         \/ \E q \in Requests :
              /\ Head(inbox[dialed]) = [type |-> "request", id |-> q]
              /\ pc' = [pc EXCEPT ![q] = "spawned"]
  PROVE  OneGoroutine'
<1>1. inbox \in [Conns -> Seq(Messages)] /\ pc \in [Requests -> Where]
  BY DEF IndInv, TypeOK, ConnTypes, HandlerTypes, Where
<1>2. ASSUME NEW c \in Conns, NEW i \in 1..Len(inbox'[c]), Asks(inbox'[c][i])
      PROVE  \E k \in 1..Len(inbox[c]) :
               /\ inbox[c][k] = inbox'[c][i] /\ (c = dialed => k # 1)
               /\ k = i \/ k = i + 1
  BY <1>2, TailOfInbox
<1>3. ASSUME NEW c \in Conns, NEW i \in 1..Len(inbox'[c]), Asks(inbox'[c][i])
      PROVE  /\ issued[inbox'[c][i].id] = c /\ pc'[inbox'[c][i].id] = "idle"
  <2>1. PICK k \in 1..Len(inbox[c]) :
          inbox[c][k] = inbox'[c][i] /\ (c = dialed => k # 1)
    BY <1>2, <1>3
  <2>2. issued[inbox[c][k].id] = c /\ pc[inbox[c][k].id] = "idle"
    BY <1>3, <2>1 DEF IndInv, OneGoroutine
  <2>3. inbox[c][k] \in Messages /\ inbox[c][k].id \in Requests
    BY <1>1, <1>3, <2>1 DEF Messages, Asks
  <2>4. ASSUME NEW q \in Requests, Head(inbox[dialed]) = [type |-> "request", id |-> q],
               pc' = [pc EXCEPT ![q] = "spawned"], q = inbox[c][k].id
        PROVE  FALSE
    <3>1. inbox[dialed][1] = [type |-> "request", id |-> q] /\ 1 \in 1..Len(inbox[dialed])
      BY <1>1, <2>4
    <3>2. issued[q] = dialed
      BY <3>1 DEF IndInv, OneGoroutine, Asks
    <3>3. c = dialed
      BY <2>2, <2>4, <3>2
    <3>4. inbox[c][k] = [type |-> "request", id |-> q]
      BY <1>3, <2>1, <2>3, <2>4 DEF Messages, Asks
    <3>5. k = 1
      BY <2>1, <3>1, <3>3, <3>4 DEF IndInv, OneGoroutine, Asks
    <3> QED BY <2>1, <3>3, <3>5
  <2> QED BY <1>1, <2>1, <2>2, <2>3, <2>4
<1>4. ASSUME NEW c \in Conns, NEW i \in 1..Len(inbox'[c]), Asks(inbox'[c][i]),
             NEW j \in 1..Len(inbox'[c]), inbox'[c][j] = inbox'[c][i]
      PROVE  j = i
  <2>1. CASE c # dialed
    BY <1>4, <2>1, TailOfInbox DEF IndInv, OneGoroutine
  <2>2. CASE c = dialed
    <3>1. /\ i + 1 \in 1..Len(inbox[c]) /\ j + 1 \in 1..Len(inbox[c])
          /\ inbox[c][i + 1] = inbox'[c][i] /\ inbox[c][j + 1] = inbox'[c][j]
      BY <2>2, TailOfInbox
    <3>2. j + 1 = i + 1
      BY <1>4, <3>1 DEF IndInv, OneGoroutine
    <3> QED BY <3>2
  <2> QED BY <2>1, <2>2
<1>5. \A q \in Requests : issued[q] = NoConn => pc'[q] = "idle"
  <2>1. ASSUME NEW q \in Requests, Head(inbox[dialed]) = [type |-> "request", id |-> q]
        PROVE  issued[q] # NoConn
    <3>1. inbox[dialed][1] = [type |-> "request", id |-> q] /\ 1 \in 1..Len(inbox[dialed])
      BY <1>1, <2>1
    <3>2. issued[q] = dialed
      BY <3>1 DEF IndInv, OneGoroutine, Asks
    <3> QED BY <3>2 DEF Conns, NoConn
  <2> QED BY <1>1, <2>1 DEF IndInv, OneGoroutine
<1>6. issued' = issued
  OBVIOUS
<1>7. ASSUME NEW c \in Conns, NEW i \in 1..Len(inbox'[c]), Asks(inbox'[c][i])
      PROVE  /\ issued'[inbox'[c][i].id] = c /\ pc'[inbox'[c][i].id] = "idle"
             /\ \A j \in 1..Len(inbox'[c]) : inbox'[c][j] = inbox'[c][i] => j = i
  <2>1. issued'[inbox'[c][i].id] = c /\ pc'[inbox'[c][i].id] = "idle"
    BY <1>3, <1>6, <1>7
  <2>2. ASSUME NEW j \in 1..Len(inbox'[c]), inbox'[c][j] = inbox'[c][i] PROVE j = i
    BY <1>4, <1>7, <2>2
  <2> QED BY <2>1, <2>2
<1> QED BY <1>5, <1>6, <1>7 DEF OneGoroutine, Asks

(* A new message that asks for nothing, or for a request not yet sent.      *)
LEMMA GoroutineAfterAppend ==
  ASSUME IndInv, NEW c \in Conns, NEW m \in Messages, UNCHANGED pc,
         inbox' = [inbox EXCEPT ![c] = Append(@, m)],
         \/ ~Asks(m) /\ issued' = issued
         \/ Asks(m) /\ issued[m.id] = NoConn /\ issued' = [issued EXCEPT ![m.id] = c]
  PROVE  OneGoroutine'
<1>1. /\ inbox \in [Conns -> Seq(Messages)] /\ pc \in [Requests -> Where]
      /\ issued \in [Requests -> 0..MaxDials]
  BY DEF IndInv, TypeOK, ConnTypes, HandlerTypes, Where
<1> DEFINE s == inbox[c]
<1>2. s \in Seq(Messages) /\ inbox'[c] = Append(s, m)
      /\ \A d \in Conns \ {c} : inbox'[d] = inbox[d]
  BY <1>1
<1>3. /\ Len(s) \in Nat /\ Len(inbox'[c]) = Len(s) + 1 /\ inbox'[c][Len(s) + 1] = m
      /\ \A i \in 1..Len(s) : inbox'[c][i] = s[i]
  BY <1>2
<1>4. Asks(m) => m.id \in Requests
  BY DEF Messages, Asks
<1>5. ASSUME NEW d \in Conns, NEW i \in 1..Len(inbox[d]), Asks(inbox[d][i])
      PROVE  /\ issued[inbox[d][i].id] = d /\ pc[inbox[d][i].id] = "idle"
             /\ inbox[d][i].id \in Requests
             /\ issued'[inbox[d][i].id] = d
             /\ Asks(m) => inbox[d][i] # m
  <2>1. issued[inbox[d][i].id] = d /\ pc[inbox[d][i].id] = "idle"
    BY <1>5 DEF IndInv, OneGoroutine
  <2>2. inbox[d][i] \in Messages /\ inbox[d][i].id \in Requests
    BY <1>1, <1>5 DEF Messages, Asks
  <2>3. d # NoConn
    BY DEF Conns, NoConn
  <2>4. Asks(m) => inbox[d][i].id # m.id
    BY <2>1, <2>3
  <2> QED BY <1>1, <1>4, <2>1, <2>2, <2>4
<1>6. ASSUME NEW d \in Conns, NEW i \in 1..Len(inbox'[d]), Asks(inbox'[d][i])
      PROVE  /\ issued'[inbox'[d][i].id] = d /\ pc'[inbox'[d][i].id] = "idle"
             /\ \A j \in 1..Len(inbox'[d]) : inbox'[d][j] = inbox'[d][i] => j = i
  <2>1. CASE d # c
    <3>1. inbox'[d] = inbox[d]
      BY <1>2, <2>1
    <3>2. \A j \in 1..Len(inbox[d]) : inbox[d][j] = inbox[d][i] => j = i
      BY <1>6, <3>1 DEF IndInv, OneGoroutine
    <3>3. i \in 1..Len(inbox[d]) /\ Asks(inbox[d][i])
      BY <1>6, <3>1
    <3>4. issued'[inbox[d][i].id] = d /\ pc[inbox[d][i].id] = "idle"
      BY <1>5, <3>3
    <3>5. pc' = pc
      OBVIOUS
    <3>6. issued'[inbox'[d][i].id] = d /\ pc'[inbox'[d][i].id] = "idle"
      BY <3>1, <3>4, <3>5
    <3> QED BY <3>1, <3>2, <3>6
  <2>2. CASE d = c /\ i = Len(s) + 1
    <3>1. inbox'[d][i] = m /\ Asks(m) /\ issued[m.id] = NoConn
      BY <1>3, <1>6, <2>2
    <3>2. issued'[m.id] = d /\ pc'[m.id] = "idle"
      BY <1>1, <1>4, <2>2, <3>1 DEF IndInv, OneGoroutine
    <3>3. ASSUME NEW j \in 1..Len(inbox'[d]), inbox'[d][j] = m, j # i PROVE FALSE
      <4>1. j \in 1..Len(s) /\ s[j] = m
        BY <1>3, <2>2, <3>3
      <4> QED BY <1>5, <2>2, <3>1, <4>1
    <3> QED BY <3>1, <3>2, <3>3
  <2>3. CASE d = c /\ i \in 1..Len(s)
    <3>1. inbox'[d][i] = s[i] /\ Asks(s[i])
      BY <1>3, <1>6, <2>3
    <3>2. issued'[s[i].id] = d /\ pc'[s[i].id] = "idle" /\ (Asks(m) => s[i] # m)
      BY <1>5, <2>3, <3>1
    <3>3. ASSUME NEW j \in 1..Len(inbox'[d]), inbox'[d][j] = s[i] PROVE j = i
      <4>1. CASE j \in 1..Len(s)
        <5>1. inbox[d][j] = inbox[d][i]
          BY <1>3, <2>3, <3>3, <4>1
        <5> QED BY <2>3, <3>1, <4>1, <5>1 DEF IndInv, OneGoroutine
      <4>2. CASE j = Len(s) + 1
        BY <1>3, <2>3, <3>1, <3>2, <3>3, <4>2 DEF Asks
      <4> QED BY <1>3, <2>3, <4>1, <4>2
    <3> QED BY <3>1, <3>2, <3>3
  <2> QED BY <1>3, <2>1, <2>2, <2>3
<1>7. \A q \in Requests : issued'[q] = NoConn => pc'[q] = "idle"
  BY <1>1, <1>4 DEF IndInv, OneGoroutine, Conns, NoConn
<1> QED BY <1>6, <1>7 DEF OneGoroutine, Asks

(* Nothing changes for a step that neither sends nor reads nor starts one.  *)
LEMMA GoroutineStays ==
  ASSUME IndInv, UNCHANGED <<inbox, issued, pc>>
  PROVE  OneGoroutine'
BY DEF IndInv, OneGoroutine, Asks

(* A handler never goes back to where it started from.                      *)
LEMMA GoroutineHandle ==
  ASSUME IndInv, NEW q \in Requests, Handle(q)
  PROVE  OneGoroutine'
<1>1. Moves(q)
  BY HandlerMoves DEF IndInv
<1>2. \A r \in Requests : issued'[r] = NoConn => pc'[r] = "idle"
  BY <1>1 DEF IndInv, OneGoroutine, Moves, Stays
<1>3. ASSUME NEW c \in Conns, NEW i \in 1..Len(inbox[c]), Asks(inbox[c][i])
      PROVE  pc'[inbox[c][i].id] = "idle"
  <2>1. inbox[c][i] \in Messages
    BY DEF IndInv, TypeOK, ConnTypes
  <2>2. inbox[c][i].id \in Requests
    BY <1>3, <2>1 DEF Messages, Asks
  <2>3. pc[inbox[c][i].id] = "idle"
    BY <1>3 DEF IndInv, OneGoroutine
  <2> QED BY <1>1, <2>2, <2>3 DEF Moves, Stays
<1> QED BY <1>1, <1>2, <1>3 DEF IndInv, OneGoroutine, Moves, Asks

(* Every step keeps it.                                                     *)
LEMMA GoroutineKept ==
  ASSUME IndInv, Next
  PROVE  OneGoroutine'
<1>1. phase \in {"awaiting", "reading"} /\ dialed \in open => dialed \in Conns
  BY DEF IndInv, TypeOK, RunTypes
<1>2. CASE Run
  <2>1. CASE ReadRegistered
    BY <1>1, <2>1, GoroutineAfterTail DEF ReadRegistered
  <2>2. CASE ~ReadRegistered
    BY <1>2, <2>2, GoroutineStays DEF Run, Dial, DialFails, Discover, NoModels,
      BeginRegister,
         EndRegister, ReadRegisteredFails, Retry
  <2> QED BY <2>1, <2>2
<1>3. CASE Read
  <2>1. ASSUME NEW q \in Requests, ReadRequest(q) PROVE OneGoroutine'
    BY <1>1, <2>1, GoroutineAfterTail DEF ReadRequest
  <2>2. ASSUME NEW q \in Requests, ReadCancel(q) PROVE OneGoroutine'
    BY <1>1, <2>2, GoroutineAfterTail DEF ReadCancel
  <2>3. CASE NextRead \/ ConnGone \/ ReadAck \/ ReadFails
    BY <2>3, GoroutineStays DEF NextRead, ConnGone, ReadAck, ReadFails
  <2> QED BY <1>3, <2>1, <2>2, <2>3 DEF Read
<1>4. CASE \E b \in Conns : Heartbeat(b)
  BY <1>4, HeartbeatKeeps, GoroutineStays
<1>5. CASE \E q \in Requests : Handle(q)
  BY <1>5, GoroutineHandle
<1>6. CASE Coordinate
  <2>1. ASSUME NEW c \in Conns, AcceptRegister(c) PROVE OneGoroutine'
    BY <2>1, GoroutineStays DEF AcceptRegister
  <2>2. ASSUME NEW c \in Conns, AnswerRegistered(c) PROVE OneGoroutine'
    <3>1. [type |-> "registered"] \in Messages /\ ~Asks([type |-> "registered"])
      BY DEF Messages, Asks
    <3> QED BY <2>2, <3>1, GoroutineAfterAppend DEF AnswerRegistered
  <2>3. ASSUME NEW c \in Conns, Break(c) PROVE OneGoroutine'
    <3>1. /\ \A d \in Conns \ {c} : inbox'[d] = inbox[d]
          /\ Len(inbox'[c]) = 0 /\ issued' = issued /\ pc' = pc
      BY <2>3 DEF Break, IndInv, TypeOK, ConnTypes
    <3> QED BY <3>1 DEF IndInv, OneGoroutine, Asks
  <2>4. ASSUME NEW q \in Requests, NEW c \in Conns, SendRequest(q, c) PROVE OneGoroutine'
    <3> DEFINE m == [type |-> "request", id |-> q]
    <3>1. m \in Messages /\ Asks(m) /\ m.id = q
      BY DEF Messages, Asks
    <3>2. issued[m.id] = NoConn /\ issued' = [issued EXCEPT ![m.id] = c]
      BY <2>4 DEF SendRequest
    <3>3. inbox' = [inbox EXCEPT ![c] = Append(@, m)] /\ pc' = pc
      BY <2>4 DEF SendRequest
    <3> HIDE DEF m
    <3> QED BY <3>1, <3>2, <3>3, GoroutineAfterAppend
  <2>5. ASSUME NEW q \in Requests, SendCancel(q) PROVE OneGoroutine'
    <3> DEFINE m == [type |-> "cancel", id |-> q]
    <3>1. m \in Messages /\ ~Asks(m)
      BY DEF Messages, Asks
    <3>2. issued[q] \in Conns /\ issued' = issued /\ pc' = pc
      BY <2>5 DEF SendCancel, IndInv, TypeOK, RunTypes
    <3>3. inbox' = [inbox EXCEPT ![issued[q]] = Append(@, m)]
      BY <2>5 DEF SendCancel
    <3> HIDE DEF m
    <3> QED BY <3>1, <3>2, <3>3, GoroutineAfterAppend
  <2>6. ASSUME NEW c \in Conns, Cut(c) PROVE OneGoroutine'
    BY <2>6, GoroutineStays DEF Cut
  <2> QED BY <1>6, <2>1, <2>2, <2>3, <2>4, <2>5, <2>6 DEF Coordinate
<1> QED BY <1>2, <1>3, <1>4, <1>5, <1>6 DEF Next

(* A request that is read has not been started.                             *)
LEMMA StartsOnce ==
  ASSUME IndInv, NEW q \in Requests, ReadRequest(q)
  PROVE  /\ pc[q] = "idle" /\ pc' = [pc EXCEPT ![q] = "spawned"]
         /\ UNCHANGED <<dialed, open, cut, via, out, made, speaks, load, requests,
                        cancelled, answers>>
<1>1. dialed \in Conns /\ inbox[dialed] \in Seq(Messages) /\ inbox[dialed] # <<>>
  BY DEF ReadRequest, IndInv, TypeOK, RunTypes, ConnTypes
<1>2. inbox[dialed][1] = [type |-> "request", id |-> q] /\ 1 \in 1..Len(inbox[dialed])
  BY <1>1 DEF ReadRequest
<1>3. pc[q] = "idle"
  BY <1>1, <1>2 DEF IndInv, OneGoroutine, Asks
<1> QED BY <1>3 DEF ReadRequest

------------------------------------------------------------------------------
(* What handlers write.                                                     *)

(* A step of another handler changes none of it.                            *)
LEMMA OthersKeepCount ==
  ASSUME IndInv, NEW q \in Requests, NEW r \in Requests \ {q}, Moves(q)
  PROVE  KeepsCount(r)'
BY DEF IndInv, HandlersKeepCount, KeepsCount, Chunk, Moves, Stays, Over, Unsaid, Writes,
  Ended, Carries, Final

(* A handler without a connection to write to has lost all of them.         *)
LEMMA NothingOpenWithoutConn ==
  ASSUME IndInv, conn = NoConn
  PROVE  open = {}
BY DEF IndInv, TypeOK, RunTypes, OneConnection, Conns, NoConn

(* A message that is handed to the connection, or dropped because there is  *)
(* none, keeps what the handler knows of its body.                          *)
LEMMA SendKeepsCount ==
  ASSUME IndInv, NEW q \in Requests, NEW m \in Kinds, NEW o \in {"ending", "leaving", "done"},
         Send(q, m, o), ~Over(q),
         \/ /\ m \in {"chunk", "blank"} /\ q \in Streams
            /\ Unsaid(q) /\ o = "ending" /\ made'[q] = made[q] + 1
         \/ m \notin {"chunk", "blank"} /\ made' = made
  PROVE  KeepsCount(q)'
<1>1. Sends(q, m, o) /\ answers' = answers /\ cancelled' = cancelled /\ open' = open
      /\ dialed' = dialed /\ cut' = cut
  BY SendSends DEF IndInv, TypeOK, Where, Holding
<1>2. KeepsCount(q)
  BY DEF IndInv, HandlersKeepCount
<1>3. CASE conn = NoConn
  <2>1. pc'[q] = o /\ via'[q] = via[q] /\ open' = {}
    BY <1>1, <1>3, NothingOpenWithoutConn DEF Sends
  <2> QED BY <1>1, <1>2, <2>1 DEF KeepsCount, Chunk, Over, Unsaid, Writes, Ended, Carries,
    Final
<1>4. CASE conn # NoConn
  <2>1. pc'[q] = "sending" /\ via'[q] = conn /\ out'[q] = m
    BY <1>1, <1>4 DEF Sends
  <2>2. conn <= dialed /\ m # "none"
    BY DEF IndInv, OneConnection, Kinds
  <2>3. m \in {"chunk", "blank"} => q \in Streams /\ made'[q] = Len(answers[q]) + 1
    BY <1>2 DEF KeepsCount
  <2>4. \A i \in 1..Len(answers[q]) : ~Final(answers[q][i])
    BY <1>2 DEF KeepsCount
  <2>5. \A i \in 1..Len(answers[q]) : Carries(answers[q][i].on) => answers[q][i].arrives
    BY <1>2 DEF KeepsCount
  <2>6. \A i \in 1..Len(answers'[q]) :
          answers'[q][i].on \notin cut' => answers'[q][i].arrives
    BY <1>1, <2>5 DEF Carries
  <2>7. ~Over(q)' /\ ~Unsaid(q)' /\ Writes(q)' /\ (Chunk(q)' <=> m \in {"chunk", "blank"})
    BY <2>1 DEF Over, Unsaid, Writes, Chunk
  <2>8. pc'[q] # "idle" /\ via'[q] # NoConn /\ out'[q] # "none" /\ via'[q] <= dialed'
    BY <1>1, <1>4, <2>1, <2>2
  <2>9. \A i \in 1..Len(answers'[q]) : ~Final(answers'[q][i])
    BY <1>1, <2>4
  <2> QED BY <1>1, <2>3, <2>6, <2>7, <2>8, <2>9 DEF KeepsCount, Carries
<1> QED BY <1>3, <1>4

(* A write that gets through is one more answer, after those before it.     *)
LEMMA WriteAnswers ==
  ASSUME IndInv, NEW q \in Requests, EndWrite(q), via[q] \in open
  PROVE  /\ Len(answers'[q]) = Len(answers[q]) + 1 /\ Len(answers[q]) \in Nat
         /\ answers'[q][Len(answers[q]) + 1].kind = out[q]
         /\ answers'[q][Len(answers[q]) + 1].n = made[q]
         /\ answers'[q][Len(answers[q]) + 1].on = via[q]
         /\ answers'[q][Len(answers[q]) + 1].arrives = Carries(via[q])
         /\ \A i \in 1..Len(answers[q]) : answers'[q][i] = answers[q][i]
         /\ \A r \in Requests \ {q} : answers'[r] = answers[r]
<1> DEFINE m == [kind |-> out[q], n |-> made[q], on |-> via[q], arrives |-> Carries(via[q])]
<1>1. /\ answers'[q] = Append(answers[q], m)
      /\ \A r \in Requests \ {q} : answers'[r] = answers[r]
  BY DEF EndWrite, IndInv, TypeOK, HandlerTypes
<1>2. answers[q] \in Seq(Answers)
  BY DEF IndInv, TypeOK, HandlerTypes
<1>3. m.kind = out[q] /\ m.n = made[q] /\ m.on = via[q] /\ m.arrives = Carries(via[q])
  OBVIOUS
<1> HIDE DEF m
<1>4. /\ Len(answers'[q]) = Len(answers[q]) + 1
      /\ answers'[q][Len(answers[q]) + 1] = m
      /\ \A i \in 1..Len(answers[q]) : answers'[q][i] = answers[q][i]
      /\ Len(answers[q]) \in Nat
  BY <1>1, <1>2
<1> QED BY <1>1, <1>3, <1>4

(* No other step answers.                                                   *)
LEMMA OnlyWritesAnswer ==
  ASSUME IndInv, Next, answers' # answers
  PROVE  \E q \in Requests : EndWrite(q) /\ via[q] \in open
<1>1. ~Run /\ ~Read /\ ~Coordinate /\ \A b \in Conns : ~Heartbeat(b)
  BY RunKeeps, ReadKeeps, CoordinateKeeps, HeartbeatKeeps
<1>2. PICK q \in Requests : Handle(q)
  BY <1>1 DEF Next
<1>3. EndWrite(q)
  BY <1>2 DEF Handle, Admit, AddCancel, CallBackend, Goto, Report, Send, ReadLine, TearLine,
              BodyEnds, EndStream, ReportEnd, ReadBody, BeginWrite, Leave, Forget
<1> QED BY <1>3 DEF EndWrite

(* Every step of the handler itself keeps it.                               *)
LEMMA HandlerKeepsCount ==
  ASSUME IndInv, NEW q \in Requests, Handle(q)
  PROVE  KeepsCount(q)'
<1>1. CASE Admit(q)
  BY <1>1, HandlerMoves DEF Admit, HasCapacity, TypeOK, HandlerTypes, IndInv,
     HandlersKeepCount, KeepsCount, Chunk, Moves, Over, Unsaid, Writes, Ended, Carries,
     Final, OneConnection,
     NoConn
<1>2. CASE AddCancel(q)
  BY <1>2, HandlerMoves DEF AddCancel, TypeOK, HandlerTypes, IndInv, HandlersKeepCount,
     KeepsCount, Chunk, Moves, Over, Unsaid, Writes, Ended, Carries, Final, OneConnection,
     NoConn
<1>3. CASE CallBackend(q)
  <2>1. ASSUME NEW x \in Where, Goto(q, x), pc[q] \in {"calling", "responding", "failed"},
               x \in {"failed", "refused"}
                 \/ (x = "leaving" /\ (q \in cancelled \/ q \notin Streams))
        PROVE  KeepsCount(q)'
    BY <2>1 DEF Goto, IndInv, TypeOK, HandlerTypes, HandlersKeepCount, KeepsCount, Chunk,
       Over, Unsaid,
       Writes, Ended, Carries, Final
  <2>2. ASSUME pc[q] = "calling", pc' = [pc EXCEPT ![q] = "responding"],
               UNCHANGED <<dialed, open, cut, via, out, made, answers, cancelled>>
        PROVE  KeepsCount(q)'
    BY <2>2 DEF IndInv, TypeOK, HandlerTypes, HandlersKeepCount, KeepsCount, Chunk, Over,
       Unsaid,
       Writes, Ended, Carries, Final
  <2>5. pc[q] = "calling"
    BY <1>3 DEF CallBackend
  <2>3. CASE Goto(q, "failed")
    BY <2>1, <2>3, <2>5 DEF Where, Holding
  <2>4. CASE Goto(q, "refused")
    BY <2>1, <2>4, <2>5 DEF Where, Holding
  <2> QED BY <1>3, <2>2, <2>3, <2>4 DEF CallBackend
<1>4. CASE Report(q)
  <2>1. ASSUME NEW x \in Where, Goto(q, x), pc[q] \in {"calling", "responding", "failed"},
               x \in {"failed", "refused", "ending"}
                 \/ (x = "leaving" /\ (q \in cancelled \/ q \notin Streams))
        PROVE  KeepsCount(q)'
    BY <2>1 DEF Goto, IndInv, TypeOK, HandlerTypes, HandlersKeepCount, KeepsCount, Chunk,
       Over, Unsaid,
       Writes, Ended, Carries, Final
  <2> QED BY <1>4, <2>1, SendKeepsCount DEF Report, Where, Holding, Kinds, Over
<1>5. CASE ReadLine(q)
  <2>1. made'[q] = made[q] + 1 \/ made' = made
    BY <1>5 DEF ReadLine, IndInv, TypeOK, HandlerTypes
  <2> QED BY <1>5, <2>1, SendKeepsCount DEF ReadLine, IndInv, TypeOK, HandlerTypes, Kinds,
             Over, Unsaid
<1>6. CASE TearLine(q)
  BY <1>6, SendKeepsCount DEF TearLine, IndInv, TypeOK, HandlerTypes, Kinds, Over, Unsaid
<1>7. CASE BodyEnds(q)
  BY <1>7, HandlerMoves DEF BodyEnds, EndStream, Goto, TypeOK, HandlerTypes, IndInv,
     HandlersKeepCount, KeepsCount, Chunk, Moves, Over, Unsaid, Writes, Ended, Carries,
     Final, OneConnection,
     NoConn
<1>8. CASE ReportEnd(q)
  BY <1>8, SendKeepsCount DEF ReportEnd, Kinds, Over
<1>9. CASE ReadBody(q)
  <2>1. ASSUME NEW x \in Where, Goto(q, x), pc[q] \in {"calling", "responding", "failed"},
               x \in {"failed", "refused", "ending"}
                 \/ (x = "leaving" /\ (q \in cancelled \/ q \notin Streams))
        PROVE  KeepsCount(q)'
    BY <2>1 DEF Goto, IndInv, TypeOK, HandlerTypes, HandlersKeepCount, KeepsCount, Chunk,
       Over, Unsaid,
       Writes, Ended, Carries, Final
  <2> QED BY <1>9, <2>1, SendKeepsCount DEF ReadBody, Where, Holding, Kinds, Over
<1>10. CASE BeginWrite(q)
  BY <1>10, HandlerMoves DEF BeginWrite, MayPanic, TypeOK, HandlerTypes, IndInv,
     HandlersKeepCount, KeepsCount, Chunk, Moves, Over, Unsaid, Writes, Ended, Carries,
     Final, OneConnection,
     NoConn
<1>11. CASE EndWrite(q)
  <2> DEFINE ok == via[q] \in open
  <2>1. /\ pc[q] = "writing" /\ pc'[q] = AfterWrite(q, ok)
        /\ via' = via /\ out' = out /\ made' = made /\ dialed' = dialed /\ open' = open
        /\ cancelled' = cancelled /\ cut' = cut
    BY <1>11 DEF EndWrite, WriteReturns, IndInv, TypeOK, HandlerTypes
  <2>2. KeepsCount(q)
    BY DEF IndInv, HandlersKeepCount
  <2>3. CASE ~ok
    <3>1. answers' = answers
      BY <1>11, <2>3 DEF EndWrite
    <3>2. pc'[q] \in {"ending", "leaving", "done"}
      BY <2>1, <2>3 DEF AfterWrite, AfterOther
    <3> QED BY <2>1, <2>2, <2>3, <3>1, <3>2 DEF KeepsCount, Chunk, Over, Unsaid, Writes,
      Ended, Carries, Final
  <2>4. CASE ok
    <3>3. /\ Len(answers'[q]) = Len(answers[q]) + 1 /\ Len(answers[q]) \in Nat
          /\ answers'[q][Len(answers[q]) + 1].kind = out[q]
          /\ answers'[q][Len(answers[q]) + 1].on = via[q]
          /\ answers'[q][Len(answers[q]) + 1].arrives = Carries(via[q])
          /\ \A i \in 1..Len(answers[q]) : answers'[q][i] = answers[q][i]
      BY <1>11, <2>4, WriteAnswers
    <3>4. \A i \in 1..Len(answers'[q]) :
            answers'[q][i].on \notin cut' => answers'[q][i].arrives
      <4>1. \A i \in 1..Len(answers[q]) : Carries(answers[q][i].on) => answers[q][i].arrives
        BY <2>2 DEF KeepsCount
      <4>2. \A i \in 1..Len(answers'[q]) : i \in 1..Len(answers[q]) \/ i = Len(answers[q]) + 1
        BY <3>3
      <4> QED BY <2>1, <3>3, <4>1, <4>2 DEF Carries
    <3>5. CASE Chunk(q)
      <4>1. pc'[q] = "responding"
        BY <2>1, <2>4, <3>5 DEF AfterWrite
      <4>2. ~Over(q)' /\ Unsaid(q)' /\ ~Writes(q)' /\ pc'[q] # "idle"
        BY <4>1 DEF Over, Unsaid, Writes
      <4>3. made'[q] = Len(answers'[q]) /\ via'[q] <= dialed'
        BY <2>1, <2>2, <3>3, <3>5 DEF KeepsCount, Writes
      <4>4. \A i \in 1..Len(answers'[q]) : ~Final(answers'[q][i])
        BY <2>1, <2>2, <3>3, <3>5 DEF KeepsCount, Over, Chunk, Final
      <4> QED BY <3>4, <4>2, <4>3, <4>4 DEF KeepsCount, Carries
    <3>6. CASE ~Chunk(q)
      <4>1. pc'[q] \in {"leaving", "done"}
        BY <2>1, <2>4, <3>6 DEF AfterWrite, AfterOther
      <4>2. Over(q)' /\ ~Unsaid(q)' /\ ~Writes(q)' /\ pc'[q] # "idle"
        BY <4>1 DEF Over, Unsaid, Writes
      <4>3. via'[q] <= dialed'
        BY <2>1, <2>2 DEF KeepsCount
      <4>4. Final(answers'[q][Len(answers[q]) + 1])
        BY <3>3, <3>6 DEF Final, Chunk
      <4>5. via'[q] \in open' \ cut' => Ended(q)'
        <5>1. via[q] \notin cut => answers'[q][Len(answers[q]) + 1].arrives
          BY <3>3 DEF Carries
        <5>2. Len(answers[q]) + 1 \in 1..Len(answers'[q])
          BY <3>3
        <5> QED BY <2>1, <4>4, <5>1, <5>2 DEF Ended
      <4> QED BY <3>4, <4>2, <4>3, <4>5 DEF KeepsCount, Carries
    <3> QED BY <3>5, <3>6
  <2> QED BY <2>3, <2>4
<1>12. CASE Leave(q)
  BY <1>12, HandlerMoves DEF Leave, TypeOK, HandlerTypes, IndInv, HandlersKeepCount,
     KeepsCount, Chunk, Moves, Over, Unsaid, Writes, Ended, Carries, Final, OneConnection,
     NoConn
<1>13. CASE Forget(q)
  BY <1>13, HandlerMoves DEF Forget, Unlist, TypeOK, HandlerTypes, IndInv,
    HandlersKeepCount,
     KeepsCount, Chunk, Moves, Over, Unsaid, Writes, Ended, Carries, Final, OneConnection,
     NoConn
<1> QED BY <1>1, <1>2, <1>3, <1>4, <1>5, <1>6, <1>7, <1>8, <1>9, <1>10, <1>11, <1>12,
           <1>13 DEF Handle

(* So does every step.                                                      *)
LEMMA CountKept ==
  ASSUME IndInv, Next
  PROVE  HandlersKeepCount'
<1> SUFFICES ASSUME NEW r \in Requests PROVE KeepsCount(r)'
  BY DEF HandlersKeepCount
<1>1. KeepsCount(r)
  BY DEF IndInv, HandlersKeepCount
<1>2. ASSUME UNCHANGED <<pc, via, out, made, answers>>, dialed <= dialed',
             cancelled \subseteq cancelled', cut \subseteq cut',
             via[r] \in open' => via[r] \in open
      PROVE  KeepsCount(r)'
  <2>1. dialed \in Nat /\ dialed' \in Nat /\ via[r] \in Nat /\ via'[r] = via[r]
    <3>1. dialed \in 0..MaxDials /\ dialed' \in 0..MaxDials
      BY TypesKept DEF IndInv, TypeOK, RunTypes
    <3>2. via[r] \in 0..MaxDials
      BY DEF IndInv, TypeOK, HandlerTypes
    <3> QED BY <1>2, <3>1, <3>2
  <2>2. via'[r] <= dialed'
    BY <1>1, <1>2, <2>1 DEF KeepsCount
  <2> QED BY <1>1, <1>2, <2>1, <2>2 DEF KeepsCount, Chunk, Over, Unsaid, Writes, Ended,
    Carries, Final
<1>3. CASE Run
  <2>1. UNCHANGED <<pc, via, out, made, answers, cancelled, cut>>
    BY <1>3, RunKeeps
  <2>2. dialed <= dialed' /\ (via[r] \in open' => via[r] \in open)
    <3>1. CASE Dial
      BY <1>1, <3>1 DEF Dial, KeepsCount, IndInv, TypeOK, RunTypes, HandlerTypes
    <3>2. CASE ~Dial
      BY <1>3, <3>2 DEF Run, DialFails, Discover, NoModels, BeginRegister, EndRegister,
           ReadRegistered, ReadRegisteredFails, Retry, IndInv, TypeOK, RunTypes
    <3> QED BY <3>1, <3>2
  <2> QED BY <1>2, <2>1, <2>2
<1>4. CASE Read
  <2>1. ASSUME NEW q \in Requests, ReadRequest(q) PROVE KeepsCount(r)'
    <3>1. /\ pc[q] = "idle" /\ pc' = [pc EXCEPT ![q] = "spawned"]
          /\ UNCHANGED <<dialed, open, cut, via, out, made, cancelled, answers>>
      BY <2>1, StartsOnce
    <3>2. /\ r = q => pc[r] = "idle" /\ pc'[r] = "spawned"
          /\ r # q => pc'[r] = pc[r]
      BY <3>1 DEF IndInv, TypeOK, HandlerTypes
    <3> QED BY <1>1, <3>1, <3>2 DEF KeepsCount, Chunk, Over, Unsaid, Writes, Ended,
      Carries, Final
  <2>2. ASSUME NEW q \in Requests, ReadCancel(q) PROVE KeepsCount(r)'
    BY <1>2, <2>2 DEF ReadCancel, IndInv, TypeOK, RunTypes
  <2>3. CASE NextRead \/ ConnGone \/ ReadAck \/ ReadFails
    BY <1>2, <2>3 DEF NextRead, ConnGone, ReadAck, ReadFails, IndInv, TypeOK, RunTypes
  <2> QED BY <1>4, <2>1, <2>2, <2>3 DEF Read
<1>5. CASE \E b \in Conns : Heartbeat(b)
  <2>1. UNCHANGED <<pc, via, out, made, answers, dialed, cancelled, open, cut>>
    BY <1>5, HeartbeatKeeps
  <2> QED BY <1>2, <2>1 DEF IndInv, TypeOK, RunTypes
<1>6. CASE \E q \in Requests : Handle(q)
  BY <1>6, HandlerKeepsCount, OthersKeepCount, HandlerMoves DEF IndInv
<1>7. CASE Coordinate
  <2>1. UNCHANGED <<pc, via, out, made, answers, dialed>>
    BY <1>7, CoordinateKeeps
  <2>2. cancelled' = cancelled /\ open' \subseteq open /\ cut \subseteq cut'
    BY <1>7 DEF Coordinate, AcceptRegister, AnswerRegistered, Cut, Break, SendRequest,
      SendCancel
  <2> QED BY <1>2, <2>1, <2>2 DEF IndInv, TypeOK, RunTypes
<1> QED BY <1>3, <1>4, <1>5, <1>6, <1>7 DEF Next

(* The piece that is written next is the next one of its body, and if the   *)
(* connection still carries it, it has carried all that went over it before.*)
LEMMA HolesKept ==
  ASSUME IndInv, Next
  PROVE  HolesAreReconnects'
<1>1. CASE answers' = answers
  BY <1>1 DEF IndInv, HolesAreReconnects
<1>2. CASE answers' # answers
  <2>1. PICK q \in Requests : EndWrite(q) /\ via[q] \in open
    BY <1>2, OnlyWritesAnswer
  <2>2. /\ pc[q] = "writing" /\ (Chunk(q) => made[q] = Len(answers[q]) + 1)
        /\ \A j \in 1..Len(answers[q]) : Carries(answers[q][j].on) => answers[q][j].arrives
    BY <2>1 DEF EndWrite, WriteReturns, IndInv, HandlersKeepCount, KeepsCount, Writes
  <2>3. PICK k \in Nat : k = Len(answers[q]) + 1
    BY <2>1, WriteAnswers
  <2>4. /\ Len(answers'[q]) = k /\ Len(answers[q]) \in Nat
        /\ answers'[q][k].kind = out[q] /\ answers'[q][k].n = made[q]
        /\ answers'[q][k].on = via[q] /\ answers'[q][k].arrives = Carries(via[q])
        /\ \A i \in 1..Len(answers[q]) : answers'[q][i] = answers[q][i]
        /\ \A r \in Requests \ {q} : answers'[r] = answers[r]
    BY <2>1, <2>3, WriteAnswers
  <2> SUFFICES ASSUME NEW r \in Requests, NEW i \in 1..Len(answers'[r]), answers'[r][i].arrives,
                      answers'[r][i].kind \in {"chunk", "blank"}
               PROVE  /\ answers'[r][i].n = i
                      /\ \A j \in 1..(i - 1) :
                           answers'[r][j].on = answers'[r][i].on => answers'[r][j].arrives
    BY DEF HolesAreReconnects
  <2>5. CASE r # q
    BY <2>4, <2>5 DEF IndInv, HolesAreReconnects
  <2>6. CASE r = q /\ i = k
    <3>1. answers'[q][i].n = i
      BY <2>2, <2>3, <2>4, <2>6 DEF Chunk
    <3>2. Carries(via[q])
      BY <2>4, <2>6
    <3>3. ASSUME NEW j \in 1..(i - 1), answers'[q][j].on = answers'[q][i].on
          PROVE  answers'[q][j].arrives
      <4>1. j \in 1..Len(answers[q]) /\ answers'[q][j] = answers[q][j]
        BY <2>3, <2>4, <2>6
      <4>2. answers[q][j].on = via[q]
        BY <2>4, <2>6, <3>3, <4>1
      <4> QED BY <2>2, <3>2, <4>1, <4>2
    <3> QED BY <2>6, <3>1, <3>3
  <2>7. CASE r = q /\ i # k
    <3>1. i \in 1..Len(answers[q]) /\ answers'[q][i] = answers[q][i]
      BY <2>3, <2>4, <2>7
    <3>2. \A j \in 1..(i - 1) : answers'[q][j] = answers[q][j]
      BY <2>4, <3>1
    <3> QED BY <2>7, <3>1, <3>2 DEF IndInv, HolesAreReconnects
  <2> QED BY <2>5, <2>6, <2>7
<1> QED BY <1>1, <1>2

(* A handler that has written its final message writes nothing any more.    *)
LEMMA AnsweredOnceKept ==
  ASSUME IndInv, Next
  PROVE  AnsweredOnce'
<1>1. CASE answers' = answers
  BY <1>1 DEF IndInv, AnsweredOnce, Final
<1>2. CASE answers' # answers
  <2>1. PICK q \in Requests : EndWrite(q) /\ via[q] \in open
    BY <1>2, OnlyWritesAnswer
  <2>2. \A i \in 1..Len(answers[q]) : ~Final(answers[q][i])
    BY <2>1 DEF EndWrite, WriteReturns, IndInv, HandlersKeepCount, KeepsCount, Over
  <2>3. /\ Len(answers'[q]) = Len(answers[q]) + 1 /\ Len(answers[q]) \in Nat
        /\ \A i \in 1..Len(answers[q]) : answers'[q][i] = answers[q][i]
        /\ \A r \in Requests \ {q} : answers'[r] = answers[r]
    BY <2>1, WriteAnswers
  <2>4. ASSUME NEW i \in 1..Len(answers'[q]), Final(answers'[q][i])
        PROVE  i = Len(answers'[q])
    <3>1. i \notin 1..Len(answers[q])
      BY <2>2, <2>3, <2>4
    <3> QED BY <2>3, <3>1
  <2>5. ASSUME NEW r \in Requests \ {q}, NEW i \in 1..Len(answers'[r]), Final(answers'[r][i])
        PROVE  i = Len(answers'[r])
    BY <2>3, <2>5 DEF IndInv, AnsweredOnce
  <2> QED BY <2>4, <2>5 DEF AnsweredOnce, Final
<1> QED BY <1>1, <1>2

------------------------------------------------------------------------------
(* The agent's half of a chat completion.                                   *)

(* What arrived at the coordinator is kept unless a handler writes.         *)
LEMMA HeardStays ==
  ASSUME answers' = answers
  PROVE  Heard' = Heard
BY DEF Heard, Arrived, Message, Tells, Final

(* A write that succeeds adds one message to it at most, the next in number:*)
(* a chunk carries the number itself.                                       *)
LEMMA WriteIsHeard ==
  ASSUME IndInv, NEW q \in Requests, EndWrite(q), via[q] \in open
  PROVE  /\ Heard' \in {Heard, Heard \cup
                       {[id |-> <<q, 1>>, n |-> Len(answers[q]) + 1, kind |->
                           IF Chunk(q) THEN "chunk"
                           ELSE IF out[q] \in {"error", "overloaded"} THEN "error"
                           ELSE "final"]}}
         /\ Chunk(q) => q \in Streams /\ AfterWrite(q, TRUE) = "responding"
         /\ ~Chunk(q) => AfterWrite(q, TRUE) \in {"leaving", "done"}
<1> DEFINE Of(r) == {Message(r, i) : i \in Arrived(r)}
<1>1. PICK k \in Nat : k = Len(answers[q]) + 1
  BY WriteAnswers
<1>2. /\ Len(answers'[q]) = k /\ Len(answers[q]) \in Nat
      /\ answers'[q][k].kind = out[q] /\ answers'[q][k].n = made[q]
      /\ \A i \in 1..Len(answers[q]) : answers'[q][i] = answers[q][i]
      /\ \A r \in Requests \ {q} : answers'[r] = answers[r]
  BY <1>1, WriteAnswers
<1>3. Chunk(q) => q \in Streams /\ made[q] = k
  BY <1>1 DEF EndWrite, WriteReturns, IndInv, HandlersKeepCount, KeepsCount, Writes
<1>4. Message(q, k)' = [id |-> <<q, 1>>, n |-> k, kind |->
                         IF Chunk(q) THEN "chunk"
                         ELSE IF out[q] \in {"error", "overloaded"} THEN "error"
                         ELSE "final"]
  BY <1>2, <1>3 DEF Message, Tells, Final, Chunk
<1>5. \A i \in Arrived(q) : Message(q, i)' = Message(q, i)
  BY <1>2 DEF Arrived, Message, Tells, Final
<1>6. Of(q)' \in {Of(q), Of(q) \cup {Message(q, k)'}}
  <2>1. 1..k = (1..Len(answers[q])) \cup {k}
    BY <1>1, <1>2
  <2>2. Arrived(q)' = {i \in 1..k : answers'[q][i].arrives}
    BY <1>2 DEF Arrived
  <2>3. Arrived(q)' \in {Arrived(q), Arrived(q) \cup {k}}
    BY <1>2, <2>1, <2>2 DEF Arrived
  <2>4. Of(q)' = {Message(q, i)' : i \in Arrived(q)'}
    OBVIOUS
  <2> HIDE DEF Of
  <2>5. Of(q) = {Message(q, i) : i \in Arrived(q)}
    BY DEF Of
  <2> QED BY <1>5, <2>3, <2>4, <2>5
<1>7. \A r \in Requests \ {q} : Of(r)' = Of(r)
  BY <1>2 DEF Arrived, Message, Tells, Final
<1>8. Heard = UNION {Of(r) : r \in Requests} /\ Heard' = UNION {Of(r)' : r \in Requests}
  BY DEF Heard
<1> HIDE DEF Of
<1>9. Heard' \in {Heard, Heard \cup {Message(q, k)'}}
  BY <1>6, <1>7, <1>8
<1>10. /\ Chunk(q) => AfterWrite(q, TRUE) = "responding"
       /\ ~Chunk(q) => AfterWrite(q, TRUE) \in {"leaving", "done"}
  BY DEF AfterWrite, AfterOther, Chunk
<1> QED BY <1>1, <1>3, <1>4, <1>9, <1>10

(* A handler answers only through the write of a message.                   *)
LEMMA OnlyItsWriteAnswers ==
  ASSUME NEW q \in Requests, Handle(q), answers' # answers
  PROVE  EndWrite(q) /\ via[q] \in open
<1>1. EndWrite(q)
  BY DEF Handle, Admit, AddCancel, CallBackend, Goto, Report, Send, ReadLine, TearLine,
         BodyEnds, EndStream, ReportEnd, ReadBody, BeginWrite, Leave, Forget
<1> QED BY <1>1 DEF EndWrite

(* A handler that has nothing more to say only leaves.                      *)
LEMMA StaysOver ==
  ASSUME TypeOK, NEW q \in Requests, Handle(q), Over(q)
  PROVE  Over(q)'
<1>1. Leave(q) \/ Forget(q)
  BY DEF Over, Handle, Admit, AddCancel, CallBackend, Report, ReadLine, TearLine, BodyEnds,
         ReportEnd, ReadBody, BeginWrite, EndWrite, WriteReturns
<1> QED BY <1>1 DEF Leave, Forget, Over, TypeOK, HandlerTypes

(* What Completion sees of the agent depends on these only.                 *)
LEMMA ViewRests ==
  ASSUME UNCHANGED <<issued, answers>>, \A q \in Requests : Over(q)' = Over(q)
  PROVE  UNCHANGED Question!vars
<1>1. Stages' = Stages /\ Answering' = Answering /\ Heard' = Heard
  BY HeardStays DEF Stages, Answering, UnderWay
<1>2. Said' = Said
  BY DEF Said
<1> QED BY <1>1, <1>2 DEF Question!vars

(* The view of a step of one handler.                                       *)
LEMMA HandlerView ==
  ASSUME IndInv, NEW q \in Requests, Moves(q), ~Over(q)
  PROVE  /\ Stages' = Stages /\ <<q, 1>> \in Question!Ids /\ <<q, 1>> \in Answering
         /\ Said[<<q, 1>>] = Len(answers[q]) /\ Len(answers[q]) \in Nat
         /\ Over(q)' => Answering' = Answering \ {<<q, 1>>}
         /\ ~Over(q)' => Answering' = Answering
         /\ Said' = [Said EXCEPT ![<<q, 1>>] = IF Over(q)' THEN 0 ELSE Len(answers'[q])]
<1>1. /\ issued[q] # NoConn /\ issued' = issued
      /\ \A r \in Requests \ {q} : UnderWay(r)' = UnderWay(r)
      /\ \A r \in Requests \ {q} : Over(r)' = Over(r) /\ answers'[r] = answers[r]
  BY DEF IndInv, OneGoroutine, Moves, Stays, UnderWay, Over
<1>2. UnderWay(q) /\ (UnderWay(q)' <=> ~Over(q)')
  BY <1>1 DEF UnderWay
<1>3. Stages' = Stages
  BY <1>1 DEF Stages
<1>4. /\ <<q, 1>> \in Question!Ids /\ <<q, 1>> \in Answering
      /\ <<q, 1>> \in Requests \X (1..1)
  BY <1>2 DEF Question!Ids, Answering
<1>5. Said[<<q, 1>>] = Len(answers[q]) /\ Len(answers[q]) \in Nat
  BY <1>4 DEF Said, IndInv, TypeOK, HandlerTypes
<1>6. /\ Over(q)' => Answering' = Answering \ {<<q, 1>>}
      /\ ~Over(q)' => Answering' = Answering
  BY <1>1, <1>2 DEF Answering
<1>7. Said' = [Said EXCEPT ![<<q, 1>>] = IF Over(q)' THEN 0 ELSE Len(answers'[q])]
  <2>1. ASSUME NEW id \in Requests \X (1..1), id # <<q, 1>>
        PROVE  id[1] \in Requests \ {q}
    <3>1. PICK r \in Requests, i \in 1..1 : id = <<r, i>>
      OBVIOUS
    <3>2. i = 1 /\ id[1] = r
      BY <3>1
    <3> QED BY <2>1, <3>1, <3>2
  <2>2. ASSUME NEW id \in Requests \X (1..1), id # <<q, 1>>
        PROVE  (IF Over(id[1])' THEN 0 ELSE Len(answers'[id[1]])) = Said[id]
    BY <1>1, <2>1, <2>2 DEF Said
  <2>3. Said' = [id \in Requests \X (1..1) |->
                   IF Over(id[1])' THEN 0 ELSE Len(answers'[id[1]])]
    BY DEF Said
  <2>4. Said = [id \in Requests \X (1..1) |-> Said[id]]
    BY DEF Said
  <2>5. (<<q, 1>>)[1] = q
    OBVIOUS
  <2> QED BY <1>4, <2>2, <2>3, <2>4, <2>5
<1> QED BY <1>3, <1>4, <1>5, <1>6, <1>7

(* A step of a handler says a piece of the answer or the last word, gives   *)
(* it up, or is none of the client's business.                              *)
LEMMA HandlerAnswers ==
  ASSUME IndInv, NEW q \in Requests, Handle(q)
  PROVE  (<<q, 1>> \in Question!Ids /\ Question!Agent(<<q, 1>>)) \/ UNCHANGED Question!vars
<1> DEFINE id == <<q, 1>>
<1>1. Moves(q)
  BY HandlerMoves DEF IndInv
<1>2. CASE answers' = answers /\ (Over(q) <=> Over(q)')
  <2>1. \A r \in Requests : Over(r)' = Over(r)
    BY <1>1, <1>2 DEF Moves, Stays, Over
  <2>2. issued' = issued
    BY <1>1 DEF Moves
  <2> QED BY <1>2, <2>1, <2>2, ViewRests
<1>3. CASE answers' = answers /\ ~Over(q) /\ Over(q)'
  <2>1. Heard' = Heard
    BY <1>3, HeardStays
  <2>2. Question!FallSilent(id)
    BY <1>1, <1>3, <2>1, HandlerView DEF Question!FallSilent
  <2>3. id \in Question!Ids
    BY <1>1, <1>3, HandlerView
  <2> QED BY <2>2, <2>3 DEF Question!Agent
<1>4. CASE answers' # answers
  <2>1. EndWrite(q) /\ via[q] \in open
    BY <1>4, OnlyItsWriteAnswers
  <2>2. pc[q] = "writing" /\ ~Over(q) /\ pc'[q] = AfterWrite(q, TRUE)
    BY <2>1 DEF EndWrite, WriteReturns, Over, IndInv, TypeOK, HandlerTypes
  <2>3. Len(answers'[q]) = Len(answers[q]) + 1
    BY <2>1, WriteAnswers
  <2>4. CASE Chunk(q)
    <3>1. ~Over(q)' /\ q \in Streams
      BY <2>1, <2>2, <2>4, WriteIsHeard DEF Over
    <3>2. Heard' \in {Heard, Heard \cup {[id |-> id, kind |-> "chunk", n |-> Said[id] + 1]}}
      BY <1>1, <2>1, <2>2, <2>4, WriteIsHeard, HandlerView
    <3>3. id \in Question!Ids /\ id \in Answering /\ Stages' = Stages /\ Answering' = Answering
          /\ Said' = [Said EXCEPT ![id] = @ + 1]
      BY <1>1, <2>2, <2>3, <3>1, HandlerView
    <3>4. Question!Say(id)
      BY <3>1, <3>2, <3>3 DEF Question!Say, Question!Utter
    <3> QED BY <3>3, <3>4 DEF Question!Agent
  <2>5. CASE ~Chunk(q)
    <3> DEFINE kind == IF out[q] \in {"error", "overloaded"} THEN "error" ELSE "final"
    <3>1. Over(q)'
      BY <2>1, <2>2, <2>5, WriteIsHeard DEF Over
    <3>2. Heard' \in {Heard, Heard \cup {[id |-> id, kind |-> kind, n |-> Said[id] + 1]}}
      BY <1>1, <2>1, <2>2, <2>5, WriteIsHeard, HandlerView
    <3>3. /\ id \in Question!Ids /\ id \in Answering /\ Stages' = Stages
          /\ Answering' = Answering \ {id} /\ Said' = [Said EXCEPT ![id] = 0]
      BY <1>1, <2>2, <2>3, <3>1, HandlerView
    <3>4. kind \in Question!Endings
      BY DEF Question!Endings
    <3> HIDE DEF kind
    <3>5. Question!Conclude(id, kind)
      BY <3>2, <3>3 DEF Question!Conclude, Question!Utter
    <3> QED BY <3>3, <3>4, <3>5 DEF Question!Agent
  <2> QED BY <2>4, <2>5
<1>5. Over(q) => Over(q)'
  BY StaysOver DEF IndInv
<1> QED BY <1>2, <1>3, <1>4, <1>5

(* A request that is sent is a question nobody has answered yet.            *)
LEMMA SendAsks ==
  ASSUME IndInv, NEW q \in Requests, NEW c \in Conns, SendRequest(q, c)
  PROVE  Question!Ask(q)
<1>1. /\ issued[q] = NoConn /\ issued' = [issued EXCEPT ![q] = c] /\ c # NoConn
      /\ issued \in [Requests -> 0..MaxDials]
      /\ answers' = answers /\ pc' = pc /\ pc[q] = "idle" /\ answers[q] = <<>>
  BY DEF SendRequest, IndInv, TypeOK, ConnTypes, OneGoroutine, HandlersKeepCount,
    KeepsCount,
         Conns, NoConn
<1>2. /\ \A r \in Requests \ {q} : UnderWay(r)' = UnderWay(r)
      /\ ~UnderWay(q) /\ UnderWay(q)' /\ ~Over(q)
  BY <1>1 DEF UnderWay, Over
<1>3. Stages[q] = "open" /\ Stages' = [Stages EXCEPT ![q] = "asked"]
  BY <1>1 DEF Stages
<1>4. <<q, 1>> \notin Answering /\ Answering' = Answering \cup {<<q, 1>>}
  BY <1>2 DEF Answering
<1>5. Said[<<q, 1>>] = 0 /\ Said' = Said
  <2>1. <<q, 1>> \in Requests \X (1..1) /\ Len(answers[q]) = 0
    BY <1>1
  <2> QED BY <1>1, <1>2, <2>1 DEF Said, Over
<1>6. Heard' = Heard /\ \A msg \in Heard : msg.id # <<q, 1>>
  <2>1. ASSUME NEW r \in Requests, NEW i \in 1..Len(answers[r])
        PROVE  Message(r, i).id # <<q, 1>>
    <3>1. r # q
      BY <1>1
    <3> QED BY <3>1 DEF Message
  <2>2. ASSUME NEW msg \in Heard PROVE msg.id # <<q, 1>>
    <3>1. PICK r \in Requests : msg \in {Message(r, i) : i \in Arrived(r)}
      BY <2>2 DEF Heard
    <3>2. PICK i \in 1..Len(answers[r]) : msg = Message(r, i)
      BY <3>1 DEF Arrived
    <3> QED BY <2>1, <3>2
  <2> QED BY <1>1, <2>2, HeardStays
<1>7. Question!Id(q) = <<q, 1>>
  BY DEF Question!Id
<1> QED BY <1>3, <1>4, <1>5, <1>6, <1>7 DEF Question!Ask

------------------------------------------------------------------------------
(* Load and cancel functions.                                               *)

(* A handler is admitted once, leaves once, lists its cancel function in    *)
(* between and takes it off the list after that.                            *)
Accounts(q) ==
  \/ /\ pc[q] # "left" /\ Admitted(q)' = Admitted(q) /\ load' = load
     /\ requests' = requests \/ (Admitted(q)' /\ requests' = requests \cup {q})
  \/ ~Admitted(q) /\ Admitted(q)' /\ HasCapacity /\ load' = load + 1 /\ requests' = requests
  \/ Admitted(q) /\ ~Admitted(q)' /\ pc'[q] = "left" /\ load' = load - 1 /\ requests' = requests
  \/ ~Admitted(q) /\ ~Admitted(q)' /\ load' = load /\ requests' = requests \ {q}

(* That is what each of its steps does.                                     *)
LEMMA HandlerAccounts ==
  ASSUME IndInv, NEW q \in Requests, Handle(q)
  PROVE  Accounts(q)
<1>1. CASE Admit(q)
  BY <1>1 DEF Admit, HasCapacity, Accounts, Admitted, Holding, IndInv, TypeOK, HandlerTypes
<1>2. CASE AddCancel(q)
  BY <1>2 DEF AddCancel, Accounts, Admitted, Holding, IndInv, TypeOK, HandlerTypes
<1>3. CASE CallBackend(q)
  <2>1. ASSUME NEW x \in Holding, Goto(q, x), pc[q] \in Holding PROVE Accounts(q)
    BY <2>1 DEF Goto, Accounts, Admitted, Holding, IndInv, TypeOK, HandlerTypes
  <2>2. ASSUME pc[q] = "calling", pc' = [pc EXCEPT ![q] = "responding"],
               UNCHANGED <<out, load, requests>>
        PROVE  Accounts(q)
    BY <2>2 DEF Accounts, Admitted, Holding, IndInv, TypeOK, HandlerTypes
  <2> QED BY <1>3, <2>1, <2>2 DEF CallBackend, Holding
<1>4. CASE Report(q)
  <2>1. ASSUME NEW x \in Holding, Goto(q, x), pc[q] \in Holding PROVE Accounts(q)
    BY <2>1 DEF Goto, Accounts, Admitted, Holding, IndInv, TypeOK, HandlerTypes
  <2>2. ASSUME NEW m \in Kinds \ {"overloaded"}, NEW o \in Holding,
               Send(q, m, o), pc[q] \in Holding
        PROVE  Accounts(q)
    BY <2>2, SendSends DEF Sends, Accounts, Admitted, Where, Holding, IndInv, TypeOK
  <2>3. ASSUME pc[q] = "overloaded", Send(q, "overloaded", "done") PROVE Accounts(q)
    BY <2>3, SendSends DEF Sends, Accounts, Admitted, Where, Holding, Kinds, IndInv, TypeOK
  <2> QED BY <1>4, <2>1, <2>2, <2>3 DEF Report, Kinds, Holding
<1>5. CASE ReadLine(q)
  <2>1. ASSUME NEW m \in Kinds \ {"overloaded"}, NEW o \in Holding,
               Send(q, m, o), pc[q] \in Holding
        PROVE  Accounts(q)
    BY <2>1, SendSends DEF Sends, Accounts, Admitted, Where, Holding, IndInv, TypeOK
  <2> QED BY <1>5, <2>1 DEF ReadLine, Kinds, Holding
<1>6. CASE TearLine(q)
  <2>1. ASSUME NEW m \in Kinds \ {"overloaded"}, NEW o \in Holding,
               Send(q, m, o), pc[q] \in Holding
        PROVE  Accounts(q)
    BY <2>1, SendSends DEF Sends, Accounts, Admitted, Where, Holding, IndInv, TypeOK
  <2> QED BY <1>6, <2>1 DEF TearLine, Kinds, Holding
<1>7. CASE BodyEnds(q)
  <2>1. ASSUME NEW x \in Holding, Goto(q, x), pc[q] \in Holding PROVE Accounts(q)
    BY <2>1 DEF Goto, Accounts, Admitted, Holding, IndInv, TypeOK, HandlerTypes
  <2> QED BY <1>7, <2>1 DEF BodyEnds, EndStream, Holding
<1>8. CASE ReportEnd(q)
  <2>1. ASSUME NEW m \in Kinds \ {"overloaded"}, NEW o \in Holding,
               Send(q, m, o), pc[q] \in Holding
        PROVE  Accounts(q)
    BY <2>1, SendSends DEF Sends, Accounts, Admitted, Where, Holding, IndInv, TypeOK
  <2> QED BY <1>8, <2>1 DEF ReportEnd, Kinds, Holding
<1>9. CASE ReadBody(q)
  <2>1. ASSUME NEW x \in Holding, Goto(q, x), pc[q] \in Holding PROVE Accounts(q)
    BY <2>1 DEF Goto, Accounts, Admitted, Holding, IndInv, TypeOK, HandlerTypes
  <2>2. ASSUME NEW m \in Kinds \ {"overloaded"}, NEW o \in Holding,
               Send(q, m, o), pc[q] \in Holding
        PROVE  Accounts(q)
    BY <2>2, SendSends DEF Sends, Accounts, Admitted, Where, Holding, IndInv, TypeOK
  <2> QED BY <1>9, <2>1, <2>2 DEF ReadBody, Kinds, Holding
<1>10. CASE BeginWrite(q)
  BY <1>10 DEF BeginWrite, MayPanic, Accounts, Admitted, Holding, IndInv, TypeOK,
    HandlerTypes
<1>11. CASE EndWrite(q)
  <2>1. /\ pc[q] = "writing" /\ pc'[q] = AfterWrite(q, via[q] \in open)
        /\ out' = out /\ load' = load /\ requests' = requests
    BY <1>11 DEF EndWrite, WriteReturns, IndInv, TypeOK, HandlerTypes
  <2> QED BY <2>1 DEF AfterWrite, AfterOther, Chunk, Accounts, Admitted, Holding
<1>12. CASE Leave(q)
  BY <1>12 DEF Leave, Accounts, Admitted, Holding, IndInv, TypeOK, HandlerTypes
<1>13. CASE Forget(q)
  BY <1>13 DEF Forget, Unlist, Accounts, Admitted, Holding, IndInv, TypeOK, HandlerTypes
<1> QED BY <1>1, <1>2, <1>3, <1>4, <1>5, <1>6, <1>7, <1>8, <1>9, <1>10, <1>11, <1>12,
           <1>13 DEF Handle

(* The others admit nobody and register no cancel function.                 *)
LEMMA OthersAccount ==
  ASSUME IndInv, Run \/ Read \/ (\E b \in Conns : Heartbeat(b)) \/ Coordinate
  PROVE  /\ load' = load /\ requests' \subseteq requests
         /\ \A r \in Requests : Admitted(r)' = Admitted(r) /\ (pc[r] = "left" => pc'[r] = "left")
<1>1. ASSUME UNCHANGED <<pc, out, load>>, requests' \subseteq requests
      PROVE  /\ load' = load /\ requests' \subseteq requests
             /\ \A r \in Requests :
                  Admitted(r)' = Admitted(r) /\ (pc[r] = "left" => pc'[r] = "left")
  BY <1>1 DEF Admitted
<1>2. CASE Read
  <2>1. ASSUME NEW q \in Requests, ReadRequest(q)
        PROVE  /\ load' = load /\ requests' \subseteq requests
               /\ \A r \in Requests :
                    Admitted(r)' = Admitted(r) /\ (pc[r] = "left" => pc'[r] = "left")
    BY <2>1, StartsOnce DEF Admitted, Holding, IndInv, TypeOK, HandlerTypes
  <2>2. CASE ~\E q \in Requests : ReadRequest(q)
    BY <1>1, <1>2, <2>2 DEF Read, NextRead, ConnGone, ReadAck, ReadFails, ReadCancel
  <2> QED BY <2>1, <2>2
<1>3. CASE Run
  BY <1>1, <1>3, RunKeeps
<1>4. CASE (\E b \in Conns : Heartbeat(b)) \/ Coordinate
  BY <1>1, <1>4, HeartbeatKeeps, CoordinateKeeps
<1> QED BY <1>2, <1>3, <1>4

(* The load follows the number of admitted requests.                        *)
LEMMA LoadKept ==
  ASSUME IndInv, Next
  PROVE  LoadIsCounted'
<1> DEFINE H == {q \in Requests : Admitted(q)}
<1>1. /\ IsFiniteSet(H) /\ Cardinality(H) \in Nat
      /\ load = Cardinality(H) /\ load <= MaxConcurrent
  BY FS_Subset, FS_CardinalityType, RequestsAssumption DEF IndInv, LoadIsCounted
<1>2. LoadIsCounted' = (load' = Cardinality(H') /\ load' <= MaxConcurrent)
  BY DEF LoadIsCounted
<1> HIDE DEF H
<1>3. CASE Run \/ Read \/ (\E b \in Conns : Heartbeat(b)) \/ Coordinate
  <2>1. H' = H /\ load' = load
    BY <1>3, OthersAccount DEF H
  <2> QED BY <1>1, <1>2, <2>1
<1>4. ASSUME NEW q \in Requests, Handle(q) PROVE LoadIsCounted'
  <2>1. \A r \in Requests \ {q} : Admitted(r)' = Admitted(r)
    BY <1>4, HandlerMoves DEF Moves, Stays, Admitted, IndInv
  <2>2. CASE load' = load /\ (Admitted(q)' <=> Admitted(q))
    <3>1. H' = H
      BY <2>1, <2>2 DEF H
    <3> QED BY <1>1, <1>2, <2>2, <3>1
  <2>3. CASE ~Admitted(q) /\ Admitted(q)' /\ HasCapacity /\ load' = load + 1
    <3>1. H' = H \cup {q} /\ q \notin H
      BY <2>1, <2>3 DEF H
    <3>2. Cardinality(H') = Cardinality(H) + 1
      BY <1>1, <3>1, FS_AddElement
    <3>3. load < MaxConcurrent
      BY <2>3 DEF HasCapacity
    <3>4. load' = Cardinality(H') /\ load' <= MaxConcurrent
      BY <1>1, <2>3, <3>2, <3>3
    <3> QED BY <1>2, <3>4
  <2>4. CASE Admitted(q) /\ ~Admitted(q)' /\ load' = load - 1
    <3>1. H' = H \ {q} /\ q \in H
      BY <2>1, <2>4 DEF H
    <3>2. Cardinality(H') = Cardinality(H) - 1
      BY <1>1, <3>1, FS_RemoveElement
    <3>3. load' = Cardinality(H') /\ load' <= MaxConcurrent
      BY <1>1, <2>4, <3>2
    <3> QED BY <1>2, <3>3
  <2>5. Accounts(q)
    BY <1>4, HandlerAccounts
  <2> QED BY <2>2, <2>3, <2>4, <2>5 DEF Accounts
<1> QED BY <1>3, <1>4 DEF Next

(* A cancel function is listed by its handler and by nobody after it.       *)
LEMMA CancelsKept ==
  ASSUME IndInv, Next
  PROVE  CancelsBelongToHandlers'
<1> SUFFICES ASSUME NEW r \in requests' PROVE Admitted(r)' \/ pc'[r] = "left"
  BY DEF CancelsBelongToHandlers
<1>1. requests \subseteq Requests /\ \A q \in requests : Admitted(q) \/ pc[q] = "left"
  BY DEF IndInv, TypeOK, HandlerTypes, CancelsBelongToHandlers
<1>2. CASE Run \/ Read \/ (\E b \in Conns : Heartbeat(b)) \/ Coordinate
  BY <1>1, <1>2, OthersAccount
<1>3. ASSUME NEW q \in Requests, Handle(q) PROVE Admitted(r)' \/ pc'[r] = "left"
  <2>1. CASE r # q
    <3>1. r \in requests
      BY <1>3, <2>1, HandlerAccounts DEF Accounts
    <3>2. pc'[r] = pc[r] /\ out'[r] = out[r]
      BY <1>1, <1>3, <2>1, <3>1, HandlerMoves DEF Moves, Stays, IndInv
    <3> QED BY <1>1, <3>1, <3>2 DEF Admitted
  <2>2. CASE r = q
    BY <1>1, <1>3, <2>2, HandlerAccounts DEF Accounts
  <2> QED BY <2>1, <2>2
<1> QED BY <1>2, <1>3 DEF Next
------------------------------------------------------------------------------
(* The theorems.                                                            *)

(* At the start nothing is connected and no request known.                  *)
LEMMA InitHolds ==
  ASSUME Init
  PROVE  IndInv
<1>1. TypeOK
  <2>1. RunTypes
    <3>1. 0 \in 0..MaxDials /\ ReconnectMin \in ReconnectMin..ReconnectMax
      OBVIOUS
    <3>2. phase = "idle" /\ api \in Apis /\ open = {} /\ cut = {} /\ panicked \in BOOLEAN
      BY DEF Init, Apis
    <3>3. dialed = 0 /\ backoff = ReconnectMin /\ conn = 0
      BY DEF Init, NoConn
    <3> QED BY <3>1, <3>2, <3>3 DEF RunTypes
  <2>2. ConnTypes
    BY DEF Init, ConnTypes, NoConn
  <2>3. BeatTypes
    BY DEF Init, BeatTypes, NoConn
  <2>4. HandlerTypes
    BY DEF Init, HandlerTypes, NoConn, Apis
  <2> QED BY <2>1, <2>2, <2>3, <2>4 DEF TypeOK
<1>2. OneConnection /\ OneGoroutine
  BY DEF Init, OneConnection, OneGoroutine, Asks, Conns, NoConn
<1>3. HandlersKeepCount
  <2>1. ASSUME NEW q \in Requests PROVE KeepsCount(q)
    <3>1. /\ pc[q] = "idle" /\ via[q] = 0 /\ dialed = 0 /\ made[q] = 0
          /\ answers[q] = <<>> /\ Len(answers[q]) = 0
      BY DEF Init, NoConn
    <3>2. open = {}
      BY DEF Init
    <3> QED BY <3>1, <3>2 DEF KeepsCount, Over, Unsaid, Writes
  <2> QED BY <2>1 DEF HandlersKeepCount
<1>4. LoadIsCounted
  <2>1. {q \in Requests : Admitted(q)} = {}
    BY DEF Init, Admitted, Holding
  <2>2. Cardinality({}) = 0
    BY FS_EmptySet
  <2>3. load = 0 /\ 0 <= MaxConcurrent
    BY DEF Init
  <2> QED BY <2>1, <2>2, <2>3 DEF LoadIsCounted
<1>5. CancelsBelongToHandlers
  BY DEF Init, CancelsBelongToHandlers
<1>6. HolesAreReconnects /\ AnsweredOnce
  <2>1. \A q \in Requests : Len(answers[q]) = 0
    BY DEF Init
  <2> QED BY <2>1 DEF HolesAreReconnects, AnsweredOnce
<1> QED BY <1>1, <1>2, <1>3, <1>4, <1>5, <1>6 DEF IndInv

(* Every step keeps all of it, and so does a stutter.                       *)
LEMMA NextKeeps ==
  ASSUME IndInv, [Next]_vars
  PROVE  IndInv'
<1>1. CASE Next
  <2>1. OneConnection'
    BY <1>1, OneConnectionRun, OneConnectionRead, OneConnectionElse DEF Next
  <2> QED BY <1>1, <2>1, TypesKept, GoroutineKept, CountKept, HolesKept, AnsweredOnceKept,
              LoadKept, CancelsKept DEF IndInv
<1>2. CASE UNCHANGED vars
  <2> USE <1>2 DEF vars, IndInv
  <2>1. TypeOK'
    BY DEF TypeOK, RunTypes, ConnTypes, BeatTypes, HandlerTypes
  <2>2. OneConnection' /\ OneGoroutine'
    BY DEF OneConnection, OneGoroutine, Asks
  <2>3. HandlersKeepCount'
    BY DEF HandlersKeepCount, KeepsCount, Over, Unsaid, Writes, Chunk, Ended, Carries, Final
  <2>4. LoadIsCounted' /\ CancelsBelongToHandlers'
    BY DEF LoadIsCounted, Admitted, CancelsBelongToHandlers
  <2>5. HolesAreReconnects' /\ AnsweredOnce'
    BY DEF HolesAreReconnects, AnsweredOnce, Final
  <2> QED BY <2>1, <2>2, <2>3, <2>4, <2>5
<1> QED BY <1>1, <1>2

(* Whatever breaks, is cancelled, is refused or changes its type, the       *)
(* invariant holds: one connection, one goroutine for each request, and     *)
(* each goroutine knows what it has written.                                *)
THEOREM Inductive == Spec => []IndInv
<1>1. Init => IndInv
  BY InitHolds
<1>2. IndInv /\ [Next]_vars => IndInv'
  BY NextKeeps
<1> QED BY <1>1, <1>2, PTL DEF Spec

(* Every variable keeps its type.                                           *)
THEOREM TypeCorrect == Spec => []TypeOK
<1>1. IndInv => TypeOK
  BY DEF IndInv
<1> QED BY <1>1, Inductive, PTL

(* a.currentLoad is the number of admitted requests, on every path through  *)
(* handleRequest, and never above MaxConcurrent.                            *)
THEOREM LoadStaysCounted == Spec => []LoadIsCounted
<1>1. IndInv => LoadIsCounted
  BY DEF IndInv
<1> QED BY <1>1, Inductive, PTL

(* a.requests lists no handler that has left.                               *)
THEOREM CancelsStayOwned == Spec => []CancelsBelongToHandlers
<1>1. IndInv => CancelsBelongToHandlers
  BY DEF IndInv
<1> QED BY <1>1, Inductive, PTL

(* What arrives of a stream over one connection is a run of its pieces, in  *)
(* order and with none missing in between: pieces are lost only where it    *)
(* goes on over another connection.                                         *)
THEOREM HolesOnlyAtReconnects == Spec => []HolesAreReconnects
<1>1. IndInv => HolesAreReconnects
  BY DEF IndInv
<1> QED BY <1>1, Inductive, PTL

(* A request gets one final message at most, and nothing after it.          *)
THEOREM AnsweredAtMostOnce == Spec => []AnsweredOnce
<1>1. IndInv => AnsweredOnce
  BY DEF IndInv
<1> QED BY <1>1, Inductive, PTL

(* The read loop never loses a live connection to a heartbeat of an earlier *)
(* one.                                                                     *)
THEOREM ReadLoopKeeps == Spec => []ReadLoopKeepsConn
<1>1. IndInv => ReadLoopKeepsConn
  BY DEF IndInv, OneConnection, ReadLoopKeepsConn
<1> QED BY <1>1, Inductive, PTL

(* A stream that ends over a connection that still carries what is written  *)
(* ends with a final message that arrives.                                  *)
THEOREM StreamsEnd == Spec => []StreamsAreEnded
<1>1. IndInv => StreamsAreEnded
  BY RequestsAssumption DEF IndInv, HandlersKeepCount, KeepsCount, Over, StreamsAreEnded,
    Ended
<1> QED BY <1>1, Inductive, PTL
(* Whatever breaks and however connections are replaced, the agent keeps    *)
(* its half of a chat completion: a request is one question, answered in    *)
(* order, with one last word at most, and what is lost on the way is lost.  *)
THEOREM AgentKeepsItsHalf == Spec => AnswersQuestions
<1>1. Init => Answering = {} /\ Heard = {}
  <2>1. ASSUME Init PROVE Answering = {} /\ Heard = {}
    <3>1. \A q \in Requests : issued[q] = NoConn /\ Len(answers[q]) = 0
      BY <2>1 DEF Init
    <3>2. \A q \in Requests : Arrived(q) = {}
      BY <3>1 DEF Arrived
    <3> QED BY <3>1, <3>2 DEF Answering, UnderWay, Heard
  <2> QED BY <2>1
<1>2. IndInv /\ [Next]_vars =>
        [(\E q \in Requests : Question!Ask(q))
           \/ (\E id \in Question!Ids : Question!Agent(id))]_Question!vars
  <2> SUFFICES ASSUME IndInv, [Next]_vars
               PROVE  \/ \E q \in Requests : Question!Ask(q)
                      \/ \E id \in Question!Ids : Question!Agent(id)
                      \/ UNCHANGED Question!vars
    OBVIOUS
  <2>1. ASSUME UNCHANGED <<issued, answers, pc>> PROVE UNCHANGED Question!vars
    BY <2>1, ViewRests DEF Over
  <2>2. CASE Run \/ (\E b \in Conns : Heartbeat(b)) \/ UNCHANGED vars
    BY <2>1, <2>2, RunKeeps, HeartbeatKeeps DEF vars
  <2>3. CASE Read
    <3>1. ASSUME NEW q \in Requests, ReadRequest(q) PROVE UNCHANGED Question!vars
      <4>1. pc[q] = "idle" /\ pc' = [pc EXCEPT ![q] = "spawned"] /\ answers' = answers
        BY <3>1, StartsOnce
      <4>2. \A r \in Requests : Over(r)' = Over(r)
        BY <4>1 DEF Over, IndInv, TypeOK, HandlerTypes
      <4> QED BY <3>1, <4>1, <4>2, ViewRests DEF ReadRequest
    <3>2. CASE ~\E q \in Requests : ReadRequest(q)
      BY <2>1, <2>3, <3>2 DEF Read, NextRead, ConnGone, ReadAck, ReadFails, ReadCancel
    <3> QED BY <3>1, <3>2
  <2>4. ASSUME NEW q \in Requests, Handle(q)
        PROVE  (\E id \in Question!Ids : Question!Agent(id)) \/ UNCHANGED Question!vars
    BY <2>4, HandlerAnswers
  <2>5. CASE Coordinate
    <3>1. ASSUME NEW q \in Requests, NEW c \in Conns, SendRequest(q, c)
          PROVE  Question!Ask(q)
      BY <3>1, SendAsks
    <3>2. CASE ~\E q \in Requests, c \in Conns : SendRequest(q, c)
      BY <2>1, <2>5, <3>2 DEF Coordinate, AcceptRegister, AnswerRegistered, Cut, Break,
        SendCancel
    <3> QED BY <3>1, <3>2
  <2> QED BY <2>2, <2>3, <2>4, <2>5 DEF Next
<1> QED BY <1>1, <1>2, Inductive, PTL DEF Spec, AnswersQuestions, Question!AgentHalf
=============================================================================
