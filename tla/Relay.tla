-------------------------------- MODULE Relay --------------------------------
(***************************************************************************)
(* The relay plane of the coordinator: the machine registry                 *)
(* (coord/registry.go), the provider WebSocket handler with its read loop   *)
(* (coord/ws.go) and the two chat-completion handlers (coord/api.go).       *)
(*                                                                          *)
(* A "session" is one MachineSession object, created by one WebSocket       *)
(* connection of one machine; the registry maps a machine to at most one    *)
(* of them, but goroutines keep pointers to replaced ones.  An "id" is one  *)
(* request id: attempt n of client request q.  Every action is one          *)
(* critical section, one channel operation or one socket operation of one   *)
(* goroutine, so the goroutines interleave where the code lets them.        *)
(*                                                                          *)
(* The agent at the other end of a connection is an environment here: it    *)
(* answers a request it received with any sequence of messages it can send. *)
(*                                                                          *)
(* WakeNobody, UnregisterKeeping, WaitsForEver, RelayConcurrently,          *)
(* NoTimers, EndWaitHolding, RetriesOnceMore, AsksAgain and CancelKeepingMap*)
(* are faulty versions of the definition that follows them: no action uses  *)
(* them.  Like ReadFails in place of MustClose, they show which fault each  *)
(* property finds.                                                          *)
(***************************************************************************)
EXTENDS Integers, Sequences, FiniteSets

CONSTANTS
  Machines,       \* machine ids
  Sessions,       \* MachineSession objects (one per WebSocket connection)
  Requests,       \* client chat requests
  NoSession,      \* the nil *MachineSession
  MachineOf,      \* [Sessions -> Machines]
  TargetOf,       \* [Requests -> Machines], the machine_id of the URL
  Streams,        \* the requests with "stream": true
  MaxConcurrent,  \* max_concurrent announced by every agent
  MaxRetries,     \* proto.MaxRetries
  StreamCap,      \* capacity of a streaming handler's channel (32)
  MaxChunks,      \* bound: chunks an agent sends before the final message
  InboxCap,       \* bound: messages in flight on one connection
  Events          \* bound: the events of AllEvents that may happen

(* What an instance may leave out: another connection than the first, a     *)
(* dropped connection, goroutines that survive a reconnect, an agent that   *)
(* falls silent or reads no more, an eviction, a revoked key, a revoked     *)
(* binding.                                                                 *)
AllEvents == {"drop", "survive", "quit", "stall", "evict", "revoke", "cancel"}

ASSUME NoSessionAssumption == NoSession \notin Sessions
ASSUME TopologyAssumption ==
  /\ MachineOf \in [Sessions -> Machines]
  /\ TargetOf \in [Requests -> Machines]
  /\ Streams \subseteq Requests
ASSUME BoundsAssumption ==
  /\ MaxConcurrent \in Nat \ {0}
  /\ MaxRetries \in Nat \ {0}
  /\ StreamCap \in Nat \ {0}
  /\ MaxChunks \in Nat
  /\ InboxCap \in Nat \ {0}
  /\ Events \subseteq AllEvents

VARIABLES
  registry,   \* Registry.machines: machine -> session or NoSession
  conn,       \* the connection and its handler goroutine
  chunkCh,    \* MachineSession.chunkCh: the ids with a relay channel
  nilMap,     \* sessions whose chunkCh was set to nil by Unregister
  poisoned,   \* sessions whose mutex a panicking goroutine left locked
  backendOK,  \* MachineSession.BackendOK
  load,       \* MachineSession.CurrentLoad
  phase,      \* where the handler of a client request stands
  sess,       \* the *MachineSession the handler holds
  try,        \* attempt number; <<q, try[q]>> is the request id in use
  seen,       \* the CurrentLoad read by a load update under way
  slot,       \* the session whose CurrentLoad the handler incremented
  result,     \* how the last attempt ended
  recv,       \* number of the last message written to the client
  buf,        \* contents of the relay channel of an id
  closed,     \* ids whose relay channel has been closed
  inbox,      \* messages in flight from the agent, per connection
  relay,      \* the read loop of a connection
  worker,     \* connection over which an agent goroutine answers an id
  sent,       \* messages that goroutine has sent
  canceller,  \* the pointer cancelMachineRequests holds, per machine
  revoke,     \* progress of handleRevokeKey, per machine
  crashed,    \* the coordinator process died of a panic
  late,       \* ids whose channel was registered with a replaced session
  dropped,    \* ids whose final message found the channel full
  overlapped  \* releases of a load that overlapped another update of it

sessVars  == <<conn, chunkCh, nilMap, poisoned, backendOK, load>>
reqVars   == <<phase, sess, try, seen, slot, result, recv>>
chanVars  == <<buf, closed>>
relayVars == <<inbox, relay>>
agentVars == <<worker, sent>>
admVars   == <<canceller, revoke>>
ghosts    == <<late, dropped, overlapped>>
vars == <<registry, sessVars, reqVars, chanVars, relayVars, agentVars,
          admVars, crashed, ghosts>>

Ids == Requests \X (1..MaxRetries)
Phases == {"idle", "register", "count", "counting", "send", "wait",
           "cancel", "release", "releasing", "leave", "retry", "done", "panicked"}
Kinds == {"chunk", "final", "error", "down"}
Messages == [id : Ids, kind : Kinds, n : Nat]
Idle == [step |-> "read"]
Acking == [step |-> "ack"]
Relaying == [step : {"lock", "send", "finish", "health"}, msg : Messages,
             at : Sessions \cup {NoSession}]

Stream(q) == q \in Streams
Id(q) == <<q, try[q]>>
Machine(q) == TargetOf[q]
Current(q) == registry[TargetOf[q]]
Ends(msg) == msg.kind # "chunk"
Capacity(id) == IF Stream(id[1]) THEN StreamCap ELSE 1

(* The registry lock: load updates hold it for reading from the check of    *)
(* CurrentLoad to its write, so that they overlap, and Register, Unregister *)
(* and evictStale take it for writing.                                      *)
Updating(q) == phase[q] \in {"counting", "releasing"}
WriteLocked == \A q \in Requests : ~Updating(q)
------------------------------------------------------------------------------
RegistryTypes ==
  /\ registry \in [Machines -> Sessions \cup {NoSession}]
  /\ conn \in [Sessions ->
       {"none", "accepted", "open", "stalled", "lost", "closed", "gone"}]
  /\ chunkCh \in [Sessions -> SUBSET Ids]
  /\ nilMap \in SUBSET Sessions
  /\ poisoned \in SUBSET Sessions
  /\ backendOK \in [Sessions -> BOOLEAN]
  /\ load \in [Sessions -> Int]
  /\ canceller \in [Machines -> Sessions \cup {NoSession}]
  /\ revoke \in [Machines -> {"none", "keyRevoked", "done"}]
RequestTypes ==
  /\ phase \in [Requests -> Phases]
  /\ sess \in [Requests -> Sessions \cup {NoSession}]
  /\ try \in [Requests -> 1..MaxRetries]
  /\ seen \in [Requests -> Int]
  /\ slot \in [Requests -> Sessions \cup {NoSession}]
  /\ result \in [Requests -> {"none", "ok", "error", "panic"}]
  /\ recv \in [Requests -> Nat]
ChannelTypes ==
  /\ buf \in [Ids -> Seq(Messages)]
  /\ closed \in SUBSET Ids
  /\ late \in SUBSET Ids
  /\ dropped \in SUBSET Ids
  /\ overlapped \in [Sessions -> Nat]
RelayTypes ==
  /\ inbox \in [Sessions -> Seq(Messages)]
  /\ relay \in [Sessions -> {Idle, Acking} \cup Relaying]
  /\ worker \in [Ids -> Sessions \cup {NoSession}]
  /\ sent \in [Ids -> Nat]
  /\ crashed \in BOOLEAN
TypeOK == RegistryTypes /\ RequestTypes /\ ChannelTypes /\ RelayTypes

Init ==
  /\ registry = [m \in Machines |-> NoSession]
  /\ conn = [s \in Sessions |-> "none"]
  /\ chunkCh = [s \in Sessions |-> {}]
  /\ nilMap = {} /\ poisoned = {}
  /\ backendOK = [s \in Sessions |-> TRUE]
  /\ load = [s \in Sessions |-> 0]
  /\ phase = [q \in Requests |-> "idle"]
  /\ sess = [q \in Requests |-> NoSession]
  /\ try = [q \in Requests |-> 1]
  /\ seen = [q \in Requests |-> 0]
  /\ slot = [q \in Requests |-> NoSession]
  /\ result = [q \in Requests |-> "none"]
  /\ recv = [q \in Requests |-> 0]
  /\ buf = [id \in Ids |-> <<>>]
  /\ closed = {}
  /\ inbox = [s \in Sessions |-> <<>>]
  /\ relay = [s \in Sessions |-> Idle]
  /\ worker = [id \in Ids |-> NoSession]
  /\ sent = [id \in Ids |-> 0]
  /\ canceller = [m \in Machines |-> NoSession]
  /\ revoke = [m \in Machines |-> "none"]
  /\ crashed = FALSE
  /\ late = {} /\ dropped = {}
  /\ overlapped = [s \in Sessions |-> 0]
------------------------------------------------------------------------------
(* Connections: handleWSProvider.                                           *)

(* The key is valid, the socket is upgraded and the handler waits for the   *)
(* register message.  A restarted agent has no requests under way; one that *)
(* lost its connection keeps its request goroutines, and they now write to  *)
(* the new connection.                                                      *)
Lost(m) == {t \in Sessions : MachineOf[t] = m /\ conn[t] \in {"lost", "closed", "gone"}}

Accept(s) ==
  /\ conn[s] = "none" /\ revoke[MachineOf[s]] = "none"
  /\ conn' = [conn EXCEPT ![s] = "accepted"]
  /\ \E survivors \in {{}} \cup {Lost(MachineOf[s]) : e \in Events \cap {"survive"}} :
       worker' = [id \in Ids |-> IF worker[id] \in survivors THEN s ELSE worker[id]]
  /\ UNCHANGED <<registry, chunkCh, nilMap, poisoned, backendOK, load, reqVars,
                 chanVars, relayVars, sent, admVars, crashed, ghosts>>

(* No register message in 30 s, or another message first (a surviving       *)
(* request goroutine may write before connect() does): the socket is closed.*)
HandshakeFails(s) ==
  /\ conn[s] = "accepted"
  /\ conn' = [conn EXCEPT ![s] = "gone"]
  /\ UNCHANGED <<registry, chunkCh, nilMap, poisoned, backendOK, load, reqVars,
                 chanVars, relayVars, agentVars, admVars, crashed, ghosts>>

(* Closing the channels of a session that leaves the registry.  A poisoned  *)
(* mutex would block here with r.mu held, and closing a closed channel      *)
(* would panic: RegisteredUsable shows that Closable always holds.          *)
Closable(s) == s \notin poisoned /\ chunkCh[s] \cap closed = {}
WakeNobody(s) == closed' = closed
Wake(s) == Closable(s) /\ closed' = closed \cup chunkCh[s]

(* Registry.Register under r.mu: the channels of the replaced session stay  *)
(* in its map.                                                              *)
Register(s) ==
  LET m == MachineOf[s]  old == registry[m] IN
  /\ conn[s] = "accepted" /\ WriteLocked
  /\ IF old = NoSession THEN closed' = closed
     ELSE Wake(old)
  /\ registry' = [registry EXCEPT ![m] = s]
  /\ conn' = [conn EXCEPT ![s] = "open"]
  /\ UNCHANGED <<chunkCh, nilMap, poisoned, backendOK, load, reqVars, buf,
                 relayVars, agentVars, admVars, crashed, ghosts>>

(* Registry.Unregister: by machine id, whichever session is registered.     *)
UnregisterKeeping(m) ==
  LET s == registry[m] IN
  /\ WriteLocked
  /\ IF s = NoSession THEN UNCHANGED <<chunkCh, nilMap, closed>>
     ELSE /\ Wake(s)
          /\ chunkCh' = [chunkCh EXCEPT ![s] = {}]
          /\ nilMap' = nilMap \cup {s}
  /\ registry' = registry

Unregister(m) ==
  LET s == registry[m] IN
  /\ WriteLocked
  /\ IF s = NoSession THEN UNCHANGED <<registry, chunkCh, nilMap, closed>>
     ELSE /\ Wake(s)
          /\ chunkCh' = [chunkCh EXCEPT ![s] = {}]
          /\ nilMap' = nilMap \cup {s}
          /\ registry' = [registry EXCEPT ![m] = NoSession]

(* The agent's end goes away: agent exit, network failure, its own close.   *)
Drop(s) ==
  /\ "drop" \in Events /\ conn[s] \in {"open", "stalled"}
  /\ conn' = [conn EXCEPT ![s] = "lost"]
  /\ UNCHANGED <<registry, chunkCh, nilMap, poisoned, backendOK, load, reqVars,
                 chanVars, relayVars, agentVars, admVars, crashed, ghosts>>

(* It reads no more and the buffers are full, so that whoever holds writeMu *)
(* in SendWS waits without a deadline, and the others for writeMu.  A stall *)
(* that ends in time is a slow write.                                       *)
Stall(s) ==
  /\ "stall" \in Events /\ conn[s] = "open"
  /\ conn' = [conn EXCEPT ![s] = "stalled"]
  /\ UNCHANGED <<registry, chunkCh, nilMap, poisoned, backendOK, load, reqVars,
                 chanVars, relayVars, agentVars, admVars, crashed, ghosts>>

(* readLoop returns: a read error or the 90 s pong deadline, or a heartbeat *)
(* that finds the token revoked.  Its deferred Close closes the socket.     *)
ReadFails(s) == conn[s] \in {"lost", "stalled"}
WaitsForEver(s) == conn[s] = "lost" \/ (conn[s] = "open" /\ revoke[MachineOf[s]] # "none")
MustClose(s) == ReadFails(s) \/ (conn[s] = "open" /\ revoke[MachineOf[s]] # "none")

ReadLoopEnds(s) ==
  /\ MustClose(s)
  /\ relay[s] = Idle
  /\ conn' = [conn EXCEPT ![s] = "closed"]
  /\ inbox' = [inbox EXCEPT ![s] = <<>>]
  /\ UNCHANGED <<registry, chunkCh, nilMap, poisoned, backendOK, load, reqVars,
                 chanVars, relay, agentVars, admVars, crashed, ghosts>>

(* ... and the handler unregisters the machine.                             *)
Disconnect(s) ==
  /\ conn[s] = "closed" /\ Unregister(MachineOf[s])
  /\ conn' = [conn EXCEPT ![s] = "gone"]
  /\ UNCHANGED <<poisoned, backendOK, load, reqVars, buf, relayVars, agentVars,
                 admVars, crashed, ghosts>>

(* evictStale: the heartbeats stopped, or the backend has been down for     *)
(* five minutes.  The channels are closed and left in the map, the session  *)
(* leaves the registry and its socket stays as it is.                       *)
Evict(m) ==
  LET s == registry[m] IN
  /\ "evict" \in Events /\ s # NoSession /\ WriteLocked /\ Wake(s)
  /\ conn[s] # "open" \/ ~backendOK[s]
  /\ registry' = [registry EXCEPT ![m] = NoSession]
  /\ UNCHANGED <<sessVars, reqVars, buf, relayVars, agentVars, admVars, crashed, ghosts>>
------------------------------------------------------------------------------
(* The read loop of a connection: relayChunk, relayResponse, relayError.    *)

SetRelay(s, r) == relay' = [relay EXCEPT ![s] = r]
At(s, step) == relay[s] # Idle /\ relay[s].step = step
Afterwards(msg) ==
  IF msg.kind = "down" THEN [step |-> "health", msg |-> msg, at |-> NoSession] ELSE Idle

(* ReadMessage, then GetSession(machineID): the machine's current session,  *)
(* which need not be the one of this connection.                            *)
RelayConcurrently(s) ==
  LET box == inbox[s]  t == registry[MachineOf[s]] IN
  /\ conn[s] \in {"open", "stalled", "lost"} /\ relay[s] = Idle
  /\ \E i \in DOMAIN box :
       /\ inbox' = [inbox EXCEPT ![s] = SubSeq(box, 1, i - 1) \o SubSeq(box, i + 1, Len(box))]
       /\ SetRelay(s, IF t = NoSession THEN Afterwards(box[i])
                      ELSE [step |-> "lock", msg |-> box[i], at |-> t])
  /\ UNCHANGED <<registry, sessVars, reqVars, chanVars, agentVars, admVars, crashed, ghosts>>

RelayRead(s) ==
  LET msg == Head(inbox[s])  t == registry[MachineOf[s]] IN
  /\ conn[s] \in {"open", "stalled", "lost"} /\ relay[s] = Idle /\ inbox[s] # <<>>
  /\ inbox' = [inbox EXCEPT ![s] = Tail(@)]
  /\ SetRelay(s, IF t = NoSession THEN Afterwards(msg)
                 ELSE [step |-> "lock", msg |-> msg, at |-> t])
  /\ UNCHANGED <<registry, sessVars, reqVars, chanVars, agentVars, admVars, crashed, ghosts>>

(* Under the session mutex the channel of the request is looked up.         *)
RelayLookup(s) ==
  LET r == relay[s] IN
  /\ At(s, "lock") /\ r.at \notin poisoned
  /\ SetRelay(s, IF r.msg.id \in chunkCh[r.at] THEN [step |-> "send", msg |-> r.msg, at |-> r.at]
                 ELSE Afterwards(r.msg))
  /\ UNCHANGED <<registry, sessVars, reqVars, chanVars, inbox, agentVars, admVars, crashed, ghosts>>

(* The non-blocking send, with no lock held: a full channel loses the       *)
(* message, a channel closed since the lookup panics in the read-loop       *)
(* goroutine and the process dies.                                          *)
RelaySend(s) ==
  LET r == relay[s]  id == r.msg.id IN
  /\ At(s, "send")
  /\ SetRelay(s, IF Ends(r.msg) THEN [step |-> "finish", msg |-> r.msg, at |-> r.at]
                 ELSE Idle)
  /\ crashed' = (id \in closed)
  /\ IF id \in closed \/ Len(buf[id]) >= Capacity(id)
     THEN /\ dropped' = IF Ends(r.msg) THEN dropped \cup {id} ELSE dropped
          /\ buf' = buf
     ELSE /\ buf' = [buf EXCEPT ![id] = Append(@, r.msg)]
          /\ dropped' = dropped
  /\ UNCHANGED <<registry, sessVars, reqVars, closed, inbox, agentVars, admVars, late,
                 overlapped>>

(* After a final message the channel leaves the session's map.              *)
RelayFinish(s) ==
  LET r == relay[s] IN
  /\ At(s, "finish") /\ r.at \notin poisoned
  /\ chunkCh' = [chunkCh EXCEPT ![r.at] = @ \ {r.msg.id}]
  /\ SetRelay(s, Afterwards(r.msg))
  /\ UNCHANGED <<registry, conn, nilMap, poisoned, backendOK, load, reqVars,
                 chanVars, inbox, agentVars, admVars, crashed, ghosts>>

(* backend_unavailable: the session now registered is marked, for good.     *)
RelayHealth(s) ==
  LET t == registry[MachineOf[s]] IN
  /\ At(s, "health")
  /\ backendOK' = IF t = NoSession THEN backendOK ELSE [backendOK EXCEPT ![t] = FALSE]
  /\ SetRelay(s, Idle)
  /\ UNCHANGED <<registry, conn, chunkCh, nilMap, poisoned, load, reqVars, chanVars,
                 inbox, agentVars, admVars, crashed, ghosts>>

(* The answer to a heartbeat is a SendWS of the read loop: to an agent that *)
(* reads no more it hangs, and nobody notices the missing pong.             *)
AckHangs(s) ==
  /\ conn[s] = "stalled" /\ relay[s] = Idle /\ revoke[MachineOf[s]] = "none"
  /\ SetRelay(s, Acking)
  /\ UNCHANGED <<registry, sessVars, reqVars, chanVars, inbox, agentVars, admVars, crashed, ghosts>>

AckReturns(s) ==
  /\ relay[s] = Acking /\ conn[s] # "stalled"
  /\ SetRelay(s, Idle)
  /\ UNCHANGED <<registry, sessVars, reqVars, chanVars, inbox, agentVars, admVars, crashed, ghosts>>
------------------------------------------------------------------------------
(* The client side: handleMachineChatCompletions, handleStreamingCompletion *)
(* and handleNonStreamingCompletion with sendNonStreamingRequest.           *)

Goto(q, p) == phase' = [phase EXCEPT ![q] = p]

(* GetSession and the checks of BackendOK and CurrentLoad.                  *)
Serves(s) == s # NoSession /\ backendOK[s] /\ load[s] < MaxConcurrent
FirstPhase(q) == IF Stream(q) THEN "register" ELSE "count"

Admit(q) ==
  /\ phase[q] = "idle"
  /\ IF Serves(Current(q))
     THEN Goto(q, FirstPhase(q)) /\ sess' = [sess EXCEPT ![q] = Current(q)]
     ELSE Goto(q, "done") /\ sess' = sess
  /\ UNCHANGED <<registry, sessVars, try, seen, slot, result, recv, chanVars,
                 relayVars, agentVars, admVars, crashed, ghosts>>

(* RegisterChunkChannel on the session the handler holds.  On a session     *)
(* that Unregister emptied it writes to a nil map: the goroutine panics     *)
(* with the mutex locked (net/http recovers it).  A non-streaming handler   *)
(* still runs its deferred DecrementLoad.                                   *)
RegisterChunkChannel(q) ==
  LET s == sess[q] IN
  /\ phase[q] = "register" /\ s \notin poisoned
  /\ IF s \in nilMap
     THEN /\ poisoned' = poisoned \cup {s}
          /\ Goto(q, IF Stream(q) THEN "panicked" ELSE "release")
          /\ result' = [result EXCEPT ![q] = "panic"]
          /\ UNCHANGED <<chunkCh, late>>
     ELSE /\ chunkCh' = [chunkCh EXCEPT ![s] = @ \cup {Id(q)}]
          /\ late' = IF Current(q) # s THEN late \cup {Id(q)} ELSE late
          /\ Goto(q, IF Stream(q) THEN "count" ELSE "send")
          /\ UNCHANGED <<poisoned, result>>
  /\ UNCHANGED <<registry, conn, nilMap, backendOK, load, sess, try, seen, slot, recv,
                 chanVars, relayVars, agentVars, admVars, crashed, dropped, overlapped>>

(* IncrementLoad, first half: r.mu is taken for reading and CurrentLoad of  *)
(* the registered session is checked.  A refused streaming handler drops    *)
(* its channel and reports machine_busy.                                    *)
CheckLoad(q) ==
  LET s == Current(q) IN
  /\ phase[q] = "count"
  /\ IF s = NoSession \/ load[s] >= MaxConcurrent
     THEN /\ Goto(q, IF Stream(q) THEN "leave" ELSE "retry")
          /\ result' = [result EXCEPT ![q] = "error"]
          /\ UNCHANGED <<seen, slot>>
     ELSE /\ Goto(q, "counting")
          /\ seen' = [seen EXCEPT ![q] = load[s]]
          /\ slot' = [slot EXCEPT ![q] = s]
          /\ result' = result
  /\ UNCHANGED <<registry, sessVars, sess, try, recv, chanVars, relayVars,
                 agentVars, admVars, crashed, ghosts>>

(* Second half: CurrentLoad++ on a shared int with only a read lock.  The   *)
(* build may add to the value it checked or to the value in memory.         *)
IncrementLoad(q) ==
  LET s == Current(q) IN
  /\ phase[q] = "counting"
  /\ \E old \in {seen[q], load[s]} : load' = [load EXCEPT ![s] = old + 1]
  /\ seen' = [seen EXCEPT ![q] = 0]
  /\ Goto(q, IF Stream(q) THEN "send" ELSE "register")
  /\ UNCHANGED <<registry, conn, chunkCh, nilMap, poisoned, backendOK, sess, try,
                 slot, result, recv, chanVars, relayVars, agentVars,
                 admVars, crashed, ghosts>>

(* SendWS of the request on the held session's connection; it returns when  *)
(* the buffers take the request or the socket is closed.                    *)
SendRequest(q) ==
  LET s == sess[q] IN
  /\ phase[q] = "send"
  /\ \/ /\ conn[s] \in {"open", "lost"}
        /\ Goto(q, "wait") /\ result' = result
        /\ worker' = IF conn[s] = "open" THEN [worker EXCEPT ![Id(q)] = s] ELSE worker
     \/ /\ conn[s] \notin {"open", "stalled"}
        /\ Goto(q, IF Stream(q) THEN "release" ELSE "leave")
        /\ result' = [result EXCEPT ![q] = "error"]
        /\ worker' = worker
  /\ UNCHANGED <<registry, sessVars, sess, try, seen, slot, recv, chanVars,
                 relayVars, sent, admVars, crashed, ghosts>>

EndWaitHolding(q, how) ==
  /\ Goto(q, "leave")
  /\ result' = [result EXCEPT ![q] = how]
EndWait(q, how) ==
  /\ Goto(q, IF Stream(q) THEN "release" ELSE "leave")
  /\ result' = [result EXCEPT ![q] = how]

(* A value from the channel, which drains before it reports closed.         *)
Receive(q) ==
  LET msg == Head(buf[Id(q)]) IN
  /\ phase[q] = "wait" /\ buf[Id(q)] # <<>>
  /\ buf' = [buf EXCEPT ![Id(q)] = Tail(@)]
  /\ recv' = IF msg.kind \in {"chunk", "final"} THEN [recv EXCEPT ![q] = msg.n] ELSE recv
  /\ IF Ends(msg) THEN EndWait(q, IF msg.kind = "final" THEN "ok" ELSE "error") ELSE UNCHANGED <<phase, result>>
  /\ UNCHANGED <<registry, sessVars, sess, try, seen, slot, closed, relayVars,
                 agentVars, admVars, crashed, ghosts>>

(* The closed channel: machine_offline.  No Cancel goes to the agent.       *)
SeeClosed(q) ==
  /\ phase[q] = "wait" /\ buf[Id(q)] = <<>> /\ Id(q) \in closed
  /\ EndWait(q, "error")
  /\ UNCHANGED <<registry, sessVars, sess, try, seen, slot, recv, chanVars,
                 relayVars, agentVars, admVars, crashed, ghosts>>

(* The client left, or the first-token, inter-token or total timer fired:   *)
(* a Cancel is sent, and the agent may or may not still answer.             *)
NoTimers(q) == FALSE
GiveUp(q) ==
  /\ phase[q] = "wait"
  /\ IF conn[sess[q]] = "stalled" THEN Goto(q, "cancel") /\ result' = result
     ELSE EndWait(q, "error")
  /\ UNCHANGED <<registry, sessVars, sess, try, seen, slot, recv, chanVars,
                 relayVars, agentVars, admVars, crashed, ghosts>>

(* The SendWS of the Cancel returns.                                        *)
CancelReturns(q) ==
  /\ phase[q] = "cancel" /\ conn[sess[q]] # "stalled"
  /\ EndWait(q, "error")
  /\ UNCHANGED <<registry, sessVars, sess, try, seen, slot, recv, chanVars,
                 relayVars, agentVars, admVars, crashed, ghosts>>

(* DecrementLoad(machineID): the session registered now, if any, loses one, *)
(* with the same unlocked read and write as IncrementLoad.                  *)
AfterRelease(q) ==
  CASE Stream(q) -> "leave"
    [] ~Stream(q) /\ result[q] = "panic" -> "panicked"
    [] OTHER -> "retry"

(* The ghost counts the releases that end while another update of the same  *)
(* load is between its read and its write: each may be undone by that write.*)
Overlaps(q) == \E p \in Requests \ {q} : Updating(p) /\ Machine(p) = Machine(q)
Release(q) ==
  overlapped' = [s \in Sessions |->
    IF s = Current(q) /\ Overlaps(q) THEN overlapped[s] + 1 ELSE overlapped[s]]

StartDecrement(q) ==
  LET s == Current(q) IN
  /\ phase[q] = "release"
  /\ IF s = NoSession \/ load[s] <= 0
     THEN /\ Goto(q, AfterRelease(q))
          /\ slot' = [slot EXCEPT ![q] = NoSession]
          /\ seen' = seen
          /\ Release(q)
     ELSE /\ Goto(q, "releasing")
          /\ seen' = [seen EXCEPT ![q] = load[s]]
          /\ UNCHANGED <<slot, overlapped>>
  /\ UNCHANGED <<registry, sessVars, sess, try, result, recv, chanVars, relayVars,
                 agentVars, admVars, crashed, late, dropped>>

DecrementLoad(q) ==
  LET s == Current(q) IN
  /\ phase[q] = "releasing"
  /\ \E old \in {seen[q], load[s]} : load' = [load EXCEPT ![s] = old - 1]
  /\ seen' = [seen EXCEPT ![q] = 0]
  /\ Goto(q, AfterRelease(q))
  /\ slot' = [slot EXCEPT ![q] = NoSession]
  /\ Release(q)
  /\ UNCHANGED <<registry, conn, chunkCh, nilMap, poisoned, backendOK, sess, try,
                 result, recv, chanVars, relayVars, agentVars, admVars,
                 crashed, late, dropped>>

(* UnregisterChunkChannel on the held session (deferred in both handlers).  *)
(* From here on nobody reads the channel: the model forgets its contents.   *)
AfterLeave(q) == IF Stream(q) THEN "done" ELSE "release"

UnregisterChunkChannel(q) ==
  LET s == sess[q] IN
  /\ phase[q] = "leave" /\ s \notin poisoned
  /\ chunkCh' = [chunkCh EXCEPT ![s] = @ \ {Id(q)}]
  /\ Goto(q, AfterLeave(q))
  /\ sess' = [sess EXCEPT ![q] = NoSession]
  /\ recv' = [recv EXCEPT ![q] = 0]
  /\ buf' = [buf EXCEPT ![Id(q)] = <<>>]
  /\ late' = late \ {Id(q)} /\ dropped' = dropped \ {Id(q)}
  /\ UNCHANGED <<registry, conn, nilMap, poisoned, backendOK, load, try, seen, slot,
                 result, closed, relayVars, agentVars, admVars, crashed, overlapped>>

(* The loop of handleNonStreamingCompletion: a failed attempt is repeated   *)
(* with a new request id on the session registered then.                    *)
RetriesOnceMore(q) == result[q] # "ok" /\ Serves(Current(q))
AsksAgain(q) == try[q] < MaxRetries /\ Serves(Current(q))
MayRetry(q) == result[q] # "ok" /\ try[q] < MaxRetries /\ Serves(Current(q))

Retry(q) ==
  /\ phase[q] = "retry"
  /\ IF MayRetry(q)
     THEN /\ Goto(q, "count")
          /\ sess' = [sess EXCEPT ![q] = Current(q)]
          /\ try' = [try EXCEPT ![q] = @ + 1]
     ELSE Goto(q, "done") /\ UNCHANGED <<sess, try>>
  /\ UNCHANGED <<registry, sessVars, seen, slot, result, recv, chanVars, relayVars,
                 agentVars, admVars, crashed, ghosts>>
------------------------------------------------------------------------------
(* Administration: cancelMachineRequests (binding and member revocation)    *)
(* and handleRevokeKey.                                                     *)

GetSessionToCancel(m) ==
  /\ "cancel" \in Events /\ canceller[m] = NoSession /\ registry[m] # NoSession
  /\ canceller' = [canceller EXCEPT ![m] = registry[m]]
  /\ UNCHANGED <<registry, sessVars, reqVars, chanVars, relayVars, agentVars,
                 revoke, crashed, ghosts>>

(* CancelAllRequests on the pointer, which may be stale by now: at a channel*)
(* that Register or evictStale closed before, close panics; net/http        *)
(* recovers it, with the channels visited so far closed and deleted.        *)
CancelKeepingMap(m) ==
  LET s == canceller[m] IN
  /\ s # NoSession /\ Closable(s)
  /\ closed' = closed \cup chunkCh[s]
  /\ canceller' = [canceller EXCEPT ![m] = NoSession]
  /\ UNCHANGED <<registry, sessVars, reqVars, buf, relayVars, agentVars, revoke,
                 crashed, ghosts>>

CancelAllRequests(m) ==
  LET s == canceller[m] IN
  /\ s # NoSession /\ s \notin poisoned
  /\ \E gone \in IF Closable(s) THEN {chunkCh[s]} ELSE SUBSET (chunkCh[s] \ closed) :
       /\ closed' = closed \cup gone
       /\ chunkCh' = [chunkCh EXCEPT ![s] = @ \ gone]
  /\ canceller' = [canceller EXCEPT ![m] = NoSession]
  /\ UNCHANGED <<registry, conn, nilMap, poisoned, backendOK, load, reqVars, buf,
                 relayVars, agentVars, revoke, crashed, ghosts>>

RevokeKey(m) ==
  /\ "revoke" \in Events /\ revoke[m] = "none"
  /\ revoke' = [revoke EXCEPT ![m] = "keyRevoked"]
  /\ UNCHANGED <<registry, sessVars, reqVars, chanVars, relayVars, agentVars,
                 canceller, crashed, ghosts>>

UnregisterRevoked(m) ==
  /\ revoke[m] = "keyRevoked" /\ Unregister(m)
  /\ revoke' = [revoke EXCEPT ![m] = "done"]
  /\ UNCHANGED <<conn, poisoned, backendOK, load, reqVars, buf, relayVars,
                 agentVars, canceller, crashed, ghosts>>
------------------------------------------------------------------------------
(* The agent's request goroutine, seen from the connection it writes to.    *)

AgentSend(id, kind) ==
  LET s == worker[id] IN
  /\ s # NoSession /\ conn[s] = "open" /\ Len(inbox[s]) < InboxCap
  /\ kind = "chunk" => Stream(id[1]) /\ sent[id] < MaxChunks
  /\ sent' = [sent EXCEPT ![id] = IF kind = "chunk" THEN @ + 1 ELSE 0]
  /\ inbox' = [inbox EXCEPT ![s] = Append(@, [id |-> id, kind |-> kind, n |-> sent[id] + 1])]
  /\ worker' = IF kind = "chunk" THEN worker ELSE [worker EXCEPT ![id] = NoSession]
  /\ UNCHANGED <<registry, sessVars, reqVars, chanVars, relay, admVars, crashed, ghosts>>

(* It may also end without a word: cancelled, an unreadable backend answer, *)
(* or no connection to write to.                                            *)
AgentQuits(id) ==
  /\ "quit" \in Events /\ worker[id] # NoSession
  /\ worker' = [worker EXCEPT ![id] = NoSession]
  /\ sent' = [sent EXCEPT ![id] = 0]
  /\ UNCHANGED <<registry, sessVars, reqVars, chanVars, relayVars, admVars,
                 crashed, ghosts>>
------------------------------------------------------------------------------
Connection(s) ==
  \/ Accept(s) \/ HandshakeFails(s) \/ Register(s) \/ Drop(s) \/ Stall(s)
  \/ ReadLoopEnds(s) \/ Disconnect(s)
Serving(s) ==
  \/ RelayRead(s) \/ RelayLookup(s) \/ RelaySend(s) \/ RelayFinish(s) \/ RelayHealth(s)
  \/ AckReturns(s)
ReadLoop(s) == Serving(s) \/ AckHangs(s)
Handler(q) ==
  \/ Admit(q) \/ RegisterChunkChannel(q) \/ CheckLoad(q) \/ IncrementLoad(q)
  \/ SendRequest(q) \/ Receive(q) \/ SeeClosed(q) \/ GiveUp(q) \/ CancelReturns(q)
  \/ StartDecrement(q) \/ DecrementLoad(q) \/ UnregisterChunkChannel(q) \/ Retry(q)
Administration(m) ==
  \/ Evict(m) \/ GetSessionToCancel(m) \/ CancelAllRequests(m)
  \/ RevokeKey(m) \/ UnregisterRevoked(m)
Agent(id) == AgentQuits(id) \/ \E kind \in Kinds : AgentSend(id, kind)

Next ==
  /\ ~crashed
  /\ \/ \E s \in Sessions : Connection(s) \/ ReadLoop(s)
     \/ \E q \in Requests : Handler(q)
     \/ \E m \in Machines : Administration(m)
     \/ \E id \in Ids : Agent(id)

Spec == Init /\ [][Next]_vars

(* The goroutines the Go scheduler runs and the timers that end a wait.     *)
(* Clients, agents and administrators owe nothing.                          *)
Spontaneous(q) == Handler(q) /\ phase[q] # "idle"
Fairness ==
  /\ \A q \in Requests : WF_vars(~crashed /\ Spontaneous(q))
  /\ \A s \in Sessions :
       /\ WF_vars(~crashed /\ (Register(s) \/ HandshakeFails(s)))
       /\ WF_vars(~crashed /\ Serving(s))
       /\ WF_vars(~crashed /\ ReadLoopEnds(s))
       /\ WF_vars(~crashed /\ Disconnect(s))
  /\ \A m \in Machines : WF_vars(~crashed /\ UnregisterRevoked(m))
FairSpec == Spec /\ Fairness
------------------------------------------------------------------------------
(* The session in the registry can always be locked and closed: no          *)
(* goroutine has left its mutex locked, its map is not nil, and none of its *)
(* channels is closed.  Otherwise Register, Unregister or evictStale would  *)
(* block with r.mu held, and with it every other operation of the registry, *)
(* or panic half-way through.                                               *)
RegisteredUsable ==
  \A m \in Machines : registry[m] # NoSession =>
    Closable(registry[m]) /\ registry[m] \notin nilMap

(* A session leaves the registry with all its waiters woken: a channel that *)
(* is still open in a replaced, evicted or unregistered session was put     *)
(* there afterwards, by a handler that held the old pointer.                *)
ReplacedAreWoken ==
  \A s \in Sessions : registry[MachineOf[s]] # s => chunkCh[s] \subseteq closed \cup late

(* A handler that waits on an open channel can still be answered: its       *)
(* session is the registered one and knows the channel.  The exceptions are *)
(* those the code cannot serve: the channel went into a session already     *)
(* replaced, or the final message is in the channel or was lost because the *)
(* channel was full (relayChunk's default case).                            *)
HasEnd(channel) == \E i \in DOMAIN channel : Ends(channel[i])
Answerable(q) == LET id == Id(q) IN
  \/ id \in closed \cup late \cup dropped
  \/ Current(q) = sess[q] /\ id \in chunkCh[sess[q]]
  \/ HasEnd(buf[id])
WaitersAreKnown == \A q \in Requests : phase[q] = "wait" => Answerable(q)

(* What reconnects, panics, late releases and failed attempts do to a load  *)
(* is undone: CurrentLoad of the registered session leaves the number of the*)
(* handlers that hold a slot of it by no more, either way, than the number  *)
(* of releases that overlapped another update, under the read lock that lets*)
(* them.  Until the first such release a slot nobody holds is not counted,  *)
(* and the machine not busy for ever.                                       *)
Holders(s) == {q \in Requests : slot[q] = s /\ phase[q] \notin {"done", "panicked"}}
LeaksAreOverlaps ==
  \A m \in Machines : LET s == registry[m] IN
    s # NoSession =>
      /\ -overlapped[s] <= load[s]
      /\ load[s] <= Cardinality(Holders(s)) + overlapped[s]

(* The inductive invariant behind RegisteredUsable and ReplacedAreWoken.    *)
(* A request id is put into one map of one session, once: NoChannel(q) are  *)
(* the points of a handler where its current id is in no map, and NotYet(q) *)
(* those where it has never been in one.                                    *)
NotYet(q) ==
  phase[q] \in {"idle", "register"} \/ (~Stream(q) /\ phase[q] \in {"count", "counting"})
NoChannel(q) ==
  \/ NotYet(q) \/ phase[q] = "retry"
  \/ ~Stream(q) /\ phase[q] \in {"release", "releasing"}
PoisonedAreNil == poisoned \subseteq nilMap
RegisteredAreLive ==
  \A m \in Machines : registry[m] # NoSession =>
    /\ MachineOf[registry[m]] = m
    /\ conn[registry[m]] \in {"open", "stalled", "lost", "closed"}
    /\ registry[m] \notin nilMap
    /\ chunkCh[registry[m]] \cap closed = {}
FreshSessions ==
  \A s \in Sessions : conn[s] \in {"none", "accepted"} => s \notin nilMap /\ chunkCh[s] = {}
HeldSessions ==
  \A q \in Requests : sess[q] # NoSession =>
    conn[sess[q]] \notin {"none", "accepted"} /\ MachineOf[sess[q]] = TargetOf[q]
ClosedIds ==
  \A id \in closed : id[2] <= try[id[1]] /\ (id[2] = try[id[1]] => ~NotYet(id[1]))
MappedIds ==
  \A s \in Sessions : \A id \in chunkCh[s] :
    id[2] = try[id[1]] /\ sess[id[1]] = s /\ ~NoChannel(id[1])
IndInv ==
  /\ PoisonedAreNil /\ RegisteredAreLive /\ FreshSessions /\ HeldSessions
  /\ ClosedIds /\ MappedIds /\ ReplacedAreWoken

(* The inductive invariant behind LeaksAreOverlaps: the counts in a load    *)
(* are those of handlers between IncrementLoad and DecrementLoad, give or   *)
(* take the overlapped releases, and the same is true of the value that an  *)
(* update under way has read and may still write back.                      *)
Holding ==
  {"counting", "register", "send", "wait", "cancel", "leave", "release", "releasing"}
Counted(s) == {q \in Requests : slot[q] = s /\ phase[q] # "counting"}
Covers(s, n) == -overlapped[s] <= n /\ n <= Cardinality(Counted(s)) + overlapped[s]
SlotsAreHeld ==
  \A q \in Requests : slot[q] # NoSession =>
    /\ MachineOf[slot[q]] = TargetOf[q] /\ phase[q] \in Holding
    /\ phase[q] \in {"register", "leave"} => ~Stream(q)
UpdatesAreCovered ==
  \A q \in Requests : LET s == Current(q) IN
    Updating(q) =>
      /\ s # NoSession /\ Covers(s, seen[q])
      /\ IF phase[q] = "counting" THEN slot[q] = s
         ELSE seen[q] > 0 /\ load[s] + overlapped[s] > 0
FreshLoads == \A s \in Sessions : conn[s] \in {"none", "accepted"} => load[s] = 0
SlotsAreFinite == IsFiniteSet({q \in Requests : slot[q] # NoSession})
LoadIsCovered ==
  \A m \in Machines : registry[m] # NoSession => Covers(registry[m], load[registry[m]])
LoadInv == SlotsAreHeld /\ UpdatesAreCovered /\ FreshLoads /\ SlotsAreFinite /\ LoadIsCovered

(* The inductive invariant behind WaitersAreKnown: a channel is known from  *)
(* RegisterChunkChannel on, nobody answers a request that was not sent, and *)
(* when a final message takes a channel out of its map it is in the channel.*)
Expects(q) ==
  phase[q] \in {"send", "wait"} \/ (Stream(q) /\ phase[q] \in {"count", "counting"})
ExpectingAreKnown == \A q \in Requests : Expects(q) => Answerable(q)
HandlersHold ==
  \A q \in Requests :
    /\ phase[q] \in {"register", "count", "counting", "send", "wait", "cancel", "leave"} =>
         sess[q] # NoSession
    /\ Stream(q) /\ phase[q] \in {"release", "releasing"} => sess[q] # NoSession
    /\ phase[q] = "retry" => ~Stream(q)
WasSent(id) ==
  \/ id[2] < try[id[1]]
  \/ id[2] = try[id[1]]
       /\ phase[id[1]] \notin {"idle", "register", "count", "counting", "send"}
MessagesWereSent ==
  /\ \A id \in Ids : worker[id] # NoSession => WasSent(id)
  /\ \A s \in Sessions :
       /\ \A i \in DOMAIN inbox[s] : WasSent(inbox[s][i].id)
       /\ relay[s] \notin {Idle, Acking} => WasSent(relay[s].msg.id)
FinishedAreThere ==
  \A s \in Sessions, q \in Requests :
    At(s, "finish") /\ relay[s].msg.id = Id(q) /\ phase[q] = "wait" =>
      Id(q) \in closed \cup dropped \/ HasEnd(buf[Id(q)])
WaitInv == ExpectingAreKnown /\ HandlersHold /\ MessagesWereSent /\ FinishedAreThere

(* The inductive invariant behind InOrder: while the session of a handler is*)
(* registered its answers come over that connection alone, and their numbers*)
(* grow from the client back to the agent.                                  *)
AnswersStayHome ==
  /\ \A id \in Ids : worker[id] # NoSession => MachineOf[worker[id]] = TargetOf[id[1]]
  /\ \A t \in Sessions : At(t, "lock") => relay[t].at # NoSession
  /\ \A q \in Requests, t \in Sessions : phase[q] = "wait" /\ t # sess[q] =>
       /\ worker[Id(q)] = t /\ conn[t] = "open" => Current(q) # sess[q]
       /\ \A i \in DOMAIN inbox[t] : inbox[t][i].id = Id(q) => Current(q) # sess[q]
       /\ At(t, "lock") /\ relay[t].msg.id = Id(q) => relay[t].at # sess[q]
       /\ At(t, "send") => relay[t].msg.id # Id(q)
Below(A, B) == \A a \in A, b \in B : a < b
Arrived(q) == {recv[q]} \cup {buf[Id(q)][i].n : i \in DOMAIN buf[Id(q)]}
UnderRelay(q) ==
  {relay[s].msg.n : s \in {t \in {sess[q]} :
     (At(t, "lock") \/ At(t, "send")) /\ relay[t].msg.id = Id(q)}}
Growing(channel, id) ==
  \A i, j \in DOMAIN channel :
    i < j /\ channel[i].id = id /\ channel[j].id = id => channel[i].n < channel[j].n
OnTheWire(q) ==
  {inbox[sess[q]][i].n : i \in {j \in DOMAIN inbox[sess[q]] : inbox[sess[q]][j].id = Id(q)}}
NumbersGrow(q) ==
  /\ \A i \in DOMAIN buf[Id(q)] : recv[q] < buf[Id(q)][i].n
  /\ \A i, j \in DOMAIN buf[Id(q)] : i < j => buf[Id(q)][i].n < buf[Id(q)][j].n
  /\ Growing(inbox[sess[q]], Id(q))
  /\ Below(Arrived(q), UnderRelay(q) \cup OnTheWire(q))
  /\ Below(UnderRelay(q), OnTheWire(q))
  /\ worker[Id(q)] # NoSession =>
       \A n \in Arrived(q) \cup UnderRelay(q) \cup OnTheWire(q) : n <= sent[Id(q)]
UnsentAreEmpty ==
  /\ \A id \in Ids : ~WasSent(id) => sent[id] = 0 /\ buf[id] = <<>>
  /\ \A q \in Requests : recv[q] # 0 =>
       phase[q] \in {"wait", "cancel", "leave"} \/ (Stream(q) /\ phase[q] \in {"release", "releasing"})
OrderInv ==
  AnswersStayHome /\ UnsentAreEmpty /\ \A q \in Requests : phase[q] = "wait" => NumbersGrow(q)

(* The client of a stream sees the agent's messages in the order they were  *)
(* sent and none twice, although a full channel may lose some, two read     *)
(* loops may relay at once and goroutines outlive their connection.         *)
InOrder ==
  [][\A q \in Requests : phase[q] = "wait" /\ recv'[q] # recv[q] => recv'[q] > recv[q]]_vars

(* A chat completion is one question at a time over a medium that loses     *)
(* messages and does nothing worse: whatever sessions are replaced, evicted *)
(* or emptied, whatever read loops and agent goroutines run at once, clients*)
(* and agents do what Completion does.  Under way is what is on a           *)
(* connection, with a read loop or in a channel.                            *)
Elements(seq) == {seq[i] : i \in DOMAIN seq}
UnderWay ==
  (UNION {Elements(inbox[s]) : s \in Sessions})
  \cup {relay[s].msg : s \in {t \in Sessions : At(t, "lock") \/ At(t, "send")}}
  \cup (UNION {Elements(buf[id]) : id \in Ids})
Stage(p) ==
  CASE p = "idle" -> "new"
    [] p \in {"register", "count", "counting", "send"} -> "open"
    [] p \in {"wait", "cancel"} -> "asked"
    [] p = "done" -> "over"
    [] OTHER -> "ended"
Outcome(p, r) ==
  IF Stage(p) \notin {"ended", "over"} THEN "none" ELSE IF r = "panic" THEN "error" ELSE r
Shown(p, n) == IF Stage(p) = "asked" THEN n ELSE 0
Stages == [q \in Requests |-> Stage(phase[q])]
Outcomes == [q \in Requests |-> Outcome(phase[q], result[q])]
Showns == [q \in Requests |-> Shown(phase[q], recv[q])]
Answering == {id \in Ids : worker[id] # NoSession}
Asked == INSTANCE Completion WITH
  MaxAttempts <- MaxRetries, stage <- Stages, attempt <- try, outcome <- Outcomes,
  shown <- Showns, answering <- Answering, said <- sent, flight <- UnderWay
CompletionIsOneQuestion == Asked!Spec

(* The inductive invariant behind it, with those above: what a channel holds*)
(* is addressed to it, and nothing is known of an attempt before the first. *)
ChannelsKeepIds == \A id \in Ids : \A i \in DOMAIN buf[id] : buf[id][i].id = id
IdleHaveNoResult == \A q \in Requests : phase[q] = "idle" => result[q] = "none"

(* Every handler returns, although SendWS has no deadline, unless it needs  *)
(* the mutex of a session that a panicking handler left locked, or writes   *)
(* to an agent that stopped reading while the read loop, which would close  *)
(* the socket, waits to answer a heartbeat of it.                           *)
Wedged(q) ==
  phase[q] \in {"send", "cancel"} /\ sess[q] # NoSession /\ relay[sess[q]] = Acking
HandlersReturn ==
  \A q \in Requests : phase[q] # "idle" ~>
    (phase[q] \in {"done", "panicked"} \/ sess[q] \in poisoned \/ []Wedged(q) \/ crashed)

(* After handleRevokeKey the machine goes offline and stays so, although an *)
(* agent whose key was checked before may still register afterwards.        *)
RevokedGoesOffline ==
  \A m \in Machines : revoke[m] # "none" ~> ([](registry[m] = NoSession) \/ crashed)
------------------------------------------------------------------------------
(* What the documentation says and the code does not do.                    *)

(* registry.go:46: the registry is thread-safe.                             *)
NeverPanics == ~crashed

(* registry.go:140: IncrementLoad returns false if at max capacity.         *)
CapacityRespected ==
  \A s \in Sessions :
    Cardinality({q \in Holders(s) : phase[q] # "counting"}) <= MaxConcurrent

(* registry.go:157: DecrementLoad decrements the current request count for a*)
(* machine, so that a load counts no slot that nobody holds.                *)
LoadNeverLeaks ==
  \A m \in Machines : registry[m] # NoSession =>
    load[registry[m]] <= Cardinality(Holders(registry[m]))

(* SPEC-v2.md:179: a machine id is routed to the current online session, if *)
(* there is one.  So the end of an older connection does not take the       *)
(* session of a newer one out of the registry.                              *)
ReconnectSurvives ==
  [][\A s \in Sessions : conn[s] = "closed" /\ conn'[s] = "gone" =>
       registry[MachineOf[s]] \in {s, NoSession}]_vars

(* SPEC-v2.md:413: backend_ok = false for 5 minutes disconnects the socket. *)
EvictionDisconnects ==
  [][\A m \in Machines : LET s == registry[m] IN
       s # NoSession /\ ~backendOK[s] /\ registry'[m] = NoSession => conn'[s] # "open"]_vars

(* SPEC-v2.md:411: a request takes 300 s at most, so its handler returns.   *)
RequestsEnd ==
  \A q \in Requests : phase[q] # "idle" ~> (phase[q] \in {"done", "panicked"} \/ crashed)
==============================================================================
