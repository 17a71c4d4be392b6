---------------------------- MODULE HandlerProofs ----------------------------
(***************************************************************************)
(* Between the agent and the client: a handler that waits can be answered,  *)
(* and what it hands on is in order, for every number of machines,          *)
(* connections, requests, attempts and messages, whatever the bounds of     *)
(* channels and wires and whether or not load updates overlap.              *)
(***************************************************************************)
EXTENDS RelayProofs

USE TopologyAssumption, BoundsAssumption, NoSessionAssumption
    DEF sessVars, reqVars, chanVars, relayVars, agentVars, admVars, ghosts
------------------------------------------------------------------------------
(* A final message stays in a channel until it is at its head.              *)
LEMMA EndIsKept ==
  ASSUME NEW channel \in Seq(Messages), HasEnd(channel)
  PROVE  /\ \A msg \in Messages : HasEnd(Append(channel, msg))
         /\ ~Ends(Head(channel)) => HasEnd(Tail(channel))
<1>1. PICK i \in 1..Len(channel) : Ends(channel[i])
  BY DEF HasEnd
<1> HIDE DEF Ends
<1>2. ASSUME NEW msg \in Messages PROVE HasEnd(Append(channel, msg))
  <2>1. i \in DOMAIN Append(channel, msg) /\ Append(channel, msg)[i] = channel[i]
    OBVIOUS
  <2> QED BY <1>1, <2>1 DEF HasEnd
<1>3. ASSUME ~Ends(Head(channel)) PROVE HasEnd(Tail(channel))
  <2>1. i # 1
    BY <1>1, <1>3
  <2>2. i - 1 \in DOMAIN Tail(channel) /\ Tail(channel)[i - 1] = channel[i]
    BY <2>1
  <2> QED BY <1>1, <2>2 DEF HasEnd
<1> QED BY <1>2, <1>3

(* A final message that is put into a channel is in it.                     *)
LEMMA EndArrives ==
  ASSUME NEW channel \in Seq(Messages), NEW msg \in Messages, Ends(msg)
  PROVE  HasEnd(Append(channel, msg))
<1>1. Len(channel) + 1 \in DOMAIN Append(channel, msg)
      /\ Append(channel, msg)[Len(channel) + 1] = msg
  OBVIOUS
<1> QED BY <1>1 DEF HasEnd

(* What is on the wire is about request ids.                                *)
LEMMA InboxType ==
  ASSUME TypeOK, NEW s \in Sessions, NEW i \in DOMAIN inbox[s]
  PROVE  inbox[s][i] \in Messages /\ inbox[s][i].id \in Ids
<1>1. inbox[s] \in Seq(Messages)
  BY DEF TypeOK, RelayTypes
<1>2. inbox[s][i] \in Messages
  BY <1>1
<1> QED BY <1>2 DEF Messages

LEMMA RelayType ==
  ASSUME TypeOK, NEW s \in Sessions, relay[s] \notin {Idle, Acking}
  PROVE  relay[s].msg \in Messages /\ relay[s].msg.id \in Ids
<1>1. relay[s] \in Relaying
  BY DEF TypeOK, RelayTypes
<1> QED BY <1>1 DEF Relaying, Messages

(* A step of a handler that leaves the channels of the other handlers and   *)
(* what the agents have sent alone.                                         *)
LEMMA HandlerWaits ==
  ASSUME TypeOK, WaitInv, NEW q \in Requests,
         \A p \in Requests \ {q} : phase'[p] = phase[p] /\ try'[p] = try[p] /\ sess'[p] = sess[p],
         UNCHANGED <<registry, closed, relay, inbox>>,
         \A s \in Sessions : \A id \in chunkCh[s] : id # Id(q) => id \in chunkCh'[s],
         \A id \in Ids \ {Id(q)} : /\ buf'[id] = buf[id]
                                   /\ (id \in late => id \in late')
                                   /\ (id \in dropped => id \in dropped'),
         \A id \in Ids : worker'[id] # NoSession => worker[id] # NoSession \/ WasSent(id)',
         try[q] \in Nat /\ try'[q] \in Nat /\ try[q] <= try'[q],
         try'[q] = try[q] /\ phase[q] \notin {"idle", "register", "count", "counting", "send"}
           => phase'[q] \notin {"idle", "register", "count", "counting", "send"},
         phase'[q] \in {"register", "count", "counting", "send", "wait", "cancel", "leave"} =>
           sess'[q] # NoSession,
         Stream(q) /\ phase'[q] \in {"release", "releasing"} => sess'[q] # NoSession,
         phase'[q] = "retry" => ~Stream(q),
         Expects(q)' => Answerable(q)',
         \A s \in Sessions : At(s, "finish") /\ relay[s].msg.id = Id(q)' /\ phase'[q] = "wait" =>
           Id(q)' \in closed' \cup dropped' \/ HasEnd(buf[Id(q)])'
  PROVE  WaitInv'
<1>1. \A p \in Requests \ {q} : Id(p)' = Id(p) /\ Id(p) # Id(q) /\ Id(p) \in Ids
  BY IdType DEF Id
<1>2. ExpectingAreKnown'
  <2> SUFFICES ASSUME NEW p \in Requests, Expects(p)' PROVE Answerable(p)'
    BY DEF ExpectingAreKnown
  <2>1. CASE p # q
    <3>1. Expects(p) /\ sess[p] # NoSession /\ Answerable(p)
      BY <2>1 DEF Expects, Stream, WaitInv, ExpectingAreKnown, HandlersHold
    <3>2. sess[p] \in Sessions
      BY <3>1 DEF TypeOK, RequestTypes
    <3>3. Current(p)' = Current(p) /\ sess'[p] = sess[p]
      BY <2>1 DEF Current
    <3> QED BY <1>1, <2>1, <3>1, <3>2, <3>3 DEF Answerable
  <2> QED BY <2>1
<1>3. HandlersHold'
  BY DEF WaitInv, HandlersHold, Stream
<1>4. \A id \in Ids : WasSent(id) => WasSent(id)'
  <2> SUFFICES ASSUME NEW id \in Ids, WasSent(id) PROVE WasSent(id)'
    OBVIOUS
  <2>1. id[1] \in Requests /\ id[2] \in Nat
    BY DEF Ids
  <2> QED BY <2>1 DEF WasSent
<1>5. MessagesWereSent'
  <2>1. \A s \in Sessions : \A i \in DOMAIN inbox[s] : inbox[s][i].id \in Ids
    BY InboxType
  <2>2. \A s \in Sessions : relay[s] \notin {Idle, Acking} => relay[s].msg.id \in Ids
    BY DEF TypeOK, RelayTypes, Relaying, Messages
  <2> QED BY <1>4, <2>1, <2>2 DEF WaitInv, MessagesWereSent
<1>6. FinishedAreThere'
  <2> SUFFICES ASSUME NEW s \in Sessions, NEW p \in Requests,
                      At(s, "finish")', relay[s].msg.id = Id(p)', phase'[p] = "wait"
               PROVE  Id(p)' \in closed' \cup dropped' \/ HasEnd(buf[Id(p)])'
    BY DEF FinishedAreThere
  <2>0. At(s, "finish")
    BY DEF At
  <2>1. CASE p # q
    BY <1>1, <2>0, <2>1 DEF WaitInv, FinishedAreThere
  <2> QED BY <2>0, <2>1
<1> QED BY <1>2, <1>3, <1>5, <1>6 DEF WaitInv

(* Each step of a handler.                                                  *)
LEMMA WaitHandler ==
  ASSUME TypeOK, IndInv, WaitInv, NEW q \in Requests, Handler(q) PROVE WaitInv'
<1> USE DEF TypeOK, RequestTypes, Goto
<1>0. Id(q) \in Ids /\ try[q] \in Nat
  BY IdType
<1>1. CASE Admit(q)
  <2>1. /\ phase[q] = "idle" /\ phase'[q] \in {"register", "count", "done"}
        /\ phase'[q] # "done" => sess'[q] # NoSession
        /\ phase'[q] = "count" => ~Stream(q)
        /\ try' = try
    BY <1>1 DEF Admit, FirstPhase, Serves
  <2>2. /\ \A p \in Requests \ {q} : phase'[p] = phase[p] /\ try'[p] = try[p] /\ sess'[p] = sess[p]
        /\ UNCHANGED <<registry, closed, relay, inbox, chunkCh, buf, late, dropped, worker>>
    BY <1>1 DEF Admit
  <2>3. ~Expects(q)'
    BY <2>1 DEF Expects, Stream
  <2> QED BY <1>0, <2>1, <2>2, <2>3, HandlerWaits
<1>2. CASE RegisterChunkChannel(q)
  <2>1. CASE sess[q] \in nilMap
    <3>1. /\ phase[q] = "register" /\ phase'[q] = IF Stream(q) THEN "panicked" ELSE "release"
          /\ UNCHANGED <<try, sess, registry, closed, relay, inbox, chunkCh, buf, late, dropped, worker>>
          /\ \A p \in Requests \ {q} : phase'[p] = phase[p]
      BY <1>2, <2>1 DEF RegisterChunkChannel
    <3>2. ~Expects(q)'
      BY <3>1 DEF Expects
    <3> QED BY <1>0, <3>1, <3>2, HandlerWaits
  <2>2. CASE sess[q] \notin nilMap
    <3>1. /\ phase[q] = "register" /\ phase'[q] \in {"count", "send"}
          /\ chunkCh' = [chunkCh EXCEPT ![sess[q]] = @ \cup {Id(q)}]
          /\ late' = IF Current(q) # sess[q] THEN late \cup {Id(q)} ELSE late
          /\ UNCHANGED <<try, sess, registry, closed, relay, inbox, buf, dropped, worker>>
          /\ \A p \in Requests \ {q} : phase'[p] = phase[p]
      BY <1>2, <2>2 DEF RegisterChunkChannel
    <3>2. sess[q] \in Sessions
      BY <3>1 DEF WaitInv, HandlersHold
    <3>3. \A s \in Sessions : chunkCh[s] \subseteq chunkCh'[s]
      BY <3>1 DEF RegistryTypes
    <3>4. Id(q)' = Id(q) /\ Current(q)' = Current(q) /\ Id(q) \in chunkCh'[sess[q]]
      BY <3>1, <3>2 DEF Id, Current, RegistryTypes
    <3>5. Answerable(q)'
      BY <3>1, <3>4 DEF Answerable
    <3> QED BY <1>0, <3>1, <3>2, <3>3, <3>5, HandlerWaits
  <2> QED BY <2>1, <2>2
<1>3. CASE CheckLoad(q)
  <2>1. /\ phase[q] = "count"
        /\ phase'[q] \in {"counting", IF Stream(q) THEN "leave" ELSE "retry"}
        /\ UNCHANGED <<try, sess, registry, closed, relay, inbox, chunkCh, buf, late, dropped, worker>>
        /\ \A p \in Requests \ {q} : phase'[p] = phase[p]
    BY <1>3 DEF CheckLoad
  <2>2. sess[q] # NoSession
    BY <2>1 DEF WaitInv, HandlersHold
  <2>3. Expects(q)' => Answerable(q)'
    BY <2>1 DEF Expects, Stream, Answerable, Id, Current, WaitInv, ExpectingAreKnown
  <2> QED BY <1>0, <2>1, <2>2, <2>3, HandlerWaits
<1>4. CASE IncrementLoad(q)
  <2>1. /\ phase[q] = "counting"
        /\ phase'[q] = IF Stream(q) THEN "send" ELSE "register"
        /\ UNCHANGED <<try, sess, registry, closed, relay, inbox, chunkCh, buf, late, dropped, worker>>
        /\ \A p \in Requests \ {q} : phase'[p] = phase[p]
    BY <1>4 DEF IncrementLoad
  <2>2. sess[q] # NoSession
    BY <2>1 DEF WaitInv, HandlersHold
  <2>3. Expects(q)' => Answerable(q)'
    BY <2>1 DEF Expects, Stream, Answerable, Id, Current, WaitInv, ExpectingAreKnown
  <2> QED BY <1>0, <2>1, <2>2, <2>3, HandlerWaits
<1>5. CASE SendRequest(q)
  <2>1. /\ phase[q] = "send" /\ phase'[q] \in {"wait", "release", "leave"}
        /\ UNCHANGED <<try, sess, registry, closed, relay, inbox, chunkCh, buf, late, dropped>>
        /\ \A p \in Requests \ {q} : phase'[p] = phase[p]
        /\ worker' = worker \/ worker' = [worker EXCEPT ![Id(q)] = sess[q]]
    BY <1>5 DEF SendRequest
  <2>2. sess[q] # NoSession
    BY <2>1 DEF WaitInv, HandlersHold
  <2>3. Expects(q)' => Answerable(q)'
    BY <2>1 DEF Expects, Stream, Answerable, Id, Current, WaitInv, ExpectingAreKnown
  <2>4. WasSent(Id(q))'
    BY <2>1 DEF WasSent, Id
  <2>5. \A id \in Ids : worker'[id] # NoSession => worker[id] # NoSession \/ WasSent(id)'
    <3> SUFFICES ASSUME NEW id \in Ids, worker'[id] # worker[id] PROVE WasSent(id)'
      OBVIOUS
    <3>1. id = Id(q) /\ Id(q)' = Id(q)
      BY <2>1 DEF RelayTypes, Id
    <3> QED BY <2>4, <3>1
  <2>6. ASSUME NEW s \in Sessions, At(s, "finish"), relay[s].msg.id = Id(q)' PROVE FALSE
    <3>1. relay[s] \notin {Idle, Acking}
      BY <2>6 DEF At, Acking
    <3>2. WasSent(Id(q))
      BY <2>1, <2>6, <3>1 DEF WaitInv, MessagesWereSent, Id
    <3> QED BY <1>0, <2>1, <3>2 DEF WasSent, Id
  <2> QED BY <1>0, <2>1, <2>2, <2>3, <2>5, <2>6, HandlerWaits
<1>6. CASE Receive(q)
  <2>1. /\ phase[q] = "wait" /\ buf[Id(q)] # <<>>
        /\ UNCHANGED <<try, sess, registry, closed, relay, inbox, chunkCh, late, dropped, worker>>
        /\ \A p \in Requests \ {q} : phase'[p] = phase[p]
    BY <1>6 DEF Receive, EndWait
  <2>9. buf' = [buf EXCEPT ![Id(q)] = Tail(@)]
    BY <1>6 DEF Receive
  <2>2. phase'[q] \in {"wait", "release", "leave"} /\ (phase'[q] = "wait" => ~Ends(Head(buf[Id(q)])))
    BY <1>6 DEF Receive, EndWait
  <2>3. sess[q] # NoSession
    BY <2>1 DEF WaitInv, HandlersHold
  <2>4. Id(q)' = Id(q) /\ Current(q)' = Current(q)
    BY <2>1 DEF Id, Current
  <2>5. phase'[q] = "wait" /\ HasEnd(buf[Id(q)]) => HasEnd(buf[Id(q)])'
    <3>1. buf[Id(q)] \in Seq(Messages) /\ buf'[Id(q)] = Tail(buf[Id(q)])
      BY <1>0, <2>9 DEF ChannelTypes
    <3> QED BY <2>2, <2>4, <3>1, EndIsKept
  <2>6. Expects(q)' => Answerable(q)'
    <3> SUFFICES ASSUME phase'[q] = "wait" PROVE Answerable(q)'
      BY <2>2 DEF Expects
    <3>1. Answerable(q)
      BY <2>1 DEF WaitInv, ExpectingAreKnown, Expects
    <3> QED BY <2>1, <2>4, <2>5, <3>1 DEF Answerable
  <2>7. \A s \in Sessions : At(s, "finish") /\ relay[s].msg.id = Id(q)' /\ phase'[q] = "wait" =>
           Id(q)' \in closed' \cup dropped' \/ HasEnd(buf[Id(q)])'
    BY <2>1, <2>4, <2>5 DEF WaitInv, FinishedAreThere
  <2>8. \A id \in Ids \ {Id(q)} : buf'[id] = buf[id]
    BY <2>9 DEF ChannelTypes
  <2>10. phase'[q] \in {"wait", "release", "leave"} /\ chunkCh' = chunkCh /\ worker' = worker
         /\ sess'[q] # NoSession /\ try'[q] = try[q]
    BY <2>1, <2>2, <2>3
  <2>11. \A p \in Requests \ {q} : phase'[p] = phase[p] /\ try'[p] = try[p] /\ sess'[p] = sess[p]
    BY <2>1
  <2>12. \A id \in Ids \ {Id(q)} : /\ buf'[id] = buf[id] /\ (id \in late => id \in late')
                                  /\ (id \in dropped => id \in dropped')
    BY <2>1, <2>8
  <2>13. UNCHANGED <<registry, closed, relay, inbox>>
    BY <2>1
  <2> HIDE DEF TypeOK
  <2> QED BY <1>0, <2>6, <2>7, <2>10, <2>11, <2>12, <2>13, HandlerWaits
<1>7. CASE SeeClosed(q) \/ GiveUp(q) \/ CancelReturns(q)
  <2>1. /\ phase[q] \in {"wait", "cancel"} /\ phase'[q] \in {"cancel", "release", "leave"}
        /\ UNCHANGED <<try, sess, registry, closed, relay, inbox, chunkCh, buf, late, dropped, worker>>
        /\ \A p \in Requests \ {q} : phase'[p] = phase[p]
    BY <1>7 DEF SeeClosed, GiveUp, CancelReturns, EndWait
  <2>2. sess[q] # NoSession
    BY <2>1 DEF WaitInv, HandlersHold
  <2>3. ~Expects(q)'
    BY <2>1 DEF Expects
  <2> QED BY <1>0, <2>1, <2>2, <2>3, HandlerWaits
<1>8. CASE StartDecrement(q) \/ DecrementLoad(q)
  <2>1. /\ phase[q] \in {"release", "releasing"} /\ phase'[q] \in {"releasing", AfterRelease(q)}
        /\ UNCHANGED <<try, sess, registry, closed, relay, inbox, chunkCh, buf, late, dropped, worker>>
        /\ \A p \in Requests \ {q} : phase'[p] = phase[p]
    BY <1>8 DEF StartDecrement, DecrementLoad
  <2>2. phase'[q] \in {"releasing", "leave", "panicked", "retry"}
        /\ (phase'[q] = "retry" => ~Stream(q)) /\ (phase'[q] = "leave" => Stream(q))
    BY <2>1, AfterReleaseRests
  <2>3. Stream(q) \/ phase'[q] = "leave" => sess[q] # NoSession
    BY <2>1, <2>2 DEF WaitInv, HandlersHold
  <2>4. ~Expects(q)'
    BY <2>2 DEF Expects
  <2> QED BY <1>0, <2>1, <2>2, <2>3, <2>4, HandlerWaits
<1>9. CASE UnregisterChunkChannel(q)
  <2>1. /\ phase[q] = "leave" /\ phase'[q] \in {"done", "release"}
        /\ ~Stream(q) \/ phase'[q] = "done"
        /\ UNCHANGED <<try, registry, closed, relay, inbox, worker>>
        /\ \A p \in Requests \ {q} : phase'[p] = phase[p] /\ sess'[p] = sess[p]
    BY <1>9 DEF UnregisterChunkChannel, AfterLeave
  <2>5. /\ chunkCh' = [chunkCh EXCEPT ![sess[q]] = @ \ {Id(q)}]
        /\ buf' = [buf EXCEPT ![Id(q)] = <<>>]
        /\ late' = late \ {Id(q)} /\ dropped' = dropped \ {Id(q)}
    BY <1>9 DEF UnregisterChunkChannel
  <2>2. ~Expects(q)'
    BY <2>1 DEF Expects
  <2>3. \A s \in Sessions : \A id \in chunkCh[s] : id # Id(q) => id \in chunkCh'[s]
    BY <2>5 DEF RegistryTypes
  <2>4. \A id \in Ids \ {Id(q)} : /\ buf'[id] = buf[id] /\ (id \in late => id \in late')
                                 /\ (id \in dropped => id \in dropped')
    BY <2>5 DEF ChannelTypes
  <2> QED BY <1>0, <2>1, <2>2, <2>3, <2>4, HandlerWaits
<1>10. CASE Retry(q)
  <2>1. /\ phase[q] = "retry" /\ phase'[q] \in {"count", "done"}
        /\ phase'[q] = "count" => sess'[q] # NoSession /\ try'[q] = try[q] + 1
        /\ phase'[q] = "done" => try'[q] = try[q]
        /\ UNCHANGED <<registry, closed, relay, inbox, chunkCh, buf, late, dropped, worker>>
        /\ \A p \in Requests \ {q} : phase'[p] = phase[p] /\ sess'[p] = sess[p] /\ try'[p] = try[p]
    BY <1>10 DEF Retry, MayRetry, Serves
  <2>2. ~Stream(q)
    BY <2>1 DEF WaitInv, HandlersHold
  <2>3. ~Expects(q)'
    BY <2>1, <2>2 DEF Expects, Stream
  <2> QED BY <1>0, <2>1, <2>3, HandlerWaits
<1> QED BY <1>1, <1>2, <1>3, <1>4, <1>5, <1>6, <1>7, <1>8, <1>9, <1>10 DEF Handler

(* A step of a read loop.                                                   *)
LEMMA ReadLoopWaits ==
  ASSUME TypeOK, WaitInv, NEW s \in Sessions,
         UNCHANGED <<registry, phase, try, sess, late, closed, worker>>,
         \A t \in Sessions \ {s} : relay'[t] = relay[t],
         relay'[s] \notin {Idle, Acking} => WasSent(relay'[s].msg.id),
         \A t \in Sessions : \A i \in DOMAIN inbox'[t] : WasSent(inbox'[t][i].id),
         dropped \subseteq dropped',
         \A id \in Ids : HasEnd(buf[id]) => HasEnd(buf'[id]),
         \A q \in Requests : Expects(q) /\ Id(q) \in chunkCh[sess[q]] =>
           Id(q) \in chunkCh'[sess[q]] \cup closed \cup dropped \/ HasEnd(buf[Id(q)]),
         \A q \in Requests : relay'[s] # Idle /\ relay'[s].step = "finish"
                             /\ relay'[s].msg.id = Id(q) /\ phase[q] = "wait" =>
           Id(q) \in closed \cup dropped' \/ HasEnd(buf'[Id(q)])
  PROVE  WaitInv'
<1>1. \A q \in Requests : Id(q)' = Id(q) /\ Id(q) \in Ids /\ Current(q)' = Current(q)
  BY IdType DEF Id, Current
<1>2. ExpectingAreKnown'
  <2> SUFFICES ASSUME NEW q \in Requests, Expects(q)' PROVE Answerable(q)'
    BY DEF ExpectingAreKnown
  <2>1. Expects(q) /\ Answerable(q)
    BY DEF Expects, Stream, WaitInv, ExpectingAreKnown
  <2> QED BY <1>1, <2>1 DEF Answerable
<1>3. HandlersHold'
  BY DEF WaitInv, HandlersHold, Stream
<1>4. MessagesWereSent'
  <2>1. \A id : WasSent(id)' <=> WasSent(id)
    BY DEF WasSent
  <2> QED BY <2>1 DEF WaitInv, MessagesWereSent
<1>5. FinishedAreThere'
  <2> SUFFICES ASSUME NEW t \in Sessions, NEW q \in Requests,
                      At(t, "finish")', relay'[t].msg.id = Id(q), phase[q] = "wait"
               PROVE  Id(q) \in closed \cup dropped' \/ HasEnd(buf'[Id(q)])
    BY <1>1 DEF FinishedAreThere
  <2>1. CASE t = s
    BY <2>1 DEF At
  <2>2. CASE t # s
    <3>1. At(t, "finish")
      BY <2>2 DEF At
    <3> QED BY <1>1, <2>2, <3>1 DEF WaitInv, FinishedAreThere
  <2> QED BY <2>1, <2>2
<1> QED BY <1>2, <1>3, <1>4, <1>5 DEF WaitInv

(* Each step of a read loop.                                                *)
LEMMA WaitReadLoop ==
  ASSUME TypeOK, IndInv, WaitInv, NEW s \in Sessions, ReadLoop(s) PROVE WaitInv'
<1>0. /\ \A t \in Sessions : \A i \in DOMAIN inbox[t] : WasSent(inbox[t][i].id)
      /\ relay[s] \notin {Idle, Acking} => WasSent(relay[s].msg.id)
  BY DEF WaitInv, MessagesWereSent
<1>a. ASSUME NEW step PROVE At(s, step) /\ step # "ack" => relay[s] \notin {Idle, Acking}
  BY DEF At, Acking
<1>b. ASSUME NEW msg
      PROVE  \/ Afterwards(msg) = Idle
             \/ Afterwards(msg).step = "health" /\ Afterwards(msg).msg = msg
  BY DEF Afterwards
<1>1. CASE RelayRead(s)
  <2>1. /\ UNCHANGED <<registry, phase, try, sess, late, closed, worker, buf, dropped, chunkCh>>
        /\ inbox[s] # <<>> /\ inbox' = [inbox EXCEPT ![s] = Tail(@)]
    BY <1>1 DEF RelayRead
  <2>2. PICK r : /\ relay' = [relay EXCEPT ![s] = r]
                 /\ \/ r = Idle
                    \/ r.step \in {"health", "lock"} /\ r.msg = Head(inbox[s])
    <3>1. CASE registry[MachineOf[s]] = NoSession
      <4>1. relay' = [relay EXCEPT ![s] = Afterwards(Head(inbox[s]))]
        BY <1>1, <3>1 DEF RelayRead, SetRelay
      <4> QED BY <1>b, <4>1
    <3>2. CASE registry[MachineOf[s]] # NoSession
      <4>1. relay' = [relay EXCEPT ![s] = [step |-> "lock", msg |-> Head(inbox[s]),
                                           at |-> registry[MachineOf[s]]]]
        BY <1>1, <3>2 DEF RelayRead, SetRelay
      <4> WITNESS [step |-> "lock", msg |-> Head(inbox[s]), at |-> registry[MachineOf[s]]]
      <4> QED BY <4>1
    <3> QED BY <3>1, <3>2
  <2>3. relay'[s] = r /\ \A t \in Sessions \ {s} : relay'[t] = relay[t]
    BY <2>2 DEF TypeOK, RelayTypes
  <2>4. inbox[s] \in Seq(Messages) /\ inbox'[s] = Tail(inbox[s])
        /\ \A t \in Sessions \ {s} : inbox'[t] = inbox[t]
    BY <2>1 DEF TypeOK, RelayTypes
  <2>5. WasSent(Head(inbox[s]).id)
    <3>1. 1 \in DOMAIN inbox[s] /\ Head(inbox[s]) = inbox[s][1]
      BY <2>1, <2>4
    <3> QED BY <1>0, <3>1
  <2>6. \A i \in DOMAIN inbox'[s] : WasSent(inbox'[s][i].id)
    <3> SUFFICES ASSUME NEW i \in DOMAIN Tail(inbox[s]) PROVE WasSent(Tail(inbox[s])[i].id)
      BY <2>4
    <3>1. i + 1 \in DOMAIN inbox[s] /\ Tail(inbox[s])[i] = inbox[s][i + 1]
      BY <2>1, <2>4
    <3> QED BY <1>0, <3>1
  <2> QED BY <1>0, <2>1, <2>2, <2>3, <2>4, <2>5, <2>6, ReadLoopWaits
<1>2. CASE RelayLookup(s)
  <2>1. UNCHANGED <<registry, phase, try, sess, late, closed, worker, buf, dropped, chunkCh, inbox>>
    BY <1>2 DEF RelayLookup
  <2>2. PICK r : /\ relay' = [relay EXCEPT ![s] = r]
                 /\ \/ r = Idle
                    \/ r.step \in {"health", "send"} /\ r.msg = relay[s].msg
    <3>1. CASE relay[s].msg.id \in chunkCh[relay[s].at]
      <4>1. relay' = [relay EXCEPT ![s] = [step |-> "send", msg |-> relay[s].msg,
                                           at |-> relay[s].at]]
        BY <1>2, <3>1 DEF RelayLookup, SetRelay
      <4> WITNESS [step |-> "send", msg |-> relay[s].msg, at |-> relay[s].at]
      <4> QED BY <4>1
    <3>2. CASE relay[s].msg.id \notin chunkCh[relay[s].at]
      <4>1. relay' = [relay EXCEPT ![s] = Afterwards(relay[s].msg)]
        BY <1>2, <3>2 DEF RelayLookup, SetRelay
      <4> QED BY <1>b, <4>1
    <3> QED BY <3>1, <3>2
  <2>3. relay'[s] = r /\ \A t \in Sessions \ {s} : relay'[t] = relay[t]
    BY <2>2 DEF TypeOK, RelayTypes
  <2>4. WasSent(relay[s].msg.id)
    BY <1>0, <1>2, <1>a DEF RelayLookup
  <2> QED BY <1>0, <2>1, <2>2, <2>3, <2>4, ReadLoopWaits
<1>3. CASE RelaySend(s)
  <2>1. UNCHANGED <<registry, phase, try, sess, late, closed, worker, chunkCh, inbox>>
    BY <1>3 DEF RelaySend
  <2>2. PICK r : /\ relay' = [relay EXCEPT ![s] = r]
                 /\ r = Idle \/ r.msg = relay[s].msg
                 /\ (r # Idle /\ r.step = "finish") => Ends(relay[s].msg)
    BY <1>3 DEF RelaySend, SetRelay
  <2>3. relay'[s] = r /\ \A t \in Sessions \ {s} : relay'[t] = relay[t]
    BY <2>2 DEF TypeOK, RelayTypes
  <2>4. relay[s] \notin {Idle, Acking}
    BY <1>3, <1>a DEF RelaySend
  <2>5. WasSent(relay[s].msg.id) /\ relay[s].msg \in Messages /\ relay[s].msg.id \in Ids
    BY <1>0, <2>4, RelayType
  <2> DEFINE msg == relay[s].msg
  <2>6. /\ dropped \subseteq dropped'
        /\ buf' = buf \/ buf' = [buf EXCEPT ![msg.id] = Append(@, msg)]
        /\ Ends(msg) => \/ msg.id \in closed \cup dropped'
                        \/ buf' = [buf EXCEPT ![msg.id] = Append(@, msg)]
    BY <1>3 DEF RelaySend
  <2>7. buf \in [Ids -> Seq(Messages)]
    BY DEF TypeOK, ChannelTypes
  <2>8. \A id \in Ids : HasEnd(buf[id]) => HasEnd(buf'[id])
    <3> SUFFICES ASSUME NEW id \in Ids, HasEnd(buf[id]) PROVE HasEnd(buf'[id])
      OBVIOUS
    <3>1. HasEnd(Append(buf[id], msg)) /\ buf[id] \in Seq(Messages)
      BY <2>5, <2>7, EndIsKept
    <3>2. buf'[id] \in {buf[id], Append(buf[id], msg)}
      BY <2>5, <2>6, <2>7
    <3> QED BY <3>1, <3>2
  <2>9. Ends(msg) => msg.id \in closed \cup dropped' \/ HasEnd(buf'[msg.id])
    <3> SUFFICES ASSUME Ends(msg), buf' = [buf EXCEPT ![msg.id] = Append(@, msg)]
                 PROVE  HasEnd(buf'[msg.id])
      BY <2>6
    <3>1. buf'[msg.id] = Append(buf[msg.id], msg) /\ buf[msg.id] \in Seq(Messages)
      BY <2>5, <2>7
    <3> QED BY <2>5, <3>1, EndArrives
  <2> QED BY <1>0, <2>1, <2>2, <2>3, <2>5, <2>6, <2>8, <2>9, ReadLoopWaits
<1>4. CASE RelayFinish(s)
  <2>1. /\ UNCHANGED <<registry, phase, try, sess, late, closed, worker, buf, dropped, inbox>>
        /\ At(s, "finish")
        /\ chunkCh' = [chunkCh EXCEPT ![relay[s].at] = @ \ {relay[s].msg.id}]
    BY <1>4 DEF RelayFinish
  <2>2. PICK r : /\ relay' = [relay EXCEPT ![s] = r]
                 /\ \/ r = Idle
                    \/ r.step = "health" /\ r.msg = relay[s].msg
    <3>1. relay' = [relay EXCEPT ![s] = Afterwards(relay[s].msg)]
      BY <1>4 DEF RelayFinish, SetRelay
    <3> QED BY <1>b, <3>1
  <2>3. relay'[s] = r /\ \A t \in Sessions \ {s} : relay'[t] = relay[t]
    BY <2>2 DEF TypeOK, RelayTypes
  <2>4. WasSent(relay[s].msg.id)
    BY <1>0, <2>1, <1>a
  <2>5. ASSUME NEW q \in Requests, Expects(q), Id(q) \in chunkCh[sess[q]]
        PROVE  Id(q) \in chunkCh'[sess[q]] \cup closed \cup dropped \/ HasEnd(buf[Id(q)])
    <3>1. sess[q] \in Sessions
      BY <2>5 DEF Expects, WaitInv, HandlersHold, TypeOK, RequestTypes
    <3>2. CASE Id(q) # relay[s].msg.id
      BY <2>1, <2>5, <3>1, <3>2 DEF TypeOK, RegistryTypes
    <3>3. CASE Id(q) = relay[s].msg.id
      <4>1. phase[q] = "wait"
        BY <2>4, <2>5, <3>3 DEF WasSent, Expects, Id, TypeOK, RequestTypes
      <4> QED BY <2>1, <3>3, <4>1 DEF WaitInv, FinishedAreThere
    <3> QED BY <3>2, <3>3
  <2> QED BY <1>0, <2>1, <2>2, <2>3, <2>4, <2>5, ReadLoopWaits
<1>5. CASE RelayHealth(s) \/ AckHangs(s) \/ AckReturns(s)
  <2>1. UNCHANGED <<registry, phase, try, sess, late, closed, worker, buf, dropped, chunkCh, inbox>>
    BY <1>5 DEF RelayHealth, AckHangs, AckReturns
  <2>2. PICK r \in {Idle, Acking} : relay' = [relay EXCEPT ![s] = r]
    BY <1>5 DEF RelayHealth, AckHangs, AckReturns, SetRelay
  <2>3. relay'[s] = r /\ \A t \in Sessions \ {s} : relay'[t] = relay[t]
    BY <2>2 DEF TypeOK, RelayTypes
  <2>4. relay'[s].step # "finish"
    BY <2>2, <2>3 DEF Idle, Acking
  <2> QED BY <1>0, <2>1, <2>2, <2>3, <2>4, ReadLoopWaits
<1> QED BY <1>1, <1>2, <1>3, <1>4, <1>5 DEF ReadLoop, Serving

(* A step that changes neither a handler nor a relay channel, and closes    *)
(* the channels that it takes from a registered session or takes out of the *)
(* registry.                                                                *)
LEMMA RegistryWaits ==
  ASSUME TypeOK, WaitInv,
         UNCHANGED <<phase, try, sess, late, dropped, buf, relay>>,
         closed \subseteq closed',
         \A t \in Sessions : \A i \in DOMAIN inbox'[t] : WasSent(inbox'[t][i].id),
         \A id \in Ids : worker'[id] # NoSession => WasSent(id),
         \A q \in Requests :
           sess[q] # NoSession /\ Current(q) = sess[q] /\ Id(q) \in chunkCh[sess[q]] =>
             \/ Id(q) \in closed'
             \/ Current(q)' = sess[q] /\ Id(q) \in chunkCh'[sess[q]]
  PROVE  WaitInv'
<1>1. \A q \in Requests : Id(q)' = Id(q)
  BY DEF Id
<1>2. ExpectingAreKnown'
  <2> SUFFICES ASSUME NEW q \in Requests, Expects(q)' PROVE Answerable(q)'
    BY DEF ExpectingAreKnown
  <2>1. Expects(q) /\ Answerable(q) /\ sess[q] # NoSession
    BY DEF Expects, Stream, WaitInv, ExpectingAreKnown, HandlersHold
  <2> QED BY <1>1, <2>1 DEF Answerable
<1>3. HandlersHold'
  BY DEF WaitInv, HandlersHold, Stream
<1>4. MessagesWereSent'
  <2>1. \A id : WasSent(id)' <=> WasSent(id)
    BY DEF WasSent
  <2> QED BY <2>1 DEF WaitInv, MessagesWereSent
<1>5. FinishedAreThere'
  BY <1>1 DEF WaitInv, FinishedAreThere, At
<1> QED BY <1>2, <1>3, <1>4, <1>5 DEF WaitInv

(* Unregister closes the channels of the session it takes out.              *)
LEMMA UnregisterWaits ==
  ASSUME TypeOK, IndInv, NEW m \in Machines, Unregister(m), UNCHANGED <<try, sess>>,
         NEW q \in Requests, sess[q] # NoSession, Current(q) = sess[q],
         Id(q) \in chunkCh[sess[q]]
  PROVE  /\ closed \subseteq closed'
         /\ \/ Id(q) \in closed'
            \/ Current(q)' = sess[q] /\ Id(q) \in chunkCh'[sess[q]]
<1>1. sess[q] \in Sessions /\ TargetOf[q] \in Machines
  BY DEF TypeOK, RequestTypes
<1>2. CASE registry[m] = NoSession
  BY <1>2 DEF Unregister, Current
<1>3. CASE registry[m] # NoSession
  <2>1. /\ closed' = closed \cup chunkCh[registry[m]]
        /\ chunkCh' = [chunkCh EXCEPT ![registry[m]] = {}]
        /\ registry' = [registry EXCEPT ![m] = NoSession]
    BY <1>3 DEF Unregister, Wake
  <2>2. CASE TargetOf[q] = m
    BY <2>1, <2>2 DEF Current
  <2>3. CASE TargetOf[q] # m
    <3>1. sess[q] # registry[m]
      BY <1>1, <1>3, <2>3 DEF Current, IndInv, RegisteredAreLive
    <3> QED BY <1>1, <2>1, <2>3, <3>1 DEF Current, TypeOK, RegistryTypes
  <2> QED BY <2>1, <2>2, <2>3
<1> QED BY <1>2, <1>3

(* Each step of a connection.                                               *)
LEMMA WaitConnection ==
  ASSUME TypeOK, IndInv, WaitInv, NEW s \in Sessions, Connection(s) PROVE WaitInv'
<1>0. /\ \A t \in Sessions : \A i \in DOMAIN inbox[t] : WasSent(inbox[t][i].id)
      /\ \A id \in Ids : worker[id] # NoSession => WasSent(id)
  BY DEF WaitInv, MessagesWereSent
<1>1. CASE Accept(s)
  <2>1. UNCHANGED <<registry, chunkCh, phase, try, sess, late, dropped, buf, closed, relay, inbox>>
    BY <1>1 DEF Accept
  <2>2. ASSUME NEW id \in Ids, worker'[id] # NoSession PROVE worker[id] # NoSession
    <3>1. PICK survivors \in {{}} \cup {Lost(MachineOf[s]) : e \in Events \cap {"survive"}} :
            worker' = [i \in Ids |-> IF worker[i] \in survivors THEN s ELSE worker[i]]
      BY <1>1 DEF Accept
    <3>2. NoSession \notin survivors
      BY DEF Lost
    <3> QED BY <2>2, <3>1, <3>2
  <2> QED BY <1>0, <2>1, <2>2, RegistryWaits DEF Current
<1>2. CASE HandshakeFails(s) \/ Drop(s) \/ Stall(s)
  <2>1. UNCHANGED <<registry, chunkCh, phase, try, sess, late, dropped, buf, closed, relay,
                    inbox, worker>>
    BY <1>2 DEF HandshakeFails, Drop, Stall
  <2> QED BY <1>0, <2>1, RegistryWaits DEF Current
<1>3. CASE Register(s)
  <2>1. /\ UNCHANGED <<chunkCh, phase, try, sess, late, dropped, buf, relay, inbox, worker>>
        /\ registry' = [registry EXCEPT ![MachineOf[s]] = s]
    BY <1>3 DEF Register
  <2>2. /\ closed \subseteq closed'
        /\ registry[MachineOf[s]] # NoSession => chunkCh[registry[MachineOf[s]]] \subseteq closed'
    BY <1>3 DEF Register, Wake
  <2>3. ASSUME NEW q \in Requests, sess[q] # NoSession, Current(q) = sess[q],
               Id(q) \in chunkCh[sess[q]]
        PROVE  \/ Id(q) \in closed'
               \/ Current(q)' = sess[q] /\ Id(q) \in chunkCh'[sess[q]]
    BY <2>1, <2>2, <2>3 DEF Current, TypeOK, RegistryTypes
  <2> QED BY <1>0, <2>1, <2>2, <2>3, RegistryWaits
<1>4. CASE ReadLoopEnds(s)
  <2>1. /\ UNCHANGED <<registry, chunkCh, phase, try, sess, late, dropped, buf, closed, relay, worker>>
        /\ inbox' = [inbox EXCEPT ![s] = <<>>]
    BY <1>4 DEF ReadLoopEnds
  <2>2. \A t \in Sessions : inbox'[t] \in {<<>>, inbox[t]}
    BY <2>1 DEF TypeOK, RelayTypes
  <2>3. \A t \in Sessions : \A i \in DOMAIN inbox'[t] : WasSent(inbox'[t][i].id)
    BY <1>0, <2>2
  <2> QED BY <1>0, <2>1, <2>3, RegistryWaits DEF Current
<1>5. CASE Disconnect(s)
  <2>1. UNCHANGED <<phase, try, sess, late, dropped, buf, relay, inbox, worker>>
    BY <1>5 DEF Disconnect
  <2>2. Unregister(MachineOf[s]) /\ MachineOf[s] \in Machines /\ closed \subseteq closed'
    BY <1>5 DEF Disconnect, Unregister, Wake
  <2> QED BY <1>0, <2>1, <2>2, UnregisterWaits, RegistryWaits
<1> QED BY <1>1, <1>2, <1>3, <1>4, <1>5 DEF Connection

(* Each step of an administrator or of evictStale.                          *)
LEMMA WaitAdministration ==
  ASSUME TypeOK, IndInv, WaitInv, NEW m \in Machines, Administration(m) PROVE WaitInv'
<1>0. /\ \A t \in Sessions : \A i \in DOMAIN inbox[t] : WasSent(inbox[t][i].id)
      /\ \A id \in Ids : worker[id] # NoSession => WasSent(id)
  BY DEF WaitInv, MessagesWereSent
<1>9. UNCHANGED <<phase, try, sess, late, dropped, buf, relay, inbox, worker>>
  BY DEF Administration, Evict, GetSessionToCancel, CancelAllRequests, RevokeKey, UnregisterRevoked
<1>1. CASE Evict(m)
  <2>1. /\ closed' = closed \cup chunkCh[registry[m]] /\ chunkCh' = chunkCh
        /\ registry' = [registry EXCEPT ![m] = NoSession]
    BY <1>1 DEF Evict, Wake
  <2>2. ASSUME NEW q \in Requests, sess[q] # NoSession, Current(q) = sess[q],
               Id(q) \in chunkCh[sess[q]]
        PROVE  \/ Id(q) \in closed'
               \/ Current(q)' = sess[q] /\ Id(q) \in chunkCh'[sess[q]]
    BY <2>1, <2>2 DEF Current, TypeOK, RegistryTypes
  <2> QED BY <1>0, <1>9, <2>1, <2>2, RegistryWaits
<1>2. CASE GetSessionToCancel(m) \/ RevokeKey(m)
  <2>1. UNCHANGED <<registry, chunkCh, closed>>
    BY <1>2 DEF GetSessionToCancel, RevokeKey
  <2> QED BY <1>0, <1>9, <2>1, RegistryWaits DEF Current
<1>3. CASE CancelAllRequests(m)
  <2>1. PICK gone : /\ closed' = closed \cup gone
                    /\ chunkCh' = [chunkCh EXCEPT ![canceller[m]] = @ \ gone]
    BY <1>3 DEF CancelAllRequests
  <2>2. registry' = registry
    BY <1>3 DEF CancelAllRequests
  <2>3. ASSUME NEW q \in Requests, sess[q] # NoSession, Id(q) \in chunkCh[sess[q]]
        PROVE  Id(q) \in closed' \/ Id(q) \in chunkCh'[sess[q]]
    <3>1. sess[q] \in Sessions
      BY <2>3 DEF TypeOK, RequestTypes
    <3> QED BY <2>1, <2>3, <3>1 DEF TypeOK, RegistryTypes
  <2> QED BY <1>0, <1>9, <2>1, <2>2, <2>3, RegistryWaits DEF Current
<1>4. CASE UnregisterRevoked(m)
  <2>1. Unregister(m) /\ closed \subseteq closed'
    BY <1>4 DEF UnregisterRevoked, Unregister, Wake
  <2> QED BY <1>0, <1>9, <2>1, UnregisterWaits, RegistryWaits
<1> QED BY <1>1, <1>2, <1>3, <1>4 DEF Administration

(* An agent answers requests that were sent to it.                          *)
LEMMA WaitAgent ==
  ASSUME TypeOK, WaitInv, NEW id \in Ids, Agent(id) PROVE WaitInv'
<1>0. /\ \A t \in Sessions : \A i \in DOMAIN inbox[t] : WasSent(inbox[t][i].id)
      /\ \A i \in Ids : worker[i] # NoSession => WasSent(i)
  BY DEF WaitInv, MessagesWereSent
<1>1. /\ UNCHANGED <<registry, chunkCh, closed, phase, try, sess, late, dropped, buf, relay>>
      /\ worker[id] # NoSession
      /\ worker' = worker \/ worker' = [worker EXCEPT ![id] = NoSession]
  BY DEF Agent, AgentQuits, AgentSend
<1>2. \A i \in Ids : worker'[i] # NoSession => WasSent(i)
  BY <1>0, <1>1 DEF TypeOK, RelayTypes
<1>3. \A t \in Sessions : \A i \in DOMAIN inbox'[t] : WasSent(inbox'[t][i].id)
  <2>1. CASE AgentQuits(id)
    BY <1>0, <2>1 DEF AgentQuits
  <2>2. ASSUME NEW kind \in Kinds, AgentSend(id, kind)
        PROVE  \A t \in Sessions : \A i \in DOMAIN inbox'[t] : WasSent(inbox'[t][i].id)
    <3>1. PICK s, msg : /\ s \in Sessions /\ msg.id = id
                        /\ inbox' = [inbox EXCEPT ![s] = Append(@, msg)]
      <4>1. worker[id] \in Sessions
        BY <1>1 DEF TypeOK, RelayTypes
      <4>2. inbox' = [inbox EXCEPT ![worker[id]] =
                        Append(@, [id |-> id, kind |-> kind, n |-> sent[id] + 1])]
        BY <2>2 DEF AgentSend
      <4> WITNESS worker[id], [id |-> id, kind |-> kind, n |-> sent[id] + 1]
      <4> QED BY <4>1, <4>2
    <3>2. s \in Sessions /\ inbox[s] \in Seq(Messages)
      BY <3>1 DEF TypeOK, RelayTypes
    <3>3. inbox'[s] = Append(inbox[s], msg) /\ \A t \in Sessions \ {s} : inbox'[t] = inbox[t]
      BY <3>1 DEF TypeOK, RelayTypes
    <3>4. WasSent(msg.id)
      BY <1>0, <1>1, <3>1
    <3>5. ASSUME NEW i \in DOMAIN inbox'[s] PROVE WasSent(inbox'[s][i].id)
      <4>1. CASE i \in DOMAIN inbox[s]
        <5>1. inbox'[s][i] = inbox[s][i]
          BY <3>2, <3>3, <4>1
        <5> QED BY <1>0, <3>2, <4>1, <5>1
      <4>2. CASE i \notin DOMAIN inbox[s]
        <5>1. inbox'[s][i] = msg
          BY <3>2, <3>3, <4>2
        <5> QED BY <3>4, <5>1
      <4> QED BY <4>1, <4>2
    <3> QED BY <1>0, <3>3, <3>5
  <2> QED BY <2>1, <2>2 DEF Agent
<1> QED BY <1>1, <1>2, <1>3, RegistryWaits DEF Current

LEMMA WaitInit == Init => WaitInv
<1> SUFFICES ASSUME Init PROVE WaitInv
  OBVIOUS
<1>1. ExpectingAreKnown /\ HandlersHold
  BY DEF Init, ExpectingAreKnown, Expects, HandlersHold
<1>2. MessagesWereSent /\ FinishedAreThere
  BY DEF Init, MessagesWereSent, FinishedAreThere, At
<1> QED BY <1>1, <1>2 DEF WaitInv

LEMMA WaitNext == TypeOK /\ IndInv /\ WaitInv /\ [Next]_vars => WaitInv'
<1> SUFFICES ASSUME TypeOK, IndInv, WaitInv, [Next]_vars PROVE WaitInv'
  OBVIOUS
<1>1. CASE \E s \in Sessions : Connection(s) \/ ReadLoop(s)
  BY <1>1, WaitConnection, WaitReadLoop
<1>2. CASE \E q \in Requests : Handler(q)
  BY <1>2, WaitHandler
<1>3. CASE \E m \in Machines : Administration(m)
  BY <1>3, WaitAdministration
<1>4. CASE \E id \in Ids : Agent(id)
  BY <1>4, WaitAgent
<1>5. CASE UNCHANGED vars
  <2>1. UNCHANGED <<registry, chunkCh, closed, phase, try, sess, late, dropped, buf, relay,
                    inbox, worker>>
    BY <1>5 DEF vars
  <2> QED BY <2>1, RegistryWaits DEF WaitInv, MessagesWereSent, Current
<1> QED BY <1>1, <1>2, <1>3, <1>4, <1>5 DEF Next

(* A handler that waits on an open channel can still be answered: its       *)
(* session is the registered one and knows the channel, or the answer is    *)
(* there, or it was lost in one of the ways the code cannot help.           *)
THEOREM WaitersStayKnown == Spec => []WaitersAreKnown
<1>1. Init => TypeOK /\ IndInv /\ WaitInv
  BY TypeInit, IndInit, WaitInit
<1>2. TypeOK /\ IndInv /\ WaitInv /\ [Next]_vars => TypeOK' /\ IndInv' /\ WaitInv'
  BY TypeNext, IndNext, WaitNext
<1>3. WaitInv => WaitersAreKnown
  BY DEF WaitInv, ExpectingAreKnown, WaitersAreKnown, Expects
<1> QED BY <1>1, <1>2, <1>3, PTL DEF Spec
------------------------------------------------------------------------------
(* What is numbered are messages, and their numbers are naturals.           *)
LEMMA NumberTypes ==
  ASSUME TypeOK, NEW q \in Requests, sess[q] # NoSession
  PROVE  /\ sess[q] \in Sessions /\ Id(q) \in Ids
         /\ buf[Id(q)] \in Seq(Messages) /\ inbox[sess[q]] \in Seq(Messages)
         /\ recv[q] \in Nat /\ sent[Id(q)] \in Nat
         /\ \A i \in DOMAIN buf[Id(q)] : buf[Id(q)][i].n \in Nat
         /\ \A i \in DOMAIN inbox[sess[q]] : inbox[sess[q]][i].n \in Nat
         /\ Arrived(q) \subseteq Nat /\ UnderRelay(q) \subseteq Nat /\ OnTheWire(q) \subseteq Nat
<1>1. sess[q] \in Sessions /\ Id(q) \in Ids /\ recv[q] \in Nat
  BY IdType DEF TypeOK, RequestTypes
<1>2. buf[Id(q)] \in Seq(Messages) /\ inbox[sess[q]] \in Seq(Messages) /\ sent[Id(q)] \in Nat
  BY <1>1 DEF TypeOK, ChannelTypes, RelayTypes
<1>3. /\ \A i \in DOMAIN buf[Id(q)] : buf[Id(q)][i] \in Messages
      /\ \A i \in DOMAIN inbox[sess[q]] : inbox[sess[q]][i] \in Messages
  BY <1>2
<1>4. \A msg \in Messages : msg.n \in Nat
  BY DEF Messages
<1>5. At(sess[q], "lock") \/ At(sess[q], "send") => relay[sess[q]].msg \in Messages
  BY <1>1, RelayType DEF At, Acking
<1>6. Arrived(q) \subseteq Nat
  BY <1>1, <1>3, <1>4 DEF Arrived
<1>7. UnderRelay(q) \subseteq Nat
  BY <1>4, <1>5 DEF UnderRelay
<1>8. OnTheWire(q) \subseteq Nat
  BY <1>3, <1>4 DEF OnTheWire
<1> QED BY <1>1, <1>2, <1>3, <1>4, <1>6, <1>7, <1>8

LEMMA HeadIsFirst ==
  ASSUME NEW channel \in Seq(Messages), channel # <<>>
  PROVE  Head(channel) = channel[1] /\ 1 \in DOMAIN channel /\ channel[1] \in Messages
OBVIOUS

(* A step that loses messages of a request, or none, keeps their order.     *)
LEMMA NumbersShrink ==
  ASSUME NEW q \in Requests, NumbersGrow(q),
         Id(q)' = Id(q), recv'[q] = recv[q], buf'[Id(q)] = buf[Id(q)],
         Growing(inbox'[sess'[q]], Id(q)),
         UnderRelay(q)' \subseteq UnderRelay(q), OnTheWire(q)' \subseteq OnTheWire(q),
         worker'[Id(q)] # NoSession => worker[Id(q)] # NoSession /\ sent'[Id(q)] = sent[Id(q)]
  PROVE  NumbersGrow(q)'
<1>1. Arrived(q)' = Arrived(q)
  BY DEF Arrived
<1>2. Below(Arrived(q), UnderRelay(q)' \cup OnTheWire(q)') /\ Below(UnderRelay(q)', OnTheWire(q)')
  BY DEF NumbersGrow, Below
<1>3. worker'[Id(q)] # NoSession =>
        \A n \in Arrived(q) \cup UnderRelay(q)' \cup OnTheWire(q)' : n <= sent'[Id(q)]
  BY DEF NumbersGrow
<1> QED BY <1>1, <1>2, <1>3 DEF NumbersGrow, Below, Growing

(* A step that leaves the handlers and the relay channels alone.            *)
LEMMA RegistryOrder ==
  ASSUME TypeOK, WaitInv, OrderInv,
         UNCHANGED <<phase, try, sess, recv, buf, relay, sent>>,
         \A t \in Sessions : inbox'[t] \in {<<>>, inbox[t]},
         \A id \in Ids : worker'[id] # NoSession =>
           worker[id] # NoSession /\ MachineOf[worker'[id]] = TargetOf[id[1]],
         \A q \in Requests : phase[q] = "wait" /\ Current(q) # sess[q] => Current(q)' # sess[q],
         \A q \in Requests, t \in Sessions :
           phase[q] = "wait" /\ t # sess[q] /\ worker'[Id(q)] = t /\ conn'[t] = "open" =>
             Current(q)' # sess[q]
  PROVE  OrderInv'
<1>1. \A q \in Requests : Id(q)' = Id(q) /\ Id(q) \in Ids
  BY IdType DEF Id
<1>2. AnswersStayHome'
  <2> SUFFICES ASSUME NEW q \in Requests, NEW t \in Sessions, phase[q] = "wait", t # sess[q]
               PROVE  /\ \A i \in DOMAIN inbox'[t] : inbox'[t][i].id = Id(q) => Current(q)' # sess[q]
                      /\ At(t, "lock")' /\ relay[t].msg.id = Id(q) => relay[t].at # sess[q]
                      /\ At(t, "send")' => relay[t].msg.id # Id(q)
    BY <1>1 DEF OrderInv, AnswersStayHome, At
  <2>1. \A i \in DOMAIN inbox[t] : inbox[t][i].id = Id(q) => Current(q)' # sess[q]
    BY DEF OrderInv, AnswersStayHome
  <2>2. \A i \in DOMAIN inbox'[t] : inbox'[t][i].id = Id(q) => Current(q)' # sess[q]
    BY <2>1
  <2> QED BY <2>2 DEF OrderInv, AnswersStayHome, At
<1>3. UnsentAreEmpty'
  BY DEF OrderInv, UnsentAreEmpty, WasSent
<1>4. ASSUME NEW q \in Requests, phase[q] = "wait" PROVE NumbersGrow(q)'
  <2>1. NumbersGrow(q) /\ sess[q] \in Sessions
    BY <1>4 DEF OrderInv, WaitInv, HandlersHold, TypeOK, RequestTypes
  <2>2. Growing(inbox'[sess[q]], Id(q))
    BY <2>1 DEF NumbersGrow, Growing
  <2>3. UnderRelay(q)' = UnderRelay(q)
    BY <1>1 DEF UnderRelay, At
  <2>4. OnTheWire(q)' \subseteq OnTheWire(q)
    <3>1. CASE inbox'[sess[q]] = <<>>
      BY <3>1 DEF OnTheWire
    <3>2. CASE inbox'[sess[q]] = inbox[sess[q]]
      BY <1>1, <3>2 DEF OnTheWire
    <3> QED BY <2>1, <3>1, <3>2
  <2> QED BY <1>1, <2>1, <2>2, <2>3, <2>4, NumbersShrink
<1> QED BY <1>2, <1>3, <1>4 DEF OrderInv

(* Each step of a connection.                                               *)
LEMMA OrderConnection ==
  ASSUME TypeOK, IndInv, WaitInv, OrderInv, NEW s \in Sessions, Connection(s) PROVE OrderInv'
<1>0. \A q \in Requests : phase[q] = "wait" =>
        /\ sess[q] \in Sessions /\ sess[q] # NoSession
        /\ conn[sess[q]] \notin {"none", "accepted"}
  BY DEF WaitInv, HandlersHold, IndInv, HeldSessions, TypeOK, RequestTypes
<1>1. \A id \in Ids : worker[id] # NoSession => MachineOf[worker[id]] = TargetOf[id[1]]
  BY DEF OrderInv, AnswersStayHome
<1>2. \A q \in Requests, t \in Sessions :
        phase[q] = "wait" /\ t # sess[q] /\ worker[Id(q)] = t /\ conn[t] = "open" =>
          Current(q) # sess[q]
  BY DEF OrderInv, AnswersStayHome
<1>3. conn \in [Sessions -> {"none", "accepted", "open", "stalled", "lost", "closed", "gone"}]
      /\ registry \in [Machines -> Sessions \cup {NoSession}]
      /\ inbox \in [Sessions -> Seq(Messages)]
  BY DEF TypeOK, RegistryTypes, RelayTypes
<1>4. CASE Accept(s)
  <2>1. UNCHANGED <<registry, phase, try, sess, recv, buf, relay, sent, inbox>>
        /\ conn' = [conn EXCEPT ![s] = "accepted"]
    BY <1>4 DEF Accept
  <2>2. PICK survivors \in {{}} \cup {Lost(MachineOf[s]) : e \in Events \cap {"survive"}} :
          worker' = [i \in Ids |-> IF worker[i] \in survivors THEN s ELSE worker[i]]
    BY <1>4 DEF Accept
  <2>3. \A t \in survivors : t # NoSession /\ MachineOf[t] = MachineOf[s]
    BY DEF Lost
  <2>4. \A id \in Ids : worker'[id] # NoSession =>
          worker[id] # NoSession /\ MachineOf[worker'[id]] = TargetOf[id[1]]
    BY <1>1, <2>2, <2>3
  <2>5. \A q \in Requests, t \in Sessions :
          phase[q] = "wait" /\ t # sess[q] /\ worker'[Id(q)] = t /\ conn'[t] = "open" =>
            Current(q)' # sess[q]
    <3> SUFFICES ASSUME NEW q \in Requests, NEW t \in Sessions, phase[q] = "wait", t # sess[q],
                        worker'[Id(q)] = t, conn'[t] = "open"
                 PROVE  Current(q) # sess[q]
      BY <2>1 DEF Current
    <3>1. t # s /\ conn[t] = "open" /\ Id(q) \in Ids
      BY <1>3, <2>1, IdType
    <3> QED BY <1>2, <2>2, <3>1
  <2> QED BY <2>1, <2>4, <2>5, RegistryOrder DEF Current
<1>5. CASE HandshakeFails(s) \/ Drop(s) \/ Stall(s)
  <2>1. UNCHANGED <<registry, phase, try, sess, recv, buf, relay, sent, inbox, worker>>
        /\ \E c \in {"gone", "lost", "stalled"} : conn' = [conn EXCEPT ![s] = c]
    BY <1>5 DEF HandshakeFails, Drop, Stall
  <2>2. \A t \in Sessions : conn'[t] = "open" => conn[t] = "open"
    BY <1>3, <2>1
  <2> QED BY <1>1, <1>2, <2>1, <2>2, RegistryOrder DEF Current
<1>6. CASE Register(s)
  <2>1. UNCHANGED <<phase, try, sess, recv, buf, relay, sent, inbox, worker>>
        /\ registry' = [registry EXCEPT ![MachineOf[s]] = s]
        /\ conn' = [conn EXCEPT ![s] = "open"] /\ conn[s] = "accepted"
    BY <1>6 DEF Register
  <2>2. \A q \in Requests : phase[q] = "wait" => s # sess[q]
    BY <1>0, <2>1
  <2>3. \A q \in Requests : Current(q)' = IF TargetOf[q] = MachineOf[s] THEN s ELSE Current(q)
    BY <1>3, <2>1 DEF Current
  <2>4. \A q \in Requests, t \in Sessions :
          phase[q] = "wait" /\ t # sess[q] /\ worker[Id(q)] = t /\ conn'[t] = "open" =>
            Current(q)' # sess[q]
    <3> SUFFICES ASSUME NEW q \in Requests, NEW t \in Sessions, phase[q] = "wait", t # sess[q],
                        worker[Id(q)] = t, conn'[t] = "open"
                 PROVE  Current(q)' # sess[q]
      OBVIOUS
    <3>1. CASE t = s
      <4>1. MachineOf[s] = TargetOf[q]
        BY <1>1, <3>1, IdType DEF Id
      <4> QED BY <2>2, <2>3, <4>1
    <3>2. CASE t # s
      BY <1>2, <1>3, <2>1, <2>2, <2>3, <3>2
    <3> QED BY <3>1, <3>2
  <2>5. \A q \in Requests : phase[q] = "wait" /\ Current(q) # sess[q] => Current(q)' # sess[q]
    BY <2>2, <2>3
  <2> QED BY <1>1, <2>1, <2>4, <2>5, RegistryOrder
<1>7. CASE ReadLoopEnds(s)
  <2>1. UNCHANGED <<registry, phase, try, sess, recv, buf, relay, sent, worker>>
        /\ inbox' = [inbox EXCEPT ![s] = <<>>] /\ conn' = [conn EXCEPT ![s] = "closed"]
    BY <1>7 DEF ReadLoopEnds
  <2>2. /\ \A t \in Sessions : inbox'[t] \in {<<>>, inbox[t]}
        /\ \A t \in Sessions : conn'[t] = "open" => conn[t] = "open"
    BY <1>3, <2>1
  <2> QED BY <1>1, <1>2, <2>1, <2>2, RegistryOrder DEF Current
<1>8. CASE Disconnect(s)
  <2>1. UNCHANGED <<phase, try, sess, recv, buf, relay, sent, inbox, worker>>
        /\ conn' = [conn EXCEPT ![s] = "gone"]
    BY <1>8 DEF Disconnect
  <2>2. \A q \in Requests : Current(q)' \in {Current(q), NoSession}
    BY <1>3, <1>8 DEF Disconnect, Unregister, Current
  <2>3. \A t \in Sessions : conn'[t] = "open" => conn[t] = "open"
    BY <1>3, <2>1
  <2>4. \A q \in Requests : phase[q] = "wait" /\ Current(q) # sess[q] => Current(q)' # sess[q]
    BY <1>0, <2>2
  <2>5. \A q \in Requests, t \in Sessions :
          phase[q] = "wait" /\ t # sess[q] /\ worker[Id(q)] = t /\ conn'[t] = "open" =>
            Current(q)' # sess[q]
    BY <1>2, <2>3, <2>4
  <2> QED BY <1>1, <2>1, <2>4, <2>5, RegistryOrder
<1> QED BY <1>4, <1>5, <1>6, <1>7, <1>8 DEF Connection

(* Each step of an administrator or of evictStale.                          *)
LEMMA OrderAdministration ==
  ASSUME TypeOK, IndInv, WaitInv, OrderInv, NEW m \in Machines, Administration(m) PROVE OrderInv'
<1>0. \A q \in Requests : phase[q] = "wait" => sess[q] # NoSession
  BY DEF WaitInv, HandlersHold
<1>1. \A id \in Ids : worker[id] # NoSession => MachineOf[worker[id]] = TargetOf[id[1]]
  BY DEF OrderInv, AnswersStayHome
<1>2. UNCHANGED <<phase, try, sess, recv, buf, relay, sent, inbox, worker, conn>>
  BY DEF Administration, Evict, GetSessionToCancel, CancelAllRequests, RevokeKey, UnregisterRevoked
<1>3. registry' = registry \/ registry' = [registry EXCEPT ![m] = NoSession]
  BY DEF Administration, Evict, GetSessionToCancel, CancelAllRequests, RevokeKey,
         UnregisterRevoked, Unregister
<1>4. \A q \in Requests : Current(q)' \in {Current(q), NoSession}
  BY <1>3 DEF Current, TypeOK, RegistryTypes
<1>5. \A q \in Requests : phase[q] = "wait" /\ Current(q) # sess[q] => Current(q)' # sess[q]
  BY <1>0, <1>4
<1>6. \A q \in Requests, t \in Sessions :
        phase[q] = "wait" /\ t # sess[q] /\ worker[Id(q)] = t /\ conn[t] = "open" =>
          Current(q)' # sess[q]
  BY <1>5 DEF OrderInv, AnswersStayHome
<1> QED BY <1>1, <1>2, <1>5, <1>6, RegistryOrder

(* An agent that ends without a word.                                       *)
LEMMA OrderQuits ==
  ASSUME TypeOK, OrderInv, WaitInv, NEW id \in Ids, AgentQuits(id) PROVE OrderInv'
<1>1. UNCHANGED <<registry, phase, try, sess, recv, buf, relay, inbox, conn>>
      /\ worker' = [worker EXCEPT ![id] = NoSession] /\ sent' = [sent EXCEPT ![id] = 0]
  BY DEF AgentQuits
<1>2. worker \in [Ids -> Sessions \cup {NoSession}] /\ sent \in [Ids -> Nat]
  BY DEF TypeOK, RelayTypes
<1>3. \A q \in Requests : Id(q)' = Id(q) /\ Id(q) \in Ids /\ Current(q)' = Current(q)
  BY <1>1, IdType DEF Id, Current
<1>4. AnswersStayHome'
  <2>1. \A i \in Ids : worker'[i] # NoSession => worker'[i] = worker[i]
    BY <1>1, <1>2
  <2> QED BY <1>1, <1>3, <2>1 DEF OrderInv, AnswersStayHome, At
<1>5. UnsentAreEmpty'
  <2>1. \A i \in Ids : sent[i] = 0 => sent'[i] = 0
    BY <1>1, <1>2
  <2> QED BY <1>1, <2>1 DEF OrderInv, UnsentAreEmpty, WasSent
<1>6. ASSUME NEW q \in Requests, phase[q] = "wait" PROVE NumbersGrow(q)'
  <2>1. NumbersGrow(q)
    BY <1>6 DEF OrderInv
  <2>2. worker'[Id(q)] # NoSession => worker[Id(q)] # NoSession /\ sent'[Id(q)] = sent[Id(q)]
    BY <1>1, <1>2, <1>3
  <2>3. UnderRelay(q)' = UnderRelay(q) /\ OnTheWire(q)' = OnTheWire(q)
    BY <1>1, <1>3 DEF UnderRelay, OnTheWire, At
  <2>4. Growing(inbox'[sess'[q]], Id(q))
    BY <1>1, <2>1 DEF NumbersGrow
  <2> QED BY <1>1, <1>3, <2>1, <2>2, <2>3, <2>4, NumbersShrink
<1> QED BY <1>1, <1>4, <1>5, <1>6 DEF OrderInv

(* A message of the agent has a higher number than those on their way.      *)
LEMMA OrderSend ==
  ASSUME TypeOK, OrderInv, WaitInv, NEW id \in Ids, NEW kind \in Kinds, AgentSend(id, kind)
  PROVE  OrderInv'
<1>1. PICK s, msg : /\ s = worker[id] /\ msg = [id |-> id, kind |-> kind, n |-> sent[id] + 1]
  OBVIOUS
<1>2. /\ UNCHANGED <<registry, phase, try, sess, recv, buf, relay, conn>>
      /\ s # NoSession /\ conn[s] = "open"
      /\ inbox' = [inbox EXCEPT ![s] = Append(@, msg)]
      /\ sent' = [sent EXCEPT ![id] = IF kind = "chunk" THEN @ + 1 ELSE 0]
      /\ worker' = IF kind = "chunk" THEN worker ELSE [worker EXCEPT ![id] = NoSession]
  BY <1>1 DEF AgentSend
<1>3. /\ worker \in [Ids -> Sessions \cup {NoSession}] /\ sent \in [Ids -> Nat]
      /\ inbox \in [Sessions -> Seq(Messages)]
  BY DEF TypeOK, RelayTypes
<1>4. s \in Sessions /\ msg.id = id /\ msg.n = sent[id] + 1
  BY <1>1, <1>2, <1>3
<1>5. \A q \in Requests : Id(q)' = Id(q) /\ Id(q) \in Ids /\ Current(q)' = Current(q)
  BY <1>2, IdType DEF Id, Current
<1>6. /\ inbox'[s] = Append(inbox[s], msg) /\ inbox[s] \in Seq(Messages)
      /\ \A t \in Sessions \ {s} : inbox'[t] = inbox[t]
  BY <1>2, <1>3, <1>4
<1>7. /\ DOMAIN inbox'[s] = DOMAIN inbox[s] \cup {Len(inbox[s]) + 1}
      /\ inbox'[s][Len(inbox[s]) + 1] = msg
      /\ \A i \in DOMAIN inbox[s] : inbox'[s][i] = inbox[s][i] /\ i < Len(inbox[s]) + 1
      /\ \A i \in DOMAIN inbox[s] : i \in Nat
  BY <1>6
<1>8. /\ \A i \in Ids : worker'[i] # NoSession => worker'[i] = worker[i]
      /\ \A i \in Ids \ {id} : sent'[i] = sent[i]
      /\ worker'[id] # NoSession => sent'[id] = sent[id] + 1
  BY <1>2, <1>3
<1>9. AnswersStayHome'
  <2>1. ASSUME NEW q \in Requests, NEW t \in Sessions, phase[q] = "wait", t # sess[q],
               NEW i \in DOMAIN inbox'[t], inbox'[t][i].id = Id(q)
        PROVE  Current(q) # sess[q]
    <3>1. CASE t = s /\ i = Len(inbox[s]) + 1
      <4>1. Id(q) = id
        BY <1>4, <1>7, <2>1, <3>1
      <4> QED BY <1>1, <1>2, <2>1, <3>1, <4>1 DEF OrderInv, AnswersStayHome
    <3>2. CASE ~(t = s /\ i = Len(inbox[s]) + 1)
      <4>1. i \in DOMAIN inbox[t] /\ inbox'[t][i] = inbox[t][i]
        BY <1>6, <1>7, <2>1, <3>2
      <4> QED BY <2>1, <4>1 DEF OrderInv, AnswersStayHome
    <3> QED BY <3>1, <3>2
  <2>2. \A i \in Ids : worker'[i] # NoSession => MachineOf[worker'[i]] = TargetOf[i[1]]
    BY <1>8 DEF OrderInv, AnswersStayHome
  <2>3. ASSUME NEW q \in Requests, NEW t \in Sessions, phase[q] = "wait", t # sess[q]
        PROVE  /\ worker'[Id(q)] = t /\ conn[t] = "open" => Current(q) # sess[q]
               /\ At(t, "lock") /\ relay[t].msg.id = Id(q) => relay[t].at # sess[q]
               /\ At(t, "send") => relay[t].msg.id # Id(q)
    BY <1>5, <1>8, <2>3 DEF OrderInv, AnswersStayHome
  <2> QED BY <1>2, <1>5, <2>1, <2>2, <2>3 DEF OrderInv, AnswersStayHome, At
<1>10. UnsentAreEmpty'
  <2>1. WasSent(id)
    BY <1>1, <1>2 DEF WaitInv, MessagesWereSent
  <2>2. \A i \in Ids : (WasSent(i)' <=> WasSent(i)) /\ (~WasSent(i) => sent'[i] = 0 /\ buf'[i] = <<>>)
    BY <1>2, <1>8, <2>1 DEF OrderInv, UnsentAreEmpty, WasSent
  <2> QED BY <1>2, <2>2 DEF OrderInv, UnsentAreEmpty
<1>11. ASSUME NEW q \in Requests, phase[q] = "wait" PROVE NumbersGrow(q)'
  <2>1. NumbersGrow(q) /\ sess[q] # NoSession /\ sess[q] \in Sessions
    BY <1>11 DEF OrderInv, WaitInv, HandlersHold, TypeOK, RequestTypes
  <2>2. UnderRelay(q)' = UnderRelay(q) /\ Arrived(q)' = Arrived(q)
    BY <1>2, <1>5 DEF UnderRelay, Arrived, At
  <2>3. CASE sess[q] = s /\ Id(q) = id
    <3>1. OnTheWire(q)' \subseteq OnTheWire(q) \cup {sent[id] + 1}
      <4> SUFFICES ASSUME NEW i \in DOMAIN inbox'[s], inbox'[s][i].id = Id(q)
                   PROVE  inbox'[s][i].n \in OnTheWire(q) \cup {sent[id] + 1}
        BY <1>2, <1>5, <2>3 DEF OnTheWire
      <4> QED BY <1>4, <1>7, <2>3 DEF OnTheWire
    <3>2. \A n \in Arrived(q) \cup UnderRelay(q) \cup OnTheWire(q) : n \in Nat /\ n <= sent[id]
      BY <1>1, <1>2, <2>1, <2>3, NumberTypes DEF NumbersGrow
    <3>3. sent[id] \in Nat
      BY <1>3
    <3>4. Below(Arrived(q), UnderRelay(q) \cup OnTheWire(q)') /\ Below(UnderRelay(q), OnTheWire(q)')
      <4>1. Below(Arrived(q), UnderRelay(q) \cup OnTheWire(q)) /\ Below(UnderRelay(q), OnTheWire(q))
        BY <2>1 DEF NumbersGrow
      <4> QED BY <3>1, <3>2, <3>3, <4>1 DEF Below
    <3>5. \A i \in DOMAIN inbox[s] : inbox[s][i].id = id => inbox[s][i].n < sent[id] + 1
      <4>1. \A i \in DOMAIN inbox[s] : inbox[s][i].id = id => inbox[s][i].n \in OnTheWire(q)
        BY <2>3 DEF OnTheWire
      <4>2. \A n \in OnTheWire(q) : n \in Nat /\ n < sent[id] + 1
        BY <3>2, <3>3
      <4> QED BY <4>1, <4>2
    <3>6. Growing(inbox'[s], id)
      <4>1. Growing(inbox[s], id)
        BY <2>1, <2>3 DEF NumbersGrow
      <4> SUFFICES ASSUME NEW i \in DOMAIN inbox'[s], NEW j \in DOMAIN inbox'[s], i < j,
                          inbox'[s][i].id = id, inbox'[s][j].id = id
                   PROVE  inbox'[s][i].n < inbox'[s][j].n
        BY DEF Growing
      <4>2. i \in DOMAIN inbox[s] /\ inbox'[s][i] = inbox[s][i]
        BY <1>6, <1>7
      <4>3. CASE j \in DOMAIN inbox[s]
        BY <1>7, <4>1, <4>2, <4>3 DEF Growing
      <4>4. CASE j = Len(inbox[s]) + 1
        BY <1>4, <1>7, <3>5, <4>2, <4>4
      <4> QED BY <1>7, <4>3, <4>4
    <3>7. worker'[id] # NoSession =>
            \A n \in Arrived(q) \cup UnderRelay(q) \cup OnTheWire(q)' : n <= sent'[id]
      BY <1>8, <3>1, <3>2, <3>3
    <3>8. /\ \A i \in DOMAIN buf[Id(q)] : recv[q] < buf[Id(q)][i].n
          /\ \A i, j \in DOMAIN buf[Id(q)] : i < j => buf[Id(q)][i].n < buf[Id(q)][j].n
      BY <2>1 DEF NumbersGrow
    <3> QED BY <1>2, <1>5, <2>2, <2>3, <3>4, <3>6, <3>7, <3>8 DEF NumbersGrow
  <2>4. CASE sess[q] = s /\ Id(q) # id
    <3>1. \A i \in DOMAIN inbox'[s] : inbox'[s][i].id = Id(q) =>
            i \in DOMAIN inbox[s] /\ inbox'[s][i] = inbox[s][i]
      BY <1>4, <1>7, <2>4
    <3>2. OnTheWire(q)' \subseteq OnTheWire(q)
      BY <1>2, <1>5, <2>4, <3>1 DEF OnTheWire
    <3>3. Growing(inbox[s], Id(q))
      BY <2>1, <2>4 DEF NumbersGrow
    <3>4. Growing(inbox'[s], Id(q))
      BY <3>1, <3>3 DEF Growing
    <3> QED BY <1>2, <1>5, <1>8, <2>1, <2>2, <2>4, <3>2, <3>4, NumbersShrink
  <2>5. CASE sess[q] # s
    <3>1. OnTheWire(q)' = OnTheWire(q) /\ inbox'[sess[q]] = inbox[sess[q]]
      BY <1>2, <1>5, <1>6, <2>1, <2>5 DEF OnTheWire
    <3>2. \A n \in Arrived(q) \cup UnderRelay(q) \cup OnTheWire(q) : n \in Nat
      BY <2>1, NumberTypes
    <3>3. worker'[Id(q)] # NoSession =>
            \A n \in Arrived(q) \cup UnderRelay(q) \cup OnTheWire(q) : n <= sent'[Id(q)]
      <4> SUFFICES ASSUME worker'[Id(q)] # NoSession
                   PROVE  /\ worker[Id(q)] # NoSession /\ sent[Id(q)] \in Nat
                          /\ sent'[Id(q)] \in {sent[Id(q)], sent[Id(q)] + 1}
        BY <2>1, <3>2 DEF NumbersGrow
      <4> QED BY <1>3, <1>5, <1>8
    <3> QED BY <1>2, <1>5, <2>1, <2>2, <3>1, <3>3 DEF NumbersGrow
  <2> QED BY <2>3, <2>4, <2>5
<1> QED BY <1>2, <1>9, <1>10, <1>11 DEF OrderInv

(* A step of a read loop that puts nothing into a relay channel.            *)
LEMMA LoopOrder ==
  ASSUME TypeOK, WaitInv, OrderInv, NEW s \in Sessions,
         UNCHANGED <<registry, phase, try, sess, recv, buf, sent, worker, conn>>,
         \A t \in Sessions \ {s} : relay'[t] = relay[t] /\ inbox'[t] = inbox[t],
         At(s, "lock")' => relay'[s].at # NoSession,
         \A q \in Requests : phase[q] = "wait" /\ s # sess[q] =>
           /\ At(s, "lock")' /\ relay'[s].msg.id = Id(q) => relay'[s].at # sess[q]
           /\ At(s, "send")' => relay'[s].msg.id # Id(q)
           /\ \A i \in DOMAIN inbox'[s] : inbox'[s][i].id = Id(q) => Current(q) # sess[q],
         \A q \in Requests : phase[q] = "wait" /\ s = sess[q] => NumbersGrow(q)'
  PROVE  OrderInv'
<1>1. \A q \in Requests : Id(q)' = Id(q) /\ Current(q)' = Current(q)
  BY DEF Id, Current
<1>2. AnswersStayHome'
  <2>1. \A id \in Ids : worker'[id] # NoSession => MachineOf[worker'[id]] = TargetOf[id[1]]
    BY DEF OrderInv, AnswersStayHome
  <2>2. \A t \in Sessions : At(t, "lock")' => relay'[t].at # NoSession
    BY DEF OrderInv, AnswersStayHome, At
  <2>3. ASSUME NEW q \in Requests, NEW t \in Sessions, phase[q] = "wait", t # sess[q]
        PROVE  /\ worker'[Id(q)] = t /\ conn'[t] = "open" => Current(q) # sess[q]
               /\ At(t, "lock")' /\ relay'[t].msg.id = Id(q) => relay'[t].at # sess[q]
               /\ At(t, "send")' => relay'[t].msg.id # Id(q)
               /\ \A i \in DOMAIN inbox'[t] : inbox'[t][i].id = Id(q) => Current(q) # sess[q]
    <3>1. CASE t = s
      BY <2>3, <3>1 DEF OrderInv, AnswersStayHome
    <3>2. CASE t # s
      BY <2>3, <3>2 DEF OrderInv, AnswersStayHome, At
    <3> QED BY <3>1, <3>2
  <2> QED BY <1>1, <2>1, <2>2, <2>3 DEF AnswersStayHome
<1>3. UnsentAreEmpty'
  BY DEF OrderInv, UnsentAreEmpty, WasSent
<1>4. ASSUME NEW q \in Requests, phase[q] = "wait", s # sess[q] PROVE NumbersGrow(q)'
  <2>1. NumbersGrow(q) /\ sess[q] \in Sessions \ {s}
    BY <1>4 DEF OrderInv, WaitInv, HandlersHold, TypeOK, RequestTypes
  <2>2. UnderRelay(q)' = UnderRelay(q) /\ OnTheWire(q)' = OnTheWire(q)
    BY <1>1, <2>1 DEF UnderRelay, OnTheWire, At
  <2>3. Growing(inbox'[sess'[q]], Id(q))
    BY <2>1 DEF NumbersGrow
  <2> QED BY <1>1, <2>1, <2>2, <2>3, NumbersShrink
<1> QED BY <1>2, <1>3, <1>4 DEF OrderInv

(* The read loop takes the message with the lowest number from the wire.    *)
LEMMA OrderRead ==
  ASSUME TypeOK, IndInv, WaitInv, OrderInv, NEW s \in Sessions, RelayRead(s) PROVE OrderInv'
<1>1. /\ UNCHANGED <<registry, phase, try, sess, recv, buf, sent, worker, conn>>
      /\ relay[s] = Idle /\ inbox[s] # <<>> /\ inbox' = [inbox EXCEPT ![s] = Tail(@)]
  BY DEF RelayRead
<1>2. inbox \in [Sessions -> Seq(Messages)] /\ registry \in [Machines -> Sessions \cup {NoSession}]
  BY DEF TypeOK, RelayTypes, RegistryTypes
<1>3. PICK msg : msg = inbox[s][1]
  OBVIOUS
<1>4. /\ inbox[s] \in Seq(Messages) /\ inbox'[s] = Tail(inbox[s]) /\ msg = Head(inbox[s])
      /\ 1 \in DOMAIN inbox[s] /\ \A t \in Sessions \ {s} : inbox'[t] = inbox[t]
  BY <1>1, <1>2, <1>3
<1>5. \A i \in DOMAIN inbox'[s] :
        /\ i \in Nat /\ i + 1 \in DOMAIN inbox[s] /\ inbox'[s][i] = inbox[s][i + 1] /\ 1 < i + 1
  <2> SUFFICES ASSUME NEW i \in DOMAIN Tail(inbox[s])
               PROVE  /\ i \in Nat /\ i + 1 \in DOMAIN inbox[s] /\ 1 < i + 1
                      /\ Tail(inbox[s])[i] = inbox[s][i + 1]
    BY <1>4
  <2>1. inbox[s] # <<>> /\ inbox[s] \in Seq(Messages)
    BY <1>1, <1>4
  <2> QED BY <2>1
<1>6. PICK r : /\ relay' = [relay EXCEPT ![s] = r]
               /\ \/ r = Idle
                  \/ r.step = "health"
                  \/ r.step = "lock" /\ r.msg = msg /\ r.at = registry[MachineOf[s]]
                       /\ r.at # NoSession
  <2>1. CASE registry[MachineOf[s]] = NoSession
    <3>1. relay' = [relay EXCEPT ![s] = Afterwards(msg)]
      BY <1>4, <2>1 DEF RelayRead, SetRelay
    <3>2. Afterwards(msg) = Idle \/ Afterwards(msg).step = "health"
      BY DEF Afterwards
    <3> QED BY <3>1, <3>2
  <2>2. CASE registry[MachineOf[s]] # NoSession
    <3>1. relay' = [relay EXCEPT ![s] = [step |-> "lock", msg |-> msg,
                                         at |-> registry[MachineOf[s]]]]
      BY <1>4, <2>2 DEF RelayRead, SetRelay
    <3> WITNESS [step |-> "lock", msg |-> msg, at |-> registry[MachineOf[s]]]
    <3> QED BY <2>2, <3>1
  <2> QED BY <2>1, <2>2
<1>7. relay'[s] = r /\ \A t \in Sessions \ {s} : relay'[t] = relay[t]
  BY <1>6 DEF TypeOK, RelayTypes
<1>8. \A q \in Requests : Id(q)' = Id(q) /\ Id(q) \in Ids /\ Current(q)' = Current(q)
  BY <1>1, IdType DEF Id, Current
<1>9. ASSUME NEW q \in Requests, phase[q] = "wait", s # sess[q]
      PROVE  /\ At(s, "lock")' /\ relay'[s].msg.id = Id(q) => relay'[s].at # sess[q]
             /\ At(s, "send")' => relay'[s].msg.id # Id(q)
             /\ \A i \in DOMAIN inbox'[s] : inbox'[s][i].id = Id(q) => Current(q) # sess[q]
  <2>1. \A i \in DOMAIN inbox[s] : inbox[s][i].id = Id(q) => Current(q) # sess[q]
    BY <1>9 DEF OrderInv, AnswersStayHome
  <2>2. msg.id = Id(q) /\ sess[q] = registry[MachineOf[s]] => Current(q) = sess[q]
    <3> SUFFICES ASSUME sess[q] = registry[MachineOf[s]] PROVE TargetOf[q] = MachineOf[s]
      BY DEF Current
    <3>1. sess[q] # NoSession
      BY <1>9 DEF WaitInv, HandlersHold
    <3> QED BY <3>1 DEF IndInv, RegisteredAreLive, HeldSessions
  <2>3. msg.id = Id(q) => registry[MachineOf[s]] # sess[q]
    BY <1>3, <1>4, <2>1, <2>2
  <2> QED BY <1>5, <1>6, <1>7, <2>1, <2>3 DEF At
<1>10. ASSUME NEW q \in Requests, phase[q] = "wait", s = sess[q] PROVE NumbersGrow(q)'
  <2>1. NumbersGrow(q)
    BY <1>10 DEF OrderInv
  <2>2. /\ Growing(inbox[s], Id(q))
        /\ Below(Arrived(q), OnTheWire(q))
        /\ worker[Id(q)] # NoSession => \A n \in Arrived(q) \cup OnTheWire(q) : n <= sent[Id(q)]
        /\ \A i \in DOMAIN buf[Id(q)] : recv[q] < buf[Id(q)][i].n
        /\ \A i, j \in DOMAIN buf[Id(q)] : i < j => buf[Id(q)][i].n < buf[Id(q)][j].n
    BY <1>10, <2>1 DEF NumbersGrow, Below
  <2>3. Arrived(q)' = Arrived(q)
    BY <1>1, <1>8 DEF Arrived
  <2>4. OnTheWire(q)' \subseteq OnTheWire(q)
    BY <1>1, <1>5, <1>8, <1>10 DEF OnTheWire
  <2>5. UnderRelay(q)' \subseteq {n \in {msg.n} : msg.id = Id(q)}
    BY <1>1, <1>6, <1>7, <1>8, <1>10 DEF UnderRelay, At
  <2>6. UnderRelay(q)' \subseteq OnTheWire(q)
    BY <1>3, <1>4, <1>10, <2>5 DEF OnTheWire
  <2>7. Below(UnderRelay(q)', OnTheWire(q)')
    <3> SUFFICES ASSUME msg.id = Id(q), NEW i \in DOMAIN inbox'[s], inbox'[s][i].id = Id(q)
                 PROVE  msg.n < inbox'[s][i].n
      BY <1>1, <1>8, <1>10, <2>5 DEF Below, OnTheWire
    <3>1. i + 1 \in DOMAIN inbox[s] /\ inbox'[s][i] = inbox[s][i + 1] /\ 1 < i + 1
      BY <1>5
    <3> QED BY <1>3, <1>4, <2>2, <3>1 DEF Growing
  <2>8. Growing(inbox'[s], Id(q))
    <3> SUFFICES ASSUME NEW i \in DOMAIN inbox'[s], NEW j \in DOMAIN inbox'[s], i < j,
                        inbox'[s][i].id = Id(q), inbox'[s][j].id = Id(q)
                 PROVE  inbox'[s][i].n < inbox'[s][j].n
      BY DEF Growing
    <3>1. i + 1 < j + 1
      BY <1>5
    <3> QED BY <1>5, <2>2, <3>1 DEF Growing
  <2>9. Below(Arrived(q), UnderRelay(q)' \cup OnTheWire(q)')
    BY <2>2, <2>4, <2>6 DEF Below
  <2>10. worker[Id(q)] # NoSession =>
           \A n \in Arrived(q) \cup UnderRelay(q)' \cup OnTheWire(q)' : n <= sent[Id(q)]
    BY <2>2, <2>4, <2>6
  <2> QED BY <1>1, <1>8, <1>10, <2>2, <2>3, <2>7, <2>8, <2>9, <2>10 DEF NumbersGrow
<1>11. At(s, "lock")' => relay'[s].at # NoSession
  BY <1>6, <1>7 DEF At
<1> QED BY <1>1, <1>4, <1>7, <1>9, <1>10, <1>11, LoopOrder

(* The lookup finds the channel in the session of the handler, if at all.   *)
LEMMA OrderLookup ==
  ASSUME TypeOK, IndInv, WaitInv, OrderInv, NEW s \in Sessions, RelayLookup(s) PROVE OrderInv'
<1>1. /\ UNCHANGED <<registry, phase, try, sess, recv, buf, sent, worker, conn, inbox>>
      /\ At(s, "lock")
  BY DEF RelayLookup
<1>2. PICK r : /\ relay' = [relay EXCEPT ![s] = r]
               /\ \/ r = Idle
                  \/ r.step = "health"
                  \/ r.step = "send" /\ r.msg = relay[s].msg
                       /\ relay[s].msg.id \in chunkCh[relay[s].at]
  <2>1. CASE relay[s].msg.id \in chunkCh[relay[s].at]
    <3>1. relay' = [relay EXCEPT ![s] = [step |-> "send", msg |-> relay[s].msg,
                                         at |-> relay[s].at]]
      BY <2>1 DEF RelayLookup, SetRelay
    <3> WITNESS [step |-> "send", msg |-> relay[s].msg, at |-> relay[s].at]
    <3> QED BY <2>1, <3>1
  <2>2. CASE relay[s].msg.id \notin chunkCh[relay[s].at]
    <3>1. relay' = [relay EXCEPT ![s] = Afterwards(relay[s].msg)]
      BY <2>2 DEF RelayLookup, SetRelay
    <3>2. Afterwards(relay[s].msg) = Idle \/ Afterwards(relay[s].msg).step = "health"
      BY DEF Afterwards
    <3> QED BY <3>1, <3>2
  <2> QED BY <2>1, <2>2
<1>3. relay'[s] = r /\ \A t \in Sessions \ {s} : relay'[t] = relay[t]
  BY <1>2 DEF TypeOK, RelayTypes
<1>4. \A q \in Requests : Id(q)' = Id(q) /\ Current(q)' = Current(q)
  BY <1>1 DEF Id, Current
<1>5. ASSUME NEW q \in Requests, phase[q] = "wait", s # sess[q]
      PROVE  /\ At(s, "lock")' /\ relay'[s].msg.id = Id(q) => relay'[s].at # sess[q]
             /\ At(s, "send")' => relay'[s].msg.id # Id(q)
             /\ \A i \in DOMAIN inbox'[s] : inbox'[s][i].id = Id(q) => Current(q) # sess[q]
  <2>1. /\ relay[s].msg.id = Id(q) => relay[s].at # sess[q]
        /\ \A i \in DOMAIN inbox[s] : inbox[s][i].id = Id(q) => Current(q) # sess[q]
    BY <1>1, <1>5 DEF OrderInv, AnswersStayHome
  <2>2. ~(relay[s].msg.id = Id(q) /\ Id(q) \in chunkCh[relay[s].at])
    <3> SUFFICES ASSUME relay[s].msg.id = Id(q), Id(q) \in chunkCh[relay[s].at] PROVE FALSE
      OBVIOUS
    <3>1. relay[s] \in Relaying
      BY <1>1 DEF TypeOK, RelayTypes, At, Acking
    <3>2. relay[s].at \in Sessions \cup {NoSession}
      BY <3>1 DEF Relaying
    <3>3. relay[s].at # NoSession
      BY <1>1 DEF OrderInv, AnswersStayHome
    <3> QED BY <2>1, <3>1, <3>2, <3>3 DEF IndInv, MappedIds, Id
  <2> QED BY <1>1, <1>2, <1>3, <2>1, <2>2 DEF At
<1>6. ASSUME NEW q \in Requests, phase[q] = "wait", s = sess[q] PROVE NumbersGrow(q)'
  <2>1. NumbersGrow(q)
    BY <1>6 DEF OrderInv
  <2>2. UnderRelay(q)' \subseteq UnderRelay(q)
    BY <1>1, <1>2, <1>3, <1>4, <1>6 DEF UnderRelay, At
  <2>3. OnTheWire(q)' = OnTheWire(q) /\ Growing(inbox'[sess'[q]], Id(q))
    BY <1>1, <1>4, <2>1 DEF OnTheWire, NumbersGrow
  <2> QED BY <1>1, <1>4, <2>1, <2>2, <2>3, NumbersShrink
<1>7. ~At(s, "lock")'
  BY <1>2, <1>3 DEF At
<1> QED BY <1>1, <1>3, <1>5, <1>6, <1>7, LoopOrder

(* The steps of a read loop after which it has no message in hand that      *)
(* could still be put into a channel.                                       *)
LEMMA OrderRests ==
  ASSUME TypeOK, WaitInv, OrderInv, NEW s \in Sessions,
         RelayFinish(s) \/ RelayHealth(s) \/ AckHangs(s) \/ AckReturns(s)
  PROVE  OrderInv'
<1>1. UNCHANGED <<registry, phase, try, sess, recv, buf, sent, worker, conn, inbox>>
  BY DEF RelayFinish, RelayHealth, AckHangs, AckReturns
<1>2. PICK r : relay' = [relay EXCEPT ![s] = r] /\ (r = Idle \/ r.step \in {"health", "ack"})
  <2>1. \A msg : Afterwards(msg) = Idle \/ Afterwards(msg).step = "health"
    BY DEF Afterwards
  <2>2. Acking.step = "ack"
    BY DEF Acking
  <2> QED BY <2>1, <2>2 DEF RelayFinish, RelayHealth, AckHangs, AckReturns, SetRelay
<1>3. relay'[s] = r /\ \A t \in Sessions \ {s} : relay'[t] = relay[t]
  BY <1>2 DEF TypeOK, RelayTypes
<1>4. ~At(s, "lock")' /\ ~At(s, "send")'
  BY <1>2, <1>3 DEF At
<1>5. \A q \in Requests : Id(q)' = Id(q)
  BY <1>1 DEF Id
<1>6. \A q \in Requests : phase[q] = "wait" /\ s # sess[q] =>
        \A i \in DOMAIN inbox'[s] : inbox'[s][i].id = Id(q) => Current(q) # sess[q]
  BY <1>1 DEF OrderInv, AnswersStayHome
<1>7. ASSUME NEW q \in Requests, phase[q] = "wait", s = sess[q] PROVE NumbersGrow(q)'
  <2>1. NumbersGrow(q)
    BY <1>7 DEF OrderInv
  <2>2. UnderRelay(q)' = {}
    BY <1>1, <1>4, <1>7 DEF UnderRelay, At
  <2>3. OnTheWire(q)' = OnTheWire(q) /\ Growing(inbox'[sess'[q]], Id(q))
    BY <1>1, <1>5, <2>1 DEF OnTheWire, NumbersGrow
  <2> QED BY <1>1, <1>5, <2>1, <2>2, <2>3, NumbersShrink
<1> QED BY <1>1, <1>3, <1>4, <1>6, <1>7, LoopOrder

(* What is put into a relay channel has a higher number than what is in it. *)
LEMMA OrderRelaySend ==
  ASSUME TypeOK, IndInv, WaitInv, OrderInv, NEW s \in Sessions, RelaySend(s) PROVE OrderInv'
<1>1. /\ UNCHANGED <<registry, phase, try, sess, recv, sent, worker, conn, inbox>>
      /\ At(s, "send")
  BY DEF RelaySend
<1>2. PICK msg : msg = relay[s].msg
  OBVIOUS
<1>3. msg \in Messages /\ msg.id \in Ids /\ msg.n \in Nat /\ WasSent(msg.id)
  <2>1. relay[s] \notin {Idle, Acking}
    BY <1>1 DEF At, Acking
  <2> QED BY <1>2, <2>1, RelayType DEF Messages, WaitInv, MessagesWereSent
<1>4. buf' = buf \/ buf' = [buf EXCEPT ![msg.id] = Append(@, msg)]
  BY <1>2 DEF RelaySend
<1>5. buf \in [Ids -> Seq(Messages)]
  BY DEF TypeOK, ChannelTypes
<1>6. PICK r : relay' = [relay EXCEPT ![s] = r] /\ (r = Idle \/ r.step = "finish")
  <2>1. CASE Ends(msg)
    <3>1. relay' = [relay EXCEPT ![s] = [step |-> "finish", msg |-> msg, at |-> relay[s].at]]
      BY <1>2, <2>1 DEF RelaySend, SetRelay
    <3> WITNESS [step |-> "finish", msg |-> msg, at |-> relay[s].at]
    <3> QED BY <3>1
  <2>2. CASE ~Ends(msg)
    BY <1>2, <2>2 DEF RelaySend, SetRelay
  <2> QED BY <2>1, <2>2
<1>7. relay'[s] = r /\ \A t \in Sessions \ {s} : relay'[t] = relay[t]
  BY <1>6 DEF TypeOK, RelayTypes
<1>8. ~At(s, "lock")' /\ ~At(s, "send")'
  BY <1>6, <1>7 DEF At
<1>9. \A q \in Requests : Id(q)' = Id(q) /\ Id(q) \in Ids /\ Current(q)' = Current(q)
  BY <1>1, IdType DEF Id, Current
<1>10. AnswersStayHome'
  BY <1>1, <1>7, <1>8, <1>9 DEF OrderInv, AnswersStayHome, At
<1>11. UnsentAreEmpty'
  <2>1. \A id \in Ids : WasSent(id)' <=> WasSent(id)
    BY <1>1 DEF WasSent
  <2>2. \A id \in Ids \ {msg.id} : buf'[id] = buf[id]
    BY <1>3, <1>4, <1>5
  <2> QED BY <1>1, <1>3, <2>1, <2>2 DEF OrderInv, UnsentAreEmpty
<1>12. ASSUME NEW q \in Requests, phase[q] = "wait" PROVE NumbersGrow(q)'
  <2>1. NumbersGrow(q) /\ sess[q] \in Sessions /\ sess[q] # NoSession
    BY <1>12 DEF OrderInv, WaitInv, HandlersHold, TypeOK, RequestTypes
  <2>2. OnTheWire(q)' = OnTheWire(q) /\ Growing(inbox'[sess'[q]], Id(q))
    BY <1>1, <1>9, <2>1 DEF OnTheWire, NumbersGrow
  <2>3. UnderRelay(q)' \subseteq UnderRelay(q)
    BY <1>1, <1>7, <1>8, <1>9, <2>1 DEF UnderRelay, At
  <2>4. CASE buf'[Id(q)] = buf[Id(q)]
    BY <1>1, <1>9, <2>1, <2>2, <2>3, <2>4, NumbersShrink
  <2>5. CASE Id(q) = msg.id /\ buf'[Id(q)] = Append(buf[Id(q)], msg)
    <3>1. s = sess[q]
      BY <1>1, <1>2, <1>12, <2>5 DEF OrderInv, AnswersStayHome
    <3>2. UnderRelay(q)' = {} /\ msg.n \in UnderRelay(q)
      BY <1>1, <1>2, <1>8, <2>5, <3>1 DEF UnderRelay, At
    <3>3. /\ buf[Id(q)] \in Seq(Messages) /\ recv[q] \in Nat
          /\ DOMAIN buf'[Id(q)] = DOMAIN buf[Id(q)] \cup {Len(buf[Id(q)]) + 1}
          /\ buf'[Id(q)][Len(buf[Id(q)]) + 1] = msg
          /\ \A i \in DOMAIN buf[Id(q)] :
               i \in Nat /\ i < Len(buf[Id(q)]) + 1 /\ buf'[Id(q)][i] = buf[Id(q)][i]
      BY <2>1, <2>5, NumberTypes
    <3>4. \A n \in Arrived(q) : n < msg.n
      BY <2>1, <3>2 DEF NumbersGrow, Below
    <3>5. recv[q] < msg.n /\ \A i \in DOMAIN buf[Id(q)] : buf[Id(q)][i].n < msg.n
      BY <3>4 DEF Arrived
    <3>6. Arrived(q)' = Arrived(q) \cup {msg.n}
      BY <1>1, <1>9, <3>3 DEF Arrived
    <3>7. \A i \in DOMAIN buf'[Id(q)] : recv[q] < buf'[Id(q)][i].n
      BY <2>1, <3>3, <3>5 DEF NumbersGrow
    <3>8. ASSUME NEW i \in DOMAIN buf'[Id(q)], NEW j \in DOMAIN buf'[Id(q)], i < j
          PROVE  buf'[Id(q)][i].n < buf'[Id(q)][j].n
      <4>1. i \in DOMAIN buf[Id(q)]
        BY <3>3, <3>8
      <4>2. CASE j \in DOMAIN buf[Id(q)]
        BY <2>1, <3>3, <3>8, <4>1, <4>2 DEF NumbersGrow
      <4>3. CASE j = Len(buf[Id(q)]) + 1
        BY <3>3, <3>5, <4>1, <4>3
      <4> QED BY <3>3, <4>2, <4>3
    <3>9. Below(Arrived(q)', UnderRelay(q)' \cup OnTheWire(q)) /\ Below(UnderRelay(q)', OnTheWire(q))
      BY <2>1, <3>2, <3>6 DEF NumbersGrow, Below
    <3>10. worker[Id(q)] # NoSession =>
             \A n \in Arrived(q)' \cup UnderRelay(q)' \cup OnTheWire(q) : n <= sent[Id(q)]
      BY <2>1, <3>2, <3>6 DEF NumbersGrow
    <3> QED BY <1>1, <1>9, <2>2, <3>7, <3>8, <3>9, <3>10 DEF NumbersGrow
  <2> QED BY <1>3, <1>4, <1>5, <1>9, <2>4, <2>5
<1> QED BY <1>1, <1>10, <1>11, <1>12 DEF OrderInv

LEMMA OrderReadLoop ==
  ASSUME TypeOK, IndInv, WaitInv, OrderInv, NEW s \in Sessions, ReadLoop(s) PROVE OrderInv'
BY OrderRead, OrderLookup, OrderRelaySend, OrderRests DEF ReadLoop, Serving

(* A step of a handler after which it does not wait, or still waits with    *)
(* its numbers in order.                                                    *)
LEMMA HandlerOrder ==
  ASSUME TypeOK, WaitInv, OrderInv, NEW q \in Requests,
         UNCHANGED <<registry, relay, inbox, sent, conn>>,
         \A p \in Requests \ {q} : /\ phase'[p] = phase[p] /\ try'[p] = try[p]
                                   /\ sess'[p] = sess[p] /\ recv'[p] = recv[p],
         \A id \in Ids \ {Id(q)} : buf'[id] = buf[id] /\ worker'[id] = worker[id],
         worker'[Id(q)] \in {worker[Id(q)], NoSession} \/ MachineOf[worker'[Id(q)]] = TargetOf[q],
         \A id \in Ids : WasSent(id) => WasSent(id)',
         ~WasSent(Id(q)) => buf'[Id(q)] = buf[Id(q)],
         recv'[q] # 0 => \/ phase'[q] \in {"wait", "cancel", "leave"}
                         \/ Stream(q) /\ phase'[q] \in {"release", "releasing"},
         phase'[q] = "wait" => NumbersGrow(q)',
         \A t \in Sessions : phase'[q] = "wait" /\ t # sess'[q] =>
           /\ worker'[Id(q)'] = t /\ conn[t] = "open" => Current(q) # sess'[q]
           /\ \A i \in DOMAIN inbox[t] : inbox[t][i].id = Id(q)' => Current(q) # sess'[q]
           /\ At(t, "lock") /\ relay[t].msg.id = Id(q)' => relay[t].at # sess'[q]
           /\ At(t, "send") => relay[t].msg.id # Id(q)'
  PROVE  OrderInv'
<1>1. \A p \in Requests \ {q} : Id(p)' = Id(p) /\ Id(p) # Id(q) /\ Id(p) \in Ids
  BY IdType DEF Id
<1>2. \A p \in Requests : Current(p)' = Current(p)
  BY DEF Current
<1>3. AnswersStayHome'
  <2>1. \A id \in Ids : worker'[id] # NoSession => MachineOf[worker'[id]] = TargetOf[id[1]]
    <3>1. Id(q)[1] = q
      BY DEF Id
    <3> QED BY <3>1 DEF OrderInv, AnswersStayHome
  <2>2. ASSUME NEW p \in Requests, p # q, NEW t \in Sessions, phase'[p] = "wait", t # sess'[p]
        PROVE  /\ worker'[Id(p)] = t /\ conn[t] = "open" => Current(p) # sess[p]
               /\ \A i \in DOMAIN inbox[t] : inbox[t][i].id = Id(p) => Current(p) # sess[p]
               /\ At(t, "lock") /\ relay[t].msg.id = Id(p) => relay[t].at # sess[p]
               /\ At(t, "send") => relay[t].msg.id # Id(p)
    BY <1>1, <2>2 DEF OrderInv, AnswersStayHome
  <2> QED BY <1>1, <1>2, <2>1, <2>2 DEF OrderInv, AnswersStayHome, At
<1>4. UnsentAreEmpty'
  <2>1. ASSUME NEW id \in Ids, ~WasSent(id)' PROVE sent'[id] = 0 /\ buf'[id] = <<>>
    <3>1. ~WasSent(id)
      BY <2>1, Zenon
    <3>2. sent[id] = 0 /\ buf[id] = <<>>
      BY <3>1 DEF OrderInv, UnsentAreEmpty
    <3>3. buf'[id] = buf[id]
      <4>1. CASE id = Id(q)
        BY <3>1, <4>1
      <4>2. CASE id # Id(q)
        BY <4>2
      <4> QED BY <4>1, <4>2
    <3> QED BY <3>2, <3>3
  <2>2. \A p \in Requests : recv'[p] # 0 =>
          \/ phase'[p] \in {"wait", "cancel", "leave"}
          \/ Stream(p) /\ phase'[p] \in {"release", "releasing"}
    BY DEF OrderInv, UnsentAreEmpty
  <2> QED BY <2>1, <2>2 DEF UnsentAreEmpty, Stream
<1>5. ASSUME NEW p \in Requests, phase'[p] = "wait", p # q PROVE NumbersGrow(p)'
  <2>1. NumbersGrow(p) /\ sess'[p] = sess[p] /\ sess[p] \in Sessions
    BY <1>5 DEF OrderInv, WaitInv, HandlersHold, TypeOK, RequestTypes
  <2>2. UnderRelay(p)' = UnderRelay(p) /\ OnTheWire(p)' = OnTheWire(p)
    BY <1>1, <1>5, <2>1 DEF UnderRelay, OnTheWire, At
  <2>3. Growing(inbox'[sess'[p]], Id(p))
    BY <2>1 DEF NumbersGrow
  <2> QED BY <1>1, <1>5, <2>1, <2>2, <2>3, NumbersShrink
<1> QED BY <1>3, <1>4, <1>5 DEF OrderInv

(* What a handler has sent stays sent.                                      *)
LEMMA SentStays ==
  ASSUME TypeOK, IndInv, NEW q \in Requests, Handler(q), NEW id \in Ids, WasSent(id)
  PROVE  WasSent(id)'
<1> DEFINE Before == {"idle", "register", "count", "counting", "send"}
<1> USE DEF TypeOK, RequestTypes, Goto
<1>1. CASE Admit(q) \/ RegisterChunkChannel(q) \/ CheckLoad(q) \/ IncrementLoad(q)
  <2>1. \A p \in Requests \ {q} : phase'[p] = phase[p]
    BY <1>1 DEF Admit, RegisterChunkChannel, CheckLoad, IncrementLoad
  <2>2. phase[q] \in Before /\ try' = try
    BY <1>1 DEF Admit, RegisterChunkChannel, CheckLoad, IncrementLoad
  <2> QED BY <2>1, <2>2, IdParts DEF WasSent
<1>2. CASE SendRequest(q) \/ Receive(q) \/ SeeClosed(q) \/ GiveUp(q) \/ CancelReturns(q)
  <2>1. \A p \in Requests \ {q} : phase'[p] = phase[p]
    BY <1>2 DEF SendRequest, Receive, SeeClosed, GiveUp, CancelReturns, EndWait
  <2>2. phase'[q] \notin Before /\ try' = try
    BY <1>2 DEF SendRequest, Receive, SeeClosed, GiveUp, CancelReturns, EndWait
  <2> QED BY <2>1, <2>2, IdParts DEF WasSent
<1>3. CASE StartDecrement(q) \/ DecrementLoad(q) \/ UnregisterChunkChannel(q)
  <2>1. \A p \in Requests \ {q} : phase'[p] = phase[p]
    BY <1>3 DEF StartDecrement, DecrementLoad, UnregisterChunkChannel
  <2>2. phase'[q] \notin Before /\ try' = try
    BY <1>3, AfterReleaseRests DEF StartDecrement, DecrementLoad, UnregisterChunkChannel, AfterLeave
  <2> QED BY <2>1, <2>2, IdParts DEF WasSent
<1>4. CASE Retry(q)
  <2>1. \A p \in Requests \ {q} : phase'[p] = phase[p] /\ try'[p] = try[p]
    BY <1>4 DEF Retry
  <2>2. try[q] \in Nat /\ \/ try'[q] = try[q] + 1
                          \/ try'[q] = try[q] /\ phase'[q] = "done"
    BY <1>4 DEF Retry
  <2> QED BY <2>1, <2>2, IdParts DEF WasSent
<1> QED BY <1>1, <1>2, <1>3, <1>4 DEF Handler

(* Each step of a handler.                                                  *)
LEMMA OrderHandler ==
  ASSUME TypeOK, IndInv, WaitInv, OrderInv, NEW q \in Requests, Handler(q) PROVE OrderInv'
<1> USE DEF TypeOK, RequestTypes, Goto
<1>0. /\ \A id \in Ids : WasSent(id) => WasSent(id)'
      /\ recv[q] # 0 => \/ phase[q] \in {"wait", "cancel", "leave"}
                        \/ Stream(q) /\ phase[q] \in {"release", "releasing"}
      /\ Id(q) \in Ids
      /\ worker[Id(q)] # NoSession => MachineOf[worker[Id(q)]] = TargetOf[q]
  BY SentStays, IdType DEF OrderInv, UnsentAreEmpty, AnswersStayHome, Id
<1>1. CASE \/ Admit(q) \/ RegisterChunkChannel(q) \/ CheckLoad(q) \/ IncrementLoad(q)
           \/ SeeClosed(q) \/ GiveUp(q) \/ CancelReturns(q) \/ StartDecrement(q)
           \/ DecrementLoad(q) \/ Retry(q)
  <2>1. UNCHANGED <<registry, relay, inbox, sent, conn, worker, buf, recv>>
    BY <1>1 DEF Admit, RegisterChunkChannel, CheckLoad, IncrementLoad, SeeClosed, GiveUp,
                EndWait, CancelReturns, StartDecrement, DecrementLoad, Retry
  <2>2. \A p \in Requests \ {q} : phase'[p] = phase[p] /\ try'[p] = try[p] /\ sess'[p] = sess[p]
    BY <1>1 DEF Admit, RegisterChunkChannel, CheckLoad, IncrementLoad, SeeClosed, GiveUp,
                EndWait, CancelReturns, StartDecrement, DecrementLoad, Retry
  <2>3. /\ phase'[q] # "wait"
        /\ recv[q] # 0 => \/ phase'[q] \in {"wait", "cancel", "leave"}
                          \/ Stream(q) /\ phase'[q] \in {"release", "releasing"}
    <3>1. CASE Admit(q) \/ RegisterChunkChannel(q) \/ CheckLoad(q) \/ IncrementLoad(q) \/ Retry(q)
      BY <1>0, <3>1 DEF Admit, FirstPhase, RegisterChunkChannel, CheckLoad, IncrementLoad, Retry
    <3>2. CASE SeeClosed(q) \/ GiveUp(q) \/ CancelReturns(q)
      BY <3>2 DEF SeeClosed, GiveUp, CancelReturns, EndWait
    <3>3. CASE StartDecrement(q) \/ DecrementLoad(q)
      <4>1. /\ phase[q] \in {"release", "releasing"}
            /\ phase'[q] \in {"releasing", AfterRelease(q)}
        BY <3>3 DEF StartDecrement, DecrementLoad
      <4> QED BY <1>0, <4>1, AfterReleaseRests
    <3> QED BY <1>1, <3>1, <3>2, <3>3
  <2> HIDE DEF TypeOK
  <2> QED BY <1>0, <2>1, <2>2, <2>3, HandlerOrder
<1>2. CASE SendRequest(q)
  <2>1. /\ UNCHANGED <<registry, sess, try, recv, buf, relay, inbox, sent, conn>>
        /\ phase[q] = "send" /\ \A p \in Requests \ {q} : phase'[p] = phase[p]
        /\ worker' = worker \/ worker' = [worker EXCEPT ![Id(q)] = sess[q]]
        /\ phase'[q] \in {"wait", "release", "leave"}
    BY <1>2 DEF SendRequest
  <2>2. sess[q] # NoSession /\ sess[q] \in Sessions /\ ~WasSent(Id(q)) /\ recv[q] = 0
    BY <1>0, <2>1 DEF WaitInv, HandlersHold, WasSent, Id
  <2>3. /\ worker[Id(q)] = NoSession /\ sent[Id(q)] = 0 /\ buf[Id(q)] = <<>>
        /\ \A t \in Sessions : \A i \in DOMAIN inbox[t] : inbox[t][i].id # Id(q)
        /\ \A t \in Sessions : relay[t] \notin {Idle, Acking} => relay[t].msg.id # Id(q)
    <3> HIDE DEF TypeOK
    <3>1. sent[Id(q)] = 0 /\ buf[Id(q)] = <<>>
      BY <1>0, <2>2 DEF OrderInv, UnsentAreEmpty
    <3>2. worker[Id(q)] = NoSession
      BY <1>0, <2>2 DEF WaitInv, MessagesWereSent
    <3>3. /\ \A t \in Sessions : \A i \in DOMAIN inbox[t] : inbox[t][i].id # Id(q)
          /\ \A t \in Sessions : relay[t] \notin {Idle, Acking} => relay[t].msg.id # Id(q)
      BY <2>2 DEF WaitInv, MessagesWereSent
    <3> QED BY <3>1, <3>2, <3>3
  <2>4. Id(q)' = Id(q) /\ MachineOf[sess[q]] = TargetOf[q]
    BY <2>1, <2>2 DEF Id, IndInv, HeldSessions
  <2>5. worker'[Id(q)] \in {NoSession, sess[q]} /\ \A id \in Ids \ {Id(q)} : worker'[id] = worker[id]
    BY <1>0, <2>1, <2>3 DEF RelayTypes
  <2>6. \A t \in Sessions : (At(t, "lock") \/ At(t, "send")) => relay[t].msg.id # Id(q)
    BY <2>3 DEF At, Acking
  <2>7. NumbersGrow(q)'
    <3>1. Arrived(q)' = {0} /\ UnderRelay(q)' = {} /\ OnTheWire(q)' = {}
      <4>1. Arrived(q)' = {0}
        BY <2>1, <2>2, <2>3, <2>4 DEF Arrived
      <4>2. UnderRelay(q)' = {}
        BY <2>1, <2>2, <2>4, <2>6 DEF UnderRelay, At
      <4>3. OnTheWire(q)' = {}
        BY <2>1, <2>2, <2>3, <2>4 DEF OnTheWire
      <4> QED BY <4>1, <4>2, <4>3
    <3>2. Growing(inbox'[sess'[q]], Id(q))
      BY <2>1, <2>2, <2>3 DEF Growing
    <3>3. /\ Below(Arrived(q)', UnderRelay(q)' \cup OnTheWire(q)')
          /\ Below(UnderRelay(q)', OnTheWire(q)')
      BY <3>1 DEF Below
    <3>4. \A n \in Arrived(q)' \cup UnderRelay(q)' \cup OnTheWire(q)' : n <= sent'[Id(q)]
      BY <2>1, <2>3, <3>1
    <3>5. DOMAIN buf'[Id(q)] = {}
      BY <2>1, <2>3
    <3> HIDE DEF TypeOK
    <3> QED BY <2>4, <3>2, <3>3, <3>4, <3>5 DEF NumbersGrow
  <2> HIDE DEF TypeOK
  <2> QED BY <1>0, <2>1, <2>2, <2>3, <2>4, <2>5, <2>6, <2>7, HandlerOrder
<1>3. CASE Receive(q)
  <2>1. /\ UNCHANGED <<registry, sess, try, relay, inbox, worker, sent, conn>>
        /\ phase[q] = "wait" /\ buf[Id(q)] # <<>> /\ buf' = [buf EXCEPT ![Id(q)] = Tail(@)]
        /\ \A p \in Requests \ {q} : phase'[p] = phase[p] /\ recv'[p] = recv[p]
    BY <1>3 DEF Receive, EndWait
  <2>2. PICK msg : msg = buf[Id(q)][1]
    OBVIOUS
  <2>3. /\ buf[Id(q)] \in Seq(Messages) /\ buf'[Id(q)] = Tail(buf[Id(q)])
        /\ msg = Head(buf[Id(q)]) /\ 1 \in DOMAIN buf[Id(q)]
        /\ \A id \in Ids \ {Id(q)} : buf'[id] = buf[id]
    <3>1. /\ buf[Id(q)] \in Seq(Messages) /\ buf'[Id(q)] = Tail(buf[Id(q)])
          /\ \A id \in Ids \ {Id(q)} : buf'[id] = buf[id]
      BY <1>0, <2>1 DEF ChannelTypes
    <3> QED BY <2>1, <2>2, <3>1, HeadIsFirst
  <2>4. /\ phase'[q] \in {"wait", "leave", "release"}
        /\ phase'[q] = "release" => Stream(q)
        /\ phase'[q] = "wait" => recv'[q] = msg.n
    <3>1. msg \in Messages
      BY <2>2, <2>3
    <3>2. msg.kind \in Kinds
      BY <3>1 DEF Messages
    <3> QED BY <1>3, <2>3, <3>2 DEF Receive, EndWait, Ends, Kinds
  <2>5. Id(q)' = Id(q) /\ WasSent(Id(q)) /\ sess[q] # NoSession /\ NumbersGrow(q)
    BY <2>1 DEF Id, WasSent, WaitInv, HandlersHold, OrderInv
  <2>6. ASSUME phase'[q] = "wait" PROVE NumbersGrow(q)'
    <3>1. \A i \in DOMAIN buf'[Id(q)] :
            /\ i \in Nat /\ i + 1 \in DOMAIN buf[Id(q)] /\ 1 < i + 1
            /\ buf'[Id(q)][i] = buf[Id(q)][i + 1]
      <4> SUFFICES ASSUME NEW i \in DOMAIN Tail(buf[Id(q)])
                   PROVE  /\ i \in Nat /\ i + 1 \in DOMAIN buf[Id(q)] /\ 1 < i + 1
                          /\ Tail(buf[Id(q)])[i] = buf[Id(q)][i + 1]
        BY <2>3
      <4>1. buf[Id(q)] # <<>> /\ buf[Id(q)] \in Seq(Messages)
        BY <2>1, <2>3
      <4> HIDE DEF TypeOK
      <4> QED BY <4>1
    <3>2. recv'[q] = buf[Id(q)][1].n
      BY <2>2, <2>4, <2>6
    <3>3. Arrived(q)' \subseteq Arrived(q)
      <4> SUFFICES /\ recv'[q] \in Arrived(q)
                   /\ \A i \in DOMAIN buf'[Id(q)] : buf'[Id(q)][i].n \in Arrived(q)
        BY <2>5 DEF Arrived
      <4> QED BY <2>3, <3>1, <3>2 DEF Arrived
    <3>4. UnderRelay(q)' = UnderRelay(q) /\ OnTheWire(q)' = OnTheWire(q)
      BY <2>1, <2>5 DEF UnderRelay, OnTheWire, At
    <3>5. \A i, j \in DOMAIN buf[Id(q)] : i < j => buf[Id(q)][i].n < buf[Id(q)][j].n
      BY <2>5 DEF NumbersGrow
    <3>6. \A i \in DOMAIN buf'[Id(q)] : recv'[q] < buf'[Id(q)][i].n
      BY <2>3, <3>1, <3>2, <3>5
    <3>7. ASSUME NEW i \in DOMAIN buf'[Id(q)], NEW j \in DOMAIN buf'[Id(q)], i < j
          PROVE  buf'[Id(q)][i].n < buf'[Id(q)][j].n
      <4>1. i + 1 < j + 1
        BY <3>1, <3>7
      <4> QED BY <3>1, <3>5, <4>1
    <3>8. Below(Arrived(q)', UnderRelay(q) \cup OnTheWire(q)) /\ Below(UnderRelay(q), OnTheWire(q))
      BY <2>5, <3>3 DEF NumbersGrow, Below
    <3>9. worker[Id(q)] # NoSession =>
            \A n \in Arrived(q)' \cup UnderRelay(q) \cup OnTheWire(q) : n <= sent[Id(q)]
      BY <2>5, <3>3 DEF NumbersGrow
    <3>10. Growing(inbox[sess[q]], Id(q))
      BY <2>5 DEF NumbersGrow
    <3> QED BY <2>1, <2>5, <3>4, <3>6, <3>7, <3>8, <3>9, <3>10 DEF NumbersGrow
  <2>7. ASSUME NEW t \in Sessions, t # sess[q]
        PROVE  /\ worker[Id(q)] = t /\ conn[t] = "open" => Current(q) # sess[q]
               /\ \A i \in DOMAIN inbox[t] : inbox[t][i].id = Id(q) => Current(q) # sess[q]
               /\ At(t, "lock") /\ relay[t].msg.id = Id(q) => relay[t].at # sess[q]
               /\ At(t, "send") => relay[t].msg.id # Id(q)
    BY <2>1, <2>7 DEF OrderInv, AnswersStayHome
  <2> HIDE DEF TypeOK
  <2> QED BY <1>0, <2>1, <2>3, <2>4, <2>5, <2>6, <2>7, HandlerOrder
<1>4. CASE UnregisterChunkChannel(q)
  <2>1. /\ UNCHANGED <<registry, try, relay, inbox, worker, sent, conn>>
        /\ phase[q] = "leave" /\ phase'[q] \in {"done", "release"} /\ recv'[q] = 0
        /\ \A p \in Requests \ {q} :
             phase'[p] = phase[p] /\ sess'[p] = sess[p] /\ recv'[p] = recv[p]
    BY <1>4 DEF UnregisterChunkChannel, AfterLeave
  <2>2. \A id \in Ids \ {Id(q)} : buf'[id] = buf[id]
    BY <1>4 DEF UnregisterChunkChannel, ChannelTypes
  <2>3. WasSent(Id(q))
    BY <2>1 DEF WasSent, Id
  <2> HIDE DEF TypeOK
  <2> QED BY <1>0, <2>1, <2>2, <2>3, HandlerOrder
<1> QED BY <1>1, <1>2, <1>3, <1>4 DEF Handler

LEMMA OrderInit == Init => OrderInv
<1> SUFFICES ASSUME Init PROVE OrderInv
  OBVIOUS
<1>1. \A t \in Sessions : ~At(t, "lock") /\ ~At(t, "send") /\ inbox[t] = <<>>
  BY DEF Init, At
<1>2. AnswersStayHome /\ UnsentAreEmpty /\ \A q \in Requests : phase[q] # "wait"
  BY <1>1 DEF Init, AnswersStayHome, UnsentAreEmpty
<1> QED BY <1>2 DEF OrderInv

LEMMA OrderNext == TypeOK /\ IndInv /\ WaitInv /\ OrderInv /\ [Next]_vars => OrderInv'
<1> SUFFICES ASSUME TypeOK, IndInv, WaitInv, OrderInv, [Next]_vars PROVE OrderInv'
  OBVIOUS
<1>1. CASE \E s \in Sessions : Connection(s) \/ ReadLoop(s)
  BY <1>1, OrderConnection, OrderReadLoop
<1>2. CASE \E q \in Requests : Handler(q)
  BY <1>2, OrderHandler
<1>3. CASE \E m \in Machines : Administration(m)
  BY <1>3, OrderAdministration
<1>4. CASE \E id \in Ids : Agent(id)
  BY <1>4, OrderQuits, OrderSend DEF Agent
<1>5. CASE UNCHANGED vars
  <2>1. UNCHANGED <<phase, try, sess, recv, buf, relay, sent, inbox, worker, registry, conn>>
    BY <1>5 DEF vars
  <2> QED BY <2>1, RegistryOrder DEF OrderInv, AnswersStayHome, Current
<1> QED BY <1>1, <1>2, <1>3, <1>4, <1>5 DEF Next

(* What the handler writes to the client has a higher number than before.   *)
LEMMA OrderReceived ==
  ASSUME TypeOK, WaitInv, OrderInv, [Next]_vars,
         NEW q \in Requests, phase[q] = "wait", recv'[q] # recv[q]
  PROVE  recv'[q] > recv[q]
<1>1. \A s \in Sessions : Connection(s) => recv' = recv
  BY DEF Connection, Accept, HandshakeFails, Register, Drop, Stall, ReadLoopEnds, Disconnect
<1>2. \A s \in Sessions : ReadLoop(s) => recv' = recv
  BY DEF ReadLoop, Serving, RelayRead, RelayLookup, RelaySend, RelayFinish, RelayHealth,
         AckHangs, AckReturns
<1>3. \A m \in Machines : Administration(m) => recv' = recv
  BY DEF Administration, Evict, GetSessionToCancel, CancelAllRequests, RevokeKey, UnregisterRevoked
<1>4. \A id \in Ids : Agent(id) => recv' = recv
  BY DEF Agent, AgentQuits, AgentSend
<1>5. UNCHANGED vars => recv' = recv
  BY DEF vars
<1>6. PICK p \in Requests : Handler(p)
  BY <1>1, <1>2, <1>3, <1>4, <1>5 DEF Next
<1>7. Receive(p) \/ (UnregisterChunkChannel(p) /\ phase[p] = "leave")
  <2>1. ASSUME \/ Admit(p) \/ RegisterChunkChannel(p) \/ CheckLoad(p) \/ IncrementLoad(p)
               \/ SendRequest(p) \/ SeeClosed(p) \/ GiveUp(p) \/ CancelReturns(p)
               \/ StartDecrement(p) \/ DecrementLoad(p) \/ Retry(p)
        PROVE  recv' = recv
    BY <2>1
       DEF Admit, RegisterChunkChannel, CheckLoad, IncrementLoad, SendRequest, SeeClosed, GiveUp,
           EndWait, CancelReturns, StartDecrement, DecrementLoad, Retry
  <2>2. UnregisterChunkChannel(p) => phase[p] = "leave"
    BY DEF UnregisterChunkChannel
  <2> QED BY <1>6, <2>1, <2>2 DEF Handler
<1>8. recv \in [Requests -> Nat]
  BY DEF TypeOK, RequestTypes
<1>9. p = q /\ Receive(q)
  <2>1. \E n : recv' = [recv EXCEPT ![p] = n]
    BY <1>7, <1>8 DEF Receive, UnregisterChunkChannel
  <2> QED BY <1>7, <1>8, <2>1
<1>10. NumbersGrow(q) /\ buf[Id(q)] \in Seq(Messages) /\ buf[Id(q)] # <<>>
  BY <1>9, IdType DEF OrderInv, Receive, TypeOK, ChannelTypes
<1>11. Head(buf[Id(q)]) = buf[Id(q)][1] /\ 1 \in DOMAIN buf[Id(q)] /\ buf[Id(q)][1].n \in Nat
  <2>1. \A msg \in Messages : msg.n \in Nat
    BY DEF Messages
  <2> QED BY <1>10, <2>1, HeadIsFirst
<1>12. recv'[q] = buf[Id(q)][1].n
  BY <1>8, <1>9, <1>11 DEF Receive
<1> QED BY <1>8, <1>10, <1>11, <1>12 DEF NumbersGrow

(* The client of a stream sees the agent's messages in the order they were  *)
(* sent and none twice, whatever was lost, reconnected or relayed at once.  *)
THEOREM StreamsStayInOrder == Spec => InOrder
<1>1. Init => TypeOK /\ IndInv /\ WaitInv /\ OrderInv
  BY TypeInit, IndInit, WaitInit, OrderInit
<1>2. TypeOK /\ IndInv /\ WaitInv /\ OrderInv /\ [Next]_vars =>
        (TypeOK /\ IndInv /\ WaitInv /\ OrderInv)'
  BY TypeNext, IndNext, WaitNext, OrderNext
<1>3. TypeOK /\ WaitInv /\ OrderInv /\ [Next]_vars =>
        (\A q \in Requests : phase[q] = "wait" /\ recv'[q] # recv[q] => recv'[q] > recv[q])
  BY OrderReceived
<1> QED BY <1>1, <1>2, <1>3, PTL DEF Spec, InOrder
==============================================================================
