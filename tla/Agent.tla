-------------------------------- MODULE Agent --------------------------------
(***************************************************************************)
(* The provider agent (provider/agent.go): the loop that dials the          *)
(* coordinator, registers, reads and backs off; one heartbeat loop for each *)
(* registered connection; one goroutine for each request, which calls the   *)
(* backend and writes what it answers.  They share a.conn, the load, the    *)
(* table of cancel functions and the write mutex, and outlive connections.  *)
(*                                                                          *)
(* The other end of a connection is the part of handleWSProvider that       *)
(* registers it (coord/ws.go) and an environment that sends requests and    *)
(* cancels them.  Every action is one critical section, one call that may   *)
(* block, or the beginning or the end of one write to a WebSocket.          *)
(*                                                                          *)
(* Uncapped, ForgetsConn, AdmitsOneMore, EndsQuietly, GoesOn, LeavesOut,    *)
(* NeverUnlocks and Remembers are faulty versions of the definition that    *)
(* follows each: no action uses them, they show which fault each property   *)
(* finds.                                                                   *)
(***************************************************************************)
EXTENDS Integers, Sequences, FiniteSets

CONSTANTS
  Requests,       \* request ids
  Streams,        \* the requests with "stream": true
  MaxConcurrent,  \* Config.MaxConcurrent
  ReconnectMin,   \* Config.ReconnectMin
  ReconnectMax,   \* Config.ReconnectMax
  MaxDials,       \* bound: connections the agent opens
  MaxChunks,      \* bound: chunks the backend streams before the last one
  Events          \* bound: the events of AllEvents that may happen

(* A connection that is cut or breaks, a request that the coordinator       *)
(* cancels, a dial that fails, a backend without models, a backend that     *)
(* fails, a discovery that takes the backend for one of the other type.     *)
AllEvents == {"cut", "break", "cancel", "nodial", "nomodels", "backend", "flip"}

(* BackendType: the API of Ollama or that of OpenAI.                        *)
Apis == {"ollama", "openai"}

ASSUME RequestsAssumption == IsFiniteSet(Requests) /\ Streams \subseteq Requests
ASSUME BoundsAssumption ==
  /\ MaxConcurrent \in Nat \ {0}
  /\ ReconnectMin \in Nat /\ ReconnectMin >= 4
  /\ ReconnectMax \in Nat /\ ReconnectMin <= ReconnectMax
  /\ MaxDials \in Nat \ {0} /\ MaxChunks \in Nat
  /\ Events \subseteq AllEvents

Conns == 1..MaxDials
NoConn == 0

VARIABLES
  phase,      \* where Run, connect and the read loop stand
  dialed,     \* the last connection dialed, which connect is about
  backoff,    \* Run's wait before the next attempt
  conn,       \* a.conn
  api,        \* a.backendType
  open,       \* connections a write of the agent succeeds on
  cut,        \* connections from which nothing reaches the coordinator any more
  coord,      \* where handleWSProvider stands with a connection
  first,      \* first message that reached the coordinator on a connection
  inbox,      \* messages on their way to the agent
  beat,       \* where the heartbeat loop of a connection stands
  beatVia,    \* the connection it writes to
  pc,         \* where handleRequest stands
  via,        \* the connection it read from a.conn
  out,        \* the message it writes
  made,       \* chunks it took from the body
  speaks,     \* the API it called, in whose format the body is
  load,       \* a.currentLoad
  requests,   \* a.requests: requests with a registered cancel function
  cancelled,  \* requests whose context is cancelled
  issued,     \* the connection the coordinator sent a request on
  withdrawn,  \* requests it sent a cancel for
  heeded,     \* requests whose cancel the read loop has read
  answers,    \* what was written about a request, and whether it arrives
  panicked    \* two concurrent writes ended the process

runVars    == <<phase, dialed, backoff, api>>
beatVars   == <<beat, beatVia>>
bodyVars   == <<made, speaks>>
handleVars == <<pc, via, out, bodyVars, load, answers>>
cancelVars == <<requests, cancelled, heeded>>
coordVars  == <<coord, issued, withdrawn, cut>>
vars == <<runVars, conn, open, first, inbox, beatVars, handleVars, cancelVars, coordVars,
          panicked>>

Kinds == {"chunk", "blank", "done", "sentinel", "response", "empty", "error", "overloaded"}
Answers == [kind : Kinds, n : 0..MaxChunks, on : Conns, arrives : BOOLEAN]
Messages == [type : {"registered"}] \cup [type : {"request", "cancel"}, id : Requests]
Holding == {"admitted", "calling", "failed", "refused", "responding", "ending", "leaving"}

RunTypes ==
  /\ phase \in {"idle", "dialed", "found", "registering", "awaiting", "looping", "reading",
               "waiting"}
  /\ dialed \in 0..MaxDials /\ backoff \in ReconnectMin..ReconnectMax /\ api \in Apis
  /\ conn \in 0..MaxDials /\ open \in SUBSET Conns /\ cut \in SUBSET Conns
  /\ panicked \in BOOLEAN
ConnTypes ==
  /\ coord \in [Conns -> {"none", "accepted", "registered", "acked", "refused"}]
  /\ first \in [Conns -> {"none", "register", "other"}]
  /\ inbox \in [Conns -> Seq(Messages)]
  /\ issued \in [Requests -> 0..MaxDials] /\ withdrawn \in SUBSET Requests
BeatTypes ==
  /\ beat \in [Conns -> {"off", "ticking", "sending", "writing", "done"}]
  /\ beatVia \in [Conns -> 0..MaxDials]
HandlerTypes ==
  /\ pc \in [Requests -> {"idle", "spawned", "overloaded", "sending", "writing", "left",
                           "done"} \cup Holding]
  /\ via \in [Requests -> 0..MaxDials] /\ out \in [Requests -> Kinds \cup {"none"}]
  /\ made \in [Requests -> 0..MaxChunks] /\ speaks \in [Requests -> Apis]
  /\ load \in Nat
  /\ requests \in SUBSET Requests /\ cancelled \in SUBSET Requests
  /\ heeded \in SUBSET Requests
  /\ answers \in [Requests -> Seq(Answers)]
TypeOK == RunTypes /\ ConnTypes /\ BeatTypes /\ HandlerTypes

Init ==
  /\ phase = "idle" /\ dialed = 0 /\ backoff = ReconnectMin /\ api = "ollama"
  /\ conn = NoConn /\ open = {} /\ cut = {}
  /\ coord = [c \in Conns |-> "none"] /\ first = [c \in Conns |-> "none"]
  /\ inbox = [c \in Conns |-> <<>>]
  /\ beat = [c \in Conns |-> "off"] /\ beatVia = [c \in Conns |-> NoConn]
  /\ pc = [q \in Requests |-> "idle"] /\ via = [q \in Requests |-> NoConn]
  /\ out = [q \in Requests |-> "none"] /\ made = [q \in Requests |-> 0]
  /\ speaks = [q \in Requests |-> "ollama"]
  /\ load = 0 /\ requests = {} /\ cancelled = {}
  /\ issued = [q \in Requests |-> NoConn] /\ withdrawn = {} /\ heeded = {}
  /\ answers = [q \in Requests |-> <<>>]
  /\ panicked = FALSE

InReadLoop == phase \in {"looping", "reading"}

(* Who is inside of conn.WriteJSON for a connection.  writeWS holds the     *)
(* write mutex around it, connect does not.                                 *)
HandlersWriting(c) == {q \in Requests : pc[q] = "writing" /\ via[q] = c}
BeatsWriting(c) == {b \in Conns : beat[b] = "writing" /\ beatVia[b] = c}
WriteMuFree == \A c \in Conns : HandlersWriting(c) = {} /\ BeatsWriting(c) = {}
Registering(c) == phase = "registering" /\ dialed = c

(* WriteJSON returns nil when the kernel takes the message: it arrives if   *)
(* the connection still carries it, and the agent cannot tell.              *)
Carries(c) == c \notin cut
Wrote(c, kind) == first' = [first EXCEPT ![c] = IF @ = "none" /\ Carries(c) THEN kind ELSE @]

(* gorilla's WriteJSON panics when it notices another writer.               *)
MayPanic(others) == panicked' \in (IF others THEN BOOLEAN ELSE {FALSE})
------------------------------------------------------------------------------
(* Run and connect.                                                         *)

Dial ==
  /\ phase = "idle" /\ dialed < MaxDials
  /\ phase' = "dialed" /\ dialed' = dialed + 1 /\ conn' = dialed + 1
  /\ open' = open \cup {dialed + 1}
  /\ coord' = [coord EXCEPT ![dialed + 1] = "accepted"]
  /\ UNCHANGED <<backoff, api, first, inbox, beatVars, handleVars, cancelVars, issued,
                 withdrawn, cut, panicked>>

DialFails ==
  /\ "nodial" \in Events /\ phase = "idle"
  /\ phase' = "waiting"
  /\ UNCHANGED <<dialed, backoff, api, conn, open, first, inbox, beatVars, handleVars,
                 cancelVars, coordVars, panicked>>

(* discoverModels asks for the tags of Ollama first and falls back to the   *)
(* models of OpenAI, which Ollama lists too: when the first call fails once *)
(* the type changes.  When both fail the configured models are used and the *)
(* type stays.                                                              *)
Discover ==
  /\ phase = "dialed"
  /\ phase' = "found"
  /\ api' \in (IF "flip" \in Events \/ dialed = 1 THEN Apis ELSE {api})
  /\ UNCHANGED <<dialed, backoff, conn, open, first, inbox, beatVars, handleVars,
                 cancelVars, coordVars, panicked>>

(* Both calls fail and no models are configured, or the list is empty.      *)
(* connect closes the connection and leaves a.conn as it is.                *)
NoModels ==
  /\ "nomodels" \in Events /\ phase \in {"dialed", "found"}
  /\ phase' = "waiting" /\ open' = open \ {dialed}
  /\ UNCHANGED <<dialed, backoff, api, conn, first, inbox, beatVars, handleVars,
                 cancelVars, coordVars, panicked>>

BeginRegister ==
  /\ phase = "found"
  /\ phase' = "registering"
  /\ MayPanic(HandlersWriting(dialed) # {} \/ BeatsWriting(dialed) # {})
  /\ UNCHANGED <<dialed, backoff, api, conn, open, first, inbox, beatVars, handleVars,
                 cancelVars, coordVars>>

EndRegister ==
  /\ phase = "registering"
  /\ IF dialed \in open
     THEN phase' = "awaiting" /\ Wrote(dialed, "register")
     ELSE phase' = "waiting" /\ first' = first
  /\ UNCHANGED <<dialed, backoff, api, conn, open, inbox, beatVars, handleVars,
                 cancelVars, coordVars, panicked>>

(* The first message must be "registered", any other ends the connection.   *)
ReadRegistered ==
  /\ phase = "awaiting" /\ dialed \in open /\ inbox[dialed] # <<>>
  /\ inbox' = [inbox EXCEPT ![dialed] = Tail(@)]
  /\ IF Head(inbox[dialed]).type = "registered"
     THEN phase' = "looping" /\ beat' = [beat EXCEPT ![dialed] = "ticking"] /\ open' = open
     ELSE phase' = "waiting" /\ open' = open \ {dialed} /\ beat' = beat
  /\ UNCHANGED <<dialed, backoff, api, conn, first, beatVia, handleVars, cancelVars,
                 coordVars, panicked>>

ReadRegisteredFails ==
  /\ phase = "awaiting" /\ dialed \notin open
  /\ phase' = "waiting"
  /\ UNCHANGED <<dialed, backoff, api, conn, open, first, inbox, beatVars, handleVars,
                 cancelVars, coordVars, panicked>>

(* The wait is over; the next one is longer, with up to a quarter of jitter.*)
Uncapped(b, jitter) == 2 * b + jitter
Longer(b, jitter) == IF 2 * b + jitter > ReconnectMax THEN ReconnectMax ELSE 2 * b + jitter

Retry ==
  /\ phase = "waiting"
  /\ phase' = "idle"
  /\ \E jitter \in 0 .. (backoff \div 4) - 1 : backoff' = Longer(backoff, jitter)
  /\ UNCHANGED <<dialed, api, conn, open, first, inbox, beatVars, handleVars,
                 cancelVars, coordVars, panicked>>
------------------------------------------------------------------------------
(* The read loop.                                                           *)

(* Its iterations begin with a look at a.conn.  A heartbeat may have        *)
(* cleared it: that is what Run takes for a clean disconnect.               *)
NextRead ==
  /\ phase = "looping" /\ conn # NoConn
  /\ phase' = "reading"
  /\ UNCHANGED <<dialed, backoff, api, conn, open, first, inbox, beatVars, handleVars,
                 cancelVars, coordVars, panicked>>

ConnGone ==
  /\ phase = "looping" /\ conn = NoConn
  /\ phase' = "idle" /\ backoff' = ReconnectMin
  /\ UNCHANGED <<dialed, api, conn, open, first, inbox, beatVars, handleVars,
                 cancelVars, coordVars, panicked>>

ReadAck ==
  /\ phase = "reading" /\ dialed \in open /\ beat[dialed] # "off"
  /\ phase' = "looping"
  /\ UNCHANGED <<dialed, backoff, api, conn, open, first, inbox, beatVars, handleVars,
                 cancelVars, coordVars, panicked>>

ReadRequest(q) ==
  /\ phase = "reading" /\ dialed \in open
  /\ inbox[dialed] # <<>> /\ Head(inbox[dialed]) = [type |-> "request", id |-> q]
  /\ inbox' = [inbox EXCEPT ![dialed] = Tail(@)]
  /\ pc' = [pc EXCEPT ![q] = "spawned"]
  /\ phase' = "looping"
  /\ UNCHANGED <<dialed, backoff, api, conn, open, first, beatVars, via, out, bodyVars,
                 load, answers, cancelVars, coordVars, panicked>>

(* A cancel finds nothing before the goroutine has registered its function. *)
ReadCancel(q) ==
  /\ phase = "reading" /\ dialed \in open
  /\ inbox[dialed] # <<>> /\ Head(inbox[dialed]) = [type |-> "cancel", id |-> q]
  /\ inbox' = [inbox EXCEPT ![dialed] = Tail(@)]
  /\ heeded' = heeded \cup {q}
  /\ IF q \in requests
     THEN cancelled' = cancelled \cup {q} /\ requests' = requests \ {q}
     ELSE UNCHANGED <<cancelled, requests>>
  /\ phase' = "looping"
  /\ UNCHANGED <<dialed, backoff, api, conn, open, first, beatVars, handleVars,
                 coordVars, panicked>>

(* connect returns the error of ReadMessage, after the deferred Close.      *)
ReadFails ==
  /\ phase = "reading" /\ dialed \notin open
  /\ phase' = "waiting" /\ conn' = NoConn /\ open' = open \ {conn}
  /\ UNCHANGED <<dialed, backoff, api, first, inbox, beatVars, handleVars, cancelVars,
                 coordVars, panicked>>
------------------------------------------------------------------------------
(* The heartbeat loop started for connection b.  It reads a.conn, which may *)
(* be a later connection by then, and when a tick and the end of its        *)
(* context are both ready it may choose the tick.                           *)

Tick(b) ==
  /\ beat[b] = "ticking"
  /\ beatVia' = [beatVia EXCEPT ![b] = conn]
  /\ beat' = [beat EXCEPT ![b] = IF conn = NoConn THEN "done" ELSE "sending"]
  /\ UNCHANGED <<runVars, conn, open, first, inbox, handleVars, cancelVars, coordVars,
                 panicked>>

BeginBeat(b) ==
  /\ beat[b] = "sending" /\ WriteMuFree
  /\ beat' = [beat EXCEPT ![b] = "writing"]
  /\ MayPanic(Registering(beatVia[b]))
  /\ UNCHANGED <<runVars, conn, open, first, inbox, beatVia, handleVars, cancelVars,
                 coordVars>>

(* After a failed write a.conn is cleared if it still is that connection.   *)
ForgetsConn(c) == conn' = NoConn
ForgetConn(c) == conn' = IF conn = c THEN NoConn ELSE conn

EndBeat(b) ==
  /\ beat[b] = "writing"
  /\ IF beatVia[b] \in open
     THEN /\ Wrote(beatVia[b], "other")
          /\ beat' = [beat EXCEPT ![b] = "ticking"]
          /\ conn' = conn
     ELSE /\ ForgetConn(beatVia[b])
          /\ beat' = [beat EXCEPT ![b] = "done"]
          /\ first' = first
  /\ UNCHANGED <<runVars, open, inbox, beatVia, handleVars, cancelVars, coordVars,
                 panicked>>

StopBeat(b) ==
  /\ beat[b] = "ticking" /\ ~(InReadLoop /\ dialed = b)
  /\ beat' = [beat EXCEPT ![b] = "done"]
  /\ UNCHANGED <<runVars, conn, open, first, inbox, beatVia, handleVars, cancelVars,
                 coordVars, panicked>>
------------------------------------------------------------------------------
(* handleRequest.                                                           *)

AdmitsOneMore == load <= MaxConcurrent
HasCapacity == load < MaxConcurrent

Admit(q) ==
  /\ pc[q] = "spawned"
  /\ IF HasCapacity
     THEN load' = load + 1 /\ pc' = [pc EXCEPT ![q] = "admitted"]
     ELSE load' = load /\ pc' = [pc EXCEPT ![q] = "overloaded"]
  /\ UNCHANGED <<runVars, conn, open, first, inbox, beatVars, via, out, bodyVars,
                 answers, cancelVars, coordVars, panicked>>

AddCancel(q) ==
  /\ pc[q] = "admitted"
  /\ requests' = requests \cup {q}
  /\ pc' = [pc EXCEPT ![q] = "calling"]
  /\ UNCHANGED <<runVars, conn, open, first, inbox, beatVars, via, out, bodyVars, load,
                 answers, cancelled, heeded, coordVars, panicked>>

(* The handler moves on and changes nothing but where it stands.            *)
Goto(q, where) ==
  /\ pc' = [pc EXCEPT ![q] = where]
  /\ UNCHANGED <<runVars, conn, open, first, inbox, beatVars, via, out, bodyVars, load,
                 answers, cancelVars, coordVars, panicked>>

(* sendToBackend: no connection, a timeout or the cancelled context; a      *)
(* status other than 2xx; or a body to read, in the format of the API that  *)
(* the backend was taken for.                                               *)
CallBackend(q) ==
  /\ pc[q] = "calling"
  /\ \/ ("backend" \in Events \/ q \in cancelled) /\ Goto(q, "failed")
     \/ "backend" \in Events /\ Goto(q, "refused")
     \/ /\ q \notin cancelled
        /\ pc' = [pc EXCEPT ![q] = "responding"] /\ speaks' = [speaks EXCEPT ![q] = api]
        /\ UNCHANGED <<runVars, conn, open, first, inbox, beatVars, via, out, made,
                       load, answers, cancelVars, coordVars, panicked>>

(* Every message goes to the a.conn of that moment, and is dropped when     *)
(* there is none.                                                           *)
Send(q, message, otherwise) ==
  /\ IF conn = NoConn
     THEN pc' = [pc EXCEPT ![q] = otherwise] /\ UNCHANGED <<via, out>>
     ELSE /\ pc' = [pc EXCEPT ![q] = "sending"]
          /\ via' = [via EXCEPT ![q] = conn] /\ out' = [out EXCEPT ![q] = message]
  /\ UNCHANGED <<runVars, conn, open, first, inbox, beatVars, speaks, load, answers,
                 cancelVars, coordVars, panicked>>

Report(q) ==
  \/ pc[q] = "overloaded" /\ Send(q, "overloaded", "done") /\ made' = made
  \/ pc[q] = "failed" /\ q \in cancelled /\ Goto(q, "leaving")
  \/ pc[q] = "failed" /\ q \notin cancelled /\ Send(q, "error", "leaving") /\ made' = made
  \/ pc[q] = "refused" /\ Send(q, "error", "leaving") /\ made' = made

(* handleStreamingResponse: a line of the body is a chunk, the last chunk   *)
(* or the "data: [DONE]" of an OpenAI backend; a body that ends without one *)
(* is reported by the deferred function.  The loop looks at a.backendType   *)
(* for every line, without a lock.                                          *)
Understood(q) == api = speaks[q]
ReadLine(q) ==
  /\ pc[q] = "responding" /\ q \in Streams /\ Understood(q)
  /\ \/ /\ made[q] < MaxChunks /\ made' = [made EXCEPT ![q] = @ + 1]
        /\ Send(q, "chunk", "ending")
     \/ made' = made /\ Send(q, "done", "ending")
     \/ api = "openai" /\ made' = made /\ Send(q, "sentinel", "leaving")

(* A line of the other format is skipped, which changes nothing here; when  *)
(* the type changes between the prefix and the content it is an empty chunk.*)
TearLine(q) ==
  /\ pc[q] = "responding" /\ q \in Streams /\ ~Understood(q)
  /\ made[q] < MaxChunks /\ made' = [made EXCEPT ![q] = @ + 1]
  /\ Send(q, "blank", "ending")

EndsQuietly(q) == Goto(q, "leaving")
EndStream(q) == Goto(q, "ending")
BodyEnds(q) ==
  /\ pc[q] = "responding" /\ q \in Streams
  /\ "backend" \in Events \/ q \in cancelled \/ ~Understood(q)
  /\ EndStream(q)

ReportEnd(q) == pc[q] = "ending" /\ Send(q, "error", "leaving") /\ made' = made

(* handleNonStreamingResponse: a body that cannot be read or parsed is      *)
(* logged and not answered, one of the other format is an empty answer.     *)
ReadBody(q) ==
  /\ pc[q] = "responding" /\ q \notin Streams
  /\ \/ ("backend" \in Events \/ q \in cancelled) /\ Goto(q, "leaving")
     \/ Send(q, IF Understood(q) THEN "response" ELSE "empty", "leaving") /\ made' = made

BeginWrite(q) ==
  /\ pc[q] = "sending" /\ WriteMuFree
  /\ pc' = [pc EXCEPT ![q] = "writing"]
  /\ MayPanic(Registering(via[q]))
  /\ UNCHANGED <<runVars, conn, open, first, inbox, beatVars, via, out, bodyVars, load,
                 answers, cancelVars, coordVars>>

(* Only the streaming loop looks at the result: a chunk that could not be   *)
(* written ends it, the last one written makes its report unnecessary.      *)
Chunk(q) == out[q] \in {"chunk", "blank"}
AfterOther(q) == IF out[q] = "overloaded" THEN "done" ELSE "leaving"
GoesOn(q, ok) ==
  IF Chunk(q) THEN "responding"
  ELSE IF out[q] = "done" /\ ~ok THEN "ending" ELSE AfterOther(q)
LeavesOut(q, ok) ==
  IF Chunk(q) /\ ok THEN "responding"
  ELSE IF Chunk(q) \/ out[q] = "done" THEN "ending" ELSE AfterOther(q)
AfterWrite(q, ok) ==
  IF Chunk(q) /\ ok THEN "responding"
  ELSE IF (Chunk(q) \/ out[q] = "done") /\ ~ok THEN "ending" ELSE AfterOther(q)

NeverUnlocks(q) == pc[q] = "writing" /\ via[q] \in open
WriteReturns(q) == pc[q] = "writing"
EndWrite(q) ==
  LET c == via[q] IN
  /\ WriteReturns(q)
  /\ IF c \in open
     THEN /\ Wrote(c, "other")
          /\ answers' = [answers EXCEPT ![q] =
               Append(@, [kind |-> out[q], n |-> made[q], on |-> c, arrives |-> Carries(c)])]
     ELSE UNCHANGED <<first, answers>>
  /\ pc' = [pc EXCEPT ![q] = AfterWrite(q, c \in open)]
  /\ UNCHANGED <<runVars, conn, open, inbox, beatVars, via, out, bodyVars, load,
                 cancelVars, coordVars, panicked>>

(* The deferred function of handleRequest, in two critical sections.        *)
Leave(q) ==
  /\ pc[q] = "leaving"
  /\ load' = load - 1
  /\ pc' = [pc EXCEPT ![q] = "left"]
  /\ UNCHANGED <<runVars, conn, open, first, inbox, beatVars, via, out, bodyVars,
                 answers, cancelVars, coordVars, panicked>>

Remembers(q) == requests' = requests
Unlist(q) == requests' = requests \ {q}
Forget(q) ==
  /\ pc[q] = "left"
  /\ Unlist(q)
  /\ pc' = [pc EXCEPT ![q] = "done"]
  /\ UNCHANGED <<runVars, conn, open, first, inbox, beatVars, via, out, bodyVars, load,
                 answers, cancelled, heeded, coordVars, panicked>>
------------------------------------------------------------------------------
(* The coordinator.                                                         *)

(* handleWSProvider reads one message and expects register, or closes its   *)
(* end, which the agent notices later ...                                   *)
AcceptRegister(c) ==
  /\ coord[c] = "accepted" /\ c \in open /\ first[c] # "none"
  /\ IF first[c] = "register"
     THEN coord' = [coord EXCEPT ![c] = "registered"] /\ cut' = cut
     ELSE coord' = [coord EXCEPT ![c] = "refused"] /\ cut' = cut \cup {c}
  /\ UNCHANGED <<runVars, conn, open, first, inbox, beatVars, handleVars, cancelVars,
                 issued, withdrawn, panicked>>

(* ... and answers after the registry has the session.                      *)
AnswerRegistered(c) ==
  /\ coord[c] = "registered" /\ c \in open
  /\ coord' = [coord EXCEPT ![c] = "acked"]
  /\ inbox' = [inbox EXCEPT ![c] = Append(@, [type |-> "registered"])]
  /\ UNCHANGED <<runVars, conn, open, first, beatVars, handleVars, cancelVars, issued,
                 withdrawn, cut, panicked>>

(* A chat handler found the session in the registry.                        *)
SendRequest(q, c) ==
  /\ issued[q] = NoConn /\ coord[c] \in {"registered", "acked"} /\ c \in open
  /\ issued' = [issued EXCEPT ![q] = c]
  /\ inbox' = [inbox EXCEPT ![c] = Append(@, [type |-> "request", id |-> q])]
  /\ UNCHANGED <<runVars, conn, open, first, beatVars, handleVars, cancelVars, coord,
                 withdrawn, cut, panicked>>

SendCancel(q) ==
  LET c == issued[q] IN
  /\ "cancel" \in Events /\ q \notin withdrawn /\ c \in open
  /\ withdrawn' = withdrawn \cup {q}
  /\ inbox' = [inbox EXCEPT ![c] = Append(@, [type |-> "cancel", id |-> q])]
  /\ UNCHANGED <<runVars, conn, open, first, beatVars, handleVars, cancelVars, coord,
                 issued, cut, panicked>>

(* The network loses a connection, or the coordinator closes its end, before*)
(* the agent can notice: what it writes from now on is taken and lost.      *)
Cut(c) ==
  /\ "cut" \in Events /\ c \in open \ cut
  /\ cut' = cut \cup {c}
  /\ UNCHANGED <<runVars, conn, open, first, inbox, beatVars, handleVars, cancelVars, coord,
                 issued, withdrawn, panicked>>

(* The agent's end is closed: reads and writes fail from now on, and what   *)
(* was on its way to the agent is lost.                                     *)
Break(c) ==
  /\ c \in open /\ ("break" \in Events \/ c \in cut)
  /\ open' = open \ {c} /\ cut' = cut \cup {c}
  /\ inbox' = [inbox EXCEPT ![c] = <<>>]
  /\ UNCHANGED <<runVars, conn, first, beatVars, handleVars, cancelVars, coord, issued,
                 withdrawn, panicked>>

Run ==
  \/ Dial \/ DialFails \/ Discover \/ NoModels \/ BeginRegister \/ EndRegister
  \/ ReadRegistered \/ ReadRegisteredFails \/ Retry
Read ==
  \/ NextRead \/ ConnGone \/ ReadAck \/ ReadFails
  \/ \E q \in Requests : ReadRequest(q) \/ ReadCancel(q)
Heartbeat(b) == Tick(b) \/ BeginBeat(b) \/ EndBeat(b) \/ StopBeat(b)
Handle(q) ==
  \/ Admit(q) \/ AddCancel(q) \/ CallBackend(q) \/ Report(q)
  \/ ReadLine(q) \/ TearLine(q) \/ BodyEnds(q) \/ ReportEnd(q) \/ ReadBody(q)
  \/ BeginWrite(q) \/ EndWrite(q) \/ Leave(q) \/ Forget(q)
Coordinate ==
  \/ \E c \in Conns : AcceptRegister(c) \/ AnswerRegistered(c) \/ Cut(c) \/ Break(c)
  \/ \E q \in Requests, c \in Conns : SendRequest(q, c)
  \/ \E q \in Requests : SendCancel(q)

Next ==
  /\ ~panicked
  /\ \/ Run
     \/ Read
     \/ \E b \in Conns : Heartbeat(b)
     \/ \E q \in Requests : Handle(q)
     \/ Coordinate

Spec == Init /\ [][Next]_vars

(* Goroutines run, a write to a WebSocket returns, the backend answers      *)
(* within the client's timeout, and sync.Mutex starves nobody.              *)
FairSpec ==
  /\ Spec
  /\ \A q \in Requests :
       WF_vars(~panicked /\ Handle(q)) /\ SF_vars(~panicked /\ BeginWrite(q))
  /\ WF_vars(~panicked /\ \E b \in Conns : EndBeat(b))
------------------------------------------------------------------------------
(* a.currentLoad is the number of requests between admission and their      *)
(* deferred exit, on every path through the handlers, and stays within the  *)
(* limit announced to the coordinator.                                      *)
Admitted(q) ==
  pc[q] \in Holding \/ (pc[q] \in {"sending", "writing"} /\ out[q] # "overloaded")
LoadIsCounted ==
  load = Cardinality({q \in Requests : Admitted(q)}) /\ load <= MaxConcurrent

(* No cancel function outlives its handler, in whatever order cancels and   *)
(* exits of the handlers come.                                              *)
CancelsBelongToHandlers ==
  \A q \in requests : Admitted(q) \/ pc[q] = "left"

(* A stream loses pieces only where it changes connections: what arrives    *)
(* over one is a run of pieces as the agent took them from the body, in     *)
(* order and with none missing in between, although connections fail and    *)
(* are replaced under the handler and the type of the backend changes.      *)
HolesAreReconnects ==
  \A q \in Requests : \A i \in 1..Len(answers[q]) : LET m == answers[q][i] IN
    m.arrives /\ m.kind \in {"chunk", "blank"} =>
      /\ m.n = i
      /\ \A j \in 1..(i - 1) : answers[q][j].on = m.on => answers[q][j].arrives

(* A request gets one final message at most, and nothing after it.          *)
Final(m) == m.kind \notin {"chunk", "blank"}
AnsweredOnce ==
  \A q \in Requests : \A i \in 1..Len(answers[q]) :
    Final(answers[q][i]) => i = Len(answers[q])

(* agent.go:437: a stream ends with a done chunk or an error, so that the   *)
(* coordinator does not hang, unless it was cancelled or the connection it  *)
(* last wrote to went: neither a reconnect nor a body that is not           *)
(* understood any more makes it end in silence.                             *)
Ended(q) == \E i \in 1..Len(answers[q]) : Final(answers[q][i]) /\ answers[q][i].arrives
StreamsAreEnded ==
  \A q \in Streams : pc[q] = "done" /\ q \notin cancelled /\ via[q] \in open \ cut => Ended(q)

(* The loops of earlier connections never take a live connection away from  *)
(* the read loop that uses it.                                              *)
ReadLoopKeepsConn ==
  InReadLoop /\ dialed \in open => conn = dialed

(* The inductive invariant behind all of these.  At most one connection is  *)
(* open, and a.conn is it.                                                  *)
OneConnection ==
  /\ open \subseteq {dialed} /\ conn <= dialed
  /\ phase \in {"idle", "waiting"} => open = {}
  /\ open # {} => conn = dialed

(* A request is on its way to the agent once, and starts one goroutine.     *)
Asks(m) == m.type = "request"
OneGoroutine ==
  /\ \A q \in Requests : issued[q] = NoConn => pc[q] = "idle"
  /\ \A c \in Conns : \A i \in 1..Len(inbox[c]) : Asks(inbox[c][i]) =>
       /\ issued[inbox[c][i].id] = c /\ pc[inbox[c][i].id] = "idle"
       /\ \A j \in 1..Len(inbox[c]) : inbox[c][j] = inbox[c][i] => j = i

(* What a handler writes, and how far it has got with its body.             *)
Over(q) == pc[q] \in {"leaving", "left", "done"}
Unsaid(q) ==
  pc[q] \in {"idle", "spawned", "overloaded", "admitted", "calling", "failed", "refused",
            "responding"}
Writes(q) == pc[q] \in {"sending", "writing"}
KeepsCount(q) ==
  /\ via[q] <= dialed
  /\ pc[q] = "idle" => answers[q] = <<>>
  /\ Writes(q) => out[q] # "none" /\ via[q] # NoConn
  /\ Unsaid(q) => made[q] = Len(answers[q])
  /\ Writes(q) /\ Chunk(q) => q \in Streams /\ made[q] = Len(answers[q]) + 1
  /\ ~Over(q) => \A i \in 1..Len(answers[q]) : ~Final(answers[q][i])
  /\ q \in Streams /\ Over(q) /\ q \notin cancelled /\ via[q] \in open \ cut => Ended(q)
  /\ \A i \in 1..Len(answers[q]) : Carries(answers[q][i].on) => answers[q][i].arrives
HandlersKeepCount == \A q \in Requests : KeepsCount(q)

IndInv ==
  /\ TypeOK /\ OneConnection /\ OneGoroutine /\ HandlersKeepCount
  /\ LoadIsCounted /\ CancelsBelongToHandlers /\ HolesAreReconnects /\ AnsweredOnce

(* What the chat handlers of the coordinator count on (Completion.tla): a    *)
(* request is a question that is put once, the agent answers it piece by    *)
(* piece if it is a stream, in order, ends with one last word or falls      *)
(* silent, and says nothing after that.  What it said was lost or reached   *)
(* the coordinator, whether or not anyone there still waits for it.         *)
Tells(m) ==
  IF ~Final(m) THEN "chunk" ELSE IF m.kind \in {"error", "overloaded"} THEN "error" ELSE "final"
Message(q, i) ==
  LET m == answers[q][i] IN
  [id |-> <<q, 1>>, kind |-> Tells(m), n |-> IF Final(m) THEN i ELSE m.n]
Arrived(q) == {i \in 1..Len(answers[q]) : answers[q][i].arrives}
Heard == UNION {{Message(q, i) : i \in Arrived(q)} : q \in Requests}
UnderWay(q) == issued[q] # NoConn /\ ~Over(q)

Stages == [q \in Requests |-> IF issued[q] = NoConn THEN "open" ELSE "asked"]
Answering == {<<q, 1>> : q \in {r \in Requests : UnderWay(r)}}
Said == [id \in Requests \X (1..1) |-> IF Over(id[1]) THEN 0 ELSE Len(answers[id[1]])]
Question == INSTANCE Completion WITH
  MaxAttempts <- 1, stage <- Stages, attempt <- [q \in Requests |-> 1],
  outcome <- [q \in Requests |-> "none"], shown <- [q \in Requests |-> 0],
  answering <- Answering, said <- Said, flight <- Heard
AnswersQuestions == Question!AgentHalf

(* Every request leaves: its load and its cancel function are released.     *)
HandlersFinish == \A q \in Requests : pc[q] = "spawned" ~> (pc[q] = "done" \/ panicked)
------------------------------------------------------------------------------
(* What comments and documents say and the code does not do.                *)

(* agent.go:460: the sentinel sends the "final done chunk" of a stream that *)
(* SPEC.md:235 forwards chunk by chunk.  A chunk that the kernel took and   *)
(* the network lost is missed by nobody: the next one goes over the new     *)
(* a.conn, and the client gets a text with a hole in it.                    *)
NoHoles ==
  \A q \in Requests : \A i \in Arrived(q) : \A j \in 1..(i - 1) : answers[q][j].arrives

(* agent.go:55: "gorilla/websocket requires at most one concurrent writer". *)
(* connect writes register without the mutex, on a connection that requests *)
(* of an earlier one already see in a.conn.                                 *)
OneWriter ==
  \A c \in Conns :
    Cardinality(HandlersWriting(c)) + Cardinality(BeatsWriting(c))
      + (IF Registering(c) THEN 1 ELSE 0) <= 1

(* proto.go:45: RegisterMsg is sent on the initial connection, and the      *)
(* coordinator reads it first.  Requests of an earlier connection get ahead.*)
RegisterIsFirst == \A c \in Conns : first[c] # "other"

(* SPEC.md:125: registered follows a successful registration.  The session  *)
(* is routable before the coordinator sends it, and the agent gives up the  *)
(* connection when a request comes first.                                   *)
RegisteredComesFirst ==
  phase = "awaiting" /\ inbox[dialed] # <<>> => Head(inbox[dialed]).type = "registered"

(* SPEC.md:246: after a broken connection the backoff is 1s, 2s, 4s, ...    *)
(* Run keeps the wait it had reached before the connection stood.           *)
BackoffStartsOver ==
  [][InReadLoop /\ ~InReadLoop' => backoff' = ReconnectMin]_vars

(* SPEC.md:241: a cancel interrupts the request to the backend.             *)
CancelInterrupts ==
  \A q \in heeded : pc[q] \in {"calling", "responding"} => q \in cancelled

(* SPEC.md:237: every error of the backend is forwarded.                    *)
ErrorsAreForwarded ==
  \A q \in Requests :
    pc[q] = "done" /\ q \notin cancelled /\ open = 1..dialed => answers[q] # <<>>

(* agent.go:863: the type is stored for later requests.  It decides about   *)
(* the lines of earlier ones too, which lose those they have not read yet.  *)
TypeIsForLater == [][api' # api => \A q \in Requests : pc[q] # "responding"]_vars

(* SPEC.md:248: requests active when the connection breaks are lost.        *)
RequestsAreLost ==
  \A q \in Requests : \A i \in Arrived(q) : answers[q][i].on = issued[q]
==============================================================================
