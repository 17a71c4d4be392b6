-------------------------------- MODULE Usage --------------------------------
(***************************************************************************)
(* The statistics of an owner: SessionRequests and SessionTokens of the     *)
(* registered sessions (coord/registry.go), counted under a read lock only, *)
(* and the row of owner_stats (coord/store.go) to which the read loops, the *)
(* ends of connections (coord/ws.go) and a ticker (coord/server.go) add.    *)
(* All machines here are those of one owner, whose row it is.               *)
(*                                                                          *)
(* A counter of a session is the set of what it counts, so that an update   *)
(* that gets lost is seen; its value is the size of that set.  Whether a    *)
(* message finds the channel of its request, and with it the counting       *)
(* code, is the subject of Relay: here it is left open.                     *)
(*                                                                          *)
(* KeepsSession, AnswersAnyone, GivesUp and StartsAtZero are faulty         *)
(* versions of the definition that follows each: no action uses them, they  *)
(* show which fault each property finds.                                    *)
(***************************************************************************)
EXTENDS Integers, FiniteSets

CONSTANTS
  Machines,    \* the owner's machines
  Sessions,    \* MachineSession objects (one per WebSocket connection)
  MachineOf,   \* [Sessions -> Machines]
  NoSession,   \* the nil *MachineSession
  Requests,    \* attempts at a chat request
  Tokens,      \* tokens the agents send: a chunk is one, a response is several
  Tick,        \* what the ticker adds: its period, 60 seconds
  MaxTime,     \* bound: seconds that pass
  Events       \* bound: the events of AllEvents that may happen

(* A key is revoked or regenerated or the session evicted; a statement that *)
(* fails, whose error is ignored or logged; the coordinator is restarted.   *)
AllEvents == {"discard", "fail", "crash"}

ASSUME SessionsAssumption ==
  NoSession \notin Sessions /\ IsFiniteSet(Sessions) /\ MachineOf \in [Sessions -> Machines]
ASSUME ItemsAssumption ==
  IsFiniteSet(Requests) /\ IsFiniteSet(Tokens) /\ Requests \cap Tokens = {}
ASSUME ReadersAssumption == Requests \cap Sessions = {}
ASSUME TickAssumption == Tick \in Nat \ {0}
ASSUME BoundsAssumption == MaxTime \in Nat /\ Events \subseteq AllEvents

Items == Requests \cup Tokens
Value(items, kind) == Cardinality(items \cap kind)

VARIABLES
  now,            \* seconds since the start
  elapsed,        \* seconds since the ticker fired
  fired,          \* whether its channel, which has room for one, holds a tick
  ticking,        \* whether its goroutine has taken a tick
  due,            \* the sessions that it still has to add that tick for
  registry,       \* Registry.machines: machine -> session or NoSession
  stage,          \* where handleWSProvider stands with a connection
  since,          \* MachineSession.ConnectedAt
  counts,         \* SessionRequests and SessionTokens: what they count
  home,           \* the session whose counter counts, or will count, an item
  seen,           \* the counter read by an update under way
  step,           \* where the read loop of a connection stands
  batch,          \* what it is counting
  took,           \* the session whose counters the end of a connection got
  totalRequests,  \* owner_stats.total_requests
  totalTokens,    \* owner_stats.total_tokens
  totalUptime,    \* owner_stats.total_uptime_seconds
  admitted,       \* requests that IncrementLoad let through
  answered,       \* requests whose response told how many tokens it has
  relayed,        \* tokens that reached the counting code
  told,           \* what the read loops have added to the row
  settled,        \* what the ends of connections have added to the row
  lost,           \* what a failed statement or a crash kept from the row
  served          \* seconds of all connections together

registryVars == <<registry, stage, since>>
countVars    == <<counts, home, seen, step, batch>>
ticker       == <<elapsed, fired, ticking, due>>
totals       == <<totalRequests, totalTokens, totalUptime>>
ghosts       == <<admitted, answered, relayed, told, settled, lost, served>>
vars == <<now, ticker, registryVars, countVars, took, totals, ghosts>>

Connected == {"greeting", "serving", "closed", "settling"}

TickerOK ==
  /\ elapsed \in 0..Tick - 1 /\ fired \in BOOLEAN /\ ticking \in BOOLEAN
  /\ due \in SUBSET Sessions
TypeOK ==
  /\ now \in Nat /\ TickerOK
  /\ registry \in [Machines -> Sessions \cup {NoSession}]
  /\ stage \in [Sessions -> Connected \cup {"none", "gone"}]
  /\ since \in [Sessions -> Nat] /\ \A s \in Sessions : since[s] <= now
  /\ counts \in [Sessions -> SUBSET Items]
  /\ home \in [Items -> Sessions \cup {NoSession}]
  /\ seen \in [Requests \cup Sessions -> SUBSET Items]
  /\ step \in [Sessions -> {"read", "add", "adding", "tell"}]
  /\ batch \in [Sessions -> SUBSET Items]
  /\ took \in [Sessions -> Sessions \cup {NoSession}]
  /\ totalRequests \in Nat /\ totalTokens \in Nat /\ totalUptime \in Nat
  /\ admitted \in SUBSET Requests /\ answered \in SUBSET admitted
  /\ relayed \in SUBSET Tokens
  /\ told \in SUBSET Items /\ settled \in SUBSET Items /\ lost \in SUBSET Items
  /\ served \in Nat

Init ==
  /\ now = 0 /\ elapsed = 0 /\ fired = FALSE /\ ticking = FALSE /\ due = {}
  /\ registry = [m \in Machines |-> NoSession]
  /\ stage = [s \in Sessions |-> "none"] /\ since = [s \in Sessions |-> 0]
  /\ counts = [s \in Sessions |-> {}]
  /\ home = [i \in Items |-> NoSession]
  /\ seen = [a \in Requests \cup Sessions |-> {}]
  /\ step = [s \in Sessions |-> "read"] /\ batch = [s \in Sessions |-> {}]
  /\ took = [s \in Sessions |-> NoSession]
  /\ totalRequests = 0 /\ totalTokens = 0 /\ totalUptime = 0
  /\ admitted = {} /\ answered = {} /\ relayed = {}
  /\ told = {} /\ settled = {} /\ lost = {}
  /\ served = 0

Current(s) == registry[MachineOf[s]]
Registered == {s \in Sessions : Current(s) = s}

(* The registry lock: a counter is read and written with a read lock held,  *)
(* Register, Unregister and evictStale take the write lock.                 *)
Counting(q) == home[q] # NoSession /\ q \notin admitted
WriteLocked ==
  (\A q \in Requests : ~Counting(q)) /\ (\A s \in Sessions : step[s] # "adding")
------------------------------------------------------------------------------
(* Connections: handleWSProvider and those who end one from outside.        *)

(* Registry.Register.  What a replaced session has counted is forgotten.    *)
Register(s) ==
  /\ stage[s] = "none" /\ WriteLocked
  /\ registry' = [registry EXCEPT ![MachineOf[s]] = s]
  /\ stage' = [stage EXCEPT ![s] = "greeting"]
  /\ since' = [since EXCEPT ![s] = now]
  /\ UNCHANGED <<now, ticker, countVars, took, totals, ghosts>>

Greet(s) ==
  /\ stage[s] = "greeting"
  /\ stage' = [stage EXCEPT ![s] = "serving"]
  /\ UNCHANGED <<now, ticker, registry, since, countVars, took, totals, ghosts>>

(* Registry.Unregister.  It returns the counters of whichever session is    *)
(* registered; nobody counts on it any more, so the model does not copy it. *)
KeepsSession(m) == WriteLocked /\ registry' = registry
Unregister(m) == WriteLocked /\ registry' = [registry EXCEPT ![m] = NoSession]

(* The registered message cannot be sent: the counters are not looked at.   *)
GreetingFails(s) ==
  /\ stage[s] = "greeting" /\ Unregister(MachineOf[s])
  /\ stage' = [stage EXCEPT ![s] = "gone"]
  /\ UNCHANGED <<now, ticker, since, countVars, took, totals, ghosts>>

Close(s) ==
  /\ stage[s] = "serving" /\ step[s] = "read"
  /\ stage' = [stage EXCEPT ![s] = "closed"]
  /\ UNCHANGED <<now, ticker, registry, since, countVars, took, totals, ghosts>>

(* The end of a connection: there is something to add when a session was    *)
(* registered and has counted.                                              *)
Disconnect(s) ==
  LET t == Current(s) IN
  /\ stage[s] = "closed" /\ Unregister(MachineOf[s])
  /\ IF t # NoSession /\ counts[t] # {}
     THEN stage' = [stage EXCEPT ![s] = "settling"] /\ took' = [took EXCEPT ![s] = t]
     ELSE stage' = [stage EXCEPT ![s] = "gone"] /\ took' = took
  /\ UNCHANGED <<now, ticker, since, countVars, totals, ghosts>>

(* handleRevokeKey and handleRegenerateKey ignore what Unregister returns,  *)
(* evictStale returns nothing.                                              *)
Discard(m) ==
  /\ "discard" \in Events /\ registry[m] # NoSession /\ Unregister(m)
  /\ UNCHANGED <<now, ticker, stage, since, countVars, took, totals, ghosts>>
------------------------------------------------------------------------------
(* The counters of a session.                                               *)

(* The counter of new items: one that reads old may write it plus these.    *)
Counter(t, kind) == counts[t] \cap kind
Count(t, kind, old, new) == counts' = [counts EXCEPT ![t] = (@ \ kind) \cup old \cup new]

(* IncrementLoad: SessionRequests++ on the session that is registered.      *)
ReadRequests(q, m) ==
  LET t == registry[m] IN
  /\ home[q] = NoSession /\ t # NoSession
  /\ home' = [home EXCEPT ![q] = t]
  /\ seen' = [seen EXCEPT ![q] = Counter(t, Requests)]
  /\ UNCHANGED <<now, ticker, registryVars, counts, step, batch, took, totals, ghosts>>

WriteRequests(q) ==
  LET t == home[q] IN
  /\ Counting(q)
  /\ \E old \in {seen[q], Counter(t, Requests)} : Count(t, Requests, old, {q})
  /\ seen' = [seen EXCEPT ![q] = {}]
  /\ admitted' = admitted \cup {q}
  /\ UNCHANGED <<now, ticker, registryVars, home, step, batch, took, totals, answered, relayed, told,
                 settled, lost, served>>

(* relayChunk counts one token, relayResponse those of the usage it got,    *)
(* and the request with them.                                               *)
Read(s, items) ==
  /\ stage[s] = "serving" /\ step[s] = "read" /\ Current(s) # NoSession
  /\ step' = [step EXCEPT ![s] = "add"] /\ batch' = [batch EXCEPT ![s] = items]
  /\ relayed' = relayed \cup (items \cap Tokens)
  /\ answered' = answered \cup (items \cap Requests)
  /\ UNCHANGED <<now, ticker, registryVars, counts, home, seen, took, totals, admitted, told,
                 settled, lost, served>>

AnswersAnyone == Requests \ answered
Waiting == admitted \ answered
RelayChunk(s) == \E n \in Tokens \ relayed : Read(s, {n})
RelayResponse(s) ==
  \E q \in Waiting, used \in (SUBSET (Tokens \ relayed)) \ {{}} :
    Read(s, {q} \cup used)

(* AddTokens: SessionTokens += n on the session that is registered now, if  *)
(* there is one.                                                            *)
GivesUp(s) == step' = [step EXCEPT ![s] = "read"] /\ batch' = [batch EXCEPT ![s] = {}]
WithoutSession(s) == step' = [step EXCEPT ![s] = "tell"] /\ batch' = batch
ReadTokens(s) ==
  LET t == Current(s) IN
  /\ step[s] = "add"
  /\ IF t = NoSession
     THEN WithoutSession(s) /\ UNCHANGED <<home, seen>>
     ELSE /\ step' = [step EXCEPT ![s] = "adding"] /\ batch' = batch
          /\ home' = [i \in Items |-> IF i \in batch[s] \cap Tokens THEN t ELSE home[i]]
          /\ seen' = [seen EXCEPT ![s] = Counter(t, Tokens)]
  /\ UNCHANGED <<now, ticker, registryVars, counts, took, totals, ghosts>>

WriteTokens(s) ==
  LET t == Current(s) IN
  /\ step[s] = "adding"
  /\ \E old \in {seen[s], Counter(t, Tokens)} :
       Count(t, Tokens, old, batch[s] \cap Tokens)
  /\ seen' = [seen EXCEPT ![s] = {}]
  /\ step' = [step EXCEPT ![s] = "tell"]
  /\ UNCHANGED <<now, ticker, registryVars, home, batch, took, totals, ghosts>>
------------------------------------------------------------------------------
(* The row: UpdateOwnerStats is one statement that adds.                    *)

Add(items, uptime) ==
  /\ totalRequests' = totalRequests + Value(items, Requests)
  /\ totalTokens' = totalTokens + Value(items, Tokens)
  /\ totalUptime' = totalUptime + uptime

(* What the read loop has relayed.  The error is ignored.                   *)
Tell(s) ==
  /\ step[s] = "tell"
  /\ Add(batch[s], 0)
  /\ told' = told \cup batch[s]
  /\ step' = [step EXCEPT ![s] = "read"] /\ batch' = [batch EXCEPT ![s] = {}]
  /\ UNCHANGED <<now, ticker, registryVars, counts, home, seen, took, admitted, answered, relayed,
                 settled, lost, served>>

TellFails(s) ==
  /\ "fail" \in Events /\ step[s] = "tell"
  /\ lost' = lost \cup batch[s]
  /\ step' = [step EXCEPT ![s] = "read"] /\ batch' = [batch EXCEPT ![s] = {}]
  /\ UNCHANGED <<now, ticker, registryVars, counts, home, seen, took, totals, admitted, answered,
                 relayed, told, settled, served>>

(* The counters that Unregister returned, and the time since this           *)
(* connection was registered, whose counters they need not be.              *)
StartsAtZero(s) == now + 10 * Tick
Uptime(s) == now - since[s]
Settle(s) ==
  /\ stage[s] = "settling"
  /\ Add(counts[took[s]], Uptime(s))
  /\ settled' = settled \cup counts[took[s]]
  /\ stage' = [stage EXCEPT ![s] = "gone"]
  /\ UNCHANGED <<now, ticker, registry, since, countVars, took, admitted, answered, relayed, told,
                 lost, served>>

SettleFails(s) ==
  /\ "fail" \in Events /\ stage[s] = "settling"
  /\ stage' = [stage EXCEPT ![s] = "gone"]
  /\ UNCHANGED <<now, ticker, registry, since, countVars, took, totals, ghosts>>

(* A second passes.  A tick that finds the channel full is dropped.          *)
Open == {s \in Sessions : stage[s] \in Connected}
Pass ==
  /\ now < MaxTime
  /\ now' = now + 1
  /\ elapsed' = (elapsed + 1) % Tick
  /\ fired' = (fired \/ elapsed' = 0)
  /\ served' = served + Cardinality(Open)
  /\ UNCHANGED <<ticking, due, registryVars, countVars, took, totals, admitted, answered,
                 relayed, told, settled, lost>>

(* The ticker of ListenAndServe: it adds its period for every session that  *)
(* it finds in the registry, however long that one is there, in a statement *)
(* for each, whose error is ignored.                                        *)
ReceiveTick ==
  /\ fired /\ ~ticking /\ due = {}
  /\ fired' = FALSE /\ ticking' = TRUE
  /\ UNCHANGED <<now, elapsed, due, registryVars, countVars, took, totals, ghosts>>

AllSessions ==
  /\ ticking
  /\ ticking' = FALSE /\ due' = Registered
  /\ UNCHANGED <<now, elapsed, fired, registryVars, countVars, took, totals, ghosts>>

AddTick(s) ==
  /\ s \in due
  /\ due' = due \ {s}
  /\ Add({}, Tick)
  /\ UNCHANGED <<now, elapsed, fired, ticking, registryVars, countVars, took, ghosts>>

AddTickFails(s) ==
  /\ "fail" \in Events /\ s \in due
  /\ due' = due \ {s}
  /\ UNCHANGED <<now, elapsed, fired, ticking, registryVars, countVars, took, totals, ghosts>>

(* The process ends and starts again: the row is all that is left.          *)
Crash ==
  /\ "crash" \in Events
  /\ elapsed' = 0 /\ fired' = FALSE /\ ticking' = FALSE /\ due' = {}
  /\ registry' = [m \in Machines |-> NoSession]
  /\ stage' = [s \in Sessions |-> IF stage[s] = "none" THEN "none" ELSE "gone"]
  /\ home' = [i \in Items |-> IF i \in Requests \ admitted THEN NoSession ELSE home[i]]
  /\ seen' = [a \in Requests \cup Sessions |-> {}]
  /\ step' = [s \in Sessions |-> "read"] /\ batch' = [s \in Sessions |-> {}]
  /\ lost' = lost \cup UNION {batch[s] : s \in Sessions}
  /\ UNCHANGED <<now, since, counts, took, totals, admitted, answered, relayed, told,
                 settled, served>>

Connection(s) ==
  \/ Register(s) \/ Greet(s) \/ GreetingFails(s) \/ Close(s) \/ Disconnect(s)
  \/ Settle(s) \/ SettleFails(s)
ReadLoop(s) ==
  \/ RelayChunk(s) \/ RelayResponse(s) \/ ReadTokens(s) \/ WriteTokens(s)
  \/ Tell(s) \/ TellFails(s)
Admission(q) == WriteRequests(q) \/ \E m \in Machines : ReadRequests(q, m)
Ticker == ReceiveTick \/ AllSessions \/ \E s \in Sessions : AddTick(s) \/ AddTickFails(s)

Next ==
  \/ \E s \in Sessions : Connection(s) \/ ReadLoop(s)
  \/ \E q \in Requests : Admission(q)
  \/ \E m \in Machines : Discard(m)
  \/ Pass \/ Ticker \/ Crash

Spec == Init /\ [][Next]_vars
------------------------------------------------------------------------------
(* A token is in the row twice at most, from its read loop and from the end *)
(* of a connection, and so is a request: no order of reconnections, ends,   *)
(* revocations and lost updates settles a session twice.                    *)
CountedAtMostTwice ==
  /\ totalTokens <= 2 * Cardinality(relayed)
  /\ totalRequests <= Cardinality(admitted) + Cardinality(answered)

(* A token is in the row once at least, whatever becomes of the session it  *)
(* was counted on, unless its statement failed or a crash came before it.   *)
InFlight == UNION {batch[s] : s \in Sessions}
TokensKept ==
  Cardinality(relayed) <= totalTokens + Value(lost \cup InFlight, Tokens)

(* The uptime in the row is twice the time of all connections, which the    *)
(* ticker counts by session and the end by connection, and three ticks for  *)
(* each connection at most: one that the ticker has taken, one in its       *)
(* channel and one that fires next, however short the connection.           *)
Begun == {s \in Sessions : stage[s] # "none"}
UptimeBounded == totalUptime <= 2 * served + 3 * Tick * Cardinality(Begun)

(* The inductive invariant behind CountedAtMostTwice and TokensKept.  The   *)
(* home of an item is the only session that counts it, and a session whose  *)
(* counters went into the row, or into the hands of one connection's end,   *)
(* is never registered again.                                               *)
Balanced ==
  /\ totalTokens = Value(told, Tokens) + Value(settled, Tokens)
  /\ totalRequests = Value(told, Requests) + Value(settled, Requests)
Existing == answered \cup relayed
ReadersApart ==
  \A s \in Sessions :
    /\ batch[s] \subseteq Existing \ told
    /\ step[s] = "read" => batch[s] = {}
    /\ step[s] = "add" =>
         \A i \in batch[s] \cap Tokens : home[i] = NoSession
    /\ step[s] = "adding" =>
         /\ Current(s) # NoSession
         /\ \A i \in batch[s] \cap Tokens : home[i] = Current(s)
    /\ \A r \in Sessions \ {s} : batch[r] \cap batch[s] = {}
NoneMissing == told \subseteq Existing /\ relayed \subseteq told \cup lost \cup InFlight
CountedAtHome ==
  /\ \A s \in Sessions : \A i \in counts[s] : home[i] = s /\ i \in admitted \cup relayed
  /\ \A q \in Requests : \A i \in seen[q] :
       Counting(q) => home[i] = home[q] /\ i \in admitted
  /\ \A s \in Sessions : \A i \in seen[s] :
       step[s] = "adding" => home[i] = Current(s) /\ i \in relayed
  /\ \A i \in Tokens \ relayed : home[i] = NoSession
  /\ \A q \in admitted : home[q] # NoSession
Spent(s) == Current(s) # s /\ stage[s] # "none"
SettledOnce ==
  /\ \A m \in Machines : registry[m] # NoSession =>
       MachineOf[registry[m]] = m /\ stage[registry[m]] # "none"
  /\ \A s \in Sessions : stage[s] = "settling" => took[s] # NoSession /\ Spent(took[s])
  /\ \A r, s \in Sessions :
       stage[r] = "settling" /\ stage[s] = "settling" /\ took[r] = took[s] => r = s
  /\ \A i \in settled :
       /\ i \in admitted \cup relayed /\ home[i] # NoSession /\ Spent(home[i])
       /\ \A s \in Sessions : stage[s] = "settling" => took[s] # home[i]

(* And behind UptimeBounded: what is registered is connected, and what is   *)
(* in the row leaves room for the seconds that the present connections have *)
(* stood, which their ends may add, for the sessions still due, and for the *)
(* ticks and the part of one that the ticker may add for each connection.   *)
Standing == {p \in Sessions \X (1..now) : stage[p[1]] \in Connected /\ since[p[1]] < p[2]}
Ticks(b) == IF b THEN Tick ELSE 0
Debt == Ticks(fired) + Ticks(ticking) + elapsed
RegisteredAreOpen ==
  \A m \in Machines : registry[m] # NoSession =>
    stage[registry[m]] \in {"greeting", "serving", "closed"}
TimeCovered ==
  totalUptime + Cardinality(Standing) + Tick * Cardinality(due) + Debt * Cardinality(Open)
    <= 2 * served + 3 * Tick * Cardinality(Begun)
IndInv ==
  /\ TypeOK /\ Balanced /\ ReadersApart /\ NoneMissing /\ CountedAtHome /\ SettledOnce
  /\ RegisteredAreOpen /\ TimeCovered
------------------------------------------------------------------------------
(* What the documentation says and the code does not do.                    *)

(* registry.go:316: the badge is that of the lifetime token count.  A token *)
(* of a session that ends in the usual way is in the row twice.             *)
TokensOnce == totalTokens <= Cardinality(relayed)

(* SPEC.md:624: one row per user, aggregated over all his connections.  The *)
(* seconds of a connection of two seconds around a tick are in it 31 times. *)
UptimeOnce == totalUptime <= served

(* SPEC-v2.md:460: lifetime statistics of the owner.  The requests of a     *)
(* session that was replaced, evicted or revoked are in no total.           *)
RequestsKept ==
  (\A s \in Sessions : stage[s] \in {"none", "gone"}) /\ "crash" \notin Events =>
    totalRequests >= Cardinality(admitted)
==============================================================================
