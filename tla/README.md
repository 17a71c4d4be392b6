# gpumesh in TLA+

gpumesh connects people who own a GPU with people they invite. The owner runs a
*provider agent* next to a local backend (Ollama or an OpenAI-compatible server);
the agent keeps a WebSocket to the *coordinator*, which gives invited members an
OpenAI-compatible endpoint per machine and relays each chat request to the agent
and the tokens back. This directory models the parts of the Go code where
goroutines, statements and messages interleave, checks them with TLC and proves
the main invariants with TLAPS.

Paths are relative to the repository's root (`internal/coord/...`). SPEC-v2.md is
the specification in force; SPEC.md is the earlier one, which it refers to for the
behaviour of the agent (SPEC-v2.md:757).

## 1. Inventory

| Part | Code | State | Operations | Hard |
|---|---|---|---|---|
| Registry | `coord/registry.go` | `machines`: machine id → session; per session: relay channels by request id, load, `BackendOK` | Register, Unregister, GetSession, Increment/DecrementLoad, SetBackendOK, Register/UnregisterChunkChannel, CancelAllRequests, evictStale | goroutines hold pointers to replaced sessions; operations go by machine id; channels are closed in four ways; two locks |
| Provider endpoint | `coord/ws.go` | a goroutine per connection, its read loop and pings | accept, register, relay chunk/response/error, heartbeat, disconnect | lookup and send are apart; the end of an old connection meets a new one |
| Chat handlers | `coord/api.go` | a goroutine per request: session pointer, channel, timers, attempt | admit, stream, answer, retry, time out, release | four timers and a channel; deferred calls; retries after a reconnect |
| Store and access | `coord/store.go`, `keys.go`, `invites.go` | SQLite: keys, machines, invites, bindings | create, revoke, regenerate, invite, redeem, remove | handlers of several statements; checks outside of transactions; restarts |
| PIN limiter | `coord/invites.go` | attempts of users and addresses | allow | the window's edge; two keys in one call |
| Rate limiter | `coord/ratelimit.go` | token buckets | Allow, cleanup | deletion of a bucket is a refill |
| Owner statistics | `coord/registry.go`, `ws.go`, `server.go`, `store.go` | counters of each session, one row per owner | count a request or tokens, add to the row at once, at the end of a connection, every minute | increments under a read lock; the same token reaches the row on two ways; replaced sessions are forgotten |
| Provider agent | `provider/agent.go` | a.conn, a.backendType, load, cancel functions, write mutex | connect, discover, register, read, heartbeat, handle a request | goroutines outlive connections and share a.conn and the type of the backend |
| Messages | `proto/proto.go` | – | – | only their kinds matter here |
| Web: OAuth, pages, test mode | `coord/oauth.go`, `server.go`, `frontend.go`, `templates.go`, `testmode.go` | sessions in SQLite | login, render | single statements |
| Start and setup | `cmd/`, `coord/config.go`, `provider/wizard.go`, `discovery.go`, `hardware.go` | a config file | run once | none |

How they interact. A chat handler reads the store (`requireAPIKey`,
`CanAccessMachine`), takes a session from the registry, puts its channel into the
session and writes a request to the session's WebSocket. The agent's read loop
starts a goroutine for it, which calls the backend and writes chunks to whatever
connection is current. The coordinator's read loop looks the channel up by
machine id and request id and sends the chunk into it. Revocations change the
store first and then close sessions or channels in the registry. What makes each
part correct is listed with its properties below; `PROJECT.json` lists the
hazards at their lines.

## 2. Modules

| Module | Models | Reads as |
|---|---|---|
| `Relay` | registry, provider endpoint, chat handlers | every action is one critical section, one channel operation or one socket operation of one goroutine |
| `Access` | keys, machines, invites, bindings and the handlers that change them | every action is one SQL statement, one transaction or one call into the registry |
| `Completion` | what a client of a chat completion may rely on, over a medium that loses messages | every action is what a client or an agent does, in one step |
| `Membership` | what an invitation promises, without statements or handlers | every action is what an owner, an invited user or a removal does, in one step |
| `Agent` | the provider agent, with the registration half of the coordinator | every action is one critical section, one blocking call, or the beginning or end of a write |
| `Usage` | the counters of sessions and the owner's row | every action is a read or a write of a counter, or one SQL statement |
| `PinLimiter` | `pinLimiter.allow` | one action per call: calls hold the mutex |
| `RateLimiter` | `RateLimiter.Allow`, `cleanup` | one action per call |
| `RelayProofs`, `AccessProofs`, `AgentProofs`, `UsageProofs`, `PinLimiterProofs`, `RateLimiterProofs` | theorems and their proofs; in `AccessProofs` also that `Access` implements `Membership`, in `AgentProofs` that `Agent` implements the agent's half of `Completion` | extend the component and TLAPS |
| `HandlerProofs` | the theorems about waiting handlers and the order of a stream | extends `RelayProofs` |
| `CompletionProofs` | `Relay` implements `Completion` | extends `HandlerProofs` |
| `MCRelay`, `MCAccess`, `MCAgent`, `MCUsage`, `MCPinLimiter` | constants and symmetry for TLC | one `.cfg` per question |

### Relay

A *session* is one `MachineSession` object, that is one WebSocket connection; the
registry maps a machine to at most one of them. `sess[q]` is the pointer a chat
handler holds, which may be older than `registry[m]`. A request id is
`<<q, n>>`, attempt `n` of request `q`: a retry draws a new id.

* `chunkCh[s]` is the domain of the map of channels, `nilMap` the sessions whose
  map `Unregister` set to nil, `poisoned` those whose mutex a panicking handler
  left locked (`RegisterChunkChannel` has no deferred unlock). `buf` and `closed`
  are the channels.
* `conn[s]` follows `handleWSProvider`: `accepted` (key checked) → `open`
  (registered) → `lost` (the agent's end is gone) → `closed` (the read loop has
  returned) → `gone` (Unregister was called). An `open` connection is `stalled`
  when the agent reads no more and the buffers are full: `SendWS` has no deadline
  and holds `writeMu`, so a handler in it stays in phase `send` or `cancel` until
  the socket is closed. The coordinator's read deadline closes it, if the read
  loop is reading.
* `relay[s]` is the program counter of a read loop: it reads a message, finds the
  session, finds the channel, sends. The last two are separate actions because
  the code unlocks in between. `Acking` is the read loop inside of the `SendWS`
  that answers a heartbeat, which hangs on a stalled connection.
* `phase[q]` is that of a handler; streaming and non-streaming requests take the
  same steps in the order of their code (the channel is registered before the
  load is counted in one, after it in the other; deferred calls run in reverse).
* `late`, `dropped` and `overlapped` are history: a channel registered with a
  replaced session, a final message lost in a full channel, and how many releases of
  a slot ended while another update of the same load was between its read and its
  write. Loads change under a read lock, so updates overlap in every run: an update
  reads the load in one action and writes it in another, from what it read or from
  what is there by then.

The agent is an environment that answers with any legal sequence of messages.

`Completion` is the abstract specification: an attempt is one question, put at
most once, under an id of its own and before anyone answers it; a client sees only
answers to the question of its present attempt, each new to it; a good answer ends
the request, and only a question with an answer in one piece is put again, with a
new id. Registry, sessions, connections, read loops, channels and locks are one
medium that may lose what is under way. `Relay` maps to it with
`Asked == INSTANCE Completion WITH ...`: `UnderWay` is what is on a connection,
with a read loop that looks for its channel or in a channel; `Stage` joins the
phases of a handler to new, open, asked, ended and over. Reconnects, evictions,
revocations and the steps of read loops are losses or stutters.
`CompletionIsOneQuestion` is `Asked!Spec`. What an agent says may be lost before it is
under way (`Utter`), as a write that returned says nothing of its arrival. The agent in Relay's environment answers as
Completion lets it; that the code's agent does too is `AnswersQuestions` of Agent.

### Access

A machine is named by its provider key (`provider_key_id` is UNIQUE and rows are
not deleted). `keyState`, `machines`, `invKey`/`uses`/`maxUses`/`revoked`/`expired`,
`binding` and `consumer` are the tables. `joining`, `rotating`, `removing` and
`chat` are the program counters of handlers, one statement at a time; a `Crash`
ends all of them and keeps the tables. `granted`, `successor`, `swept`, `retired`
and `late` are history. Where `error` is among the `Faults` every statement of a revocation or
regeneration may fail, the lookups whose errors the code ignores included
(`AfterFailure`), and so may the one that counts an owner's use (store.go:809); a
failed transaction of RedeemPIN changes nothing. `handleRevokeKey` and `handleRegenerateKey` share their
actions: the second creates the new key after `RevokeKey` and the new machine
after `RetireMachine`.

`Membership` is the abstract specification: an invite has places, a closed one
admits nobody, and whoever is let in takes a place in the same step. `Access`
maps to it with `Promise == INSTANCE Membership WITH ...`: the places left are
`max_uses - use_count`, the closed invites the revoked ones, a member's invite the
one in `binding`. The lookup of the PIN, its checks and the other statements of a
handler are stutters; `RedemptionIsOneStep` is `[][Promise!Next]_Promise!vars`.

### Agent

`phase` is the goroutine of `Run` (dial, register, read, wait), `pc[q]` that of a
request, `beat[c]` the heartbeat loop started for connection `c`. `conn` is
`a.conn`, which all of them read before each write; `via[q]` and `beatVia[c]` are
what they read. `api` is `a.backendType`, which `Discover` rewrites on every
connect without a lock; `speaks[q]` is the API a handler called, whose format the
body has. A handler looks at the type twice for each line (`TearLine` is a line
for which the two looks differ) and skips what it does not understand
(`Understood`). A write has a beginning and an end, so that writes can meet: all
but the register message hold `writeMu`. What gorilla/websocket does when it
notices two writers (it panics) is `MayPanic`, a choice.

That a write returned nil means that the kernel took the bytes. From a `Cut` on, a
connection takes what is written to it and loses it, until a `Break` makes writes
fail; what a handler wrote is in `answers` with the connection it was written `on`
and whether it `arrives`. The handler does not see the difference: it goes on with
the next chunk, over the connection that `a.conn` is by then.

Agent maps to the same `Completion` as Relay, with
`Question == INSTANCE Completion WITH ...`: a request is asked when the coordinator
sends it and answered until its handler stands in `Over`, and `Heard` is every message
about it that arrived at the coordinator, on whatever connection; what was written and
does not arrive is lost at once (`Utter`). `AnswersQuestions` is
`Question!AgentHalf`: every step is the question or one of `Completion`'s agent steps
(`Say`, `Conclude`, `FallSilent`), or changes nothing of this view. Dials, heartbeats,
cancels and breaks are stutters.

### Usage

A counter of a session is the set of what it counts, so that an update that gets
lost under the read lock is seen, and its value is the size of the set; `home[i]` is
the session an item was counted on. `registry`, `stage` and `since` are the part
of Relay's connections that matters here; whether a message finds the channel of
its request is left open. `told` and `settled` are what the read loops and the
ends of connections have added to the row, `lost` what a failed statement or a
restart kept from it.

Clock and ticker are apart: `Pass` is a second, `fired` the channel of the ticker,
which holds one tick and drops the next. Its goroutine takes the tick
(`ReceiveTick`), looks up who is registered then (`AllSessions`) and adds `Tick`
seconds for each session in a statement of its own (`AddTick`), however short its
connection; `due` are those it has not come to. `Settle` adds the seconds of a
connection besides.

### PinLimiter and RateLimiter

Time is a number of instants that `Pass` advances. `PinLimiter` numbers the
attempts, so that the list of times becomes a set; `admitted` is the history that
`attempts` forgets. `RateLimiter` counts in fractions of a token, integers for the
code's floats, and keeps when requests passed.

## 3. Runs

Each property of a passing run has a mutant in `PROJECT.json`: a version of one
definition with a plausible bug, under which TLC finds that property violated.
The faulty definitions stand in the modules before the right ones.

| Run | Question and answer |
|---|---|
| `Relay_reconnect` | Two connections of a machine, a streaming and a non-streaming request that share one slot, dropped connections, silent agents: a session that is replaced or unregistered has woken its waiters (`ReplacedAreWoken`), the load leaves the number of slot holders by no more than the releases that overlapped another update (`LeaksAreOverlaps`), and the invariant of the proofs holds (`IndInv`). |
| `Relay_order` | Two read loops relaying at once, agent goroutines that survive a reconnect, cancellation: chunks arrive in order (`InOrder`), the registered session is lockable and closable (`RegisteredUsable`), waiting handlers can still be answered (`WaitersAreKnown`), and every handler returns unless its session's mutex was left locked (`HandlersReturn`). |
| `Relay_live` | A non-streaming request with a retry, silence, a drop, an agent that stops reading, an eviction and a revocation: attempts are bounded (`TypeOK`) and each is a question of its own, which no late answer to the one before can end (`CompletionIsOneQuestion`), the handler returns although a write to its agent may hang (`HandlersReturn`), and the machine of a revoked key goes offline for good although an accepted connection may still register (`RevokedGoesOffline`): its next heartbeat ends it. |
| `Access_members` | A member and the owner redeem an invite to one of two machines while it is revoked and expires, the member is removed, chats, and a key is revoked or regenerated: admissions stay within `max_uses` (`UsesWithinLimit`), a revoked invite admits nobody (`RevokedAdmitsNobody`), no redemption slips between the statements of RetireMachine (`RetirementHolds`), whoever streams was invited or owns the machine (`StreamsWereInvited`), and a revocation that is not interrupted leaves no old member (`RevocationCompletes`), and every redemption is one step of Membership (`RedemptionIsOneStep`). |
| `Access_rotate` | Two handlers revoke and regenerate three keys, with restarts and failing statements: a key is replaced at most once (`OneSuccessor`). |
| `Agent_requests` | A streaming and a non-streaming request with a limit of one, cancels, a connection that breaks, dials that fail, backends without models: cancel functions and handlers match (`CancelsBelongToHandlers`), the load counts the admitted handlers (`LoadIsCounted`), and every handler ends and gives both back (`HandlersFinish`). |
| `Agent_reconnect` | A stream over two connections that break, or lose what they take before they do, with a failing backend and a discovery that changes its mind about the type of the backend: old heartbeat loops leave the live connection to its read loop (`ReadLoopKeepsConn`), what arrives over one connection is a run of chunks, so that an answer has holes only where it changes connections (`HolesAreReconnects`), a request is one question that is answered in order and has one last word at most (`AnswersQuestions`), a stream on a connection that carries what is written ends with one (`StreamsAreEnded`), and the invariant of the proofs holds (`IndInv`). |
| `PinLimiter_window` | No window, wherever it lies, holds more attempts than the limit (`WindowHolds`); refusals are free (`RefusalsAreFree`). |
| `RateLimiter_throttle` | Requests stay within burst, refill and a tenth of a bucket for each cleanup, between any two instants (`Throttled`); what has passed and what is left are balanced (`IndInv`). |
| `Usage_counts` | Two connections of a machine, lost updates, ends, evictions and revocations, failing statements, the ticker and a restart: no token or request is in the row more than twice (`CountedAtMostTwice`), no token is missing unless its statement failed or a restart came first (`TokensKept`), uptime is at most twice the time of all connections and three ticks for each of them (`UptimeBounded`), and the invariant of the proofs holds (`IndInv`). |

Two more are run by hand. `Relay_question` is `CompletionIsOneQuestion` for a stream of
two chunks over two connections, with drops, silent agents, evictions and goroutines
that survive a reconnect; `Usage_ticks` is `IndInv` and `UptimeBounded` of Usage over
three periods of the ticker.

Two runs check a statement of a document or comment each and end with a
counterexample; `PROJECT.json` quotes the line under "findings".

| Run | What the code does |
|---|---|
| `Relay_panic` | A relay sends on a channel that CancelAllRequests closed after the lookup (ws.go:242): the process panics. |
| `Agent_writers` | `connect` writes register without the write mutex (agent.go:183) beside a request of the old connection. |

### Further counterexamples

Each of these configurations ends with a counterexample to the property it names;
the comment over the property quotes the sentence it states. They are run by
hand, for instance `tlc -config Relay_stale.cfg MCRelay.tla`, when the code they
are about is changed.

| Configuration | Module | What the code does |
|---|---|---|
| `Relay_capacity` | `MCRelay` | A request of a replaced session decrements the load of the new one, which then exceeds `max_concurrent` (registry.go:157), although the constraint `OneUpdate` keeps load updates from overlapping. |
| `Relay_leak` | `MCRelay` | Two DecrementLoads overlap under the read lock and one is lost: the slot stays taken for the life of the session (registry.go:157). |
| `Relay_overlap` | `MCRelay` | IncrementLoad checks and increments under a read lock: two requests take one slot (registry.go:142). |
| `Relay_stale` | `MCRelay` | The end of an old connection unregisters the new session (ws.go:152). |
| `Relay_evict` | `MCRelay` | Eviction leaves the WebSocket open (registry.go:375). |
| `Relay_poison` | `MCRelay` | A write to a nil map panics with the mutex held; other handlers of the session hang (registry.go:195). |
| `Relay_wedge` | `MCRelay` | The read loop hangs in the answer to a heartbeat of an agent that reads no more: nobody closes the socket, and a handler that writes to it never returns (registry.go:221). |
| `Access_cancel` | `MCAccess` | A request whose access was checked (api.go:145) before its member was removed streams afterwards. |
| `Access_partial` | `MCAccess` | A restart between RevokeKey and RetireMachine leaves members that nothing retires (keys.go:118). |
| `Access_gone` | `MCAccess` | A retired machine gets a new invite and a member (store.go:608). |
| `Access_keys` | `MCAccess` | Two joins of a user create two consumer keys (store.go:984). |
| `Agent_first` | `MCAgent` | A request of the old connection writes before register (agent.go:166). |
| `Agent_answer` | `MCAgent` | A request overtakes `registered`, and the agent drops the connection (ws.go:103). |
| `Agent_backoff` | `MCAgent` | A connection that stood is retried after the old backoff (agent.go:125). |
| `Agent_cancel` | `MCAgent` | A cancel before the goroutine has registered its function is lost (agent.go:315). |
| `Agent_silent` | `MCAgent` | A bad non-streaming body is not reported (agent.go:561). |
| `Agent_flip` | `MCAgent` | A discovery changes the type of the backend while a stream of the old type is read, which then skips its lines (agent.go:872). |
| `Agent_hole` | `MCAgent` | The network loses a chunk whose write returned nil, and the next chunk goes over the new connection: the answer has a hole (agent.go:542). |
| `Agent_survivor` | `MCAgent` | A request of a broken connection answers on the next (agent.go:306). |
| `RateLimiter_sweep` | `RateLimiter` | Cleanup refills nearly full buckets (ratelimit.go:104). |
| `Usage_tokens` | `MCUsage` | A token of a session that ends in the usual way is in the owner's row twice (ws.go:156). |
| `Usage_uptime` | `MCUsage` | A connection that is open for an instant around a tick is in the row with the whole period (server.go:194). |
| `Usage_requests` | `MCUsage` | The requests of a session that was replaced, evicted or revoked reach no total (registry.go:64). |

### Bounds

The runs of Relay use one machine; machines share nothing but the registry's
lock, and `RelayProofs` has no bound on them. Two sessions are what a reconnect
needs (an old connection and its successor), and two requests what a shared slot
needs. In `Relay_order` a channel holds one message where the code has 32 and an
agent sends two chunks before its final message, two messages in flight, so that
the channel does get full and two chunks can change places; `Relay_question` has
the same. One session is enough for
`Relay_live`: what a handler needs to return is on its own session, and a second
one comes in `Relay_order`, which checks `HandlersReturn` too. `MaxRetries` 2 in
`Relay_live` has a first attempt, a retry and the last refusal; the code has 3.
`Events` of Relay and Agent and `Faults` of Access name what an instance lets
happen, so that each run has the events its question is about.

`Access_members` has two machines, so that one may be a member (and have a
consumer key) without being one of the machine one asks for; its invite has one
use for two redemptions, and is created before or after the key is retired. Faults and redemptions are not combined in a run; the theorems of
`AccessProofs` cover them together. `Access_rotate` has the three keys that two
regenerations of one key need to go wrong; `SpareKey` keeps a key free for every
regeneration, as the code can always insert a row. `Agent_reconnect` has two
connections and two chunks: one that arrives or is lost, and one that goes over the
next connection; it checks safety only. `Agent_requests` is about two handlers that
meet, with one connection and answers of one message, and checks `HandlersFinish`.
`ReconnectMin` 4 is the smallest wait with a jitter and
`ReconnectMax` 8 one doubling. `PinLimiter` runs to instant 5 with a window of 3,
two windows that overlap; `RateLimiter` to 5 with sweeps at 2 and 4.
`Usage_counts` has two sessions, so that the end of one takes the counters of the
other, a request and two tokens, so that an update can be lost, and three seconds
with a tick of two, so that a tick finds sessions younger than itself; `Usage_ticks`
goes on to the third tick. `UsageProofs` has no such bound.

Deadlock is not checked: every instance has a last connection, request, join or
instant after which nothing is left to do. Hanging is a liveness question here
(`HandlersReturn`, `HandlersFinish`).

### Fairness

Relay: a goroutine that can take a step takes it (Go's scheduler), and the timers
of a handler end its wait (`TTFTTimeout`, `TotalRequestTimeout`). `ReadLoopEnds` is
fair because the coordinator sets a read deadline of 90 s that only pongs move
(ws.go:118), so a connection that is lost or reads no more ends; `AckReturns` is
fair once the connection is not stalled, `AckHangs` is never required. A handler in
`SendWS` is not fair while its connection is stalled: it is not enabled. Clients,
agents and administrators owe nothing. `HandlersReturn` names what this leaves
open: a mutex that a panic left locked, a process that died, and `Wedged`, a
handler that writes to a stalled agent whose read loop hangs in the answer to a
heartbeat. Access: a handler of revocation or regeneration that has begun goes
on, in a run without faults. Agent: handlers run and a write returns, since a connection that
is gone makes it fail; a handler that waits for `writeMu` gets it in the end (Go's
mutex is not starved, hence strong fairness); the backend answers within the
timeout of `httpClient`.

## 4. Proofs

Each component has an inductive invariant, which a run checks (`IndInv`; the
stronger `LoadInv`, `WaitInv`, `OrderInv`, `ChannelsKeepIds` and
`IdleHaveNoResult` of Relay are proved only), and the
theorems follow from it. All of them hold for any sets of machines,
sessions, requests, users, keys and handlers, any limits, any bounds and any choice
of events; Usage and Agent assume that their sets are finite, as their counters
are cardinalities.

`RelayProofs`, from the assumptions on the constants of Relay alone:

* `TypeCorrect` and `Inductive`: `IndInv` says that a request id is in the map of
  one session at most (`MappedIds`), that only ids of past attempts or attempts
  under way are closed (`ClosedIds`), that a handler's pointer is to a session
  that was registered (`HeldSessions`), and that a registered session has a map
  and none of its channels closed (`RegisteredAreLive`).
* `RegisteredStayUsable` needs all of it: closing a channel twice, or a write to a
  nil map, would need an id in two maps or a registered session that was
  unregistered, and a session is registered once.
* `ReplacedSessionsAreWoken` is a conjunct of `IndInv`.
* `LoadsStayOwned` holds for any overlap of updates under the read lock. `LoadInv`
  counts the handlers between the write of IncrementLoad and the end of
  DecrementLoad (`Counted`): the load of the registered session is their number,
  give or take the `overlapped` releases, and so is the value that an update under
  way has read and may still write back (`UpdatesAreCovered`, in the words of
  `Covers`). A session enters the registry with no load (`FreshLoads`), and no
  update is under way then, as `Register` takes the write lock. A
  release that overlaps nothing leaves nothing behind: a slot is lost only by the
  race that `Relay_leak.cfg` shows.

`HandlerProofs`, from the assumptions on the constants alone:

* `WaitersStayKnown` rests on `WaitInv`: from RegisterChunkChannel until its wait
  ends, a handler is `Answerable` (`ExpectingAreKnown`); nobody answers a request
  that was not sent (`MessagesWereSent`); and a read loop that is about to take a
  channel out of the map has put the final message into it, or lost it because the
  channel was full (`FinishedAreThere`). So an id leaves the map before its handler
  has its answer only where the code closes the channel.
* `StreamsStayInOrder` rests on `OrderInv`: while the session of a handler is
  registered, its answers come over that connection alone (`AnswersStayHome`), and
  from the client back through the channel, the read loop and the wire to the agent
  numbers only grow (`NumbersGrow`), because each of these keeps its order and a
  full channel only leaves messages out.

`CompletionProofs`: `CompletionRefines` is that Relay implements Completion, from the
assumptions on the constants alone and for any choice of events. Every step of a
connection, a read loop or an administrator loses something under way or nothing
(`ConnectionLoses`, `ReadLoopLoses`, `AdministrationLoses`), an agent's step is one of
Completion's (`AgentRefines`), and each step of a handler is one of its client's or
within a stage. It needs the invariants above and two more: a question is new when
it is put, to the agent, on the wires and in the channels (`QuestionIsNew`, from
`MessagesWereSent` and `UnsentAreEmpty`); what a handler takes from its channel
answers its question (`ChannelsKeepIds`) and is newer than what it showed
(`NumbersGrow`); and a request that is refused has no result (`IdleHaveNoResult`).

`AccessProofs`: `IndInv` says where handlers stand and what their statements
have established: a key under revocation is revoked, its invites are revoked once
swept, bindings stem from redemptions. From it follow `UsesStayWithinLimit`,
`RetirementIsFinal`, `KeysHaveOneSuccessor` and `StreamsStayInvited`;
`RevokedInvitesAdmitNobody` is an action property. `RetirementIsFinal` rests on
the order of the two statements: once the invites are revoked no redemption can
commit, so the second statement removes every binding there will be.

`RedemptionRefines`, also in `AccessProofs`, goes through the actions of Access one by one.
The transaction of RedeemPIN is an `Admit` or a `Visit`, because its conditional
UPDATE looks at `revoked` and `use_count` again; every other step is an `Offer`, a
`Close`, a `Dismiss` or a stutter.

`AgentProofs`: `IndInv` says that at most one connection is open and `a.conn` is it
or an older one (`OneConnection`), that a request starts one goroutine
(`OneGoroutine`), and what a handler has written so far by where it stands
(`HandlersKeepCount`). From it follow that the load is the number of admitted
handlers (`LoadStaysCounted`), that cancel functions are those of handlers
(`CancelsStayOwned`), that what arrives over one connection is a run of chunks
(`HolesOnlyAtReconnects`), that nothing follows a final message, that a stream on a
connection that carries what is written ends with one, and that an old heartbeat
loop never takes the live connection away (`ReadLoopKeeps`). `answers` has everything
that was taken from a handler, in order; a connection that is cut stays cut, so that
what does not arrive of one is a tail of what was written to it (`Carries` in
`KeepsCount`), and a hole needs another connection after it.
`AgentKeepsItsHalf` is that Agent implements the agent's half of Completion. A write
that is taken, whether or not it arrives, says the next piece or the last word (`WriteIsHeard`): `HandlersKeepCount`
gives that the chunk's own number is the next one, that only streams have chunks and
that nothing final came before, and `AfterWrite` that a handler is over after a final
message and only then (`HandlerAnswers`). That a request is new when it is sent
(`SendAsks`) needs `OneGoroutine`, and that an idle handler has answered nothing.

`UsageProofs`: an item is counted on one session only (`CountedAtHome`) and a session
whose counters went into the row, or into the hands of one connection's end, is
never registered again (`SettledOnce`); so `told` and `settled` each hold an item
once (`Balanced`), which gives `StatisticsAtMostTwice` and `StatisticsKeepTokens`.
`UptimeStaysBounded` is about sums of times, which would be an induction over the
set of sessions. `TimeCovered` counts pairs instead: `Standing` has every second
that a connection without an end has stood. The row, `Standing`, a tick for each
session that is `due` and what the ticker may still add for each open connection
(`Debt`: the tick in its channel, the one it has taken, and the part of the next that
has gone by) are at most twice the seconds served and three ticks for each
connection that was ever registered (`Begun`). A second adds one pair and one second
of debt for each open connection, which are two of those served; the end of a
connection moves what it has stood from `Standing` to the row; a registration brings
its three ticks along; and the ticker moves debt to the sessions it finds, which are
open ones (`RegisteredAreOpen`), and from there to the row.

`PinLimiterProofs`: `ForgottenAreOld` (what was forgotten is outside of the
window) makes `WindowHolds` inductive; the windows that end before now are
untouched, and the one that ends now is what the limiter counted.

`RateLimiterProofs`: `Balanced` adds what the bucket holds to what passed since any
earlier request: a request takes from the first and adds to the second, a second
adds to the first what the time gives, a sweep at most a tenth of a bucket.

Only model-checked are liveness and `ENABLED`, out of the prover's reach
(`HandlersReturn`, `RevokedGoesOffline`, `RevocationCompletes`, `HandlersFinish`).
Every other property of a passing run is a theorem.

## 5. Not modelled

OAuth, web sessions, pages, the test mode, configuration, the wizard and hardware
detection (single statements, rendering, input and output); discovery but for the
type it finds and whether there are models; payloads and their conversion (tool
calls, messages for Ollama, SSE framing); the health check loop of the agent, whose
flag nothing reads; pings; consumer keys that `handleCreateKey` creates (Access has
the ones of joins). What the code does with a full TCP buffer is `Stall`; buffers
themselves have no size here.

Hazards without a property are those where the code does what nobody wants and
promises nothing: a counterexample shows each, and `PROJECT.json` names it.

## 6. Plan

Done: every component above with its proofs, and the refinements of Membership and
Completion, the latter by Relay as a whole and by Agent for the agent's half.
The order was that of the damage a wrong step does: the relay plane, then who may
use it, then the agent, then statistics and limits.

Next, in this order:

1. A composition of Relay with Agent in one module, so that the environment of each is
   the other: so far they meet in Completion, which both implement. The same of
   Access with Relay's sessions.
2. Consumer keys, the listing of models by load, pings.
3. The pure helpers (tool calls, messages, prefixes, PIN normalisation) against
   reference definitions.
