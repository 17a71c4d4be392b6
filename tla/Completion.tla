------------------------------ MODULE Completion -----------------------------
(***************************************************************************)
(* What a client may rely on that asks for a chat completion: each attempt  *)
(* is one question, put to an agent at most once and under an id of its     *)
(* own, and what the client sees of it was said in answer to that question, *)
(* in that order and nothing twice.  A good answer is the last word: it     *)
(* ends the attempt and there is no other.  Only a question whose answer    *)
(* would have come in one piece is put again, and so many times at most.    *)
(*                                                                          *)
(* Registry, sessions, connections, channels and locks are one medium here  *)
(* that may lose whatever is under way, at any moment.                      *)
(***************************************************************************)
EXTENDS Integers

CONSTANTS
  Requests,
  Streams,     \* those that are answered piece by piece
  MaxAttempts

VARIABLES
  stage,       \* where a request stands
  attempt,     \* its attempt; <<q, attempt[q]>> is the id of the question
  outcome,     \* how the attempt ended
  shown,       \* the last piece of the answer that was handed on
  answering,   \* the questions an agent is answering
  said,        \* how many pieces of its answer it has said
  flight       \* what was said and has neither arrived nor been lost

vars == <<stage, attempt, outcome, shown, answering, said, flight>>

Ids == Requests \X (1..MaxAttempts)
Id(q) == <<q, attempt[q]>>
Endings == {"final", "error", "down"}

Init ==
  /\ stage = [q \in Requests |-> "new"]
  /\ attempt = [q \in Requests |-> 1]
  /\ outcome = [q \in Requests |-> "none"]
  /\ shown = [q \in Requests |-> 0]
  /\ answering = {}
  /\ said = [id \in Ids |-> 0]
  /\ flight = {}

Lossy == flight' \in SUBSET flight

Lose == Lossy /\ UNCHANGED <<stage, attempt, outcome, shown, answering, said>>

(* The request is taken on, or refused.                                     *)
Open(q) ==
  /\ stage[q] = "new" /\ stage' = [stage EXCEPT ![q] = "open"]
  /\ UNCHANGED <<attempt, outcome, shown, answering, said, flight>>

Refuse(q) ==
  /\ stage[q] = "new" /\ stage' = [stage EXCEPT ![q] = "over"]
  /\ UNCHANGED <<attempt, outcome, shown, answering, said, flight>>

(* The question is put.  It may not arrive; if it does it is a new one.     *)
Ask(q) ==
  /\ stage[q] = "open" /\ stage' = [stage EXCEPT ![q] = "asked"]
  /\ Id(q) \notin answering /\ said[Id(q)] = 0 /\ \A msg \in flight : msg.id # Id(q)
  /\ answering' \in {answering, answering \cup {Id(q)}}
  /\ UNCHANGED <<attempt, outcome, shown, said, flight>>

(* An agent says one more piece, says the last word, or falls silent.  What *)
(* it says may be lost before it is under way.                              *)
Utter(msg) == flight' \in {flight, flight \cup {msg}}

Say(id) ==
  /\ id \in answering /\ id[1] \in Streams
  /\ said' = [said EXCEPT ![id] = @ + 1]
  /\ Utter([id |-> id, kind |-> "chunk", n |-> said[id] + 1])
  /\ UNCHANGED <<stage, attempt, outcome, shown, answering>>

FallSilent(id) ==
  /\ id \in answering /\ answering' = answering \ {id}
  /\ said' = [said EXCEPT ![id] = 0]
  /\ UNCHANGED <<stage, attempt, outcome, shown, flight>>

Conclude(id, kind) ==
  /\ id \in answering /\ answering' = answering \ {id}
  /\ said' = [said EXCEPT ![id] = 0]
  /\ Utter([id |-> id, kind |-> kind, n |-> said[id] + 1])
  /\ UNCHANGED <<stage, attempt, outcome, shown>>

(* The client sees something that answers its question and is new to it.    *)
News(q, msg) == stage[q] = "asked" /\ msg.id = Id(q) /\ msg.n > shown[q]

End(q, how) ==
  /\ stage' = [stage EXCEPT ![q] = "ended"]
  /\ outcome' = [outcome EXCEPT ![q] = how]
  /\ shown' = [shown EXCEPT ![q] = 0]
  /\ UNCHANGED <<attempt, answering, said>>

Show(q, msg) ==
  /\ News(q, msg) /\ msg.kind = "chunk"
  /\ shown' = [shown EXCEPT ![q] = msg.n]
  /\ Lossy
  /\ UNCHANGED <<stage, attempt, outcome, answering, said>>

Answer(q, msg) == News(q, msg) /\ msg.kind = "final" /\ End(q, "ok") /\ Lossy

(* The attempt fails: by the agent's word, by a timer, with the connection. *)
Fail(q) == stage[q] \in {"open", "asked"} /\ End(q, "error") /\ Lossy

Retry(q) ==
  /\ stage[q] = "ended" /\ stage' = [stage EXCEPT ![q] = "open"]
  /\ outcome[q] # "ok" /\ outcome' = [outcome EXCEPT ![q] = "none"]
  /\ q \notin Streams /\ attempt[q] < MaxAttempts
  /\ attempt' = [attempt EXCEPT ![q] = @ + 1]
  /\ UNCHANGED <<shown, answering, said, flight>>

Finish(q) ==
  /\ stage[q] = "ended" /\ stage' = [stage EXCEPT ![q] = "over"]
  /\ Lossy
  /\ UNCHANGED <<attempt, outcome, shown, answering, said>>

Client(q) ==
  \/ Open(q) \/ Refuse(q) \/ Ask(q) \/ Fail(q) \/ Retry(q) \/ Finish(q)
  \/ \E msg \in flight : Show(q, msg) \/ Answer(q, msg)
Agent(id) == Say(id) \/ FallSilent(id) \/ \E kind \in Endings : Conclude(id, kind)

Next ==
  \/ \E q \in Requests : Client(q)
  \/ \E id \in Ids : Agent(id)
  \/ Lose

Spec == Init /\ [][Next]_vars

(* The half of it that an agent has to keep: it says nothing before it is    *)
(* asked, and every step that asks it or that it takes is one of the above. *)
AgentHalf ==
  /\ answering = {} /\ flight = {}
  /\ [][(\E q \in Requests : Ask(q)) \/ (\E id \in Ids : Agent(id))]_vars
==============================================================================
