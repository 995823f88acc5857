--------------------------- MODULE RoomCoordinator ---------------------------
(***************************************************************************)
(* cybercore.communication: RoomCoordinator.submit_text, called by several *)
(* clients of one room.  The text is appended, the selected agents are     *)
(* asked one after the other, and a reply or an error is appended for      *)
(* each.  The gateway may raise, before or after it stored the event.      *)
(***************************************************************************)
EXTENDS Integers, Sequences, FiniteSets, Functions

CONSTANTS
  Submits,   \* the calls of submit_text and submit_voice_transcript
  Addressed, \* Addressed[s]: the agents the target of call s stands for, all of them for "*"
  Agents,    \* the agents there may be, as numbers: their priority
  Online     \* those that are online

\* What is assumed of the constants: 0 stands for the user.
RoomAssumption == Agents \subseteq Nat \ {0}

VARIABLES
  room,     \* the stored events of the room
  registry, \* the registered agents
  submit    \* submit[s]: where the call is, the agents left to ask, and what it returns

roomVars == <<room, registry, submit>>

RoomInit ==
  /\ room = <<>> /\ registry = {}
  /\ submit = [s \in Submits |-> [pc |-> "start", left |-> <<>>, appended |-> <<>>, heard |-> {}]]

Event(s, kind, agent) == [submit |-> s, kind |-> kind, agent |-> agent]

\* The registered agents that are online and meant ...
Select(target) == registry \cap Online \cap target

\* ... and the order they are asked in, their priority.
ByPriority(chosen) ==
  {order \in [1..Cardinality(chosen) -> chosen] :
     Range(order) = chosen /\ \A i, j \in DOMAIN order : i < j => order[i] < order[j]}

\* An agent is registered once.
Register(a) == a \notin registry /\ registry' = registry \cup {a} /\ UNCHANGED <<room, submit>>

SubmitTo(s, l) == submit' = [submit EXCEPT ![s].pc = l]

\* gateway.append: stored and returned, stored although it raises, or not stored.
Stored(e) == room' = Append(room, e)
GatewayRaises(e) == room' \in {room, Append(room, e)}

AppendUser(s, next) ==
  /\ submit[s].pc = "start" /\ UNCHANGED registry
  /\ LET e == Event(s, "user", 0) IN
     \/ Stored(e) /\ submit' = [submit EXCEPT ![s].appended = <<e>>, ![s].pc = next]
     \/ GatewayRaises(e) /\ SubmitTo(s, "raised")

\* A transcript is appended; no agent is asked about it.
SubmitVoiceTranscript(s) == AppendUser(s, "returned")
SubmitText(s) == AppendUser(s, "select")

SelectAgents(s) ==
  /\ submit[s].pc = "select"
  /\ \E order \in ByPriority(Select(Addressed[s])) :
       submit' = [submit EXCEPT ![s].left = order, ![s].pc = "ask"]
  /\ UNCHANGED <<room, registry>>

\* The next agent answers, has nothing to say, or fails; after the last one the call returns.
Ask(s) ==
  /\ submit[s].pc = "ask" /\ UNCHANGED <<room, registry>>
  /\ IF submit[s].left = <<>> THEN SubmitTo(s, "returned")
     ELSE \/ \E l \in {"reply", "error"} :
               submit' = [submit EXCEPT ![s].pc = l, ![s].heard = @ \cup {Head(submit[s].left)}]
          \/ submit' = [submit EXCEPT ![s].left = Tail(@)]

AppendedNext(s, e) ==
  submit' = [submit EXCEPT ![s].appended = Append(@, e), ![s].left = Tail(@), ![s].pc = "ask"]

\* The reply is appended; an error of the gateway is taken for one of the agent.
AppendReply(s) ==
  /\ submit[s].pc = "reply" /\ UNCHANGED registry
  /\ LET e == Event(s, "reply", Head(submit[s].left)) IN
     \/ Stored(e) /\ AppendedNext(s, e)
     \/ GatewayRaises(e) /\ SubmitTo(s, "error")

\* Mutant: when the error cannot be appended the next agent is asked.
AppendErrorLax(s) ==
  /\ submit[s].pc = "error" /\ UNCHANGED registry
  /\ LET e == Event(s, "error", Head(submit[s].left)) IN
     \/ Stored(e) /\ AppendedNext(s, e)
     \/ GatewayRaises(e) /\ submit' = [submit EXCEPT ![s].left = Tail(@), ![s].pc = "ask"]

\* The error is appended in the name of the system; if that raises, so does the call.
AppendError(s) ==
  /\ submit[s].pc = "error" /\ UNCHANGED registry
  /\ LET e == Event(s, "error", Head(submit[s].left)) IN
     \/ Stored(e) /\ AppendedNext(s, e)
     \/ GatewayRaises(e) /\ SubmitTo(s, "raised")

RoomNext ==
  \/ \E a \in Agents : Register(a)
  \/ \E s \in Submits : SubmitText(s) \/ SubmitVoiceTranscript(s) \/ SelectAgents(s) \/ Ask(s) \/ AppendReply(s) \/ AppendError(s)

-----------------------------------------------------------------------------
Own(s) == {i \in DOMAIN room : room[i].submit = s}
Returned(s) == submit[s].appended
Reports(s, a) == \E e \in Range(Returned(s)) : e.agent = a
ErrorOf(s, a) == Event(s, "error", a) \in Range(Returned(s))

\* What a call returns is stored once, after what it returns before it.
StoredInOrder(s) ==
  \A k \in DOMAIN Returned(s) : \E i \in DOMAIN room :
    /\ room[i] = Returned(s)[k] /\ \A j \in DOMAIN room : room[j] = Returned(s)[k] => j = i
    /\ \A l \in DOMAIN Returned(s), j \in DOMAIN room : l < k /\ room[j] = Returned(s)[l] => j < i

\* Whatever is stored of a call comes after the text that caused it.
CauseFirst(s) == \A i \in Own(s) : \E j \in Own(s) : j <= i /\ room[j].kind = "user"

\* An agent has one event among those that a call returns, by priority.
OneByOne(s) ==
  \A k, l \in DOMAIN Returned(s) : k < l => Returned(s)[k].agent < Returned(s)[l].agent

\* Nobody's words are lost: the room holds what a call returns, in that order, after the text
\* that caused it; every agent that answered or failed is reported by exactly one event of a
\* call that returns; and what is stored and not reported is a reply for which the gateway
\* raised, so that its agent is reported as failed although it is not.
RepliesAccounted ==
  \A s \in Submits :
    /\ StoredInOrder(s) /\ CauseFirst(s) /\ OneByOne(s)
    /\ submit[s].pc = "returned" =>
         /\ \A a \in submit[s].heard : Reports(s, a)
         /\ \A i \in Own(s) :
              room[i] \in Range(Returned(s)) \/ (room[i].kind = "reply" /\ ErrorOf(s, room[i].agent))
=============================================================================
