----------------------------- MODULE RoomBroker -----------------------------
(***************************************************************************)
(* cybercore.mcp.room_broker and cybercore.wake: the one process that      *)
(* writes the ledger of a room.  A thread of the broker handles one        *)
(* request at a time under the ledger lock: it appends the event and       *)
(* submits wake requests to the bounded queue of the WakeDispatcher, whose *)
(* one thread hands them to the sinks, which take time and fail.  The      *)
(* runtime is started and closed, and the handler threads, being daemons,  *)
(* go on beside it.                                                        *)
(***************************************************************************)
EXTENDS Integers, Sequences, FiniteSets, SequencesExt

CONSTANTS
  Requests,     \* the post_event calls of the clients
  Draft,        \* Draft[r]: the event that request r posts
  Actors,       \* the participants of the room
  Sinks,        \* the participants that have a sink
  QueueSize,    \* capacity of the wake queue
  MaxStarts,    \* bound on the calls of start, and so on the threads
  None

Star == "*"
Stop == [stop |-> TRUE]

ASSUME RoomBrokerAssumption ==
  /\ Draft \in [Requests -> [actor : Actors, target : Actors \cup {Star}, wakes : BOOLEAN]]
  /\ Sinks \subseteq Actors
  /\ QueueSize \in Nat \ {0} /\ MaxStarts \in Nat \ {0}
  /\ None \notin Requests /\ Star \notin Actors

Threads == 1..MaxStarts

\* A WakeRequest: the participant to wake and the sequence of the event.
Wake == [target : Actors, sequence : Nat]

VARIABLES
  log,         \* the events of the room, in the order of their sequence
  lock,        \* the request that holds the ledger lock, or None
  pc,          \* where the handler of each request is
  todo,        \* todo[r]: the wake requests it still has to submit
  queue,       \* the queue of the dispatcher
  unfinished,  \* its count of unfinished tasks
  stopped,     \* the dispatcher's event _stopped
  thread,      \* the dispatcher's current thread, 0 before the first start
  tpc,         \* where each thread of the dispatcher is
  hand,        \* what each thread took from the queue
  runtime,     \* where the owner of the runtime is
  accepted,    \* history: the wake requests that were queued
  attempts     \* history: those handed to a sink, in that order

handlerVars == <<log, lock, pc, todo>>
threadVars == <<tpc, hand>>
ownerVars == <<stopped, thread, runtime>>
vars == <<handlerVars, queue, unfinished, threadVars, ownerVars, accepted, attempts>>

Init ==
  /\ log = <<>> /\ lock = None
  /\ pc = [r \in Requests |-> "idle"]
  /\ todo = [r \in Requests |-> {}]
  /\ queue = <<>> /\ unfinished = 0
  /\ stopped = FALSE /\ thread = 0
  /\ tpc = [t \in Threads |-> "new"]
  /\ hand = [t \in Threads |-> Stop]
  /\ runtime = "down"
  /\ accepted = {} /\ attempts = <<>>

-----------------------------------------------------------------------------
\* A request reaches a handler thread of a server that accepts connections.
Receive(r) ==
  /\ pc[r] = "idle" /\ runtime = "up"
  /\ pc' = [pc EXCEPT ![r] = "waiting"]
  /\ UNCHANGED <<log, lock, todo, queue, unfinished, threadVars, ownerVars, accepted, attempts>>

\* The targets an event wakes: nobody wakes himself.
Targets(e) ==
  IF ~e.wakes THEN {}
  ELSE (IF e.target = Star THEN Sinks ELSE Sinks \cap {e.target}) \ {e.actor}

\* Mutant: the lock is released as soon as the event is appended.
AppendAndRelease(r) ==
  LET e == Draft[r] IN
  /\ pc[r] = "waiting" /\ lock = None
  /\ \/ /\ log' = Append(log, e)
        /\ pc' = [pc EXCEPT ![r] = "submit"]
        /\ todo' = [todo EXCEPT ![r] = [target : Targets(e), sequence : {Len(log) + 1}]]
        /\ UNCHANGED lock
     \/ /\ pc' = [pc EXCEPT ![r] = "failed"]
        /\ UNCHANGED <<log, lock, todo>>
  /\ UNCHANGED <<queue, unfinished, threadVars, ownerVars, accepted, attempts>>

\* The handler takes the ledger lock and appends the event; the store may refuse it
\* or fail, which ends the request.
AppendEvent(r) ==
  LET e == Draft[r] IN
  /\ pc[r] = "waiting" /\ lock = None
  /\ \/ /\ log' = Append(log, e) /\ lock' = r
        /\ pc' = [pc EXCEPT ![r] = "submit"]
        /\ todo' = [todo EXCEPT ![r] = [target : Targets(e), sequence : {Len(log) + 1}]]
     \/ /\ pc' = [pc EXCEPT ![r] = "failed"]
        /\ UNCHANGED <<log, lock, todo>>
  /\ UNCHANGED <<queue, unfinished, threadVars, ownerVars, accepted, attempts>>

\* Mutant: the request waits for room in the queue.
SubmitWaits(r) ==
  /\ pc[r] = "submit"
  /\ \E w \in todo[r] :
       /\ todo' = [todo EXCEPT ![r] = @ \ {w}]
       /\ Len(queue) < QueueSize
       /\ queue' = Append(queue, w) /\ unfinished' = unfinished + 1 /\ accepted' = accepted \cup {w}
  /\ UNCHANGED <<log, lock, pc, threadVars, ownerVars, attempts>>

\* One put_nowait of submit: a full queue drops the wake request.
Submit(r) ==
  /\ pc[r] = "submit"
  /\ \E w \in todo[r] :
       /\ todo' = [todo EXCEPT ![r] = @ \ {w}]
       /\ IF Len(queue) < QueueSize
          THEN queue' = Append(queue, w) /\ unfinished' = unfinished + 1 /\ accepted' = accepted \cup {w}
          ELSE UNCHANGED <<queue, unfinished, accepted>>
  /\ UNCHANGED <<log, lock, pc, threadVars, ownerVars, attempts>>

\* All is submitted: the lock is released, and the answer is sent.
Answer(r) ==
  /\ pc[r] = "submit" /\ todo[r] = {}
  /\ pc' = [pc EXCEPT ![r] = "done"]
  /\ lock' = IF lock = r THEN None ELSE lock
  /\ UNCHANGED <<log, todo, queue, unfinished, threadVars, ownerVars, accepted, attempts>>

Handler(r) == AppendEvent(r) \/ Submit(r) \/ Answer(r)

-----------------------------------------------------------------------------
\* The thread of the dispatcher.

\* The condition of its loop.
Check(t) ==
  /\ tpc[t] = "loop"
  /\ tpc' = [tpc EXCEPT ![t] = IF stopped THEN "gone" ELSE "get"]
  /\ UNCHANGED <<handlerVars, queue, unfinished, hand, ownerVars, accepted, attempts>>

\* get takes the head of the queue, or times out.
Get(t) ==
  /\ tpc[t] = "get"
  /\ IF queue = <<>>
     THEN tpc' = [tpc EXCEPT ![t] = "loop"] /\ UNCHANGED <<queue, hand>>
     ELSE /\ tpc' = [tpc EXCEPT ![t] = IF Head(queue) = Stop THEN "last" ELSE "send"]
          /\ hand' = [hand EXCEPT ![t] = Head(queue)]
          /\ queue' = Tail(queue)
  /\ UNCHANGED <<handlerVars, unfinished, ownerVars, accepted, attempts>>

\* Mutant: an exception of the sink ends the thread.
SendUncaught(t) ==
  /\ tpc[t] = "send"
  /\ attempts' = Append(attempts, hand[t])
  /\ tpc' = [tpc EXCEPT ![t] = "done"] \/ tpc' = [tpc EXCEPT ![t] = "last"]
  /\ UNCHANGED <<handlerVars, queue, unfinished, hand, ownerVars, accepted>>

\* The sink sends the wake request, or raises, which is logged.
Send(t) ==
  /\ tpc[t] = "send"
  /\ attempts' = Append(attempts, hand[t])
  /\ tpc' = [tpc EXCEPT ![t] = "done"]
  /\ UNCHANGED <<handlerVars, queue, unfinished, hand, ownerVars, accepted>>

\* task_done, after which the sentinel ends the thread.
TaskDone(t) ==
  /\ tpc[t] \in {"done", "last"}
  /\ unfinished' = unfinished - 1
  /\ tpc' = [tpc EXCEPT ![t] = IF @ = "last" THEN "gone" ELSE "loop"]
  /\ UNCHANGED <<handlerVars, queue, hand, ownerVars, accepted, attempts>>

Thread(t) == Check(t) \/ Get(t) \/ Send(t) \/ TaskDone(t)

-----------------------------------------------------------------------------
\* The owner of the runtime.

Alive(t) == tpc[t] \in {"loop", "get", "send", "done", "last"}

\* Mutant: a thread is started beside one that is still alive.
StartBeside ==
  /\ runtime = "down" /\ thread < MaxStarts
  /\ runtime' = "up" /\ stopped' = FALSE
  /\ thread' = thread + 1 /\ tpc' = [tpc EXCEPT ![thread + 1] = "loop"]
  /\ UNCHANGED <<handlerVars, queue, unfinished, hand, accepted, attempts>>

\* start: the dispatcher leaves a thread that is alive alone, and then its event
\* _stopped as well; the broker opens its sockets.
Start ==
  /\ runtime = "down" /\ thread < MaxStarts
  /\ runtime' = "up"
  /\ IF thread # 0 /\ Alive(thread)
     THEN UNCHANGED <<stopped, thread, tpc>>
     ELSE /\ stopped' = FALSE /\ thread' = thread + 1
          /\ tpc' = [tpc EXCEPT ![thread + 1] = "loop"]
  /\ UNCHANGED <<handlerVars, queue, unfinished, hand, accepted, attempts>>

\* close: the servers stop accepting, whatever their handlers are doing.
CloseSockets ==
  /\ runtime = "up"
  /\ runtime' = "draining"
  /\ UNCHANGED <<handlerVars, queue, unfinished, threadVars, stopped, thread, accepted, attempts>>

\* Mutant: the queue is drained when it is empty.
DrainEmptied ==
  /\ runtime = "draining"
  /\ runtime' = IF queue = <<>> THEN "drained" ELSE "expired"
  /\ UNCHANGED <<handlerVars, queue, unfinished, threadVars, stopped, thread, accepted, attempts>>

\* drain returns TRUE as soon as it sees no unfinished task, FALSE at its deadline,
\* which may come before any progress.
Drain ==
  /\ runtime = "draining"
  /\ runtime' = IF unfinished = 0 THEN "drained" ELSE "expired"
  /\ UNCHANGED <<handlerVars, queue, unfinished, threadVars, stopped, thread, accepted, attempts>>

\* stop: the sentinel is queued unless the queue is full.
PutStop ==
  /\ runtime \in {"drained", "expired"}
  /\ runtime' = "joining"
  /\ IF Len(queue) < QueueSize
     THEN queue' = Append(queue, Stop) /\ unfinished' = unfinished + 1
     ELSE UNCHANGED <<queue, unfinished>>
  /\ UNCHANGED <<handlerVars, threadVars, stopped, thread, accepted, attempts>>

\* join returns, with the thread gone or after its timeout.
Join ==
  /\ runtime = "joining"
  /\ runtime' = "down" /\ stopped' = TRUE
  /\ UNCHANGED <<handlerVars, queue, unfinished, threadVars, thread, accepted, attempts>>

Owner == Start \/ CloseSockets \/ Drain \/ PutStop \/ Join

Next ==
  \/ Owner
  \/ \E r \in Requests : Receive(r) \/ Handler(r)
  \/ \E t \in Threads : Thread(t)

Spec == Init /\ [][Next]_vars

\* Handlers and the dispatcher's thread are scheduled, and a sink returns: the only
\* one, SlackIncomingWebhookWakeSink, has a timeout.
FairSpec ==
  Spec /\ (\A r \in Requests : WF_vars(Handler(r))) /\ (\A t \in Threads : WF_vars(Thread(t)))

-----------------------------------------------------------------------------
InHand == {t \in Threads : tpc[t] \in {"send", "done", "last"}}

TypeOK ==
  /\ log \in Seq([actor : Actors, target : Actors \cup {Star}, wakes : BOOLEAN])
  /\ lock \in Requests \cup {None}
  /\ pc \in [Requests -> {"idle", "waiting", "submit", "done", "failed"}]
  /\ todo \in [Requests -> SUBSET Wake]
  /\ queue \in Seq(Wake \cup {Stop}) /\ unfinished \in Nat
  /\ stopped \in BOOLEAN /\ thread \in {0} \cup Threads
  /\ tpc \in [Threads -> {"new", "loop", "get", "send", "done", "last", "gone"}]
  /\ hand \in [Threads -> Wake \cup {Stop}]
  /\ runtime \in {"down", "up", "draining", "drained", "expired", "joining"}
  /\ accepted \subseteq Wake /\ attempts \in Seq(Wake)

\* A wake request is about an event that is in the log, was addressed to its target,
\* and came from somebody else (ADR-0013: "only after the room event has been
\* persisted successfully").
Locates(w) ==
  w.sequence \in DOMAIN log /\ w.target \in Targets(log[w.sequence])

\* No participant is woken twice for an event, or for a later event before an
\* earlier one: neither by two handlers nor by two threads of the dispatcher.
WokenInOrder ==
  \A i, j \in DOMAIN attempts :
    i < j /\ attempts[i].target = attempts[j].target => attempts[i].sequence < attempts[j].sequence

\* The bounded queue, its count of tasks and the lock are consistent, and every wake
\* request locates an event.
Inv ==
  /\ TypeOK
  /\ Len(queue) <= QueueSize
  /\ unfinished = Len(queue) + Cardinality(InHand)
  /\ \A t \in Threads : Alive(t) => t = thread
  /\ \A r \in Requests : pc[r] = "submit" <=> lock = r
  /\ \A w \in accepted : Locates(w)
  /\ WokenInOrder

\* When drain returns TRUE, every wake request that was queued has been handed to its
\* sink: the count is lowered after the call of the sink, not when the queue is
\* emptied.
DrainedIsAttempted ==
  [][runtime = "draining" /\ runtime' = "drained" => accepted \subseteq Range(attempts)]_vars

\* A post is answered, or fails, whatever the dispatcher does: a full queue, a slow
\* sink or a stopped thread never hold the ledger lock (ADR-0013: "Slack outage
\* degrades wake behavior but does not affect room persistence").
PostsComplete ==
  \A r \in Requests : pc[r] = "waiting" ~> pc[r] \in {"done", "failed"}

\* A queued wake request reaches its sink, also after a sink has failed, while the
\* runtime is not closed.  (A runtime that was closed may be up again with a thread
\* that is about to end, or with the sentinel of the close still in the queue.)
AcceptedIsAttempted ==
  \A a \in Sinks, n \in 1..Cardinality(Requests) :
    LET w == [target |-> a, sequence |-> n] IN
    w \in accepted ~> w \in Range(attempts) \/ runtime # "up" \/ stopped \/ thread > 1
=============================================================================
