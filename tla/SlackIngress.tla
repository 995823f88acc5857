---------------------------- MODULE SlackIngress ----------------------------
(***************************************************************************)
(* cybercore.mcp.slack_ingress: the process that polls a Slack channel and *)
(* posts what the mapped users wrote into a session of the room.  It reads *)
(* the timestamp of its state file, fetches the messages after it, posts   *)
(* each one that it does not find in the session, and saves the newest     *)
(* timestamp.  Slack, the broker and the process itself may fail between   *)
(* any two steps; a post that the client has given up may still be waiting *)
(* in the broker for the ledger lock.                                      *)
(***************************************************************************)
EXTENDS Integers, Sequences, FiniteSets, SequencesExt

CONSTANTS
  Mapped,     \* the messages of mapped users, among 1..LastTs
  LastTs,     \* bound on the timestamps of the channel
  Window,     \* the limit of BrokerSocketClient.read, 1000 events
  MaxLapses,  \* bound on the posts that the client gives up
  MaxEvents,  \* bound on the events of the session
  Other       \* an event of another participant of the session

ASSUME SlackIngressAssumption ==
  /\ LastTs \in Nat /\ Mapped \subseteq 1..LastTs
  /\ Window \in Nat \ {0} /\ MaxLapses \in Nat /\ MaxEvents \in Nat
  /\ Other \notin Mapped

VARIABLES
  channel,  \* the timestamp of the newest message in the channel
  saved,    \* last_ts of the state file, 0 without one
  session,  \* the events of the session: messages, and Other
  stage,    \* where the process is
  batch,    \* the messages it has fetched and still has to handle
  newest,   \* max_ts of the batch
  mine,     \* the post it is waiting for: none, pending, ok or error
  stale,    \* stale[m]: posts of m that were given up and are still in the broker
  lapses    \* history: how many posts were given up

processVars == <<stage, batch, newest>>
ingressVars == <<channel, saved, session, processVars, mine, stale, lapses>>

IngressInit ==
  /\ channel = 0 /\ saved = 0 /\ session = <<>>
  /\ stage = "down" /\ batch = <<>> /\ newest = 0
  /\ mine = "none"
  /\ stale = [m \in Mapped |-> 0] /\ lapses = 0

-----------------------------------------------------------------------------
\* A failure ends the process, and the supervisor starts it again.
Down == stage' = "down" /\ batch' = <<>> /\ newest' = 0

Restart ==
  /\ stage = "down"
  /\ stage' = "poll"
  /\ UNCHANGED <<channel, saved, session, batch, newest, mine, stale, lapses>>

\* Mutant: the messages are handled in the order of Slack's answer, newest first.
NewestFirst(S) == Reverse(SetToSortSeq(S, <))

\* ingest_many sorts the messages of mapped users by their timestamp.
OldestFirst(S) ==
  CHOOSE s \in [1..Cardinality(S) -> S] :
    Range(s) = S /\ \A i, j \in DOMAIN s : i < j => s[i] < s[j]

\* history after the timestamp of the state file.
Fetch ==
  /\ stage = "poll"
  /\ stage' = "ingest"
  /\ newest' = channel
  /\ batch' = OldestFirst({m \in Mapped : saved < m /\ m <= channel})
  /\ UNCHANGED <<channel, saved, session, mine, stale, lapses>>

\* Mutant: nothing counts as ingested.
IngestedNever(m) == m \notin Mapped

\* _already_ingested: the oldest events of the session, as many as read asks for.
Ingested(m) == m \in Range(SubSeq(session, 1, IF Len(session) < Window THEN Len(session) ELSE Window))

\* ingest: skip the message, or post it.
Ingest ==
  /\ stage = "ingest" /\ batch # <<>>
  /\ IF Ingested(Head(batch))
     THEN batch' = Tail(batch) /\ UNCHANGED <<stage, mine>>
     ELSE stage' = "post" /\ mine' = "pending" /\ UNCHANGED batch
  /\ UNCHANGED <<channel, saved, session, newest, stale, lapses>>

\* Mutant: a post that failed is skipped.
AnsweredAny ==
  /\ stage = "post" /\ mine \in {"ok", "error"}
  /\ mine' = "none"
  /\ stage' = "ingest" /\ batch' = Tail(batch) /\ UNCHANGED newest
  /\ UNCHANGED <<channel, saved, session, stale, lapses>>

\* The answer to the post: an error is raised.
Answered ==
  /\ stage = "post" /\ mine \in {"ok", "error"}
  /\ mine' = "none"
  /\ IF mine = "ok"
     THEN stage' = "ingest" /\ batch' = Tail(batch) /\ UNCHANGED newest
     ELSE Down
  /\ UNCHANGED <<channel, saved, session, stale, lapses>>

\* The client's timeout, or the end of the process while it waits: the request stays
\* with the broker.
GiveUp ==
  /\ stage = "post" /\ lapses < MaxLapses
  /\ lapses' = lapses + 1
  /\ stale' = IF mine = "pending" THEN [stale EXCEPT ![Head(batch)] = @ + 1] ELSE stale
  /\ mine' = "none" /\ Down
  /\ UNCHANGED <<channel, saved, session>>

\* All is handled: the state file is replaced, if there was any message.
SaveState ==
  /\ stage = "ingest" /\ batch = <<>>
  /\ saved' = IF newest > saved THEN newest ELSE saved
  /\ stage' = "poll" /\ newest' = 0 /\ UNCHANGED batch
  /\ UNCHANGED <<channel, session, mine, stale, lapses>>

\* Slack or a read of the session fails, or the process ends.
Fail ==
  /\ stage \in {"poll", "ingest"}
  /\ Down
  /\ UNCHANGED <<channel, saved, session, mine, stale, lapses>>

Process == Restart \/ Fetch \/ Ingest \/ Answered \/ GiveUp \/ SaveState \/ Fail

-----------------------------------------------------------------------------
\* The broker handles the post that the client waits for, or refuses it.
Serve ==
  /\ mine = "pending"
  /\ \/ Len(session) < MaxEvents /\ mine' = "ok" /\ session' = Append(session, Head(batch))
     \/ mine' = "error" /\ UNCHANGED session
  /\ UNCHANGED <<channel, saved, processVars, stale, lapses>>

\* The broker handles a post that was given up, or refuses it.
ServeStale ==
  \E m \in Mapped :
    /\ stale[m] > 0
    /\ stale' = [stale EXCEPT ![m] = @ - 1]
    /\ \/ Len(session) < MaxEvents /\ session' = Append(session, m)
       \/ UNCHANGED session
    /\ UNCHANGED <<channel, saved, processVars, mine, lapses>>

\* Other participants write to the channel, and to the session.
Write ==
  /\ channel < LastTs
  /\ channel' = channel + 1
  /\ UNCHANGED <<saved, session, processVars, mine, stale, lapses>>

Post ==
  /\ Len(session) < MaxEvents
  /\ session' = Append(session, Other)
  /\ UNCHANGED <<channel, saved, processVars, mine, stale, lapses>>

IngressNext == Process \/ Serve \/ ServeStale \/ Write \/ Post

IngressSpec == IngressInit /\ [][IngressNext]_ingressVars

-----------------------------------------------------------------------------
IngressTypeOK ==
  /\ channel \in 0..LastTs /\ saved \in 0..LastTs /\ newest \in 0..LastTs
  /\ session \in Seq(Mapped \cup {Other})
  /\ stage \in {"down", "poll", "ingest", "post"}
  /\ batch \in Seq(Mapped)
  /\ mine \in {"none", "pending", "ok", "error"}
  /\ stale \in [Mapped -> Nat] /\ lapses \in Nat

\* What the state file has passed is in the session: no failure, restart or timeout
\* loses a message of a mapped user.
NeverSkipped ==
  \A m \in Mapped : m <= saved => m \in Range(session)

\* Nothing is lost between the fetch and the state file either: what the process has
\* fetched and no longer has before it is in the session.  A post is waited for, or
\* answered, exactly while the process is in it.
IngressInv ==
  /\ IngressTypeOK /\ NeverSkipped
  /\ newest <= channel /\ saved <= channel
  /\ stage \in {"ingest", "post"} =>
       \A m \in Mapped : m <= newest => m \in Range(session) \cup Range(batch)
  /\ stage = "post" <=> mine # "none"

\* A message enters the session before the later ones, although it may be posted
\* again after them.
FirstsInOrder ==
  \A m, n \in Mapped :
    m < n /\ n \in Range(session) =>
      \E i \in DOMAIN session : session[i] = m /\ \A j \in DOMAIN session : session[j] = n => i < j

Twice(m) == \E i, j \in DOMAIN session : i # j /\ session[i] = m /\ session[j] = m

\* A message is in the session twice only if a post was given up, or if the session
\* is longer than what _already_ingested reads.
DuplicatesExplained ==
  (\E m \in Mapped : Twice(m)) => lapses > 0 \/ Len(session) > Window

\* The session is the channel in order, but for repetitions that have a cause.
SessionIsFaithful == FirstsInOrder /\ DuplicatesExplained

\* The claim of test_same_slack_message_is_idempotent_by_channel_and_timestamp
\* (tests/test_slack_room_ingress.py:85).
IngestedOnce == \A m \in Mapped : ~Twice(m)
=============================================================================
