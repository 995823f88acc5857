--------------------------- MODULE GovernedRunner ---------------------------
(***************************************************************************)
(* cybercore.governed_runner.GovernedRunner: calls of execute(plan), each  *)
(* in a process of its own.  A call validates its plan, consumes the nonce *)
(* of the grant, and takes the commands in order: look again, spawn a      *)
(* transient systemd unit, watch it until it ends, floods its output or    *)
(* passes its deadline, stop it, drain its output.  The wrapper inside     *)
(* the unit looks a third time and seals what it executes.  Files change   *)
(* at any time, systemd's control calls may fail, the client of a unit may *)
(* die alone, the call may crash, and the machine may lose power.          *)
(***************************************************************************)
EXTENDS Integers, Sequences, CommandPolicy

CONSTANTS
  Calls,     \* the calls of execute()
  Nonces,    \* <<issuer, nonce>> of the grants
  Workloads, \* the assignments of a plan to every call
  Files,     \* what may be at the path of the executable
  MaxTime,   \* bound on the clock, beyond which everything has expired
  NoCall     \* the owner of a nonce nobody consumed

Time == 0..MaxTime
Min2(a, b) == IF a < b THEN a ELSE b

Original == [meta |-> 0, content |-> 0]

\* What is assumed of the constants.
RunnerAssumption ==
  /\ MaxTime \in Nat /\ NoCall \notin Calls
  /\ Original \in Files /\ Files \subseteq [meta : {0, 1}, content : {0, 1}]
  /\ \A w \in Workloads : \A c \in Calls :
       /\ w[c].nonce \in Nonces /\ w[c].timeout \in Nat \ {0} /\ w[c].expires \in Nat
       /\ w[c].commands \in Seq(Command) /\ Len(w[c].commands) > 0 /\ WellFormed(w[c].grant)
       /\ w[c].strict \in BOOLEAN /\ w[c].fresh \in BOOLEAN

VARIABLES
  now,      \* the clock
  disk,     \* the executable: the metadata and content at its path
  markers,  \* markers[n]: the marker of nonce n: none, present, synced in its directory, or durable
  plan,     \* the plan of each call, when there is one; fresh: the directory of the markers is new
  pc,       \* where each call is
  at,       \* the command it is at
  identity, \* the identity of the executable when the plan was validated
  deadline, \* the deadline of the running command
  flags,    \* timed_out and whether a cleanup deadline exists
  unit,     \* the unit of the running command
  receipt,  \* exit code and timed_out of each command receipt
  status,   \* the status of the returned receipt
  owner,    \* history: the call that consumed nonce n
  spawned,  \* history: the calls that spawned a unit
  done      \* history: the commands that ran to a successful end

NoPlans == <<>>

clockVars == <<now, disk>>
callVars == <<plan, pc, at, identity, deadline, flags, receipt, status>>
histVars == <<owner, spawned, done>>
vars == <<clockVars, markers, callVars, unit, histVars>>

NoUnit == [phase |-> "none", image |-> 0, code |-> 0, flood |-> FALSE, client |-> "up", until |-> 0]
NoFlags == [timedOut |-> FALSE, cleanup |-> FALSE]

Alive(c) == unit[c].phase \in {"starting", "inspected", "sealed", "running"}
Final == {"returned", "raised", "dead"}
Marker == {"none", "present", "synced", "durable"}

Nonce(c) == plan[c].nonce
Current(c) == plan[c].commands[at[c]]
\* The marker directory is new: its own entry, which the test mode does not sync, may be lost.
NewDirectory == plan # NoPlans /\ \E c \in Calls : plan[c].fresh

RequiresNonce(p) == \E i \in DOMAIN p.commands : p.commands[i].class \in ReplaySensitive
Unexpired(c) == now < plan[c].expires

Init ==
  /\ now = 0 /\ disk = Original
  /\ markers = [n \in Nonces |-> "none"]
  /\ plan = NoPlans
  /\ pc = [c \in Calls |-> "start"] /\ at = [c \in Calls |-> 1]
  /\ identity = [c \in Calls |-> disk] /\ deadline = [c \in Calls |-> 0]
  /\ flags = [c \in Calls |-> NoFlags] /\ unit = [c \in Calls |-> NoUnit]
  /\ receipt = [c \in Calls |-> <<>>] /\ status = [c \in Calls |-> "NONE"]
  /\ owner = [n \in Nonces |-> NoCall] /\ spawned = {} /\ done = [c \in Calls |-> {}]

-----------------------------------------------------------------------------
To(c, l) == pc' = [pc EXCEPT ![c] = l]

\* The runners are built, and each is given a plan and a grant.
Submit ==
  /\ plan = NoPlans /\ plan' \in Workloads
  /\ UNCHANGED <<clockVars, markers, pc, at, identity, deadline, flags, receipt, status, unit, histVars>>

\* The plan matches the grant, which is current, and every command is prepared;
\* what cannot be inspected raises, as does a host without systemd.
PreparePlan(c) ==
  /\ plan # NoPlans /\ pc[c] = "start"
  /\ \/ /\ Unexpired(c)
        /\ \A i \in DOMAIN plan[c].commands :
             Prepared(plan[c].commands[i], plan[c].grant, plan[c].strict)
        /\ identity' = [identity EXCEPT ![c] = disk]
        /\ To(c, IF ~RequiresNonce(plan[c]) THEN "revalidate"
                 ELSE IF plan[c].strict THEN "consume" ELSE "mark")
     \/ To(c, "raised") /\ UNCHANGED identity
  /\ UNCHANGED <<clockVars, markers, plan, at, deadline, flags, receipt, status, unit, histVars>>

MarkTo(c, m, l) ==
  /\ markers' = [markers EXCEPT ![Nonce(c)] = m]
  /\ owner' = IF l = "revalidate" THEN [owner EXCEPT ![Nonce(c)] = c] ELSE owner
  /\ To(c, l)
  /\ UNCHANGED <<clockVars, plan, at, identity, deadline, flags, receipt, status, unit, spawned, done>>

\* Production: the trusted consumer, which is required and may fail at any point.
TrustedConsume(c) ==
  /\ pc[c] = "consume"
  /\ \/ markers[Nonce(c)] = "none" /\ MarkTo(c, "durable", "revalidate")
     \/ MarkTo(c, markers[Nonce(c)], "raised")
     \/ MarkTo(c, "durable", "raised")

\* O_CREAT | O_EXCL: the marker exists already, or cannot be created, or is ours.
CreateMarker(c) ==
  /\ pc[c] = "mark"
  /\ \/ markers[Nonce(c)] = "none" /\ MarkTo(c, "present", "write")
     \/ MarkTo(c, markers[Nonce(c)], "raised")

\* The payload is written and synced; on failure the marker is removed again.
WriteMarker(c) ==
  /\ pc[c] = "write"
  /\ \E l \in {"sync", "unlink"} : MarkTo(c, markers[Nonce(c)], l)

UnlinkMarker(c) ==
  /\ pc[c] = "unlink"
  /\ \E m \in {"none", markers[Nonce(c)]} : MarkTo(c, m, "raised")

\* Mutant: that the directory cannot be synced is ignored.
SyncDirectoryLax(c) ==
  /\ pc[c] = "sync"
  /\ \E m \in {"synced", "present"} : MarkTo(c, m, "revalidate")

\* The directory is synced; when that fails the marker stays and the call raises.
SyncDirectory(c) ==
  /\ pc[c] = "sync"
  /\ \/ MarkTo(c, "synced", "revalidate")
     \/ MarkTo(c, markers[Nonce(c)], "raised")

-----------------------------------------------------------------------------
\* A command receipt is appended; the call goes on only after a clean success.
Record(c, r) ==
  /\ receipt' = [receipt EXCEPT ![c] = Append(@, r)]
  /\ LET ok == r.exit = 0 /\ ~r.timedOut /\ ~r.flooded
         last == at[c] = Len(plan[c].commands) IN
     /\ at' = IF ok /\ ~last THEN [at EXCEPT ![c] = @ + 1] ELSE at
     /\ status' = IF ok /\ ~last THEN status
                  ELSE [status EXCEPT ![c] = IF ok THEN "IMPLEMENTED" ELSE "FAILED"]
     /\ To(c, IF ok /\ ~last THEN "revalidate" ELSE "returned")

NotRun == [exit |-> -1, timedOut |-> FALSE, flooded |-> FALSE]

\* The command is prepared again and must be what was validated.
Revalidate(c) ==
  /\ pc[c] = "revalidate"
  /\ IF Unexpired(c) /\ disk = identity[c]
     THEN To(c, "spawn") /\ UNCHANGED <<at, receipt, status>>
     ELSE Record(c, NotRun)
  /\ UNCHANGED <<clockVars, markers, plan, identity, deadline, flags, unit, histVars>>

\* Mutant: the unit is started without a maximal run time.
SpawnUnbounded(c) ==
  /\ pc[c] = "spawn"
  /\ LET until == Min2(now + plan[c].timeout, MaxTime) IN
     /\ unit' = [unit EXCEPT ![c] = [NoUnit EXCEPT !.phase = "starting", !.until = MaxTime + 1]]
     /\ deadline' = [deadline EXCEPT ![c] = until]
  /\ flags' = [flags EXCEPT ![c] = NoFlags] /\ spawned' = spawned \cup {c} /\ To(c, "poll")
  /\ UNCHANGED <<clockVars, markers, plan, at, identity, receipt, status, owner, done>>

\* The deadline is read before the unit is started; starting it may fail.
Spawn(c) ==
  /\ pc[c] = "spawn"
  /\ LET until == Min2(now + plan[c].timeout, MaxTime) IN
     \/ /\ unit' = [unit EXCEPT ![c] = [NoUnit EXCEPT !.phase = "starting", !.until = until]]
        /\ deadline' = [deadline EXCEPT ![c] = until]
        /\ flags' = [flags EXCEPT ![c] = NoFlags]
        /\ spawned' = spawned \cup {c}
        /\ To(c, "poll") /\ UNCHANGED <<at, receipt, status>>
     \/ Record(c, NotRun) /\ UNCHANGED <<unit, deadline, flags, spawned>>
  /\ UNCHANGED <<clockVars, markers, plan, identity, owner, done>>

\* process.poll(): the client of the unit ended, with the unit or alone.
Polled(c) == ~Alive(c) \/ unit[c].client = "dead"

Watch(c, l, timedOut) ==
  /\ To(c, l)
  /\ flags' = [flags EXCEPT ![c] = [timedOut |-> timedOut, cleanup |-> l = "term"]]
  /\ UNCHANGED <<clockVars, markers, plan, at, identity, deadline, receipt, status, unit, histVars>>

\* The watch loop, which looks for the end of the unit before the other two.
Poll(c) ==
  /\ pc[c] = "poll"
  /\ \/ Polled(c) /\ Watch(c, "join", FALSE)
     \/ ~Polled(c) /\ unit[c].flood /\ Watch(c, "term", FALSE)
     \/ ~Polled(c) /\ ~unit[c].flood /\ now >= deadline[c] /\ Watch(c, "term", TRUE)

\* A unit ends; only commands that end by themselves with 0 are done.
End(c, code) == unit' = [unit EXCEPT ![c].phase = "ended", ![c].code = code]

Signalled(c, l) ==
  /\ To(c, l)
  /\ UNCHANGED <<clockVars, markers, plan, at, identity, deadline, flags, receipt, status, histVars>>

\* terminate(): SIGTERM and then SIGKILL to the unit, each of which may not arrive
\* or be ignored; it returns as soon as the client of the unit has ended.
Terminate(c) ==
  /\ pc[c] \in {"term", "kill"}
  /\ (Alive(c) /\ End(c, 1)) \/ UNCHANGED unit
  /\ Signalled(c, IF Polled(c)' THEN "join" ELSE IF pc[c] = "term" THEN "kill" ELSE "await")

\* It then waits for the unit's own limits, and raises if even those fail.
AwaitStop(c) ==
  /\ pc[c] = "await" /\ UNCHANGED unit
  /\ Signalled(c, IF Polled(c) THEN "join" ELSE "raised")
  /\ Polled(c) \/ now >= deadline[c]

\* The output is drained when the unit has ended; at the deadline the drains are
\* given up, after a last termination if there was none, and the command timed out.
Join(c) ==
  /\ pc[c] = "join"
  /\ \E drained \in BOOLEAN :
       /\ IF drained THEN ~Alive(c) /\ UNCHANGED unit
          ELSE /\ now >= deadline[c]
               /\ \/ UNCHANGED unit
                  \/ Alive(c) /\ ~flags[c].cleanup /\ End(c, 1)
       /\ Record(c, [exit |-> IF unit[c].client = "dead" THEN 1 ELSE unit[c].code,
                     timedOut |-> flags[c].timedOut \/ ~drained, flooded |-> unit[c].flood])
  /\ UNCHANGED <<clockVars, markers, plan, identity, deadline, flags, histVars>>

CallStep(c) ==
  \/ PreparePlan(c) \/ TrustedConsume(c) \/ CreateMarker(c) \/ WriteMarker(c) \/ UnlinkMarker(c)
  \/ SyncDirectory(c) \/ Revalidate(c) \/ Spawn(c) \/ Poll(c) \/ Terminate(c) \/ AwaitStop(c) \/ Join(c)

-----------------------------------------------------------------------------
UnitStep == UNCHANGED <<clockVars, markers, callVars, owner, spawned>>

\* The wrapper inside the unit: the grant is current and the metadata is as validated.
Inspect(c) ==
  /\ unit[c].phase = "starting"
  /\ IF Unexpired(c) /\ disk.meta = identity[c].meta
     THEN unit' = [unit EXCEPT ![c].phase = "inspected", ![c].image = disk.content]
     ELSE End(c, 1)
  /\ UNCHANGED done /\ UnitStep

\* Mutant: what the opened file holds is executed without comparing its digest.
SealUnchecked(c) ==
  /\ unit[c].phase = "inspected"
  /\ \E k \in {unit[c].image, disk.content} :
       unit' = [unit EXCEPT ![c].phase = "sealed", ![c].image = k]
  /\ UNCHANGED done /\ UnitStep

\* The opened file, which may be written meanwhile, is copied into a sealed one, whose
\* content has the validated digest.
Seal(c) ==
  /\ unit[c].phase = "inspected"
  /\ \E k \in {unit[c].image, disk.content} :
       IF k = identity[c].content
       THEN unit' = [unit EXCEPT ![c].phase = "sealed", ![c].image = k]
       ELSE End(c, 1)
  /\ UNCHANGED done /\ UnitStep

Exec(c) ==
  /\ unit[c].phase = "sealed"
  /\ IF Unexpired(c) THEN unit' = [unit EXCEPT ![c].phase = "running"] ELSE End(c, 1)
  /\ UNCHANGED done /\ UnitStep

\* What the command does: end, or write more than the limit.
Payload(c) ==
  /\ unit[c].phase = "running"
  /\ \/ End(c, 0) /\ done' = [done EXCEPT ![c] = @ \cup {at[c]}]
     \/ End(c, 1) /\ UNCHANGED done
     \/ unit' = [unit EXCEPT ![c].flood = TRUE] /\ UNCHANGED done
  /\ UnitStep

\* RuntimeMaxSec, with the whole control group killed.
RuntimeMax(c) == Alive(c) /\ now >= unit[c].until /\ End(c, 1) /\ UNCHANGED done /\ UnitStep

ClientDies(c) ==
  /\ Alive(c) /\ unit[c].client = "up"
  /\ unit' = [unit EXCEPT ![c].client = "dead"]
  /\ UNCHANGED done /\ UnitStep

\* The environment.
Tick == now < MaxTime /\ now' = now + 1 /\ UNCHANGED <<disk, markers, callVars, unit, histVars>>
Edit == disk' \in Files /\ UNCHANGED <<now, markers, callVars, unit, histVars>>

Crash(c) ==
  /\ pc[c] \notin {"start"} \cup Final /\ To(c, "dead")
  /\ UNCHANGED <<clockVars, markers, plan, at, identity, deadline, flags, receipt, status, unit, histVars>>

\* What a power loss may take: any markers that were not synced, or a new directory as a whole.
Losses ==
  (SUBSET {n \in Nonces : markers[n] = "present"})
    \cup (IF NewDirectory THEN {{n \in Nonces : markers[n] # "durable"}} ELSE {})

PowerLoss ==
  /\ pc' = [c \in Calls |-> IF pc[c] \in {"start"} \cup Final THEN pc[c] ELSE "dead"]
  /\ unit' = [c \in Calls |-> IF Alive(c) THEN [unit[c] EXCEPT !.phase = "ended", !.code = 1] ELSE unit[c]]
  /\ \E lost \in Losses : markers' = [n \in Nonces |-> IF n \in lost THEN "none" ELSE markers[n]]
  /\ UNCHANGED <<clockVars, plan, at, identity, deadline, flags, receipt, status, histVars>>

Next ==
  \/ \E c \in Calls : CallStep(c) \/ Crash(c)
  \/ \E c \in Calls : Inspect(c) \/ Seal(c) \/ Exec(c) \/ Payload(c) \/ RuntimeMax(c) \/ ClientDies(c)
  \/ Submit \/ Tick \/ Edit \/ PowerLoss

Spec == Init /\ [][Next]_vars

\* Processes are scheduled, time passes, and systemd enforces its limits.
Fairness == WF_vars(Tick) /\ \A c \in Calls : WF_vars(CallStep(c)) /\ WF_vars(RuntimeMax(c))
FairSpec == Spec /\ Fairness

-----------------------------------------------------------------------------
TypeOK ==
  /\ now \in Time /\ disk \in Files
  /\ markers \in [Nonces -> Marker]
  /\ plan \in Workloads \cup {NoPlans}
  /\ pc \in [Calls -> {"start", "consume", "mark", "write", "unlink", "sync", "revalidate", "spawn",
                       "poll", "term", "kill", "await", "join"} \cup Final]
  /\ plan # NoPlans => \A c \in Calls : at[c] \in DOMAIN plan[c].commands
  /\ identity \in [Calls -> Files] /\ deadline \in [Calls -> Time]
  /\ flags \in [Calls -> [timedOut : BOOLEAN, cleanup : BOOLEAN]]
  /\ unit \in [Calls -> [phase : {"none", "starting", "inspected", "sealed", "running", "ended"},
                         image : {0, 1}, code : {0, 1}, flood : BOOLEAN, client : {"up", "dead"},
                         until : Time]]
  /\ status \in [Calls -> {"NONE", "IMPLEMENTED", "FAILED"}]
  /\ owner \in [Nonces -> Calls \cup {NoCall}]
  /\ spawned \subseteq Calls /\ done \in [Calls -> SUBSET Nat]

\* A receipt tells the truth: a command is reported with 0 and in time only if it ran to its end,
\* nothing ran after a command that failed, and IMPLEMENTED covers all.
ReceiptsTruthful ==
  \A c \in Calls :
    /\ \A i \in DOMAIN receipt[c] :
         receipt[c][i].exit = 0 /\ ~receipt[c][i].timedOut => i \in done[c]
    /\ done[c] \subseteq 1..at[c] /\ 1..(at[c] - 1) \subseteq done[c]
    /\ status[c] = "IMPLEMENTED" => done[c] = DOMAIN plan[c].commands

\* A call that returned left nothing running, unless the client of the unit died alone.
NothingLeftRunning ==
  \A c \in Calls : pc[c] = "returned" /\ unit[c].client = "up" => ~Alive(c)

\* What runs is what was validated, under a command that the policy admits, and however the
\* file was edited, replaced and restored since: a third look and the digest decide.
RunsWhatWasValidated ==
  \A c \in Calls : unit[c].phase = "running" =>
    /\ unit[c].image = identity[c].content
    /\ plan[c].strict => Current(c).target = "python" /\ Current(c).args = "version" /\ Current(c).trusted

Inv == TypeOK /\ ReceiptsTruthful /\ NothingLeftRunning /\ RunsWhatWasValidated

\* What the code keeps through a power loss: the nonces that only production calls use, and,
\* when the directory of the markers is not new, all of them.
Kept(n) == plan # NoPlans => \A c \in Calls : Nonce(c) = n => plan[c].strict \/ ~NewDirectory

\* A nonce that is kept is consumed by one call, across crashes and power loss, and only that
\* call spawns commands of a replay-sensitive plan.
Once == INSTANCE SingleUse WITH
  Items <- Nonces, Actors <- Calls, Nobody <- NoCall,
  owner <- [n \in Nonces |-> IF Kept(n) THEN owner[n] ELSE NoCall],
  acted <- {<<c, Nonce(c)>> : c \in {d \in spawned : RequiresNonce(plan[d]) /\ Kept(Nonce(d))}}

ImplementsSingleUse == Once!Spec

\* Every call that began ends, and so does every unit, also one whose call is dead.
RunsEnd ==
  \A c \in Calls : (pc[c] \notin {"start"} \cup Final \/ Alive(c)) ~> (pc[c] \in Final /\ ~Alive(c))
=============================================================================
