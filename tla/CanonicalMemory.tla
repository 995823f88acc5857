-------------------------- MODULE CanonicalMemory --------------------------
(***************************************************************************)
(* The canonical files of a repository - Project Kernel, Project State and *)
(* worklog - and the commands that rewrite two of them at a time: a        *)
(* checkpoint, and the closeout of a merged pull request.  Both stage new  *)
(* and old contents, replace one file after the other and roll back when a *)
(* replacement fails; the process may stop between any two steps.  An      *)
(* operator runs one command at a time, and commits or restores between.   *)
(***************************************************************************)
EXTENDS Integers, Sequences, FiniteSets

CONSTANTS
  MemoryCommands, \* checkpoints [kind, identity], closeouts [kind, artifact, next, complete]
  FirstArtifact,  \* the artifact that is active at first
  NoArtifact,     \* none is active
  NoIdentity,     \* no checkpoint
  MaxCommands     \* bound on the commands that are run

VARIABLES
  book,      \* the three files
  committed, \* the files as committed
  job,       \* the running command, and what it staged
  torn,      \* history: whether a crash or an incomplete rollback left half a closeout
  jobs       \* how many commands were run

memoryVars == <<book, committed, job, torn, jobs>>

Blank ==
  [kernel |-> [active |-> FirstArtifact, completed |-> {}],
   state |-> [active |-> FirstArtifact, headings |-> {}, block |-> NoIdentity],
   worklog |-> <<>>]

NoJob == [pc |-> "idle", command |-> [kind |-> "none"], new |-> Blank, old |-> Blank, staged |-> FALSE, replaced |-> 0]

MemoryInit == book = Blank /\ committed = Blank /\ job = NoJob /\ torn = FALSE /\ jobs = 0

Rest == {"idle", "done", "failed", "incomplete", "dead"}

\* The files of a command, in the order in which they are replaced.
Targets(c) == IF c.kind = "merge" THEN <<"kernel", "state">> ELSE <<"state", "worklog">>

-----------------------------------------------------------------------------
Merging == job.command.kind = "merge"

\* Mutant: the entry is appended whether or not the worklog has it.
AppendAlways(log, identity) == Append(log, identity)

\* The entry of a checkpoint is appended unless its marker is there.
AppendWorklogEntry(log, identity) ==
  IF \E i \in DOMAIN log : log[i] = identity THEN log ELSE Append(log, identity)

\* The fields follow the kernel; the one managed block is that of this checkpoint,
\* kept as it is when it is there already.
SynchronizeState(state, kernel, identity) ==
  [state EXCEPT !.active = IF kernel.active = NoArtifact THEN @ ELSE kernel.active, !.block = identity]

\* The completed artifact must be the active one; it is recorded once, and the next
\* one becomes active, or none.
KernelTransition(kernel, c) ==
  [active |-> c.next, completed |-> kernel.completed \cup {c.artifact}]

\* The Project State follows, and gets one heading for each pull request.
ProjectStateTransition(state, c) ==
  [state EXCEPT !.active = c.next, !.headings = @ \cup {c.artifact}]

\* The successor is declared completely, or a terminal closeout declares none.
StateContract(c) == c.complete

PlannedCheckpoint(c) ==
  [book EXCEPT !.state = SynchronizeState(@, book.kernel, c.identity),
               !.worklog = AppendWorklogEntry(@, c.identity)]

PlannedMerge(c) ==
  [book EXCEPT !.kernel = KernelTransition(@, c), !.state = ProjectStateTransition(@, c)]

Stay == UNCHANGED <<book, committed, torn>>
JobFails(c) == job' = [NoJob EXCEPT !.pc = "failed", !.command = c] /\ Stay

\* A checkpoint needs a trusted context, which may be refused.
PlanCheckpoint ==
  /\ job.pc \in Rest /\ jobs < MaxCommands /\ jobs' = jobs + 1
  /\ \E c \in {d \in MemoryCommands : d.kind = "checkpoint"} :
       \/ /\ job' = [NoJob EXCEPT !.pc = "stage", !.command = c, !.new = PlannedCheckpoint(c)]
          /\ Stay
       \/ JobFails(c)

\* A closeout needs a clean working tree, a merged pull request on the stable branch,
\* whose local and remote heads agree and contain the merge commit.
PlanPostMerge ==
  /\ job.pc \in Rest /\ jobs < MaxCommands /\ jobs' = jobs + 1
  /\ \E c \in {d \in MemoryCommands : d.kind = "merge"} :
       \/ /\ book = committed /\ StateContract(c) /\ book.kernel.active = c.artifact
          /\ job' = [NoJob EXCEPT !.pc = "stage", !.command = c, !.new = PlannedMerge(c)]
          /\ Stay
       \/ JobFails(c)

\* New and old contents of both files are staged beside them and synced.
StageTargets ==
  /\ job.pc = "stage" /\ UNCHANGED jobs
  /\ \/ job' = [job EXCEPT !.pc = "replace", !.old = book, !.staged = TRUE] /\ Stay
     \/ JobFails(job.command)

\* Mutant: what was replaced is not put back when a later replacement fails.
ReplaceWithoutRollback ==
  /\ job.pc = "replace" /\ UNCHANGED <<committed, torn, jobs>>
  /\ LET t == Targets(job.command)[job.replaced + 1] IN
     \/ /\ book' = [book EXCEPT ![t] = job.new[t]]
        /\ job' = [job EXCEPT !.replaced = @ + 1, !.pc = IF job.replaced = 1 THEN "done" ELSE "replace"]
     \/ job' = [job EXCEPT !.pc = "failed"] /\ UNCHANGED book

\* One file after the other is replaced; when one fails, what was replaced is rolled back.
ReplaceTargets ==
  /\ job.pc = "replace" /\ UNCHANGED <<committed, torn, jobs>>
  /\ LET t == Targets(job.command)[job.replaced + 1] IN
     \/ /\ book' = [book EXCEPT ![t] = job.new[t]]
        /\ job' = [job EXCEPT !.replaced = @ + 1, !.pc = IF job.replaced = 1 THEN "done" ELSE "replace"]
     \/ /\ job' = [job EXCEPT !.pc = IF job.replaced = 0 THEN "failed" ELSE "rollback"] /\ UNCHANGED book

\* The rollback may itself fail, which is reported as such.
RollBackTargets ==
  /\ job.pc = "rollback" /\ UNCHANGED <<committed, jobs>>
  /\ LET t == Targets(job.command)[1] IN
     \/ book' = [book EXCEPT ![t] = job.old[t]] /\ job' = [job EXCEPT !.pc = "failed"] /\ UNCHANGED torn
     \/ job' = [job EXCEPT !.pc = "incomplete"] /\ torn' = (torn \/ Merging) /\ UNCHANGED book

MemoryStops ==
  /\ job.pc \notin Rest
  /\ job' = [job EXCEPT !.pc = "dead"] /\ torn' = (torn \/ (Merging /\ job.replaced = 1))
  /\ UNCHANGED <<book, committed, jobs>>

\* The operator commits what there is, or restores what was committed.
Commit == job.pc \in Rest /\ book # committed /\ committed' = book /\ UNCHANGED <<book, job, torn, jobs>>
Restore ==
  /\ job.pc \in Rest /\ book # committed /\ book' = committed /\ job' = NoJob
  /\ UNCHANGED <<committed, torn, jobs>>

MemoryNext ==
  \/ PlanCheckpoint \/ PlanPostMerge \/ StageTargets \/ ReplaceTargets \/ RollBackTargets
  \/ MemoryStops \/ Commit \/ Restore

-----------------------------------------------------------------------------
\* A command that succeeds has replaced both of its files, and a checkpoint is then in both of
\* them, also after earlier crashes; one that fails leaves both as they were, unless its process
\* died or its rollback failed.
AllOrNothing ==
  /\ job.pc = "done" =>
       /\ \A i \in 1..2 : LET t == Targets(job.command)[i] IN book[t] = job.new[t]
       /\ job.command.kind = "checkpoint" =>
            /\ book.state.block = job.command.identity
            /\ \E i \in DOMAIN book.worklog : book.worklog[i] = job.command.identity
  /\ job.pc = "failed" /\ job.staged => book = job.old

\* Kernel and Project State name the same active and completed artifacts, unless a closeout was
\* torn; and a checkpoint is in the worklog once, however often it was retried.
MemoryCoherent ==
  /\ job.pc \in Rest /\ ~torn => book.kernel.active = book.state.active /\ book.kernel.completed = book.state.headings
  /\ \A i, j \in DOMAIN book.worklog : book.worklog[i] = book.worklog[j] => i = j
=============================================================================
