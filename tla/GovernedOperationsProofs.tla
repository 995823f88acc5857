---------------------- MODULE GovernedOperationsProofs ----------------------
(***************************************************************************)
(* Proofs about GovernedOperations for every value of its constants.  A    *)
(* step is of one operation and leaves the state of the others alone, so   *)
(* that each has an inductive invariant of its own.                        *)
(***************************************************************************)
EXTENDS GovernedOperations, SequenceTheorems, FiniteSetTheorems, TLAPS

\* A step of the system is, for each operation, one of its own steps or none.
LEMMA StepOfOne ==
  ASSUME [Next]_vars
  PROVE  /\ Runner!Next \/ UNCHANGED runnerVars
         /\ Preview!PreviewNext \/ UNCHANGED previewVars
         /\ Memory!MemoryNext \/ UNCHANGED memoryVars
         /\ Remote!RemoteNext \/ UNCHANGED remoteVars
         /\ Room!RoomNext \/ UNCHANGED roomVars
         /\ Models!ModelNext \/ UNCHANGED modelVars
         /\ WorkBlock!ApplyNext \/ UNCHANGED applyVars
         /\ FirstWrite!PacketNext \/ UNCHANGED packetVars
         /\ Voice!VoiceNext \/ UNCHANGED voiceVars
         /\ Dns!DnsNext \/ UNCHANGED dnsVars
BY DEF Next, vars, RunnerStep, DnsOperation, FirstWriteValidation, PreviewUploads, MemoryChanges,
       RemoteActions, VoiceSession, RoomTexts, ModelStep, WorkBlockRun

-----------------------------------------------------------------------------
\* staging_preview_runtime.

UpPoints == {"start", "connect", "nonce", "verify", "store", "hash", "executed", "failed", "dead"}

\* The input of u is sealed and signed for.
Sealed(u) ==
  /\ Previews[u].digest = Previews[u].content
  /\ Preview!Approval(u).signed /\ Preview!Approval(u).content = Previews[u].digest

\* Past the gates the input is sealed; past the service the nonce is consumed for the upload;
\* and up to the transfer, or after a failure that rules it out, there is no file.
Uploading(u) ==
  /\ up[u].pc \in {"connect", "nonce", "verify", "store", "hash"} => Sealed(u)
  /\ up[u].pc \in {"verify", "store", "hash"} => nonces[Preview!Approval(u).nonce] = u
  /\ up[u].pc \in {"start", "connect", "nonce", "verify", "store"} => \A f \in root : f.by # u
  /\ up[u].pc = "failed" /\ ~up[u].possible => \A f \in root : f.by # u

\* A file was created by the one execution its nonce was consumed for.
Created(f) ==
  /\ f = [by |-> f.by, content |-> f.content] /\ f.by \in Uploads
  /\ nonces[Preview!Approval(f.by).nonce] = f.by /\ Preview!Approval(f.by).signed
  /\ f.content \in {Preview!Approval(f.by).content, "part", "other"}

PreviewInv ==
  /\ up \in [Uploads -> [pc : UpPoints, possible : BOOLEAN]]
  /\ nonces \in [{Preview!Approval(u).nonce : u \in Uploads} -> Uploads \cup {NoUpload}]
  /\ \A u \in Uploads : Uploading(u)
  /\ \A f \in root : Created(f)
  /\ \A f, g \in root : f.by = g.by => f = g

LEMMA PreviewStarts == Init => PreviewInv
BY DEF Init, Preview!PreviewInit, PreviewInv, Uploading, Created, UpPoints

\* What the two forms of a step of up[u] leave.
LEMMA UpSteps ==
  ASSUME PreviewInv, NEW u \in Uploads, NEW l \in UpPoints, NEW b \in BOOLEAN,
         up' = [up EXCEPT ![u].pc = l] \/ up' = [up EXCEPT ![u].pc = l, ![u].possible = b]
  PROVE  /\ up' \in [Uploads -> [pc : UpPoints, possible : BOOLEAN]]
         /\ up'[u].pc = l /\ \A v \in Uploads \ {u} : up'[v] = up[v]
         /\ up'[u].possible \in {up[u].possible, b}
BY DEF PreviewInv

\* An upload goes on while the files stay as they are, and so does its nonce.
LEMMA UploadMoves ==
  ASSUME PreviewInv, NEW u \in Uploads, NEW l \in UpPoints, NEW b \in BOOLEAN,
         up' = [up EXCEPT ![u].pc = l] \/ up' = [up EXCEPT ![u].pc = l, ![u].possible = b],
         UNCHANGED <<nonces, root>>, Uploading(u)'
  PROVE  PreviewInv'
<1>1. \A v \in Uploads \ {u} : Uploading(v)'
  BY UpSteps DEF PreviewInv, Uploading, Sealed
<1>2. \A f \in root' : Created(f)'
  BY DEF PreviewInv, Created
<1>3. QED BY <1>1, <1>2, UpSteps DEF PreviewInv

LEMMA GatesKeeps ==
  ASSUME PreviewInv, NEW u \in Uploads, Preview!Gates(u)
  PROVE  PreviewInv'
<1>1. up[u] \in [pc : UpPoints, possible : BOOLEAN] /\ Uploading(u)
  BY DEF PreviewInv
<1>2. CASE Preview!UpFail(u, FALSE)
  BY <1>1, <1>2, UpSteps, UploadMoves, ZenonT(30) DEF Preview!UpFail, Preview!Gates, UpPoints, Uploading
<1>3. CASE Preview!ValidInput(u) /\ Preview!VerifyAuthorization(u) /\ Preview!UpTo(u, "connect") /\ UNCHANGED <<clock, nonces, root>>
  <2>1. Sealed(u)
    BY <1>3 DEF Preview!ValidInput, Preview!VerifyAuthorization, Sealed
  <2>2. QED BY <1>1, <1>3, <2>1, UpSteps, UploadMoves, ZenonT(30) DEF Preview!UpTo, Preview!Gates, UpPoints, Uploading, Sealed
<1>4. QED BY <1>2, <1>3 DEF Preview!Gates

LEMMA ConnectKeeps ==
  ASSUME PreviewInv, NEW u \in Uploads, Preview!ConnectFtps(u)
  PROVE  PreviewInv'
<1>1. up[u] \in [pc : UpPoints, possible : BOOLEAN] /\ Uploading(u)
  BY DEF PreviewInv
<1>2. CASE Preview!UpFail(u, FALSE)
  BY <1>1, <1>2, UpSteps, UploadMoves, ZenonT(30) DEF Preview!UpFail, Preview!ConnectFtps, UpPoints, Uploading
<1>3. CASE Preview!UpTo(u, "nonce") /\ UNCHANGED <<clock, nonces, root>>
  BY <1>1, <1>3, UpSteps, UploadMoves, ZenonT(30) DEF Preview!UpTo, Preview!ConnectFtps, UpPoints, Uploading, Sealed
<1>4. QED BY <1>2, <1>3 DEF Preview!ConnectFtps

LEMMA ConsumeKeeps ==
  ASSUME OperationsAssumption, PreviewInv, NEW u \in Uploads, Preview!ConsumeNonce(u)
  PROVE  PreviewInv'
<1>1. up[u] \in [pc : UpPoints, possible : BOOLEAN] /\ Uploading(u) /\ up[u].pc = "nonce"
  BY DEF PreviewInv, Preview!ConsumeNonce
<1>2. CASE Preview!UpFail(u, FALSE)
  BY <1>1, <1>2, UpSteps, UploadMoves, ZenonT(30) DEF Preview!UpFail, UpPoints, Uploading
<1>3. ASSUME nonces[Preview!Approval(u).nonce] = NoUpload,
             nonces' = [nonces EXCEPT ![Preview!Approval(u).nonce] = u],
             NEW l \in {"verify", "failed"}, up' = [up EXCEPT ![u].pc = l], UNCHANGED root
      PROVE  PreviewInv'
  <2>1. /\ nonces' \in [{Preview!Approval(v).nonce : v \in Uploads} -> Uploads \cup {NoUpload}]
        /\ nonces'[Preview!Approval(u).nonce] = u
        /\ \A v \in Uploads : nonces[Preview!Approval(v).nonce] = v =>
             nonces'[Preview!Approval(v).nonce] = v
    BY <1>3 DEF PreviewInv, OperationsAssumption
  <2>2. l \in UpPoints /\ up' \in [Uploads -> [pc : UpPoints, possible : BOOLEAN]]
        /\ up'[u].pc = l /\ \A v \in Uploads \ {u} : up'[v] = up[v]
    BY <1>3, UpSteps DEF UpPoints
  <2>3. \A v \in Uploads \ {u} : Uploading(v)'
    BY <1>3, <2>1, <2>2 DEF PreviewInv, Uploading, Sealed
  <2>4. Uploading(u)'
    BY <1>1, <1>3, <2>1, <2>2 DEF Uploading, Sealed
  <2>5. \A f \in root' : Created(f)'
    BY <1>3, <2>1 DEF PreviewInv, Created
  <2>6. QED BY <1>3, <2>1, <2>2, <2>3, <2>4, <2>5 DEF PreviewInv
<1>4. QED BY <1>2, <1>3 DEF Preview!ConsumeNonce, Preview!UpTo

LEMMA FinalVerifyKeeps ==
  ASSUME PreviewInv, NEW u \in Uploads, Preview!FinalVerify(u)
  PROVE  PreviewInv'
<1>1. up[u] \in [pc : UpPoints, possible : BOOLEAN] /\ Uploading(u)
  BY DEF PreviewInv
<1>2. CASE Preview!UpFail(u, FALSE)
  BY <1>1, <1>2, UpSteps, UploadMoves, ZenonT(30) DEF Preview!UpFail, Preview!FinalVerify, UpPoints, Uploading
<1>3. CASE Preview!UpTo(u, "store") /\ UNCHANGED <<clock, nonces, root>>
  BY <1>1, <1>3, UpSteps, UploadMoves, ZenonT(30) DEF Preview!UpTo, Preview!FinalVerify, UpPoints, Uploading, Sealed
<1>4. QED BY <1>2, <1>3 DEF Preview!FinalVerify

\* The transfer makes at most the one file of u, which had none.
LEMMA StouKeeps ==
  ASSUME PreviewInv, NEW u \in Uploads, Preview!Stou(u)
  PROVE  PreviewInv'
<1>1. up[u] \in [pc : UpPoints, possible : BOOLEAN] /\ Uploading(u) /\ up[u].pc = "store"
  BY DEF PreviewInv, Preview!Stou
<1>2. PICK l \in {"hash", "failed"}, k \in {Previews[u].content, "part"} :
        /\ root' \in {root, root \cup {[by |-> u, content |-> k]}}
        /\ \/ l = "hash" /\ up' = [up EXCEPT ![u].pc = l]
           \/ l = "failed" /\ up' = [up EXCEPT ![u].pc = l, ![u].possible = TRUE]
  BY DEF Preview!Stou, Preview!UpTo
<1>3. /\ up' \in [Uploads -> [pc : UpPoints, possible : BOOLEAN]]
      /\ up'[u].pc = l /\ \A v \in Uploads \ {u} : up'[v] = up[v]
      /\ l \in UpPoints /\ UNCHANGED nonces
  <2>1. l \in UpPoints /\ TRUE \in BOOLEAN
    BY DEF UpPoints
  <2>2. UNCHANGED nonces
    BY DEF Preview!Stou
  <2>3. up' = [up EXCEPT ![u].pc = l] \/ up' = [up EXCEPT ![u].pc = l, ![u].possible = TRUE]
    BY <1>2
  <2>4. QED BY <2>1, <2>2, <2>3, UpSteps
<1>4. l = "failed" => up'[u].possible
  BY <1>1, <1>2 DEF PreviewInv
<1>5. Uploading(u)'
  BY <1>1, <1>2, <1>3, <1>4 DEF Uploading, Sealed
<1>6. \A f \in root' : f \in root \/ (f = [by |-> u, content |-> k] /\ f.by = u /\ f.content = k)
  BY <1>2
<1>7. \A v \in Uploads \ {u} : Uploading(v)'
  BY <1>3, <1>6 DEF PreviewInv, Uploading, Sealed
<1>8. \A f \in root' : Created(f)'
  <2>1. Sealed(u) /\ nonces[Preview!Approval(u).nonce] = u
    BY <1>1 DEF Uploading
  <2>2. QED BY <1>2, <1>3, <1>6, <2>1 DEF PreviewInv, Created, Sealed
<1>9. \A f, g \in root' : f.by = g.by => f = g
  <2>1. \A f \in root : f.by # u
    BY <1>1 DEF Uploading
  <2>2. QED BY <1>6, <2>1 DEF PreviewInv
<1>10. QED BY <1>3, <1>5, <1>7, <1>8, <1>9 DEF PreviewInv

LEMMA HashKeeps ==
  ASSUME PreviewInv, NEW u \in Uploads, Preview!HashRemoteFile(u)
  PROVE  PreviewInv'
<1>1. up[u] \in [pc : UpPoints, possible : BOOLEAN] /\ Uploading(u)
  BY DEF PreviewInv
<1>2. CASE Preview!UpFail(u, TRUE)
  <2>1. up'[u].possible /\ up'[u].pc = "failed"
    BY <1>2 DEF PreviewInv, Preview!UpFail
  <2>2. Uploading(u)'
    BY <1>1, <2>1 DEF Uploading
  <2>3. QED BY <1>2, <2>2, UploadMoves DEF Preview!UpFail, UpPoints
<1>3. CASE Preview!UpTo(u, "executed") /\ UNCHANGED <<clock, nonces, root>>
  BY <1>1, <1>3, UpSteps, UploadMoves, ZenonT(30) DEF Preview!UpTo, UpPoints, Uploading
<1>4. QED BY <1>2, <1>3 DEF Preview!HashRemoteFile

LEMMA StopsKeeps ==
  ASSUME PreviewInv, NEW u \in Uploads, Preview!UploadStops(u)
  PROVE  PreviewInv'
BY UpSteps, UploadMoves DEF Preview!UploadStops, Preview!UpTo, UpPoints, Uploading

LEMMA RewrittenKeeps ==
  ASSUME PreviewInv, Preview!Rewritten
  PROVE  PreviewInv'
<1>1. PICK f \in root : root' = (root \ {f}) \cup {[f EXCEPT !.content = "other"]}
  BY DEF Preview!Rewritten
<1>2. f = [by |-> f.by, content |-> f.content] /\ UNCHANGED <<up, nonces>>
  BY DEF PreviewInv, Created, Preview!Rewritten
<1>3. [f EXCEPT !.content = "other"] = [by |-> f.by, content |-> "other"]
  BY <1>2
<1>4. \A g \in root' : (g \in root /\ g # f) \/ (g = [by |-> f.by, content |-> "other"] /\ g.by = f.by /\ g.content = "other")
  BY <1>1, <1>3
<1>5. \A g \in root' : Created(g)'
  BY <1>2, <1>4 DEF PreviewInv, Created
<1>6. \A v \in Uploads : Uploading(v)'
  BY <1>2, <1>4 DEF PreviewInv, Uploading, Sealed
<1>7. QED BY <1>2, <1>4, <1>5, <1>6 DEF PreviewInv

LEMMA PreviewKeeps == OperationsAssumption /\ PreviewInv /\ [Next]_vars => PreviewInv'
<1> SUFFICES ASSUME OperationsAssumption, PreviewInv, [Next]_vars PROVE PreviewInv'
  OBVIOUS
<1>1. ASSUME UNCHANGED <<up, nonces, root>> PROVE PreviewInv'
  BY <1>1 DEF PreviewInv, Uploading, Created, Sealed
<1>2. CASE UNCHANGED previewVars \/ Preview!ClockTicks
  BY <1>1, <1>2 DEF previewVars, Preview!ClockTicks
<1>3. CASE Preview!PreviewNext
  BY <1>2, <1>3, RewrittenKeeps, GatesKeeps, ConnectKeeps, ConsumeKeeps, FinalVerifyKeeps, StouKeeps, HashKeeps, StopsKeeps
     DEF Preview!PreviewNext, Preview!UploadStep
<1>4. QED BY <1>2, <1>3, StepOfOne

\* Whatever is lost, retried, stopped or rewritten: one approval creates at most one file,
\* under the nonce it consumed, and a failure that rules out a mutation left none.
THEOREM UploadsAreHonest == Spec => []UploadIsHonest
<1>1. Init => PreviewInv
  BY PreviewStarts
<1>2. PreviewInv /\ [Next]_vars => PreviewInv'
  BY PreviewKeeps, OperationsAssumption
<1>3. PreviewInv => UploadIsHonest
  BY DEF PreviewInv, Created, Uploading, UploadIsHonest, Preview!OneFilePerApproval, Preview!FailureIsHonest
<1>4. QED BY <1>1, <1>2, <1>3, PTL DEF Spec

-----------------------------------------------------------------------------
\* checkpoint_memory and post_merge_state.

Checkpoints == {c \in MemoryCommands : c.kind = "checkpoint"}
Merges == {c \in MemoryCommands : c.kind = "merge"}
MemoryIds == {c.identity : c \in Checkpoints}
MemoryArtifacts == {FirstArtifact} \cup {c.artifact : c \in Merges} \cup {c.next : c \in Merges}

Books ==
  [kernel : [active : MemoryArtifacts, completed : SUBSET MemoryArtifacts],
   state : [active : MemoryArtifacts, headings : SUBSET MemoryArtifacts, block : MemoryIds \cup {NoIdentity}],
   worklog : Seq(MemoryIds)]

MemoryJobs ==
  [pc : {"idle", "stage", "replace", "rollback", "done", "failed", "incomplete", "dead"},
   command : MemoryCommands \cup {[kind |-> "none"]}, new : Books, old : Books, staged : BOOLEAN, replaced : 0..2]

\* Kernel and Project State of a book agree, and its worklog has no identity twice.
Agrees(b) == b.kernel.active = b.state.active /\ b.kernel.completed = b.state.headings
Once(b) == \A i, j \in DOMAIN b.worklog : b.worklog[i] = b.worklog[j] => i = j

\* new is what command c plans for old: it touches the files of c only, and is as good as old.
PlannedFor(old, new, c) ==
  /\ Agrees(old) => Agrees(new)
  /\ Once(old) => Once(new)
  /\ \/ /\ c \in Checkpoints /\ new.kernel = old.kernel /\ new.state.block = c.identity
        /\ Agrees(old) => new.state.active = old.state.active /\ new.state.headings = old.state.headings
        /\ \E i \in DOMAIN new.worklog : new.worklog[i] = c.identity
     \/ c \in Merges /\ new.worklog = old.worklog

\* The book when the first n files of the command are replaced.
Replaced(old, new, c, n) ==
  IF c.kind = "merge"
  THEN [kernel |-> IF n >= 1 THEN new.kernel ELSE old.kernel,
        state |-> IF n = 2 THEN new.state ELSE old.state, worklog |-> old.worklog]
  ELSE [kernel |-> old.kernel, state |-> IF n >= 1 THEN new.state ELSE old.state,
        worklog |-> IF n = 2 THEN new.worklog ELSE old.worklog]

\* What holds of the book while a command is at work, and what it leaves.
JobInv ==
  /\ job.pc = "stage" =>
       PlannedFor(book, job.new, job.command) /\ (torn \/ Agrees(book)) /\ job.replaced = 0
  /\ job.pc \in {"replace", "rollback", "done"} =>
       /\ PlannedFor(job.old, job.new, job.command) /\ Once(job.old) /\ (torn \/ Agrees(job.old))
       /\ book = Replaced(job.old, job.new, job.command, job.replaced)
  /\ job.pc = "replace" => job.replaced \in {0, 1}
  /\ job.pc = "rollback" => job.replaced = 1
  /\ job.pc = "done" => job.replaced = 2
  /\ job.pc = "failed" /\ job.staged => book = job.old
  /\ job.pc \in Memory!Rest /\ ~torn => Agrees(book)

MemoryInv ==
  /\ book \in Books /\ committed \in Books /\ job \in MemoryJobs /\ torn \in BOOLEAN
  /\ Once(book) /\ Once(committed) /\ (torn \/ Agrees(committed))
  /\ JobInv

LEMMA BlankTyped ==
  /\ Memory!Blank \in Books /\ Once(Memory!Blank) /\ Agrees(Memory!Blank)
  /\ Memory!NoJob \in MemoryJobs
<1>1. Memory!Blank \in Books
  BY DEF Memory!Blank, Books, MemoryArtifacts
<1>2. Once(Memory!Blank) /\ Agrees(Memory!Blank)
  BY DEF Memory!Blank, Once, Agrees
<1>3. QED BY <1>1, <1>2 DEF Memory!NoJob, MemoryJobs

LEMMA MemoryStarts == Init => MemoryInv
<1> SUFFICES ASSUME Init PROVE MemoryInv
  OBVIOUS
<1>1. book = Memory!Blank /\ committed = Memory!Blank /\ job = Memory!NoJob /\ torn = FALSE
  BY DEF Init, Memory!MemoryInit
<1>2. job.pc = "idle" /\ ~job.staged
  BY <1>1 DEF Memory!NoJob
<1>3. QED BY <1>1, <1>2, BlankTyped DEF MemoryInv, JobInv

\* The entry of a checkpoint is in the log once afterwards, and the log is as free of doubles as before.
LEMMA AppendsOnce ==
  ASSUME NEW log \in Seq(MemoryIds), NEW k \in MemoryIds
  PROVE  LET new == Memory!AppendWorklogEntry(log, k) IN
         /\ new \in Seq(MemoryIds)
         /\ \E i \in DOMAIN new : new[i] = k
         /\ (\A i, j \in DOMAIN log : log[i] = log[j] => i = j) => \A i, j \in DOMAIN new : new[i] = new[j] => i = j
<1>1. CASE \E i \in DOMAIN log : log[i] = k
  BY <1>1 DEF Memory!AppendWorklogEntry
<1>2. CASE ~\E i \in DOMAIN log : log[i] = k
  <2>1. Memory!AppendWorklogEntry(log, k) = Append(log, k)
    BY <1>2 DEF Memory!AppendWorklogEntry
  <2>2. /\ Append(log, k) \in Seq(MemoryIds) /\ DOMAIN Append(log, k) = 1..(Len(log) + 1)
        /\ Append(log, k)[Len(log) + 1] = k /\ \A i \in 1..Len(log) : Append(log, k)[i] = log[i]
        /\ Len(log) \in Nat /\ DOMAIN log = 1..Len(log)
    BY AppendProperties
  <2>3. QED BY <1>2, <2>1, <2>2
<1>3. QED BY <1>1, <1>2

LEMMA CheckpointPlans ==
  ASSUME book \in Books, NEW c \in Checkpoints
  PROVE  Memory!PlannedCheckpoint(c) \in Books /\ PlannedFor(book, Memory!PlannedCheckpoint(c), c)
<1> DEFINE new == Memory!PlannedCheckpoint(c)
           log == Memory!AppendWorklogEntry(book.worklog, c.identity)
           state == Memory!SynchronizeState(book.state, book.kernel, c.identity)
<1>1. /\ book = [kernel |-> book.kernel, state |-> book.state, worklog |-> book.worklog]
      /\ book.kernel \in [active : MemoryArtifacts, completed : SUBSET MemoryArtifacts]
      /\ book.state \in [active : MemoryArtifacts, headings : SUBSET MemoryArtifacts, block : MemoryIds \cup {NoIdentity}]
      /\ book.worklog \in Seq(MemoryIds) /\ c.identity \in MemoryIds
  BY DEF Books, MemoryIds
<1>2. new = [book EXCEPT !.state = state, !.worklog = log]
  BY DEF Memory!PlannedCheckpoint
<1>3. /\ state \in [active : MemoryArtifacts, headings : SUBSET MemoryArtifacts, block : MemoryIds \cup {NoIdentity}]
      /\ state.block = c.identity /\ state.headings = book.state.headings
      /\ state.active = IF book.kernel.active = NoArtifact THEN book.state.active ELSE book.kernel.active
  BY <1>1 DEF Memory!SynchronizeState
<1>4. /\ log \in Seq(MemoryIds) /\ \E i \in DOMAIN log : log[i] = c.identity
      /\ (\A i, j \in DOMAIN book.worklog : book.worklog[i] = book.worklog[j] => i = j) =>
           \A i, j \in DOMAIN log : log[i] = log[j] => i = j
  BY <1>1, AppendsOnce
<1> HIDE DEF log, state
<1>5. new \in Books /\ new.kernel = book.kernel /\ new.state = state /\ new.worklog = log
  BY <1>1, <1>2, <1>3, <1>4 DEF Books
<1> HIDE DEF new
<1>6. PlannedFor(book, new, c)
  BY <1>3, <1>4, <1>5 DEF PlannedFor, Agrees, Once
<1>7. QED BY <1>5, <1>6 DEF new

LEMMA MergePlans ==
  ASSUME book \in Books, NEW c \in Merges
  PROVE  Memory!PlannedMerge(c) \in Books /\ PlannedFor(book, Memory!PlannedMerge(c), c)
<1> DEFINE new == Memory!PlannedMerge(c)
           kernel == Memory!KernelTransition(book.kernel, c)
           state == Memory!ProjectStateTransition(book.state, c)
<1>1. /\ book = [kernel |-> book.kernel, state |-> book.state, worklog |-> book.worklog]
      /\ book.kernel \in [active : MemoryArtifacts, completed : SUBSET MemoryArtifacts]
      /\ book.state \in [active : MemoryArtifacts, headings : SUBSET MemoryArtifacts, block : MemoryIds \cup {NoIdentity}]
      /\ book.worklog \in Seq(MemoryIds) /\ c.artifact \in MemoryArtifacts /\ c.next \in MemoryArtifacts
  BY DEF Books, MemoryArtifacts
<1>2. new = [book EXCEPT !.kernel = kernel, !.state = state]
  BY DEF Memory!PlannedMerge
<1>3. kernel = [active |-> c.next, completed |-> book.kernel.completed \cup {c.artifact}]
  BY DEF Memory!KernelTransition
<1>4. /\ state \in [active : MemoryArtifacts, headings : SUBSET MemoryArtifacts, block : MemoryIds \cup {NoIdentity}]
      /\ state.active = c.next /\ state.headings = book.state.headings \cup {c.artifact}
  BY <1>1 DEF Memory!ProjectStateTransition
<1> HIDE DEF kernel, state
<1>5. new \in Books /\ new.kernel = kernel /\ new.state = state /\ new.worklog = book.worklog
  <2>1. kernel \in [active : MemoryArtifacts, completed : SUBSET MemoryArtifacts]
    BY <1>1, <1>3
  <2>2. QED BY <1>1, <1>2, <1>4, <2>1 DEF Books
<1> HIDE DEF new
<1>6. PlannedFor(book, new, c)
  BY <1>3, <1>4, <1>5 DEF PlannedFor, Agrees, Once
<1>7. QED BY <1>5, <1>6 DEF new

\* A command that is not begun leaves the book alone.
LEMMA JobFailsKeeps ==
  ASSUME MemoryInv, NEW c \in MemoryCommands \cup {[kind |-> "none"]}, Memory!JobFails(c), torn \/ Agrees(book)
  PROVE  MemoryInv'
<1>1. /\ job' = [Memory!NoJob EXCEPT !.pc = "failed", !.command = c] /\ UNCHANGED <<book, committed, torn>>
  BY DEF Memory!JobFails, Memory!Stay
<1>2. job' \in MemoryJobs /\ job'.pc = "failed" /\ ~job'.staged
  BY <1>1, BlankTyped DEF MemoryJobs, Memory!NoJob
<1>3. QED BY <1>1, <1>2 DEF MemoryInv, JobInv, Once, Agrees

\* A command is begun with what it plans for the book.
LEMMA BegunKeeps ==
  ASSUME MemoryInv, NEW c \in MemoryCommands, NEW new \in Books, PlannedFor(book, new, c), torn \/ Agrees(book),
         job' = [Memory!NoJob EXCEPT !.pc = "stage", !.command = c, !.new = new], UNCHANGED <<book, committed, torn>>
  PROVE  MemoryInv'
<1>1. job' \in MemoryJobs /\ job'.pc = "stage" /\ job'.new = new /\ job'.command = c /\ job'.replaced = 0
  BY BlankTyped DEF MemoryJobs, Memory!NoJob
<1>2. "stage" \notin Memory!Rest
  BY DEF Memory!Rest
<1>3. QED BY <1>1, <1>2 DEF MemoryInv, JobInv, Once, Agrees, PlannedFor

LEMMA PlanKeeps ==
  ASSUME MemoryInv, Memory!PlanCheckpoint \/ Memory!PlanPostMerge
  PROVE  MemoryInv'
<1>1. book \in Books /\ (torn \/ Agrees(book))
  BY DEF Memory!PlanCheckpoint, Memory!PlanPostMerge, MemoryInv, JobInv
<1>2. CASE Memory!PlanCheckpoint
  <2>1. PICK c \in Checkpoints :
          \/ /\ job' = [Memory!NoJob EXCEPT !.pc = "stage", !.command = c, !.new = Memory!PlannedCheckpoint(c)]
             /\ Memory!Stay
          \/ Memory!JobFails(c)
    BY <1>2 DEF Memory!PlanCheckpoint, Checkpoints
  <2>2. c \in MemoryCommands
    BY DEF Checkpoints
  <2>3. QED BY <1>1, <2>1, <2>2, CheckpointPlans, BegunKeeps, JobFailsKeeps DEF Memory!Stay
<1>3. CASE Memory!PlanPostMerge
  <2>1. PICK c \in Merges :
          \/ /\ job' = [Memory!NoJob EXCEPT !.pc = "stage", !.command = c, !.new = Memory!PlannedMerge(c)]
             /\ Memory!Stay
          \/ Memory!JobFails(c)
    BY <1>3 DEF Memory!PlanPostMerge, Merges
  <2>2. c \in MemoryCommands
    BY DEF Merges
  <2>3. QED BY <1>1, <2>1, <2>2, MergePlans, BegunKeeps, JobFailsKeeps DEF Memory!Stay
<1>4. QED BY <1>2, <1>3

LEMMA StageKeeps ==
  ASSUME MemoryInv, Memory!StageTargets
  PROVE  MemoryInv'
<1>1. /\ job \in MemoryJobs /\ job.pc = "stage" /\ book \in Books /\ Once(book)
      /\ PlannedFor(book, job.new, job.command) /\ (torn \/ Agrees(book))
  BY DEF Memory!StageTargets, MemoryInv, JobInv
<1>2. CASE Memory!JobFails(job.command)
  <2>1. job.command \in MemoryCommands \cup {[kind |-> "none"]}
    BY <1>1 DEF MemoryJobs
  <2>2. QED BY <1>1, <1>2, <2>1, JobFailsKeeps
<1>3. CASE job' = [job EXCEPT !.pc = "replace", !.old = book, !.staged = TRUE] /\ Memory!Stay
  <2>1. /\ job' \in MemoryJobs /\ job'.pc = "replace" /\ job'.old = book /\ job'.new = job.new
        /\ job'.command = job.command /\ job'.replaced = job.replaced
    BY <1>1, <1>3 DEF MemoryJobs
  <2>2. book = Replaced(book, job.new, job.command, 0)
    BY <1>1 DEF Books, Replaced
  <2>3. job.replaced = 0 /\ "replace" \notin Memory!Rest
    BY <1>1 DEF MemoryInv, JobInv, Memory!Rest
  <2>4. UNCHANGED <<book, committed, torn>>
    BY <1>3 DEF Memory!Stay
  <2>5. JobInv'
    BY <1>1, <2>1, <2>2, <2>3, <2>4 DEF JobInv, PlannedFor, Once, Agrees, Replaced
  <2>6. QED BY <2>1, <2>4, <2>5 DEF MemoryInv, Once, Agrees
<1>4. QED BY <1>2, <1>3 DEF Memory!StageTargets

\* The replacement of a part of the files leaves a book, which agrees unless a closeout is half done.
LEMMA ReplacedIsSound ==
  ASSUME NEW old \in Books, NEW new \in Books, NEW c, PlannedFor(old, new, c), NEW n \in 0..2
  PROVE  /\ Replaced(old, new, c, n) \in Books
         /\ Once(old) => Once(Replaced(old, new, c, n))
         /\ Agrees(old) => Agrees(Replaced(old, new, c, n)) \/ (c.kind = "merge" /\ n = 1)
         /\ Replaced(old, new, c, 0) = old
<1>1. Replaced(old, new, c, n) \in Books
  BY DEF Replaced, Books
<1>2. Replaced(old, new, c, n).worklog \in {old.worklog, new.worklog}
  BY DEF Replaced
<1>3. Once(old) => Once(Replaced(old, new, c, n))
  BY <1>2 DEF Once, PlannedFor
<1>4. Agrees(old) => Agrees(Replaced(old, new, c, n)) \/ (c.kind = "merge" /\ n = 1)
  <2>1. CASE c \in Merges
    BY <2>1 DEF Merges, PlannedFor, Replaced, Agrees
  <2>2. CASE c \in Checkpoints
    <3>1. c.kind # "merge" /\ c \notin Merges
      BY <2>2 DEF Checkpoints, Merges
    <3>2. QED BY <3>1 DEF PlannedFor, Replaced, Agrees
  <2>3. QED BY <2>1, <2>2 DEF PlannedFor
<1>5. Replaced(old, new, c, 0) = old
  BY DEF Replaced, Books
<1>6. QED BY <1>1, <1>3, <1>4, <1>5

\* The next replacement, and the one that takes the first back.
LEMMA ReplacedNext ==
  ASSUME NEW old \in Books, NEW new \in Books, NEW c, NEW n \in {0, 1},
         book = Replaced(old, new, c, n)
  PROVE  /\ [book EXCEPT ![Memory!Targets(c)[n + 1]] = new[Memory!Targets(c)[n + 1]]] = Replaced(old, new, c, n + 1)
         /\ n = 1 => [book EXCEPT ![Memory!Targets(c)[1]] = old[Memory!Targets(c)[1]]] = old
<1>1. CASE c.kind = "merge"
  BY <1>1 DEF Replaced, Memory!Targets, Books
<1>2. CASE c.kind # "merge"
  BY <1>2 DEF Replaced, Memory!Targets, Books
<1>3. QED BY <1>1, <1>2

\* A command at work, at any of its points.
LEMMA AtWork ==
  ASSUME MemoryInv, job.pc \in {"replace", "rollback", "done"}
  PROVE  /\ job \in MemoryJobs /\ job.old \in Books /\ job.new \in Books /\ job.replaced \in 0..2
         /\ PlannedFor(job.old, job.new, job.command) /\ Once(job.old) /\ (torn \/ Agrees(job.old))
         /\ book = Replaced(job.old, job.new, job.command, job.replaced)
BY DEF MemoryInv, JobInv, MemoryJobs

\* Kernel and Project State agree at every point but in the middle of a closeout.
LEMMA HalfDone ==
  ASSUME MemoryInv, job.pc \in {"replace", "rollback", "done"}
  PROVE  torn \/ Agrees(book) \/ (job.command.kind = "merge" /\ job.replaced = 1)
<1>1. Agrees(job.old) => Agrees(Replaced(job.old, job.new, job.command, job.replaced))
                         \/ (job.command.kind = "merge" /\ job.replaced = 1)
  BY AtWork, ReplacedIsSound
<1>2. torn \/ Agrees(job.old)
  BY AtWork
<1>3. book = Replaced(job.old, job.new, job.command, job.replaced)
  BY AtWork
<1>4. QED BY <1>1, <1>2, <1>3

LEMMA ReplaceKeeps ==
  ASSUME MemoryInv, Memory!ReplaceTargets
  PROVE  MemoryInv'
<1> DEFINE t == Memory!Targets(job.command)[job.replaced + 1]
<1>1. job.pc = "replace" /\ job.replaced \in {0, 1} /\ UNCHANGED <<committed, torn>>
  BY DEF Memory!ReplaceTargets, MemoryInv, JobInv
<1>2. CASE /\ book' = [book EXCEPT ![t] = job.new[t]]
           /\ job' = [job EXCEPT !.replaced = @ + 1, !.pc = IF job.replaced = 1 THEN "done" ELSE "replace"]
  <2>1. book' = Replaced(job.old, job.new, job.command, job.replaced + 1)
    BY <1>1, <1>2, AtWork, ReplacedNext
  <2>2. /\ job' \in MemoryJobs /\ job'.replaced = job.replaced + 1 /\ job'.old = job.old /\ job'.new = job.new
        /\ job'.command = job.command /\ job'.pc = IF job.replaced = 1 THEN "done" ELSE "replace"
    <3>1. job.replaced + 1 \in 0..2 /\ (IF job.replaced = 1 THEN "done" ELSE "replace") \in {"done", "replace"}
      BY <1>1
    <3>2. QED BY <1>1, <1>2, <3>1, AtWork DEF MemoryJobs
  <2>3. /\ book' \in Books /\ Once(book')
        /\ Agrees(job.old) => Agrees(book') \/ job.replaced + 1 = 1
    BY <1>1, <2>1, AtWork, ReplacedIsSound
  <2>4. "replace" \notin Memory!Rest
    BY DEF Memory!Rest
  <2>5. /\ PlannedFor(job'.old, job'.new, job'.command) /\ Once(job'.old) /\ (torn' \/ Agrees(job'.old))
        /\ book' = Replaced(job'.old, job'.new, job'.command, job'.replaced)
    BY <1>1, <2>1, <2>2, AtWork
  <2>6. JobInv'
    <3>1. job.replaced = 1 => torn' \/ Agrees(book')
      BY <2>3, <2>5, <2>2
    <3>2. CASE job.replaced = 0
      BY <1>1, <2>2, <2>4, <2>5, <3>2 DEF JobInv
    <3>3. CASE job.replaced = 1
      BY <1>1, <2>2, <2>5, <3>1, <3>3 DEF JobInv
    <3>4. QED BY <1>1, <3>2, <3>3
  <2>7. QED BY <1>1, <2>2, <2>3, <2>6 DEF MemoryInv, Once, Agrees
<1>3. CASE /\ job' = [job EXCEPT !.pc = IF job.replaced = 0 THEN "failed" ELSE "rollback"]
           /\ UNCHANGED book
  <2>1. /\ job' \in MemoryJobs /\ job'.replaced = job.replaced /\ job'.old = job.old /\ job'.new = job.new
        /\ job'.command = job.command /\ job'.pc = IF job.replaced = 0 THEN "failed" ELSE "rollback"
    BY <1>1, <1>3, AtWork DEF MemoryJobs
  <2>2. job.replaced = 0 => book = job.old
    BY <1>1, AtWork, ReplacedIsSound
  <2>3. "rollback" \notin Memory!Rest
    BY DEF Memory!Rest
  <2>4. JobInv'
    BY <1>1, <1>3, <2>1, <2>2, <2>3, AtWork DEF JobInv, PlannedFor, Once, Agrees, Replaced
  <2>5. QED BY <1>1, <1>3, <2>1, <2>4 DEF MemoryInv, Once, Agrees
<1>4. QED BY <1>1, <1>2, <1>3 DEF Memory!ReplaceTargets

LEMMA RollBackKeeps ==
  ASSUME MemoryInv, Memory!RollBackTargets
  PROVE  MemoryInv'
<1> DEFINE t == Memory!Targets(job.command)[1]
<1>1. job.pc = "rollback" /\ job.replaced = 1 /\ UNCHANGED committed
  BY DEF Memory!RollBackTargets, MemoryInv, JobInv
<1>2. ASSUME NEW l \in {"failed", "incomplete"}, job' = [job EXCEPT !.pc = l]
      PROVE  job' \in MemoryJobs /\ job'.old = job.old /\ job'.pc = l /\ job'.staged = job.staged
  BY <1>1, <1>2, AtWork DEF MemoryJobs
<1>3. CASE book' = [book EXCEPT ![t] = job.old[t]] /\ job' = [job EXCEPT !.pc = "failed"] /\ UNCHANGED torn
  <2>1. book' = job.old
    BY <1>1, <1>3, AtWork, ReplacedNext
  <2>2. JobInv'
    BY <1>1, <1>2, <1>3, <2>1, AtWork DEF JobInv, Agrees
  <2>3. QED BY <1>1, <1>2, <1>3, <2>1, <2>2, AtWork DEF MemoryInv, Once, Agrees
<1>4. CASE job' = [job EXCEPT !.pc = "incomplete"] /\ torn' = (torn \/ Memory!Merging) /\ UNCHANGED book
  <2>1. torn' \in BOOLEAN /\ (torn => torn')
    BY <1>4 DEF MemoryInv
  <2>2. torn' \/ Agrees(book)
    BY <1>1, <1>4, HalfDone DEF Memory!Merging, MemoryInv
  <2>3. JobInv'
    BY <1>1, <1>2, <1>4, <2>2 DEF JobInv, Agrees
  <2>4. QED BY <1>1, <1>2, <1>4, <2>1, <2>3 DEF MemoryInv, Once, Agrees
<1>5. QED BY <1>3, <1>4 DEF Memory!RollBackTargets

LEMMA MemoryStopsKeeps ==
  ASSUME MemoryInv, Memory!MemoryStops
  PROVE  MemoryInv'
<1>1. /\ job' = [job EXCEPT !.pc = "dead"] /\ UNCHANGED <<book, committed>>
      /\ torn' = (torn \/ (Memory!Merging /\ job.replaced = 1)) /\ job.pc \in {"stage", "replace", "rollback"}
  BY DEF Memory!MemoryStops, Memory!Rest, MemoryInv, MemoryJobs
<1>2. job' \in MemoryJobs /\ job'.pc = "dead"
  BY <1>1 DEF MemoryInv, MemoryJobs
<1>3. torn' \in BOOLEAN /\ (torn => torn')
  BY <1>1 DEF MemoryInv
<1>4. torn' \/ Agrees(book)
  <2>1. CASE job.pc = "stage"
    BY <1>3, <2>1 DEF MemoryInv, JobInv
  <2>2. CASE job.pc \in {"replace", "rollback"}
    BY <1>1, <1>3, <2>2, HalfDone DEF Memory!Merging, MemoryInv
  <2>3. QED BY <1>1, <2>1, <2>2
<1>5. JobInv'
  BY <1>1, <1>2, <1>4 DEF JobInv, Agrees
<1>6. QED BY <1>1, <1>2, <1>3, <1>5 DEF MemoryInv, Once, Agrees

LEMMA OperatorKeeps ==
  ASSUME MemoryInv, Memory!Commit \/ Memory!Restore
  PROVE  MemoryInv'
<1>1. CASE Memory!Commit
  <2>1. committed' = book /\ UNCHANGED <<book, job, torn>> /\ (torn \/ Agrees(book))
    BY <1>1 DEF Memory!Commit, MemoryInv, JobInv
  <2>2. JobInv'
    BY <2>1 DEF MemoryInv, JobInv, PlannedFor, Once, Agrees, Replaced
  <2>3. QED BY <2>1, <2>2 DEF MemoryInv, Once, Agrees
<1>2. CASE Memory!Restore
  <2>1. book' = committed /\ job' = Memory!NoJob /\ UNCHANGED <<committed, torn>>
    BY <1>2 DEF Memory!Restore
  <2>2. job'.pc = "idle"
    BY <2>1 DEF Memory!NoJob
  <2>3. JobInv'
    BY <2>1, <2>2 DEF MemoryInv, JobInv, Agrees
  <2>4. QED BY <2>1, <2>3, BlankTyped DEF MemoryInv, Once, Agrees
<1>3. QED BY <1>1, <1>2

LEMMA MemoryKeeps == MemoryInv /\ [Next]_vars => MemoryInv'
<1> SUFFICES ASSUME MemoryInv, [Next]_vars PROVE MemoryInv'
  OBVIOUS
<1>1. CASE UNCHANGED memoryVars
  BY <1>1 DEF memoryVars, MemoryInv, JobInv, PlannedFor, Once, Agrees, Replaced
<1>2. CASE Memory!MemoryNext
  BY <1>2, PlanKeeps, StageKeeps, ReplaceKeeps, RollBackKeeps, MemoryStopsKeeps, OperatorKeeps DEF Memory!MemoryNext
<1>3. QED BY <1>1, <1>2, StepOfOne

LEMMA MemoryGives == MemoryInv => MemoryIsWhole
<1> SUFFICES ASSUME MemoryInv PROVE MemoryIsWhole
  OBVIOUS
<1>1. CASE job.pc = "done"
  <2>1. /\ book = Replaced(job.old, job.new, job.command, 2) /\ PlannedFor(job.old, job.new, job.command)
    BY <1>1, AtWork DEF MemoryInv, JobInv
  <2>2. CASE job.command \in Merges
    <3>1. job.command.kind = "merge"
      BY <2>2 DEF Merges
    <3>2. QED BY <1>1, <2>1, <3>1 DEF MemoryIsWhole, Memory!AllOrNothing, Memory!MemoryCoherent, Memory!Targets,
                                   Replaced, MemoryInv, JobInv, Once, Agrees
  <2>3. CASE job.command \in Checkpoints
    <3>1. job.command.kind = "checkpoint" /\ job.command \notin Merges
      BY <2>3 DEF Checkpoints, Merges
    <3>2. /\ book.state = job.new.state /\ book.worklog = job.new.worklog /\ book.state.block = job.command.identity
          /\ \E i \in DOMAIN book.worklog : book.worklog[i] = job.command.identity
      BY <2>1, <3>1 DEF PlannedFor, Replaced
    <3>3. QED BY <1>1, <3>1, <3>2 DEF MemoryIsWhole, Memory!AllOrNothing, Memory!MemoryCoherent, Memory!Targets,
                                   MemoryInv, JobInv, Once, Agrees
  <2>4. QED BY <2>1, <2>2, <2>3 DEF PlannedFor
<1>2. CASE job.pc # "done"
  BY <1>2 DEF MemoryIsWhole, Memory!AllOrNothing, Memory!MemoryCoherent, MemoryInv, JobInv, Once, Agrees
<1>3. QED BY <1>1, <1>2

\* Whatever fails, stops or is rolled back: both files of a command or none, and Kernel,
\* Project State and worklog agree.
THEOREM MemoryStaysWhole == Spec => []MemoryIsWhole
<1>1. QED BY MemoryStarts, MemoryKeeps, MemoryGives, PTL DEF Spec

-----------------------------------------------------------------------------
\* execution.

Clients ==
  [pc : {"start", "blocked", "sent", "receipt"}, receipt : [exit : Int, possible : BOOLEAN, result : BOOLEAN]]
Servers ==
  [pc : {"none", "connecting", "received", "lost", "running", "answered"}, exit : Int,
   inventory : {"none", "valid"}, gone : BOOLEAN]

\* What reached the server was authorized at the client, what runs there was authorized by both,
\* and a receipt says what the call is and how the server answered.
RemoteCall(c) ==
  /\ client[c].pc \in {"start", "blocked"} => server[c].pc = "none" /\ c \notin effects
  /\ client[c].pc \in {"sent", "receipt"} /\ Remote!IsMutating(c) => Actions[c].reference \in ClientGrants
  /\ client[c].pc = "receipt" => (client[c].receipt.possible <=> Remote!IsMutating(c))
  /\ client[c].pc = "receipt" /\ client[c].receipt.exit = 0 => server[c].pc = "answered" /\ server[c].exit = 0
  /\ c \in effects =>
       /\ Remote!IsMutating(c) /\ server[c].pc \in {"running", "answered"}
       /\ Actions[c].reference \in ClientGrants \cap ServerGrants

RemoteInv ==
  /\ client \in [RemoteCalls -> Clients] /\ server \in [RemoteCalls -> Servers]
  /\ \A c \in RemoteCalls : RemoteCall(c)

LEMMA RemoteStarts == Init => RemoteInv
BY DEF Init, Remote!RemoteInit, Remote!NoReceipt, RemoteInv, Clients, Servers, RemoteCall

\* Whatever the commands do, what is collected of them validates.
LEMMA CollectedValidates ==
  ASSUME NEW v, NEW l, NEW u
  PROVE  Remote!ValidInventory(Remote!DockerInventory(v, l, u))
<1>1. CASE ~Remote!Ran(v)
  BY <1>1, Zenon DEF Remote!ValidInventory, Remote!DockerInventory
<1>2. CASE Remote!Ran(v)
  BY <1>2 DEF Remote!ValidInventory, Remote!DockerInventory, Remote!Rows
<1>3. QED BY <1>1, <1>2

\* A step of one call leaves the others alone.
LEMMA RemoteFrame ==
  ASSUME RemoteInv, NEW c \in RemoteCalls, client' \in [RemoteCalls -> Clients], server' \in [RemoteCalls -> Servers],
         \A d \in RemoteCalls \ {c} : client'[d] = client[d] /\ server'[d] = server[d] /\ (d \in effects' <=> d \in effects),
         RemoteCall(c)'
  PROVE  RemoteInv'
BY DEF RemoteInv, RemoteCall, Remote!IsMutating, Remote!Operation

\* What the forms of a step of client[c] and of server[c] leave.
LEMMA BuiltReceipt ==
  ASSUME RemoteInv, NEW c \in RemoteCalls, NEW exit \in Int, NEW result \in BOOLEAN, Remote!BuildReceipt(c, exit, result)
  PROVE  /\ client' \in [RemoteCalls -> Clients] /\ \A d \in RemoteCalls \ {c} : client'[d] = client[d]
         /\ client'[c].pc = "receipt" /\ client'[c].receipt.exit = exit
         /\ client'[c].receipt.possible <=> Remote!IsMutating(c)
<1> DEFINE new == [pc |-> "receipt", receipt |-> [exit |-> exit, possible |-> Remote!IsMutating(c), result |-> result]]
<1>1. new \in Clients
  <2>1. \A m \in BOOLEAN : [pc |-> "receipt", receipt |-> [exit |-> exit, possible |-> m, result |-> result]] \in Clients
    BY DEF Clients
  <2>2. Remote!IsMutating(c) \in BOOLEAN
    BY DEF Remote!IsMutating
  <2>3. QED BY <2>1, <2>2, Zenon
<1>2. client' = [client EXCEPT ![c] = new] /\ client \in [RemoteCalls -> Clients]
  BY DEF Remote!BuildReceipt, RemoteInv
<1>3. client'[c] = new
  BY <1>2
<1>4. /\ client'[c].pc = "receipt" /\ client'[c].receipt.exit = exit
      /\ client'[c].receipt.possible <=> Remote!IsMutating(c)
  BY <1>3
<1> HIDE DEF new
<1>5. QED BY <1>1, <1>2, <1>4

LEMMA ServedTo ==
  ASSUME RemoteInv, NEW c \in RemoteCalls, NEW exit \in Int, NEW l \in {"received", "lost", "running", "answered"},
         Remote!ServerTo(c, l, exit)
  PROVE  /\ server' \in [RemoteCalls -> Servers] /\ \A d \in RemoteCalls \ {c} : server'[d] = server[d]
         /\ server'[c].pc = l /\ server'[c].exit = exit /\ UNCHANGED client
         /\ client \in [RemoteCalls -> Clients]
BY DEF RemoteInv, Remote!ServerTo, Servers

LEMMA ExecuteKeeps ==
  ASSUME RemoteInv, NEW c \in RemoteCalls, Remote!ExecuteAction(c)
  PROVE  RemoteInv'
<1>1. client[c] \in Clients /\ server[c] \in Servers /\ client[c].pc = "start" /\ RemoteCall(c) /\ UNCHANGED effects
  BY DEF RemoteInv, Remote!ExecuteAction
<1>2. CASE /\ Remote!IsMutating(c) => Actions[c].reference \in ClientGrants
           /\ Remote!ClientTo(c, "sent") /\ server' = [server EXCEPT ![c].pc = "connecting"]
  <2>1. /\ client' \in [RemoteCalls -> Clients] /\ client'[c].pc = "sent"
        /\ server' \in [RemoteCalls -> Servers] /\ server'[c].pc = "connecting"
        /\ \A d \in RemoteCalls \ {c} : client'[d] = client[d] /\ server'[d] = server[d]
    <3>1. /\ client' \in [RemoteCalls -> Clients] /\ client'[c].pc = "sent"
          /\ \A d \in RemoteCalls \ {c} : client'[d] = client[d]
      BY <1>2 DEF RemoteInv, Clients, Remote!ClientTo
    <3>2. /\ server' \in [RemoteCalls -> Servers] /\ server'[c].pc = "connecting"
          /\ \A d \in RemoteCalls \ {c} : server'[d] = server[d]
      BY <1>2 DEF RemoteInv, Servers
    <3>3. QED BY <3>1, <3>2
  <2>2. RemoteCall(c)'
    BY <1>1, <1>2, <2>1 DEF RemoteCall, Remote!IsMutating, Remote!Operation
  <2>3. QED BY <1>1, <2>1, <2>2, RemoteFrame
<1>3. CASE Remote!ClientTo(c, "blocked") /\ UNCHANGED server
  <2>1. /\ client' \in [RemoteCalls -> Clients] /\ client'[c].pc = "blocked" /\ server' \in [RemoteCalls -> Servers]
        /\ \A d \in RemoteCalls \ {c} : client'[d] = client[d] /\ server'[d] = server[d]
    BY <1>3 DEF RemoteInv, Clients, Remote!ClientTo
  <2>2. RemoteCall(c)'
    BY <1>1, <1>3, <2>1 DEF RemoteCall
  <2>3. QED BY <1>1, <2>1, <2>2, RemoteFrame
<1>4. QED BY <1>2, <1>3 DEF Remote!ExecuteAction

LEMMA TransportKeeps ==
  ASSUME RemoteInv, NEW c \in RemoteCalls, Remote!TransportFails(c)
  PROVE  RemoteInv'
<1>1. PICK exit \in {124, 255}, result \in BOOLEAN : Remote!BuildReceipt(c, exit, result)
  BY Zenon DEF Remote!TransportFails
<1>2. client[c].pc = "sent" /\ RemoteCall(c) /\ server' = [server EXCEPT ![c].gone = TRUE] /\ UNCHANGED effects
  BY DEF RemoteInv, Remote!TransportFails
<1>3. /\ client' \in [RemoteCalls -> Clients] /\ \A d \in RemoteCalls \ {c} : client'[d] = client[d]
      /\ client'[c].pc = "receipt" /\ client'[c].receipt.exit # 0
      /\ client'[c].receipt.possible <=> Remote!IsMutating(c)
  <2>1. exit \in Int /\ exit # 0
    BY <1>1
  <2>2. QED BY <1>1, <2>1, BuiltReceipt
<1>4. /\ server' \in [RemoteCalls -> Servers] /\ server'[c].pc = server[c].pc
      /\ \A d \in RemoteCalls \ {c} : server'[d] = server[d]
  <2>1. server \in [RemoteCalls -> Servers] /\ server[c] \in Servers
    BY DEF RemoteInv
  <2>2. [server[c] EXCEPT !.gone = TRUE] \in Servers /\ [server[c] EXCEPT !.gone = TRUE].pc = server[c].pc
    BY <2>1 DEF Servers
  <2>3. server' = [server EXCEPT ![c] = [server[c] EXCEPT !.gone = TRUE]]
    BY <1>2
  <2>4. QED BY <2>1, <2>2, <2>3
<1>5. RemoteCall(c)'
  <2>1. Remote!IsMutating(c) => Actions[c].reference \in ClientGrants
    BY <1>2 DEF RemoteCall
  <2>2. c \in effects => /\ Remote!IsMutating(c) /\ server[c].pc \in {"running", "answered"}
                         /\ Actions[c].reference \in ClientGrants \cap ServerGrants
    BY <1>2 DEF RemoteCall
  <2>3. UNCHANGED effects /\ server'[c].pc = server[c].pc
    BY <1>2, <1>4
  <2> DEFINE mutating == Remote!IsMutating(c)
  <2>4. mutating' <=> mutating
    BY DEF Remote!IsMutating, Remote!Operation
  <2>5. /\ client'[c].pc = "receipt" /\ client'[c].receipt.exit # 0
        /\ client'[c].receipt.possible <=> mutating'
    BY <1>3, <2>4
  <2>6. /\ mutating' => Actions[c].reference \in ClientGrants
        /\ c \in effects' => /\ mutating' /\ server'[c].pc \in {"running", "answered"}
                             /\ Actions[c].reference \in ClientGrants \cap ServerGrants
    BY <2>1, <2>2, <2>3, <2>4
  <2>7. QED BY <2>5, <2>6 DEF RemoteCall
<1>6. \A d \in RemoteCalls \ {c} :
        client'[d] = client[d] /\ server'[d] = server[d] /\ (d \in effects' <=> d \in effects)
  <2>1. UNCHANGED effects
    BY <1>2
  <2>2. QED BY <1>3, <1>4, <2>1
<1>7. client' \in [RemoteCalls -> Clients] /\ server' \in [RemoteCalls -> Servers]
  BY <1>3, <1>4
<1>8. QED BY <1>5, <1>6, <1>7, RemoteFrame

LEMMA ReceiveKeeps ==
  ASSUME RemoteInv, NEW c \in RemoteCalls, Remote!Receive(c)
  PROVE  RemoteInv'
<1>1. PICK l \in {"received", "lost"} : Remote!ServerTo(c, l, -1)
  BY DEF Remote!Receive
<1>2. server[c].pc = "connecting" /\ RemoteCall(c) /\ UNCHANGED effects
  BY DEF RemoteInv, Remote!Receive
<1>3. /\ server' \in [RemoteCalls -> Servers] /\ \A d \in RemoteCalls \ {c} : server'[d] = server[d]
      /\ server'[c].pc = l /\ UNCHANGED client /\ client \in [RemoteCalls -> Clients]
  BY <1>1, ServedTo
<1>4. RemoteCall(c)'
  BY <1>2, <1>3 DEF RemoteCall, Remote!IsMutating, Remote!Operation
<1>5. QED BY <1>2, <1>3, <1>4, RemoteFrame

\* The server starts a mutating command under its own grant only.
LEMMA DispatchKeeps ==
  ASSUME RemoteInv, NEW c \in RemoteCalls, Remote!Dispatch(c)
  PROVE  RemoteInv'
<1>1. server[c].pc = "received" /\ RemoteCall(c) /\ client[c].pc \in {"start", "blocked", "sent", "receipt"}
  BY DEF RemoteInv, Clients, Remote!Dispatch
<1>2. PICK l \in {"running", "answered"}, exit \in {-1, 2, 126} :
        /\ Remote!ServerTo(c, l, exit)
        /\ \/ effects' = effects
           \/ /\ effects' = effects \cup {c} /\ Remote!IsMutating(c) /\ Actions[c].reference \in ServerGrants
              /\ l = "running"
  BY DEF Remote!Dispatch
<1>3. /\ server' \in [RemoteCalls -> Servers] /\ \A d \in RemoteCalls \ {c} : server'[d] = server[d]
      /\ server'[c].pc = l /\ UNCHANGED client /\ client \in [RemoteCalls -> Clients]
  BY <1>2, ServedTo
<1>4. RemoteCall(c)'
  BY <1>1, <1>2, <1>3 DEF RemoteCall, Remote!IsMutating, Remote!Operation
<1>5. \A d \in RemoteCalls \ {c} : d \in effects' <=> d \in effects
  BY <1>2
<1>6. QED BY <1>3, <1>4, <1>5, RemoteFrame

LEMMA CommandEndsKeeps ==
  ASSUME RemoteInv, NEW c \in RemoteCalls, Remote!CommandEnds(c)
  PROVE  RemoteInv'
<1>1. server[c].pc = "running" /\ RemoteCall(c) /\ UNCHANGED <<client, effects>> /\ client \in [RemoteCalls -> Clients]
  BY DEF RemoteInv, Remote!CommandEnds
<1>2. /\ server' \in [RemoteCalls -> Servers] /\ \A d \in RemoteCalls \ {c} : server'[d] = server[d]
      /\ server'[c].pc = "answered"
  <2>1. CASE \E exit \in {0, 1, 124} : Remote!ServerTo(c, "answered", exit)
    BY <2>1, ServedTo
  <2>2. ASSUME NEW v, NEW l, NEW u,
               LET valid == Remote!ValidInventory(Remote!DockerInventory(v, l, u)) IN
               server' = [server EXCEPT ![c].pc = "answered", ![c].exit = IF valid THEN 0 ELSE 1,
                                        ![c].inventory = IF valid THEN "valid" ELSE "invalid"]
        PROVE  /\ server' \in [RemoteCalls -> Servers] /\ \A d \in RemoteCalls \ {c} : server'[d] = server[d]
               /\ server'[c].pc = "answered"
    <3>1. server' = [server EXCEPT ![c].pc = "answered", ![c].exit = 0, ![c].inventory = "valid"]
      BY <2>2, CollectedValidates, Zenon
    <3>2. server \in [RemoteCalls -> Servers] /\ server[c] \in Servers
      BY DEF RemoteInv
    <3>3. /\ [server[c] EXCEPT !.pc = "answered", !.exit = 0, !.inventory = "valid"] \in Servers
          /\ [server[c] EXCEPT !.pc = "answered", !.exit = 0, !.inventory = "valid"].pc = "answered"
      <4>1. \A b \in Servers, e \in Int :
              /\ [b EXCEPT !.pc = "answered", !.exit = e, !.inventory = "valid"] \in Servers
              /\ [b EXCEPT !.pc = "answered", !.exit = e, !.inventory = "valid"].pc = "answered"
        BY DEF Servers
      <4>2. 0 \in Int
        OBVIOUS
      <4>3. QED BY <3>2, <4>1, <4>2
    <3>4. server' = [server EXCEPT ![c] = [server[c] EXCEPT !.pc = "answered", !.exit = 0, !.inventory = "valid"]]
      BY <3>1, <3>2
    <3>5. QED BY <3>2, <3>3, <3>4
  <2>3. QED BY <2>1, <2>2 DEF Remote!CommandEnds
<1>3. RemoteCall(c)'
  BY <1>1, <1>2 DEF RemoteCall, Remote!IsMutating, Remote!Operation
<1>4. QED BY <1>1, <1>2, <1>3, RemoteFrame

LEMMA AnsweredKeeps ==
  ASSUME RemoteInv, NEW c \in RemoteCalls, Remote!Answered(c)
  PROVE  RemoteInv'
<1>1. /\ client[c].pc = "sent" /\ server[c].pc = "answered" /\ RemoteCall(c) /\ UNCHANGED <<server, effects>>
      /\ server \in [RemoteCalls -> Servers]
  BY DEF RemoteInv, Remote!Answered
<1>2. PICK exit \in {65, Remote!ServerExit(c)}, result \in BOOLEAN : Remote!BuildReceipt(c, exit, result)
  BY Zenon DEF Remote!Answered
<1>3. exit \in Int /\ (exit = 0 => server[c].exit = 0)
  BY <1>2 DEF Remote!ServerExit
<1>4. /\ client' \in [RemoteCalls -> Clients] /\ \A d \in RemoteCalls \ {c} : client'[d] = client[d]
      /\ client'[c].pc = "receipt" /\ client'[c].receipt.exit = exit
      /\ client'[c].receipt.possible <=> Remote!IsMutating(c)
  BY <1>2, <1>3, BuiltReceipt
<1>5. RemoteCall(c)'
  BY <1>1, <1>3, <1>4 DEF RemoteCall, Remote!IsMutating, Remote!Operation
<1>6. QED BY <1>1, <1>4, <1>5, RemoteFrame

LEMMA RemoteKeeps == RemoteInv /\ [Next]_vars => RemoteInv'
<1> SUFFICES ASSUME RemoteInv, [Next]_vars PROVE RemoteInv'
  OBVIOUS
<1>1. CASE UNCHANGED remoteVars
  BY <1>1 DEF remoteVars, RemoteInv, RemoteCall, Remote!IsMutating, Remote!Operation
<1>2. CASE Remote!RemoteNext
  BY <1>2, ExecuteKeeps, TransportKeeps, ReceiveKeeps, DispatchKeeps, CommandEndsKeeps, AnsweredKeeps DEF Remote!RemoteNext
<1>3. QED BY <1>1, <1>2, StepOfOne

LEMMA RemoteGives == RemoteInv => RemoteIsHonest
<1> SUFFICES ASSUME RemoteInv, NEW c \in RemoteCalls
             PROVE  /\ client[c].pc = "receipt" /\ (c \in effects \/ (Remote!IsMutating(c) /\ server[c].pc \in {"received", "running"})) =>
                         client[c].receipt.possible
                    /\ client[c].pc = "receipt" /\ client[c].receipt.exit = 0 => server[c].pc = "answered" /\ server[c].exit = 0
                    /\ client[c].pc \in {"start", "blocked"} => server[c].pc = "none" /\ c \notin effects
                    /\ c \in effects => Actions[c].reference \in ClientGrants \cap ServerGrants
                    /\ server[c].inventory # "invalid"
  BY DEF RemoteIsHonest, Remote!ReceiptsAreHonest, Remote!InventoryValidates
<1>1. RemoteCall(c) /\ server[c] \in Servers
  BY DEF RemoteInv
<1>2. server[c].inventory # "invalid"
  BY <1>1 DEF Servers
<1>3. QED BY <1>1, <1>2 DEF RemoteCall

\* However connections, commands and answers fail: no receipt denies what the server did or may
\* do, and an inventory is never lost because a part of it could not be read.
THEOREM RemoteStaysHonest == Spec => []RemoteIsHonest
<1>1. QED BY RemoteStarts, RemoteKeeps, RemoteGives, PTL DEF Spec

-----------------------------------------------------------------------------
\* communication.

RoomPoints == {"start", "select", "ask", "reply", "error", "returned", "raised"}
RoomEvents == [submit : Submits, kind : {"user", "reply", "error"}, agent : Nat]
SubmitState == [pc : RoomPoints, left : Seq(Agents), appended : Seq(RoomEvents), heard : SUBSET Agents]

\* Where in the loop the call is: the agents left are in order and after those returned, nothing
\* is stored of them but a reply of the first one for which the gateway raised, and the first
\* one is the one that was heard.
Asking(s) ==
  /\ \A k, l \in DOMAIN submit[s].left : k < l => submit[s].left[k] < submit[s].left[l]
  /\ \A k \in DOMAIN submit[s].left, l \in DOMAIN submit[s].appended :
       submit[s].appended[l].agent < submit[s].left[k]
  /\ submit[s].pc # "raised" =>
       \A k \in DOMAIN submit[s].left, i \in Room!Own(s) : room[i].agent = submit[s].left[k] =>
         k = 1 /\ submit[s].pc = "error" /\ room[i].kind = "reply"
  /\ submit[s].pc \in {"reply", "error"} => submit[s].left # <<>>

\* What is stored of the call, returned or not.
Storing(s) ==
  /\ \A k \in DOMAIN submit[s].appended : submit[s].appended[k].submit = s
  /\ submit[s].pc = "start" => Room!Own(s) = {} /\ submit[s].appended = <<>> /\ submit[s].heard = {}
  /\ submit[s].pc = "select" =>
       /\ \A i \in Room!Own(s) : room[i].agent = 0
       /\ \A k \in DOMAIN submit[s].appended : submit[s].appended[k].agent = 0
  /\ submit[s].pc \notin {"start", "raised"} =>
       /\ \E i \in Room!Own(s) : room[i].kind = "user"
       /\ \A i \in Room!Own(s) :
            \/ room[i] \in Room!Range(submit[s].appended)
            \/ /\ room[i].kind = "reply"
               /\ \/ Room!ErrorOf(s, room[i].agent)
                  \/ submit[s].pc = "error" /\ submit[s].left # <<>> /\ room[i].agent = submit[s].left[1]
       /\ \A a \in submit[s].heard :
            \/ Room!Reports(s, a)
            \/ submit[s].pc \in {"reply", "error"} /\ submit[s].left # <<>> /\ a = submit[s].left[1]

RoomText(s) ==
  Room!StoredInOrder(s) /\ Room!CauseFirst(s) /\ Room!OneByOne(s) /\ Asking(s) /\ Storing(s)

RoomInv ==
  /\ room \in Seq(RoomEvents) /\ registry \subseteq Agents /\ IsFiniteSet(registry)
  /\ submit \in [Submits -> SubmitState]
  /\ \A s \in Submits : RoomText(s)

LEMMA RoomStarts == Init => RoomInv
<1> SUFFICES ASSUME Init PROVE RoomInv
  OBVIOUS
<1> DEFINE first == [pc |-> "start", left |-> <<>>, appended |-> <<>>, heard |-> {}]
<1>1. room = <<>> /\ registry = {} /\ submit = [s \in Submits |-> first]
  BY DEF Init, Room!RoomInit
<1>2. first \in SubmitState
  BY DEF SubmitState, RoomPoints
<1>3. DOMAIN <<>> = {} /\ IsFiniteSet({}) /\ room \in Seq(RoomEvents)
  BY <1>1, FS_EmptySet
<1>4. ASSUME NEW s \in Submits PROVE RoomText(s)
  <2>1. /\ submit[s].pc = "start" /\ submit[s].left = <<>> /\ submit[s].appended = <<>>
        /\ submit[s].heard = {} /\ DOMAIN room = {} /\ Room!Own(s) = {}
    BY <1>1, <1>3 DEF Room!Own
  <2>2. Asking(s) /\ Storing(s)
    BY <1>3, <2>1 DEF Asking, Storing
  <2>3. QED BY <1>3, <2>1, <2>2 DEF RoomText, Room!StoredInOrder, Room!CauseFirst, Room!OneByOne, Room!Returned
<1>5. QED BY <1>1, <1>2, <1>3, <1>4 DEF RoomInv

\* What a sequence contains after an element was appended.
LEMMA Grown ==
  ASSUME NEW S, NEW s \in Seq(S), NEW e \in S
  PROVE  /\ Append(s, e) \in Seq(S) /\ Len(s) \in Nat
         /\ DOMAIN s = 1..Len(s) /\ DOMAIN Append(s, e) = 1..(Len(s) + 1)
         /\ \A i \in DOMAIN s : i \in DOMAIN Append(s, e) /\ Append(s, e)[i] = s[i] /\ i < Len(s) + 1
         /\ Len(s) + 1 \in DOMAIN Append(s, e) /\ Append(s, e)[Len(s) + 1] = e
         /\ \A i \in DOMAIN Append(s, e) : i \in DOMAIN s \/ i = Len(s) + 1
<1> DEFINE t == Append(s, e)
<1>1. /\ t \in Seq(S) /\ Len(t) = Len(s) + 1 /\ t[Len(s) + 1] = e
      /\ \A i \in 1..Len(s) : t[i] = s[i]
  BY AppendProperties
<1> HIDE DEF t
<1>2. Len(s) \in Nat /\ DOMAIN s = 1..Len(s) /\ DOMAIN t = 1..(Len(s) + 1)
  BY <1>1
<1>3. /\ \A i \in 1..Len(s) : i \in 1..(Len(s) + 1) /\ i < Len(s) + 1
      /\ Len(s) + 1 \in 1..(Len(s) + 1)
      /\ \A i \in 1..(Len(s) + 1) : i \in 1..Len(s) \/ i = Len(s) + 1
  BY <1>2
<1>4. QED BY <1>1, <1>2, <1>3 DEF t

\* The room as it was, or with an event e behind it.
Grows(e) ==
  /\ room' \in Seq(RoomEvents) /\ Len(room) \in Nat
  /\ \A i \in DOMAIN room : i \in DOMAIN room' /\ room'[i] = room[i] /\ i < Len(room) + 1 /\ i \in Nat
  /\ \A i \in DOMAIN room' : i \in DOMAIN room \/ (i = Len(room) + 1 /\ room'[i] = e)

LEMMA RoomGrows ==
  ASSUME RoomInv, NEW e \in RoomEvents
  PROVE  /\ room' = room \/ room' = Append(room, e) => Grows(e)
         /\ room' = Append(room, e) => Len(room) + 1 \in DOMAIN room' /\ room'[Len(room) + 1] = e
<1>1. room \in Seq(RoomEvents)
  BY DEF RoomInv
<1>2. Len(room) \in Nat /\ DOMAIN room = 1..Len(room)
  BY <1>1
<1>3. \A i \in DOMAIN room : i \in Nat /\ i < Len(room) + 1
  BY <1>2
<1>4. room' = room => Grows(e)
  BY <1>1, <1>2, <1>3 DEF Grows
<1>5. /\ Append(room, e) \in Seq(RoomEvents) /\ Len(room) \in Nat
      /\ \A i \in DOMAIN room : i \in DOMAIN Append(room, e) /\ Append(room, e)[i] = room[i] /\ i < Len(room) + 1
      /\ Len(room) + 1 \in DOMAIN Append(room, e) /\ Append(room, e)[Len(room) + 1] = e
      /\ \A i \in DOMAIN Append(room, e) : i \in DOMAIN room \/ i = Len(room) + 1
  BY ONLY <1>1, Grown
<1>6. room' = Append(room, e) => Grows(e) /\ Len(room) + 1 \in DOMAIN room' /\ room'[Len(room) + 1] = e
  BY <1>3, <1>5 DEF Grows
<1>7. QED BY <1>4, <1>6

\* The order of what a call returned is not touched by an event it did not return.
LEMMA OrderStays ==
  ASSUME NEW s \in Submits, NEW e, Grows(e), Room!StoredInOrder(s), submit'[s].appended = submit[s].appended,
         \A k \in DOMAIN submit[s].appended : submit[s].appended[k] # e
  PROVE  Room!StoredInOrder(s)'
<1> DEFINE r == submit[s].appended
<1> SUFFICES ASSUME NEW k \in DOMAIN r
             PROVE  \E i \in DOMAIN room' :
                      /\ room'[i] = r[k] /\ \A j \in DOMAIN room' : room'[j] = r[k] => j = i
                      /\ \A l \in DOMAIN r, j \in DOMAIN room' : l < k /\ room'[j] = r[l] => j < i
  BY DEF Room!StoredInOrder, Room!Returned
<1>1. PICK i \in DOMAIN room :
        /\ room[i] = r[k] /\ \A j \in DOMAIN room : room[j] = r[k] => j = i
        /\ \A l \in DOMAIN r, j \in DOMAIN room : l < k /\ room[j] = r[l] => j < i
  BY DEF Room!StoredInOrder, Room!Returned
<1>2. \A l \in DOMAIN r : r[l] # e
  OBVIOUS
<1> HIDE DEF r
<1>3. i \in DOMAIN room' /\ room'[i] = r[k]
  BY <1>1 DEF Grows
<1>4. \A j \in DOMAIN room', l \in DOMAIN r : room'[j] = r[l] => j \in DOMAIN room /\ room[j] = r[l]
  BY <1>2 DEF Grows
<1>5. QED BY <1>1, <1>3, <1>4

\* A new event of the call that it returns is stored behind the others.
LEMMA OrderGrows ==
  ASSUME NEW s \in Submits, NEW e \in RoomEvents, RoomInv, room' = Append(room, e),
         submit'[s].appended = Append(submit[s].appended, e), submit[s].appended \in Seq(RoomEvents),
         \A i \in DOMAIN room : room[i] # e
  PROVE  Room!StoredInOrder(s)'
<1> DEFINE r == submit[s].appended
           q == Append(r, e)
<1>1. /\ Grows(e) /\ Len(room) + 1 \in DOMAIN room' /\ room'[Len(room) + 1] = e
      /\ Room!StoredInOrder(s)
  BY RoomGrows DEF RoomInv, RoomText
<1>2. /\ Len(r) \in Nat /\ DOMAIN r = 1..Len(r) /\ DOMAIN q = 1..(Len(r) + 1)
      /\ \A k \in DOMAIN r : q[k] = r[k] /\ k < Len(r) + 1
      /\ q[Len(r) + 1] = e
      /\ \A k \in DOMAIN q : k \in DOMAIN r \/ k = Len(r) + 1
  <2> HIDE DEF r
  <2>1. r \in Seq(RoomEvents)
    BY DEF r
  <2>2. QED BY ONLY <2>1, e \in RoomEvents, Grown
<1>0. submit'[s].appended = q
  OBVIOUS
<1> HIDE DEF q
<1> SUFFICES ASSUME NEW k \in DOMAIN q
             PROVE  \E i \in DOMAIN room' :
                      /\ room'[i] = q[k] /\ \A j \in DOMAIN room' : room'[j] = q[k] => j = i
                      /\ \A l \in DOMAIN q, j \in DOMAIN room' : l < k /\ room'[j] = q[l] => j < i
  BY <1>0 DEF Room!StoredInOrder, Room!Returned
<1>3. \A l \in DOMAIN r : r[l] # e
  BY <1>1 DEF Room!StoredInOrder, Room!Returned
<1>4. ASSUME NEW m \in DOMAIN r
      PROVE  \E i \in DOMAIN room :
               /\ room[i] = r[m] /\ \A j \in DOMAIN room : room[j] = r[m] => j = i
               /\ \A l \in DOMAIN r, j \in DOMAIN room : l < m /\ room[j] = r[l] => j < i
  BY <1>1 DEF Room!StoredInOrder, Room!Returned
<1> HIDE DEF r
<1>5. \A j \in DOMAIN room', l \in DOMAIN r : room'[j] = r[l] => j \in DOMAIN room /\ room[j] = r[l]
  BY <1>1, <1>3 DEF Grows
<1>6. CASE k \in DOMAIN r
  <2>1. PICK i \in DOMAIN room :
          /\ room[i] = r[k] /\ \A j \in DOMAIN room : room[j] = r[k] => j = i
          /\ \A l \in DOMAIN r, j \in DOMAIN room : l < k /\ room[j] = r[l] => j < i
    BY <1>4, <1>6
  <2>2. i \in DOMAIN room' /\ room'[i] = q[k] /\ q[k] = r[k]
    BY <1>1, <1>2, <1>6, <2>1 DEF Grows
  <2>3. \A l \in DOMAIN q : l < k => l \in DOMAIN r /\ q[l] = r[l]
    BY <1>2, <1>6
  <2>4. QED BY <1>5, <1>6, <2>1, <2>2, <2>3
<1>7. CASE k = Len(r) + 1
  <2>1. q[k] = e
    BY <1>2, <1>7
  <2>2. \A j \in DOMAIN room' : room'[j] = e => j = Len(room) + 1
    BY <1>1 DEF Grows
  <2>3. \A l \in DOMAIN q : l < k => l \in DOMAIN r /\ q[l] = r[l]
    BY <1>2, <1>7
  <2>4. \A j \in DOMAIN room : j < Len(room) + 1
    BY <1>1 DEF Grows
  <2>5. QED BY <1>1, <1>5, <2>1, <2>2, <2>3, <2>4
<1>8. QED BY <1>2, <1>6, <1>7

\* An event of another call changes nothing for this one.
LEMMA OthersText ==
  ASSUME RoomInv, NEW s \in Submits, NEW e \in RoomEvents, e.submit # s, Grows(e), submit'[s] = submit[s]
  PROVE  RoomText(s)'
<1>1. RoomText(s)
  BY DEF RoomInv
<1>2. Room!Own(s)' = Room!Own(s) /\ \A i \in Room!Own(s) : room'[i] = room[i]
  BY DEF Room!Own, Grows
<1>3. Room!StoredInOrder(s)'
  <2>1. \A k \in DOMAIN submit[s].appended : submit[s].appended[k] # e
    BY <1>1 DEF RoomText, Storing
  <2>2. QED BY <1>1, <2>1, OrderStays DEF RoomText
<1>4. Room!CauseFirst(s)' /\ Room!OneByOne(s)'
  BY <1>1, <1>2 DEF RoomText, Room!CauseFirst, Room!OneByOne, Room!Returned
<1>5. Asking(s)'
  BY <1>1, <1>2 DEF RoomText, Asking
<1>6. Storing(s)'
  BY <1>1, <1>2 DEF RoomText, Storing, Room!ErrorOf, Room!Reports, Room!Returned, Room!Event
<1>7. QED BY <1>3, <1>4, <1>5, <1>6 DEF RoomText

\* A step of one call keeps the invariant if it does for the call.
LEMMA RoomFrame ==
  ASSUME RoomInv, NEW s \in Submits, NEW e \in RoomEvents, e.submit = s, Grows(e),
         UNCHANGED registry, NEW b \in SubmitState, submit' = [submit EXCEPT ![s] = b], RoomText(s)'
  PROVE  RoomInv'
<1>1. submit \in [Submits -> SubmitState]
  BY DEF RoomInv
<1>2. submit' \in [Submits -> SubmitState] /\ \A q \in Submits : q # s => submit'[q] = submit[q]
  BY <1>1
<1>3. \A q \in Submits : RoomText(q)'
  BY <1>2, OthersText
<1>4. QED BY <1>2, <1>3 DEF RoomInv, Grows

\* An event of a call, and the finite sets and sequences of RoomCoordinator.
LEMMA RoomEventFields ==
  ASSUME NEW s \in Submits, NEW kind \in {"user", "reply", "error"}, NEW a \in Nat
  PROVE  /\ Room!Event(s, kind, a) \in RoomEvents /\ Room!Event(s, kind, a).submit = s
         /\ Room!Event(s, kind, a).kind = kind /\ Room!Event(s, kind, a).agent = a
BY DEF Room!Event, RoomEvents

LEMMA AgentsAreNumbers ==
  ASSUME NEW left \in Seq(Agents), NEW k \in DOMAIN left
  PROVE  left[k] \in Nat /\ left[k] # 0
<1>1. left[k] \in Agents
  OBVIOUS
<1>2. Agents \subseteq Nat /\ 0 \notin Agents
  BY OperationsAssumption DEF Room!RoomAssumption
<1>3. QED BY <1>1, <1>2

\* The order that agents are asked in is increasing.
LEMMA Prioritized ==
  ASSUME NEW chosen \in SUBSET Agents, IsFiniteSet(chosen), NEW order \in Room!ByPriority(chosen)
  PROVE  /\ order \in Seq(Agents)
         /\ \A k, l \in DOMAIN order : k < l => order[k] < order[l]
<1>1. Room!Cardinality(chosen) = Cardinality(chosen)
  BY DEF Room!Cardinality, Cardinality
<1>2. Cardinality(chosen) \in Nat
  BY FS_CardinalityType
<1>3. /\ order \in [1..Cardinality(chosen) -> chosen]
      /\ \A k, l \in DOMAIN order : k < l => order[k] < order[l]
  BY <1>1 DEF Room!ByPriority
<1>4. order \in [1..Cardinality(chosen) -> Agents]
  BY <1>3
<1>5. QED BY <1>2, <1>3, <1>4

LEMMA AppendUserKeeps ==
  ASSUME RoomInv, NEW s \in Submits, NEW next \in {"select", "returned"}, Room!AppendUser(s, next)
  PROVE  RoomInv'
<1> DEFINE e == Room!Event(s, "user", 0)
<1>1. /\ e \in RoomEvents /\ e.submit = s /\ e.kind = "user" /\ e.agent = 0
  BY RoomEventFields
<1>2. /\ submit[s].pc = "start" /\ UNCHANGED registry /\ submit \in [Submits -> SubmitState]
      /\ submit[s] \in SubmitState /\ RoomText(s)
  BY DEF Room!AppendUser, RoomInv
<1>3. Room!Own(s) = {} /\ submit[s].appended = <<>> /\ submit[s].heard = {}
  BY <1>2 DEF RoomText, Storing
<1>4. DOMAIN <<>> = {}
  OBVIOUS
<1> HIDE DEF e
<1>5. CASE room' = Append(room, e) /\ submit' = [submit EXCEPT ![s].appended = <<e>>, ![s].pc = next]
  <2> DEFINE b == [submit[s] EXCEPT !.appended = <<e>>, !.pc = next]
  <2>1. b \in SubmitState /\ b.pc = next /\ b.left = submit[s].left /\ b.appended = <<e>> /\ b.heard = {}
    <3>1. <<e>> \in Seq(RoomEvents)
      BY <1>1
    <3>2. next \in RoomPoints
      BY DEF RoomPoints
    <3>3. QED BY <1>2, <1>3, <3>1, <3>2 DEF SubmitState
  <2>2. submit' = [submit EXCEPT ![s] = b]
    BY <1>2, <1>5
  <2> HIDE DEF b
  <2>3. submit'[s] = b
    BY <1>2, <2>2
  <2>4. Grows(e) /\ Len(room) + 1 \in DOMAIN room' /\ room'[Len(room) + 1] = e
    BY <1>1, <1>5, RoomGrows
  <2>5. DOMAIN <<e>> = {1} /\ <<e>>[1] = e
    OBVIOUS
  <2>6. Room!Own(s)' = {Len(room) + 1}
    BY <1>1, <1>3, <2>4 DEF Room!Own, Grows
  <2>7. Room!StoredInOrder(s)'
    <3>1. \A j \in DOMAIN room' : room'[j] = e => j = Len(room) + 1
      BY <1>1, <2>6 DEF Room!Own
    <3>2. QED BY <2>1, <2>3, <2>4, <2>5, <3>1 DEF Room!StoredInOrder, Room!Returned
  <2>8. Room!CauseFirst(s)'
    BY <1>1, <2>4, <2>6 DEF Room!CauseFirst, Grows
  <2>9. Room!OneByOne(s)'
    BY <2>1, <2>3, <2>5 DEF Room!OneByOne, Room!Returned
  <2>10. Asking(s)'
    <3>1. /\ \A k, l \in DOMAIN b.left : k < l => b.left[k] < b.left[l]
          /\ b.left \in Seq(Agents)
      BY <1>2, <2>1 DEF RoomText, Asking, SubmitState
    <3>2. \A k \in DOMAIN b.left : b.left[k] \in Nat /\ b.left[k] # 0
      BY <3>1, AgentsAreNumbers
    <3>3. QED BY <1>1, <2>1, <2>3, <2>4, <2>5, <2>6, <3>1, <3>2 DEF Asking
  <2>11. Storing(s)'
    <3>1. e \in Room!Range(b.appended)
      BY <2>1, <2>5 DEF Room!Range
    <3>2. QED BY <1>1, <2>1, <2>3, <2>4, <2>5, <2>6, <3>1 DEF Storing
  <2>12. RoomText(s)'
    BY <2>7, <2>8, <2>9, <2>10, <2>11 DEF RoomText
  <2>13. QED BY <1>1, <1>2, <2>1, <2>2, <2>4, <2>12, RoomFrame
<1>6. CASE room' \in {room, Append(room, e)} /\ submit' = [submit EXCEPT ![s].pc = "raised"]
  <2> DEFINE b == [submit[s] EXCEPT !.pc = "raised"]
  <2>1. b \in SubmitState /\ b.pc = "raised" /\ b.left = submit[s].left /\ b.appended = <<>> /\ b.heard = {}
    BY <1>2, <1>3 DEF SubmitState, RoomPoints
  <2>2. submit' = [submit EXCEPT ![s] = b]
    BY <1>2, <1>6
  <2> HIDE DEF b
  <2>3. submit'[s] = b
    BY <1>2, <2>2
  <2>4. Grows(e)
    BY <1>1, <1>6, RoomGrows
  <2>5. \A i \in Room!Own(s)' : i = Len(room) + 1 /\ room'[i] = e
    BY <1>3, <2>4 DEF Room!Own, Grows
  <2>6. Room!StoredInOrder(s)' /\ Room!OneByOne(s)'
    BY <1>4, <2>1, <2>3 DEF Room!StoredInOrder, Room!OneByOne, Room!Returned
  <2>7. Room!CauseFirst(s)'
    BY <1>1, <2>4, <2>5 DEF Room!CauseFirst, Grows
  <2>8. Asking(s)' /\ Storing(s)'
    BY <1>2, <1>4, <2>1, <2>3 DEF RoomText, Asking, Storing
  <2>9. RoomText(s)'
    BY <2>6, <2>7, <2>8 DEF RoomText
  <2>10. QED BY <1>1, <1>2, <2>1, <2>2, <2>4, <2>9, RoomFrame
<1>7. QED BY <1>5, <1>6 DEF Room!AppendUser, Room!Stored, Room!GatewayRaises, Room!SubmitTo, e

\* A step that leaves the room and what the call returns alone.
LEMMA RoomSame ==
  ASSUME RoomInv, NEW s \in Submits, UNCHANGED <<room, registry>>, NEW b \in SubmitState,
         submit' = [submit EXCEPT ![s] = b], b.appended = submit[s].appended,
         Asking(s)', Storing(s)'
  PROVE  RoomInv'
<1>1. submit \in [Submits -> SubmitState] /\ RoomText(s)
  BY DEF RoomInv
<1>2. submit'[s].appended = submit[s].appended
  BY <1>1
<1>3. Room!StoredInOrder(s)' /\ Room!CauseFirst(s)' /\ Room!OneByOne(s)'
  BY <1>1, <1>2 DEF RoomText, Room!StoredInOrder, Room!CauseFirst, Room!OneByOne, Room!Returned, Room!Own
<1>4. RoomText(s)'
  BY <1>3 DEF RoomText
<1>5. Room!Event(s, "user", 0) \in RoomEvents /\ Room!Event(s, "user", 0).submit = s
  BY RoomEventFields
<1>6. Grows(Room!Event(s, "user", 0))
  BY <1>5, RoomGrows
<1>7. QED BY <1>4, <1>5, <1>6, RoomFrame

LEMMA SelectAgentsKeeps ==
  ASSUME RoomInv, NEW s \in Submits, Room!SelectAgents(s)
  PROVE  RoomInv'
<1>1. /\ submit[s].pc = "select" /\ UNCHANGED <<room, registry>> /\ submit \in [Submits -> SubmitState]
      /\ submit[s] \in SubmitState /\ RoomText(s)
  BY DEF Room!SelectAgents, RoomInv
<1> DEFINE chosen == Room!Select(Addressed[s])
<1>2. PICK order \in Room!ByPriority(chosen) : submit' = [submit EXCEPT ![s].left = order, ![s].pc = "ask"]
  BY DEF Room!SelectAgents
<1>3. chosen \in SUBSET Agents /\ IsFiniteSet(chosen)
  <2>1. chosen \subseteq registry
    BY DEF Room!Select
  <2>2. QED BY <2>1, FS_Subset DEF RoomInv
<1> HIDE DEF chosen
<1>4. order \in Seq(Agents) /\ \A k, l \in DOMAIN order : k < l => order[k] < order[l]
  BY <1>3, Prioritized
<1>5. \A k \in DOMAIN order : order[k] \in Nat /\ order[k] # 0
  BY <1>4, AgentsAreNumbers
<1> DEFINE b == [submit[s] EXCEPT !.left = order, !.pc = "ask"]
<1>6. /\ b \in SubmitState /\ b.pc = "ask" /\ b.left = order
      /\ b.appended = submit[s].appended /\ b.heard = submit[s].heard
  BY <1>1, <1>4 DEF SubmitState, RoomPoints
<1>7. submit' = [submit EXCEPT ![s] = b]
  BY <1>1, <1>2
<1> HIDE DEF b
<1>8. submit'[s] = b /\ Room!Own(s)' = Room!Own(s)
  BY <1>1, <1>7 DEF Room!Own
<1>9. /\ \A i \in Room!Own(s) : room[i].agent = 0
      /\ \A k \in DOMAIN submit[s].appended : submit[s].appended[k].agent = 0
  BY <1>1 DEF RoomText, Storing
<1>10. Asking(s)'
  BY <1>1, <1>4, <1>5, <1>6, <1>8, <1>9 DEF Asking
<1>11. Storing(s)'
  BY <1>1, <1>6, <1>8 DEF RoomText, Storing, Room!ErrorOf, Room!Reports, Room!Returned, Room!Event
<1>12. QED BY <1>1, <1>6, <1>7, <1>10, <1>11, RoomSame

\* What is left when the first agent is done with.
LEMMA Behead ==
  ASSUME NEW left \in Seq(Agents), left # <<>>
  PROVE  /\ Head(left) = left[1] /\ left[1] \in Agents /\ 1 \in DOMAIN left /\ Tail(left) \in Seq(Agents)
         /\ \A k \in DOMAIN Tail(left) :
              k + 1 \in DOMAIN left /\ Tail(left)[k] = left[k + 1] /\ 1 < k + 1 /\ k \in Nat
<1>1. Len(left) \in Nat \ {0} /\ DOMAIN left = 1..Len(left) /\ Head(left) = left[1]
  BY EmptySeq
<1>2. /\ Tail(left) \in Seq(Agents) /\ Len(Tail(left)) = Len(left) - 1
      /\ \A i \in 1..Len(Tail(left)) : Tail(left)[i] = left[i + 1]
  BY HeadTailProperties
<1> DEFINE t == Tail(left)
<1>3. /\ t \in Seq(Agents) /\ Len(t) = Len(left) - 1 /\ \A i \in 1..Len(t) : t[i] = left[i + 1]
  BY <1>2
<1> HIDE DEF t
<1>4. DOMAIN t = 1..Len(t)
  BY <1>3
<1>5. 1 \in DOMAIN left /\ left[1] \in Agents
  BY <1>1
<1>6. \A k \in DOMAIN t : k + 1 \in DOMAIN left /\ t[k] = left[k + 1] /\ 1 < k + 1 /\ k \in Nat
  BY <1>1, <1>3, <1>4
<1>7. QED BY <1>1, <1>3, <1>5, <1>6 DEF t

LEMMA AskAgentKeeps ==
  ASSUME RoomInv, NEW s \in Submits, Room!Ask(s)
  PROVE  RoomInv'
<1>1. /\ submit[s].pc = "ask" /\ UNCHANGED <<room, registry>> /\ submit \in [Submits -> SubmitState]
      /\ submit[s] \in SubmitState /\ RoomText(s) /\ Room!Own(s)' = Room!Own(s)
  BY DEF Room!Ask, RoomInv, Room!Own
<1>2. submit[s].left \in Seq(Agents) /\ submit[s].heard \subseteq Agents
  BY <1>1 DEF SubmitState
<1>3. CASE submit[s].left = <<>>
  <2> DEFINE b == [submit[s] EXCEPT !.pc = "returned"]
  <2>1. /\ b \in SubmitState /\ b.pc = "returned" /\ b.left = submit[s].left
        /\ b.appended = submit[s].appended /\ b.heard = submit[s].heard
    BY <1>1 DEF SubmitState, RoomPoints
  <2>2. submit' = [submit EXCEPT ![s] = b]
    BY <1>1, <1>3 DEF Room!Ask, Room!SubmitTo
  <2> HIDE DEF b
  <2>3. submit'[s] = b
    BY <1>1, <2>2
  <2>4. Asking(s)'
    BY <1>1, <2>1, <2>3 DEF RoomText, Asking
  <2>5. Storing(s)'
    BY <1>1, <2>1, <2>3 DEF RoomText, Storing, Room!ErrorOf, Room!Reports, Room!Returned, Room!Event
  <2>6. QED BY <1>1, <2>1, <2>2, <2>4, <2>5, RoomSame
<1>4. CASE submit[s].left # <<>>
  <2>1. /\ Head(submit[s].left) = submit[s].left[1] /\ submit[s].left[1] \in Agents /\ 1 \in DOMAIN submit[s].left
        /\ Tail(submit[s].left) \in Seq(Agents)
        /\ \A k \in DOMAIN Tail(submit[s].left) :
             /\ k + 1 \in DOMAIN submit[s].left /\ Tail(submit[s].left)[k] = submit[s].left[k + 1]
             /\ 1 < k + 1 /\ k \in Nat
    BY <1>2, <1>4, Behead
  <2>2. ASSUME NEW l \in {"reply", "error"},
               submit' = [submit EXCEPT ![s].pc = l, ![s].heard = @ \cup {Head(submit[s].left)}]
        PROVE  RoomInv'
    <3> DEFINE b == [submit[s] EXCEPT !.pc = l, !.heard = submit[s].heard \cup {submit[s].left[1]}]
    <3>1. /\ b \in SubmitState /\ b.pc = l /\ b.left = submit[s].left
          /\ b.appended = submit[s].appended /\ b.heard = submit[s].heard \cup {submit[s].left[1]}
      <4>1. submit[s].heard \cup {submit[s].left[1]} \in SUBSET Agents /\ l \in RoomPoints
        BY <1>2, <2>1 DEF RoomPoints
      <4>2. QED BY <1>1, <4>1 DEF SubmitState
    <3>2. submit' = [submit EXCEPT ![s] = b]
      BY <1>1, <2>1, <2>2
    <3> HIDE DEF b
    <3>3. submit'[s] = b
      BY <1>1, <3>2
    <3>4. Asking(s)'
      BY <1>1, <1>4, <3>1, <3>3 DEF RoomText, Asking
    <3>5. Storing(s)'
      BY <1>1, <1>4, <3>1, <3>3 DEF RoomText, Storing, Room!ErrorOf, Room!Reports, Room!Returned, Room!Event
    <3>6. QED BY <1>1, <3>1, <3>2, <3>4, <3>5, RoomSame
  <2>3. CASE submit' = [submit EXCEPT ![s].left = Tail(@)]
    <3> DEFINE b == [submit[s] EXCEPT !.left = Tail(submit[s].left)]
    <3>1. /\ b \in SubmitState /\ b.pc = "ask" /\ b.left = Tail(submit[s].left)
          /\ b.appended = submit[s].appended /\ b.heard = submit[s].heard
      BY <1>1, <2>1 DEF SubmitState
    <3>2. submit' = [submit EXCEPT ![s] = b]
      BY <1>1, <2>3
    <3> HIDE DEF b
    <3>3. submit'[s] = b
      BY <1>1, <3>2
    <3>4. Asking(s)'
      <4>1. \A k, l \in DOMAIN b.left : k < l => k + 1 < l + 1
        BY <2>1, <3>1
      <4>2. \A k, l \in DOMAIN b.left : k < l => b.left[k] < b.left[l]
        BY <1>1, <2>1, <3>1, <4>1 DEF RoomText, Asking
      <4>3. \A k \in DOMAIN b.left, l \in DOMAIN b.appended : b.appended[l].agent < b.left[k]
        BY <1>1, <2>1, <3>1 DEF RoomText, Asking
      <4>4. \A k \in DOMAIN b.left, i \in Room!Own(s) : room[i].agent # b.left[k]
        BY <1>1, <2>1, <3>1 DEF RoomText, Asking
      <4>5. QED BY <1>1, <3>1, <3>3, <4>2, <4>3, <4>4 DEF Asking
    <3>5. Storing(s)'
      BY <1>1, <3>1, <3>3 DEF RoomText, Storing, Room!ErrorOf, Room!Reports, Room!Returned, Room!Event
    <3>6. QED BY <1>1, <3>1, <3>2, <3>4, <3>5, RoomSame
  <2>4. QED BY <1>4, <2>2, <2>3 DEF Room!Ask
<1>5. QED BY <1>3, <1>4

\* Nothing is stored yet that equals the event the call is about to append.
LEMMA EventIsNew ==
  ASSUME RoomInv, NEW s \in Submits, submit[s].pc \in {"reply", "error"}
  PROVE  /\ submit[s].left \in Seq(Agents) /\ submit[s].left # <<>> /\ submit[s].left[1] \in Nat
         /\ Head(submit[s].left) = submit[s].left[1]
         /\ \A i \in DOMAIN room : room[i] # Room!Event(s, submit[s].pc, submit[s].left[1])
         /\ \A k \in DOMAIN submit[s].appended :
              submit[s].appended[k] # Room!Event(s, submit[s].pc, submit[s].left[1])
<1> DEFINE e == Room!Event(s, submit[s].pc, submit[s].left[1])
<1>1. RoomText(s) /\ submit[s] \in SubmitState
  BY DEF RoomInv
<1>2. submit[s].left \in Seq(Agents) /\ submit[s].left # <<>>
  BY <1>1 DEF RoomText, Asking, SubmitState
<1>3. Head(submit[s].left) = submit[s].left[1] /\ submit[s].left[1] \in Agents /\ 1 \in DOMAIN submit[s].left
  BY <1>2, Behead
<1>4. submit[s].left[1] \in Nat
  BY <1>2, <1>3, AgentsAreNumbers
<1>5. e.submit = s /\ e.kind = submit[s].pc /\ e.agent = submit[s].left[1]
  BY <1>4, RoomEventFields
<1> HIDE DEF e
<1>6. ASSUME NEW i \in DOMAIN room, room[i] = e PROVE FALSE
  <2>1. i \in Room!Own(s)
    BY <1>5, <1>6 DEF Room!Own
  <2>2. submit[s].pc = "error" /\ room[i].kind = "reply"
    BY <1>1, <1>3, <1>5, <1>6, <2>1 DEF RoomText, Asking
  <2>3. QED BY <1>5, <1>6, <2>2
<1>7. ASSUME NEW k \in DOMAIN submit[s].appended PROVE submit[s].appended[k] # e
  BY <1>1, <1>6 DEF RoomText, Room!StoredInOrder, Room!Returned
<1>8. QED BY <1>2, <1>3, <1>4, <1>6, <1>7 DEF e

\* The reply or the error is stored and returned.
LEMMA AppendedKeeps ==
  ASSUME RoomInv, NEW s \in Submits, submit[s].pc \in {"reply", "error"}, UNCHANGED registry,
         LET e == Room!Event(s, submit[s].pc, Head(submit[s].left)) IN
         Room!Stored(e) /\ Room!AppendedNext(s, e)
  PROVE  RoomInv'
<1> DEFINE left == submit[s].left
           old == submit[s].appended
           e == Room!Event(s, submit[s].pc, left[1])
<1>1. /\ left \in Seq(Agents) /\ left # <<>> /\ left[1] \in Nat /\ Head(left) = left[1]
      /\ \A i \in DOMAIN room : room[i] # e
  BY EventIsNew
<1>2. /\ e \in RoomEvents /\ e.submit = s /\ e.kind = submit[s].pc /\ e.agent = left[1]
  BY <1>1, RoomEventFields
<1>3. room' = Append(room, e) /\ submit' = [submit EXCEPT ![s].appended = Append(@, e), ![s].left = Tail(@), ![s].pc = "ask"]
  BY <1>1 DEF Room!Stored, Room!AppendedNext
<1>4. /\ submit \in [Submits -> SubmitState] /\ submit[s] \in SubmitState /\ RoomText(s)
      /\ old \in Seq(RoomEvents)
  BY DEF RoomInv, SubmitState
<1>5. /\ left[1] \in Agents /\ 1 \in DOMAIN left /\ Tail(left) \in Seq(Agents)
      /\ \A k \in DOMAIN Tail(left) : k + 1 \in DOMAIN left /\ Tail(left)[k] = left[k + 1] /\ 1 < k + 1 /\ k \in Nat
  BY <1>1, Behead
<1>6. /\ \A k, l \in DOMAIN left : k < l => left[k] < left[l]
      /\ \A k \in DOMAIN left, l \in DOMAIN old : old[l].agent < left[k]
      /\ \A k \in DOMAIN left, i \in Room!Own(s) : room[i].agent = left[k] => k = 1
  BY <1>4 DEF RoomText, Asking
<1>7. /\ \A k \in DOMAIN old : old[k].submit = s
      /\ \E i \in Room!Own(s) : room[i].kind = "user"
      /\ \A i \in Room!Own(s) :
            \/ room[i] \in Room!Range(old)
            \/ /\ room[i].kind = "reply"
               /\ Room!ErrorOf(s, room[i].agent) \/ (submit[s].pc = "error" /\ room[i].agent = left[1])
      /\ \A a \in submit[s].heard : Room!Reports(s, a) \/ a = left[1]
  BY <1>4 DEF RoomText, Storing
<1>8. \A k \in DOMAIN left : left[k] \in Nat
  BY <1>1, AgentsAreNumbers
<1> HIDE DEF e
<1> DEFINE q == Append(old, e)
           b == [submit[s] EXCEPT !.appended = q, !.left = Tail(left), !.pc = "ask"]
<1>9. /\ q \in Seq(RoomEvents) /\ Len(old) \in Nat
      /\ \A k \in DOMAIN old : k \in DOMAIN q /\ q[k] = old[k] /\ k < Len(old) + 1
      /\ Len(old) + 1 \in DOMAIN q /\ q[Len(old) + 1] = e
      /\ \A k \in DOMAIN q : k \in DOMAIN old \/ k = Len(old) + 1
  <2> HIDE DEF old
  <2>1. old \in Seq(RoomEvents) /\ e \in RoomEvents
    BY <1>2, <1>4 DEF old
  <2>2. QED BY ONLY <2>1, Grown
<1> HIDE DEF q
<1>10. /\ b \in SubmitState /\ b.pc = "ask" /\ b.left = Tail(left) /\ b.appended = q /\ b.heard = submit[s].heard
  BY <1>4, <1>5, <1>9 DEF SubmitState, RoomPoints
<1>11. submit' = [submit EXCEPT ![s] = b]
  BY <1>3, <1>4 DEF q
<1> HIDE DEF b
<1>12. submit'[s] = b
  BY <1>4, <1>11
<1>13. Grows(e) /\ Len(room) + 1 \in DOMAIN room' /\ room'[Len(room) + 1] = e
  BY <1>2, <1>3, RoomGrows
<1>14. Room!Own(s)' = Room!Own(s) \cup {Len(room) + 1} /\ \A i \in Room!Own(s) : i \in DOMAIN room /\ room'[i] = room[i] /\ i < Len(room) + 1
  BY <1>2, <1>13 DEF Room!Own, Grows
<1>15. Room!StoredInOrder(s)'
  <2>1. submit'[s].appended = Append(submit[s].appended, e)
    BY <1>10, <1>12 DEF q
  <2>2. QED BY <1>1, <1>2, <1>3, <1>4, <2>1, OrderGrows
<1>16. Room!CauseFirst(s)'
  <2>1. PICK j \in Room!Own(s) : room[j].kind = "user"
    BY <1>7
  <2>2. \A i \in Room!Own(s) : \E m \in Room!Own(s) : m <= i /\ room[m].kind = "user"
    BY <1>4 DEF RoomText, Room!CauseFirst
  <2>3. j \in Nat /\ Len(room) \in Nat
    BY <1>14 DEF Room!Own, RoomInv
  <2>4. j <= Len(room) + 1
    BY <1>14, <2>3
  <2>5. ASSUME NEW i \in Room!Own(s)' PROVE \E m \in Room!Own(s)' : m <= i /\ room'[m].kind = "user"
    <3>1. CASE i \in Room!Own(s)
      BY <1>14, <2>2, <3>1
    <3>2. CASE i = Len(room) + 1
      BY <1>14, <2>1, <2>4, <3>2
    <3>3. QED BY <1>14, <3>1, <3>2
  <2>6. QED BY <2>5 DEF Room!CauseFirst
<1>17. Room!OneByOne(s)'
  <2>1. \A k, l \in DOMAIN old : k < l => old[k].agent < old[l].agent
    BY <1>4 DEF RoomText, Room!OneByOne, Room!Returned
  <2>2. ASSUME NEW k \in DOMAIN q, NEW l \in DOMAIN q, k < l PROVE q[k].agent < q[l].agent
    <3>1. k \in DOMAIN old
      BY <1>9, <2>2
    <3>2. CASE l \in DOMAIN old
      BY <1>9, <2>1, <2>2, <3>1, <3>2
    <3>3. CASE l = Len(old) + 1
      BY <1>2, <1>5, <1>6, <1>9, <3>1, <3>3
    <3>4. QED BY <1>9, <3>2, <3>3
  <2>3. QED BY <1>10, <1>12, <2>2 DEF Room!OneByOne, Room!Returned
<1>18. Asking(s)'
  <2>1. \A k, l \in DOMAIN b.left : k < l => k + 1 < l + 1
    BY <1>5, <1>10
  <2>2. \A k, l \in DOMAIN b.left : k < l => b.left[k] < b.left[l]
    BY <1>5, <1>6, <1>10, <2>1
  <2>3. ASSUME NEW k \in DOMAIN b.left PROVE left[1] < b.left[k] /\ b.left[k] # left[1]
    <3>1. b.left[k] = left[k + 1] /\ k + 1 \in DOMAIN left /\ 1 \in DOMAIN left /\ 1 < k + 1
      BY <1>5, <1>10
    <3>2. left[1] < left[k + 1]
      BY ONLY <1>6, <3>1
    <3>3. left[1] \in Nat /\ left[k + 1] \in Nat
      BY ONLY <1>8, <3>1
    <3>4. QED BY ONLY <3>1, <3>2, <3>3
  <2>4. ASSUME NEW k \in DOMAIN b.left, NEW l \in DOMAIN q PROVE q[l].agent < b.left[k]
    <3>1. CASE l \in DOMAIN old
      <4>1. b.left[k] = left[k + 1] /\ k + 1 \in DOMAIN left
        BY <1>5, <1>10
      <4>2. q[l] = old[l]
        BY <1>9, <3>1
      <4>3. QED BY ONLY <1>6, <3>1, <4>1, <4>2
    <3>2. CASE l = Len(old) + 1
      BY <1>2, <1>9, <2>3, <3>2
    <3>3. QED BY <1>9, <3>1, <3>2
  <2>5. \A k \in DOMAIN b.left, i \in Room!Own(s) : room[i].agent # b.left[k]
    BY <1>5, <1>6, <1>10
  <2>6. \A k \in DOMAIN b.left, i \in Room!Own(s)' : room'[i].agent # b.left[k]
    BY <1>2, <1>13, <1>14, <2>3, <2>5
  <2>7. QED BY <1>10, <1>12, <2>2, <2>4, <2>6 DEF Asking
<1>19. Storing(s)'
  <2>1. Room!Range(old) \subseteq Room!Range(q) /\ e \in Room!Range(q)
    BY <1>9 DEF Room!Range
  <2>2. \A k \in DOMAIN q : q[k].submit = s
    BY <1>2, <1>7, <1>9
  <2>3. /\ \A a : Room!Reports(s, a) => \E f \in Room!Range(q) : f.agent = a
        /\ \E f \in Room!Range(q) : f.agent = left[1]
    BY <1>2, <2>1 DEF Room!Reports, Room!Returned
  <2>4. \A a : Room!ErrorOf(s, a) => Room!Event(s, "error", a) \in Room!Range(q)
    BY <2>1 DEF Room!ErrorOf, Room!Returned
  <2>5. submit[s].pc = "error" => Room!Event(s, "error", left[1]) \in Room!Range(q)
    BY <2>1 DEF e
  <2>6. \E i \in Room!Own(s)' : room'[i].kind = "user"
    BY <1>7, <1>14
  <2>7. ASSUME NEW i \in Room!Own(s)'
        PROVE  \/ room'[i] \in Room!Range(q)
               \/ room'[i].kind = "reply" /\ Room!Event(s, "error", room'[i].agent) \in Room!Range(q)
    <3>1. CASE i \in Room!Own(s)
      BY <1>7, <1>14, <2>1, <2>4, <2>5, <3>1
    <3>2. CASE i = Len(room) + 1
      BY <1>13, <2>1, <3>2
    <3>3. QED BY <1>14, <3>1, <3>2
  <2>8. \A a \in submit[s].heard : \E f \in Room!Range(q) : f.agent = a
    BY <1>7, <2>3
  <2>9. QED BY <1>10, <1>12, <2>2, <2>6, <2>7, <2>8 DEF Storing, Room!ErrorOf, Room!Reports, Room!Returned
<1>20. RoomText(s)'
  BY <1>15, <1>16, <1>17, <1>18, <1>19 DEF RoomText
<1>21. QED BY <1>2, <1>10, <1>11, <1>13, <1>20, RoomFrame

\* The gateway raises, and may have stored the event.
LEMMA RaisedKeeps ==
  ASSUME RoomInv, NEW s \in Submits, submit[s].pc \in {"reply", "error"}, UNCHANGED registry,
         Room!GatewayRaises(Room!Event(s, submit[s].pc, Head(submit[s].left))),
         Room!SubmitTo(s, IF submit[s].pc = "reply" THEN "error" ELSE "raised")
  PROVE  RoomInv'
<1> DEFINE left == submit[s].left
           old == submit[s].appended
           e == Room!Event(s, submit[s].pc, left[1])
           next == IF submit[s].pc = "reply" THEN "error" ELSE "raised"
           b == [submit[s] EXCEPT !.pc = next]
<1>1. /\ left \in Seq(Agents) /\ left # <<>> /\ left[1] \in Nat /\ Head(left) = left[1]
      /\ \A k \in DOMAIN old : old[k] # e
  BY EventIsNew
<1>2. /\ e \in RoomEvents /\ e.submit = s /\ e.kind = submit[s].pc /\ e.agent = left[1]
  BY <1>1, RoomEventFields
<1>3. room' = room \/ room' = Append(room, e)
  BY <1>1 DEF Room!GatewayRaises
<1>4. /\ submit \in [Submits -> SubmitState] /\ submit[s] \in SubmitState /\ RoomText(s)
  BY DEF RoomInv
<1>5. /\ \A k, l \in DOMAIN left : k < l => left[k] < left[l]
      /\ \A k \in DOMAIN left, l \in DOMAIN old : old[l].agent < left[k]
      /\ \A k \in DOMAIN left, i \in Room!Own(s) :
           room[i].agent = left[k] => k = 1 /\ submit[s].pc = "error" /\ room[i].kind = "reply"
      /\ left \in Seq(Agents)
  BY <1>1, <1>4 DEF RoomText, Asking
<1>6. 1 \in DOMAIN left /\ \A k \in DOMAIN left : left[k] \in Nat /\ k \in Nat /\ (k = 1 \/ 1 < k)
  <2>1. 1 \in DOMAIN left /\ DOMAIN left = 1..Len(left) /\ Len(left) \in Nat
    BY <1>1, Behead
  <2>2. \A k \in DOMAIN left : left[k] \in Nat
    BY <1>1, AgentsAreNumbers
  <2>3. QED BY <2>1, <2>2
<1>7. \A k \in DOMAIN left : left[k] = left[1] => k = 1
  BY <1>5, <1>6
<1> HIDE DEF e
<1>8. /\ b \in SubmitState /\ b.pc = next /\ b.left = left /\ b.appended = old /\ b.heard = submit[s].heard
  BY <1>4 DEF SubmitState, RoomPoints
<1>9. submit' = [submit EXCEPT ![s] = b]
  BY <1>4 DEF Room!SubmitTo
<1> HIDE DEF b
<1>10. submit'[s] = b
  BY <1>4, <1>9
<1>11. Grows(e)
  BY <1>2, <1>3, RoomGrows
<1>12. /\ Room!Own(s) \subseteq Room!Own(s)'
       /\ \A i \in Room!Own(s) : i \in DOMAIN room /\ room'[i] = room[i] /\ i < Len(room) + 1 /\ i \in Nat
       /\ \A i \in Room!Own(s)' : i \in Room!Own(s) \/ (i = Len(room) + 1 /\ room'[i] = e)
  BY <1>11 DEF Room!Own, Grows
<1>13. Room!StoredInOrder(s)'
  BY <1>1, <1>4, <1>8, <1>10, <1>11, OrderStays DEF RoomText
<1>14. Room!OneByOne(s)'
  BY <1>4, <1>8, <1>10 DEF RoomText, Room!OneByOne, Room!Returned
<1>15. PICK j \in Room!Own(s) : room[j].kind = "user"
  BY <1>4 DEF RoomText, Storing
<1>16. Room!CauseFirst(s)'
  <2>1. \A i \in Room!Own(s) : \E m \in Room!Own(s) : m <= i /\ room[m].kind = "user"
    BY <1>4 DEF RoomText, Room!CauseFirst
  <2>2. Len(room) \in Nat
    BY <1>11 DEF Grows
  <2>3. j <= Len(room) + 1
    BY <1>12, <2>2
  <2>4. ASSUME NEW i \in Room!Own(s)' PROVE \E m \in Room!Own(s)' : m <= i /\ room'[m].kind = "user"
    <3>1. CASE i \in Room!Own(s)
      BY <1>12, <2>1, <3>1
    <3>2. CASE i = Len(room) + 1
      BY <1>12, <1>15, <2>3, <3>2
    <3>3. QED BY <1>12, <3>1, <3>2
  <2>5. QED BY <2>4 DEF Room!CauseFirst
<1>17. Asking(s)'
  <2>1. ASSUME next # "raised", NEW k \in DOMAIN left, NEW i \in Room!Own(s)', room'[i].agent = left[k]
        PROVE  k = 1 /\ next = "error" /\ room'[i].kind = "reply"
    <3>1. submit[s].pc = "reply" /\ next = "error"
      BY <2>1
    <3>2. i \notin Room!Own(s)
      BY <1>5, <1>12, <2>1, <3>1
    <3>3. room'[i] = e
      BY <1>12, <3>2
    <3>4. QED BY <1>2, <1>7, <2>1, <3>1, <3>3
  <2> HIDE DEF next
  <2>2. QED BY <1>1, <1>5, <1>8, <1>10, <2>1 DEF Asking
<1>18. Storing(s)'
  <2>1. \A k \in DOMAIN old : old[k].submit = s
    BY <1>4 DEF RoomText, Storing
  <2>2. CASE submit[s].pc = "error"
    BY <1>8, <1>10, <2>1, <2>2 DEF Storing
  <2>3. CASE submit[s].pc = "reply"
    <3>1. /\ \A i \in Room!Own(s) :
               room[i] \in Room!Range(old) \/ (room[i].kind = "reply" /\ Room!ErrorOf(s, room[i].agent))
          /\ \A a \in submit[s].heard : Room!Reports(s, a) \/ a = left[1]
      BY <1>4, <2>3 DEF RoomText, Storing
    <3>2. /\ \A a : Room!ErrorOf(s, a) => Room!Event(s, "error", a) \in Room!Range(old)
          /\ \A a : Room!Reports(s, a) => \E f \in Room!Range(old) : f.agent = a
      BY DEF Room!ErrorOf, Room!Reports, Room!Returned
    <3>3. \A i \in Room!Own(s)' :
            \/ room'[i] \in Room!Range(old)
            \/ /\ room'[i].kind = "reply"
               /\ Room!Event(s, "error", room'[i].agent) \in Room!Range(old) \/ room'[i].agent = left[1]
      BY <1>2, <1>12, <2>3, <3>1, <3>2
    <3>4. \E i \in Room!Own(s)' : room'[i].kind = "user"
      BY <1>12, <1>15
    <3>5. b.pc = "error"
      BY <1>8, <2>3
    <3>6. \A a \in submit[s].heard : (\E f \in Room!Range(old) : f.agent = a) \/ a = left[1]
      BY <3>1, <3>2
    <3>7. QED BY <1>1, <1>8, <1>10, <2>1, <3>3, <3>4, <3>5, <3>6
              DEF Storing, Room!ErrorOf, Room!Reports, Room!Returned
  <2>4. QED BY <2>2, <2>3
<1>19. RoomText(s)'
  BY <1>13, <1>14, <1>16, <1>17, <1>18 DEF RoomText
<1>20. QED BY <1>2, <1>8, <1>9, <1>11, <1>19, RoomFrame

LEMMA RoomStutters ==
  ASSUME NEW s \in Submits, RoomText(s), UNCHANGED <<room, submit>>
  PROVE  RoomText(s)'
<1>1. Room!StoredInOrder(s)' /\ Room!CauseFirst(s)' /\ Room!OneByOne(s)'
  BY DEF RoomText, Room!StoredInOrder, Room!CauseFirst, Room!OneByOne, Room!Returned, Room!Own
<1>2. Asking(s)'
  BY DEF RoomText, Asking, Room!Own
<1>3. Storing(s)'
  BY DEF RoomText, Storing, Room!ErrorOf, Room!Reports, Room!Returned, Room!Own
<1>4. QED BY <1>1, <1>2, <1>3 DEF RoomText

LEMMA RegisterKeeps ==
  ASSUME RoomInv, NEW a \in Agents, Room!Register(a)
  PROVE  RoomInv'
<1>1. registry' = registry \cup {a} /\ UNCHANGED <<room, submit>>
  BY DEF Room!Register
<1>2. registry' \subseteq Agents /\ IsFiniteSet(registry')
  BY <1>1, FS_AddElement DEF RoomInv
<1>3. \A s \in Submits : RoomText(s)'
  BY <1>1, RoomStutters DEF RoomInv
<1>4. QED BY <1>1, <1>2, <1>3 DEF RoomInv

LEMMA RoomKeeps == RoomInv /\ [Next]_vars => RoomInv'
<1> SUFFICES ASSUME RoomInv, [Next]_vars PROVE RoomInv'
  OBVIOUS
<1>1. CASE UNCHANGED roomVars
  BY <1>1, RoomStutters DEF roomVars, RoomInv
<1>2. ASSUME NEW s \in Submits, Room!AppendReply(s) \/ Room!AppendError(s) PROVE RoomInv'
  <2>1. CASE Room!AppendReply(s)
    BY <2>1, AppendedKeeps, RaisedKeeps DEF Room!AppendReply
  <2>2. CASE Room!AppendError(s)
    BY <2>2, AppendedKeeps, RaisedKeeps DEF Room!AppendError
  <2>3. QED BY <1>2, <2>1, <2>2
<1>3. ASSUME NEW s \in Submits, Room!SubmitText(s) \/ Room!SubmitVoiceTranscript(s) PROVE RoomInv'
  BY <1>3, AppendUserKeeps DEF Room!SubmitText, Room!SubmitVoiceTranscript
<1>4. CASE Room!RoomNext
  BY <1>2, <1>3, <1>4, RegisterKeeps, SelectAgentsKeeps, AskAgentKeeps DEF Room!RoomNext
<1>5. QED BY <1>1, <1>4, StepOfOne

LEMMA RoomGives == RoomInv => RepliesAccounted
<1> SUFFICES ASSUME RoomInv, NEW s \in Submits, submit[s].pc = "returned"
             PROVE  /\ \A a \in submit[s].heard : Room!Reports(s, a)
                    /\ \A i \in Room!Own(s) :
                         \/ room[i] \in Room!Range(Room!Returned(s))
                         \/ room[i].kind = "reply" /\ Room!ErrorOf(s, room[i].agent)
  BY DEF RoomInv, RoomText, RepliesAccounted, Room!RepliesAccounted
<1>1. Storing(s)
  BY DEF RoomInv, RoomText
<1>2. QED BY <1>1 DEF Storing, Room!Returned

\* However the gateway raises and agents fail or are registered meanwhile: the room holds what a
\* call of submit_text returns, in order and after its cause, and every agent that was heard is
\* reported once.
THEOREM RepliesStayAccounted == Spec => []RepliesAccounted
<1>1. QED BY RoomStarts, RoomKeeps, RoomGives, PTL DEF Spec

-----------------------------------------------------------------------------
\* longrun.provider and the components made of it.

Sent == [text : {"built", "mutated"}, bound : BOOLEAN]
CallReceipts == [role : Models!Roles, step : Nat, attempts : Nat, sent : Seq(Sent)]
ModelCallsTyped ==
  [pc : {"none", "look", "invoke", "response", "retryable", "error", "raised", "answered"},
   role : Models!Roles \cup {"none"}, step : Nat, text : {"built", "mutated"}, attempts : Nat, sent : Seq(Sent)]

\* Every attempt gave the bound provider the request as it was built.
Faithful(attempts, sent) ==
  attempts = Len(sent) /\ \A k \in DOMAIN sent : sent[k] = [text |-> "built", bound |-> TRUE]

\* The receipt of a call of role for step.
Supports(r, role, step) ==
  /\ r \in CallReceipts /\ r.role = role /\ r.step = step
  /\ r.attempts \in 1 .. MaxAttempts /\ Faithful(r.attempts, r.sent)

\* The call that the engine waits for in each of its states.
Awaited ==
  [l \in {"planning", "executing", "evaluating"} |->
     IF l = "planning" THEN "planner" ELSE IF l = "executing" THEN "worker" ELSE "evaluator"]

\* Before an attempt the provider is the bound one and the request as built, and attempts are left.
CallInv ==
  /\ modelCall \in ModelCallsTyped
  /\ modelCall.pc # "none" =>
       /\ pipeline.pc \in DOMAIN Awaited
       /\ modelCall.role = Awaited[pipeline.pc] /\ modelCall.step = pipeline.step
  /\ modelCall.pc \notin {"none", "raised"} => Faithful(modelCall.attempts, modelCall.sent)
  /\ modelCall.pc = "look" =>
       modelCall.text = "built" /\ models[modelCall.role] /\ modelCall.attempts < MaxAttempts
  /\ modelCall.pc \in {"invoke", "response", "retryable", "error", "answered"} => modelCall.attempts \in 1 .. MaxAttempts

\* How many receipts the evidence has, and the roles they are of.
Stages ==
  [l \in {"idle", "planning", "planned", "executing", "executed", "evaluating", "evaluated", "ended"} |->
     IF l \in {"executing"} THEN 1 ELSE IF l \in {"executed", "evaluating"} THEN 2 ELSE IF l = "evaluated" THEN 3 ELSE 0]
RolesInOrder == <<"planner", "worker", "evaluator">>

PipelineInv ==
  /\ pipeline.pc \in DOMAIN Stages /\ pipeline.step \in Nat
  /\ pipeline.evidence \in Seq(CallReceipts) /\ Len(pipeline.evidence) = Stages[pipeline.pc]
  /\ \A i \in DOMAIN pipeline.evidence : Supports(pipeline.evidence[i], RolesInOrder[i], pipeline.step)
  /\ pipeline.pc \notin {"planned", "ended"} => pipeline.pending = NoProvenance
  /\ pipeline.pc = "planned" =>
       pipeline.pending.proposal = pipeline.proposal /\ Supports(pipeline.pending.call, "planner", pipeline.step)

PipelineTyped == pipeline = [pc |-> pipeline.pc, step |-> pipeline.step, proposal |-> pipeline.proposal,
                             pending |-> pipeline.pending, evidence |-> pipeline.evidence]

ModelInv == models \in [Models!Roles -> BOOLEAN] /\ PipelineTyped /\ CallInv /\ PipelineInv

LEMMA ModelsStart == Init => ModelInv
<1> SUFFICES ASSUME Init PROVE ModelInv
  OBVIOUS
<1>1. /\ models = [r \in Models!Roles |-> TRUE] /\ modelCall = Models!NoModelCall
      /\ pipeline = [pc |-> "idle", step |-> 0, proposal |-> "none", pending |-> NoProvenance, evidence |-> <<>>]
  BY DEF Init, Models!ModelInit
<1>2. PipelineTyped /\ PipelineInv
  BY <1>1 DEF PipelineTyped, PipelineInv, Stages
<1>3. CallInv
  BY <1>1 DEF CallInv, Models!NoModelCall, ModelCallsTyped, Awaited, Models!Roles
<1>4. QED BY <1>1, <1>2, <1>3 DEF ModelInv

\* A step of the running call, while the pipeline stays where it is.
LEMMA CallMoves ==
  ASSUME ModelInv, UNCHANGED pipeline, models' \in [Models!Roles -> BOOLEAN], CallInv'
  PROVE  ModelInv'
BY DEF ModelInv, PipelineTyped, PipelineInv, Supports, Faithful

\* What CallTo leaves.
LEMMA CalledTo ==
  ASSUME ModelInv,
         NEW l \in {"none", "look", "invoke", "response", "retryable", "error", "raised", "answered"},
         Models!CallTo(l)
  PROVE  /\ modelCall' \in ModelCallsTyped /\ modelCall'.pc = l /\ modelCall'.role = modelCall.role
         /\ modelCall'.step = modelCall.step /\ modelCall'.text = modelCall.text
         /\ modelCall'.attempts = modelCall.attempts /\ modelCall'.sent = modelCall.sent
         /\ UNCHANGED <<models, pipeline>>
BY DEF ModelInv, CallInv, ModelCallsTyped, Models!CallTo

LEMMA BeginAttemptKeeps ==
  ASSUME OperationsAssumption, ModelInv, Models!BeginAttempt
  PROVE  ModelInv'
<1>1. modelCall.pc = "look" /\ CallInv /\ modelCall \in ModelCallsTyped
  BY DEF Models!BeginAttempt, ModelInv, CallInv
<1>2. CASE Models!CallTo("raised")
  BY <1>1, <1>2, CalledTo, CallMoves DEF ModelInv, CallInv
<1>3. CASE /\ modelCall' = [modelCall EXCEPT !.pc = "invoke", !.attempts = @ + 1,
                            !.sent = Append(@, [text |-> modelCall.text, bound |-> models[modelCall.role]])]
           /\ UNCHANGED <<models, pipeline, cancel>>
  <2>1. /\ modelCall.sent \in Seq(Sent) /\ modelCall.attempts \in Nat /\ modelCall.attempts = Len(modelCall.sent)
        /\ \A k \in DOMAIN modelCall.sent : modelCall.sent[k] = [text |-> "built", bound |-> TRUE]
        /\ modelCall.text = "built" /\ modelCall.attempts < MaxAttempts /\ MaxAttempts \in Nat
    BY <1>1 DEF CallInv, ModelCallsTyped, Faithful, OperationsAssumption
  <2>2. models[modelCall.role] = TRUE
    BY <1>1 DEF CallInv, ModelInv, Awaited, Models!Roles
  <2> DEFINE now1 == [text |-> "built", bound |-> TRUE]
             sent1 == Append(modelCall.sent, now1)
  <2>3. /\ sent1 \in Seq(Sent) /\ Len(sent1) = modelCall.attempts + 1
        /\ \A k \in DOMAIN sent1 : sent1[k] = now1
    <3>1. now1 \in Sent
      BY DEF Sent
    <3> HIDE DEF now1
    <3>2. QED BY <2>1, <3>1, AppendProperties DEF now1
  <2>4. modelCall' = [modelCall EXCEPT !.pc = "invoke", !.attempts = modelCall.attempts + 1, !.sent = sent1]
    BY <1>3, <2>1, <2>2
  <2> HIDE DEF sent1
  <2>5. /\ modelCall' \in ModelCallsTyped /\ modelCall'.pc = "invoke" /\ modelCall'.role = modelCall.role
        /\ modelCall'.step = modelCall.step /\ modelCall'.attempts = modelCall.attempts + 1 /\ modelCall'.sent = sent1
    <3>1. modelCall.attempts + 1 \in Nat
      BY <2>1
    <3>2. QED BY <1>1, <2>3, <2>4, <3>1 DEF ModelCallsTyped
  <2>6. CallInv'
    <3>1. Faithful(modelCall'.attempts, modelCall'.sent)
      BY <2>3, <2>5 DEF Faithful
    <3>2. modelCall'.attempts \in 1 .. MaxAttempts
      BY <2>1, <2>5
    <3>3. /\ pipeline'.pc \in DOMAIN Awaited
          /\ modelCall'.role = Awaited[pipeline'.pc] /\ modelCall'.step = pipeline'.step
      BY <1>1, <1>3, <2>5 DEF CallInv, Models!BeginAttempt
    <3>4. QED BY <2>5, <3>1, <3>2, <3>3 DEF CallInv
  <2>7. QED BY <1>3, <2>6, CallMoves DEF ModelInv
<1>4. QED BY <1>1, <1>2, <1>3 DEF Models!BeginAttempt

\* The provider may leave anything behind; what was sent stays as it was.
LEMMA InvokeKeeps ==
  ASSUME ModelInv, Models!Invoke
  PROVE  ModelInv'
<1>1. /\ modelCall.pc = "invoke" /\ CallInv /\ modelCall \in ModelCallsTyped /\ UNCHANGED pipeline
      /\ models \in [Models!Roles -> BOOLEAN]
  BY DEF Models!Invoke, ModelInv, CallInv
<1>2. PICK l \in {"response", "retryable", "error", "raised"}, text \in {"built", "mutated"}, bound \in BOOLEAN :
        /\ modelCall' = [modelCall EXCEPT !.pc = l, !.text = text]
        /\ models' = [models EXCEPT ![modelCall.role] = bound]
  BY DEF Models!Invoke
<1>3. /\ modelCall' \in ModelCallsTyped /\ modelCall'.pc = l /\ modelCall'.role = modelCall.role
      /\ modelCall'.step = modelCall.step /\ modelCall'.attempts = modelCall.attempts /\ modelCall'.sent = modelCall.sent
  BY <1>1, <1>2 DEF ModelCallsTyped
<1>4. models' \in [Models!Roles -> BOOLEAN]
  BY <1>1, <1>2
<1>5. CallInv'
  BY <1>1, <1>3 DEF CallInv, Faithful
<1>6. QED BY <1>1, <1>4, <1>5, CallMoves

LEMMA RetryKeeps ==
  ASSUME ModelInv, Models!Retry \/ Models!AcceptResponse
  PROVE  ModelInv'
<1>1. modelCall.pc \in {"error", "retryable", "response"} /\ CallInv /\ models \in [Models!Roles -> BOOLEAN]
  BY DEF Models!Retry, Models!AcceptResponse, ModelInv
<1>2. PICK l \in {"look", "answered", "raised"} :
        /\ Models!CallTo(l)
        /\ l = "look" => Models!ValidateAttemptBoundary /\ modelCall.attempts < MaxAttempts
  BY DEF Models!Retry, Models!AcceptResponse
<1>3. /\ modelCall' \in ModelCallsTyped /\ modelCall'.pc = l /\ modelCall'.role = modelCall.role
      /\ modelCall'.step = modelCall.step /\ modelCall'.text = modelCall.text
      /\ modelCall'.attempts = modelCall.attempts /\ modelCall'.sent = modelCall.sent
      /\ UNCHANGED <<models, pipeline>>
  BY <1>2, CalledTo
<1>4. CallInv'
  BY <1>1, <1>2, <1>3 DEF CallInv, Faithful, Models!ValidateAttemptBoundary
<1>5. QED BY <1>1, <1>3, <1>4, CallMoves

\* A call is started for the state the pipeline goes to.
LEMMA StartsCall ==
  ASSUME OperationsAssumption, models \in [Models!Roles -> BOOLEAN], UNCHANGED models,
         NEW l \in DOMAIN Awaited, Models!StartCall(Awaited[l], pipeline'.step), pipeline'.pc = l, pipeline'.step \in Nat
  PROVE  CallInv'
<1>1. Awaited[l] \in Models!Roles
  BY DEF Awaited, Models!Roles
<1>2. PICK p \in {"look", "raised"} :
        /\ modelCall' = [Models!NoModelCall EXCEPT !.pc = p, !.role = Awaited[l], !.step = pipeline'.step]
        /\ p = "look" => models[Awaited[l]]
  BY DEF Models!StartCall
<1>3. /\ modelCall' \in ModelCallsTyped /\ modelCall'.pc = p /\ modelCall'.role = Awaited[l]
      /\ modelCall'.step = pipeline'.step /\ modelCall'.text = "built" /\ modelCall'.attempts = 0 /\ modelCall'.sent = <<>>
  <2> DEFINE none == Models!NoModelCall
  <2>1. none \in ModelCallsTyped /\ none.text = "built" /\ none.attempts = 0 /\ none.sent = <<>>
    BY DEF Models!NoModelCall, ModelCallsTyped
  <2> HIDE DEF none
  <2>2. modelCall' = [none EXCEPT !.pc = p, !.role = Awaited[l], !.step = pipeline'.step]
    BY <1>2 DEF none
  <2>3. QED BY <1>1, <2>1, <2>2 DEF ModelCallsTyped
<1>4. 0 < MaxAttempts
  BY DEF OperationsAssumption
<1>5. QED BY <1>2, <1>3, <1>4 DEF CallInv, Faithful

\* Without a call the invariant of the call says nothing.
LEMMA NoCallHolds == ASSUME modelCall' = Models!NoModelCall PROVE CallInv'
BY DEF CallInv, Models!NoModelCall, ModelCallsTyped

\* The receipt of a call that was answered supports its step.
LEMMA ReceiptSupports ==
  ASSUME ModelInv, modelCall.pc = "answered"
  PROVE  pipeline.pc \in DOMAIN Awaited /\ Supports(Models!Receipt, Awaited[pipeline.pc], pipeline.step)
<1>1. CallInv /\ modelCall \in ModelCallsTyped
  BY DEF ModelInv, CallInv
<1>2. /\ pipeline.pc \in DOMAIN Awaited /\ modelCall.role = Awaited[pipeline.pc] /\ modelCall.step = pipeline.step
      /\ modelCall.attempts \in 1 .. MaxAttempts /\ Faithful(modelCall.attempts, modelCall.sent)
  BY <1>1 DEF CallInv
<1>3. modelCall.role \in Models!Roles
  BY <1>2 DEF Awaited, Models!Roles
<1>4. Models!Receipt \in CallReceipts
  BY <1>1, <1>3 DEF Models!Receipt, CallReceipts, ModelCallsTyped
<1>5. QED BY <1>2, <1>4 DEF Supports, Models!Receipt

\* What a step of the pipeline that keeps evidence and pending leaves.
LEMMA PipelineMoves ==
  ASSUME ModelInv, NEW l \in DOMAIN Stages, pipeline' = [pipeline EXCEPT !.pc = l],
         Stages[l] = Stages[pipeline.pc], l # "planned",
         l # "ended" => pipeline.pc # "planned" /\ pipeline.pc # "ended"
  PROVE  PipelineTyped' /\ PipelineInv' /\ pipeline'.pc = l /\ pipeline'.step = pipeline.step
<1>1. /\ PipelineTyped' /\ pipeline'.pc = l /\ pipeline'.step = pipeline.step
      /\ pipeline'.pending = pipeline.pending /\ pipeline'.evidence = pipeline.evidence
  BY DEF ModelInv, PipelineTyped
<1>2. QED BY <1>1 DEF ModelInv, PipelineInv, Supports, Faithful

LEMMA AskKeeps ==
  ASSUME OperationsAssumption, ModelInv, Models!Plan \/ Models!Evaluate
  PROVE  ModelInv'
<1>1. PICK l \in {"planning", "evaluating"} :
        /\ pipeline.pc = (IF l = "planning" THEN "idle" ELSE "executed")
        /\ Models!StartCall(Awaited[l], pipeline.step) /\ Models!PipelineTo(l) /\ UNCHANGED models
  BY DEF Models!Plan, Models!Evaluate, Awaited
<1>2. l \in DOMAIN Stages /\ l \in DOMAIN Awaited /\ Stages[l] = Stages[pipeline.pc]
  BY <1>1 DEF Stages, Awaited
<1>3. PipelineTyped' /\ PipelineInv' /\ pipeline'.pc = l /\ pipeline'.step = pipeline.step
  BY <1>1, <1>2, PipelineMoves DEF Models!PipelineTo
<1>4. CallInv'
  BY <1>1, <1>2, <1>3, StartsCall DEF ModelInv, PipelineInv
<1>5. QED BY <1>1, <1>3, <1>4 DEF ModelInv

\* The engine goes on to the next step.
LEMMA StepEndsHolds ==
  ASSUME ModelInv, pipeline.pc # "planned" \/ pipeline.pending = NoProvenance, pipeline.pc # "ended", Models!StepEnds
  PROVE  PipelineTyped' /\ PipelineInv'
<1>1. /\ PipelineTyped' /\ pipeline'.pc = "idle" /\ pipeline'.step = pipeline.step + 1
      /\ pipeline'.pending = NoProvenance /\ pipeline'.evidence = <<>>
  BY DEF Models!StepEnds, ModelInv, PipelineTyped, PipelineInv
<1>2. pipeline'.step \in Nat
  BY <1>1 DEF ModelInv, PipelineInv
<1>3. QED BY <1>1, <1>2 DEF PipelineInv, Stages

LEMMA EndOfStepKeeps ==
  ASSUME ModelInv, Models!ComponentFails \/ Models!NextStep
  PROVE  ModelInv'
<1>1. CASE Models!ComponentFails
  <2>1. pipeline.pc \in DOMAIN Awaited
    BY <1>1 DEF Models!ComponentFails, ModelInv, CallInv
  <2>2. pipeline.pc # "planned" /\ pipeline.pc # "ended"
    BY <2>1 DEF Awaited
  <2>3. QED BY <1>1, <2>2, StepEndsHolds, NoCallHolds DEF Models!ComponentFails, ModelInv
<1>2. CASE Models!NextStep
  <2>1. pipeline.pc = "evaluated" /\ Models!StepEnds /\ UNCHANGED <<models, modelCall>>
    BY <1>2 DEF Models!NextStep
  <2>2. modelCall.pc = "none" /\ CallInv
    BY <2>1 DEF ModelInv, CallInv, Awaited
  <2>3. CallInv'
    BY <2>1, <2>2 DEF CallInv
  <2>4. QED BY <2>1, <2>3, StepEndsHolds DEF ModelInv
<1>3. QED BY <1>1, <1>2

LEMMA PlannedKeeps ==
  ASSUME ModelInv, Models!Planned
  PROVE  ModelInv'
<1>1. /\ pipeline.pc = "planning" /\ modelCall.pc = "answered" /\ modelCall' = Models!NoModelCall /\ UNCHANGED models
      /\ PipelineTyped /\ PipelineInv
  BY DEF Models!Planned, ModelInv
<1>2. PICK p \in Proposals :
        pipeline' = [pipeline EXCEPT !.pc = "planned", !.proposal = p, !.pending = [proposal |-> p, call |-> Models!Receipt]]
  BY DEF Models!Planned
<1>3. Supports(Models!Receipt, "planner", pipeline.step)
  BY <1>1, ReceiptSupports DEF Awaited
<1>4. /\ PipelineTyped' /\ pipeline'.pc = "planned" /\ pipeline'.step = pipeline.step
      /\ pipeline'.pending.call = Models!Receipt /\ pipeline'.evidence = pipeline.evidence
      /\ pipeline'.pending.proposal = pipeline'.proposal
  BY <1>1, <1>2 DEF PipelineTyped
<1>5. PipelineInv'
  <2>1. "planned" \in DOMAIN Stages /\ Stages["planned"] = Stages["planning"]
    BY DEF Stages
  <2>2. Supports(pipeline'.pending.call, "planner", pipeline'.step)
    BY <1>3, <1>4
  <2>3. QED BY <1>1, <1>4, <2>1, <2>2 DEF PipelineInv, Supports, Faithful
<1>6. QED BY <1>1, <1>4, <1>5, NoCallHolds DEF ModelInv

\* One more receipt in the evidence, of the role whose turn it is.
LEMMA EvidenceGrows ==
  ASSUME ModelInv, modelCall.pc = "answered", pipeline.pc \in {"executing", "evaluating"}, NEW l,
         l = (IF pipeline.pc = "executing" THEN "executed" ELSE "evaluated"),
         pipeline' = [pipeline EXCEPT !.pc = l, !.evidence = Append(@, Models!Receipt)]
  PROVE  PipelineTyped' /\ PipelineInv'
<1> DEFINE old == pipeline.evidence
           new == Append(pipeline.evidence, Models!Receipt)
           n == Stages[pipeline.pc]
<1>1. PipelineTyped /\ PipelineInv
  BY DEF ModelInv
<1>2. Supports(Models!Receipt, Awaited[pipeline.pc], pipeline.step)
  BY ReceiptSupports
<1>3. Models!Receipt \in CallReceipts
  BY <1>2 DEF Supports
<1>4. n \in {1, 2} /\ l \in DOMAIN Stages /\ Stages[l] = n + 1 /\ RolesInOrder[n + 1] = Awaited[pipeline.pc]
      /\ l # "planned" /\ l # "ended"
  BY DEF Stages, RolesInOrder, Awaited
<1>5. /\ old \in Seq(CallReceipts) /\ Len(old) = n
      /\ \A i \in DOMAIN old : Supports(old[i], RolesInOrder[i], pipeline.step)
  BY <1>1 DEF PipelineInv
<1> HIDE DEF n
<1>6. /\ new \in Seq(CallReceipts) /\ Len(new) = n + 1 /\ DOMAIN new = 1..(n + 1) /\ new[n + 1] = Models!Receipt
      /\ \A i \in 1..n : new[i] = old[i] /\ i \in DOMAIN old
  BY <1>3, <1>4, <1>5, AppendProperties
<1>7. \A i \in DOMAIN new : Supports(new[i], RolesInOrder[i], pipeline.step)
  <2>1. \A i \in DOMAIN new : i \in 1..n \/ i = n + 1
    BY <1>4, <1>6
  <2>2. QED BY <1>2, <1>4, <1>5, <1>6, <2>1
<1> HIDE DEF new, old
<1>8. /\ PipelineTyped' /\ pipeline'.pc = l /\ pipeline'.step = pipeline.step
      /\ pipeline'.pending = pipeline.pending /\ pipeline'.evidence = new
  BY <1>1 DEF PipelineTyped, new
<1>9. pipeline.pending = NoProvenance /\ pipeline.step \in Nat
  BY <1>1 DEF PipelineInv
<1>10. \A i \in DOMAIN pipeline'.evidence : Supports(pipeline'.evidence[i], RolesInOrder[i], pipeline'.step)
  BY <1>7, <1>8
<1>11. QED BY <1>4, <1>6, <1>8, <1>9, <1>10 DEF PipelineInv

LEMMA AnsweredCallKeeps ==
  ASSUME ModelInv, Models!Executed \/ Models!Evaluated
  PROVE  ModelInv'
<1>1. /\ modelCall.pc = "answered" /\ pipeline.pc \in {"executing", "evaluating"}
      /\ modelCall' = Models!NoModelCall /\ UNCHANGED models
  BY DEF Models!Executed, Models!Evaluated
<1>2. pipeline' = [pipeline EXCEPT !.pc = IF pipeline.pc = "executing" THEN "executed" ELSE "evaluated",
                                   !.evidence = Append(@, Models!Receipt)]
  BY DEF Models!Executed, Models!Evaluated
<1>3. PipelineTyped' /\ PipelineInv'
  BY <1>1, <1>2, EvidenceGrows
<1>4. QED BY <1>1, <1>3, NoCallHolds DEF ModelInv

\* The receipt of the proposal is used up by its execution, which is the only one it supports.
LEMMA ExecutePlanKeeps ==
  ASSUME OperationsAssumption, ModelInv, Models!Execute
  PROVE  ModelInv'
<1>1. pipeline.pc = "planned" /\ UNCHANGED models /\ PipelineTyped /\ PipelineInv /\ CallInv
  BY DEF Models!Execute, ModelInv
<1>2. CASE /\ Models!StartCall("worker", pipeline.pending.call.step)
           /\ pipeline' = [pipeline EXCEPT !.pc = "executing", !.pending = NoProvenance, !.evidence = <<pipeline.pending.call>>]
  <2> DEFINE r == pipeline.pending.call
  <2>1. Supports(r, "planner", pipeline.step) /\ r.step = pipeline.step /\ r \in CallReceipts /\ pipeline.step \in Nat
    BY <1>1 DEF PipelineInv, Supports
  <2>2. /\ PipelineTyped' /\ pipeline'.pc = "executing" /\ pipeline'.step = pipeline.step
        /\ pipeline'.pending = NoProvenance /\ pipeline'.evidence = <<r>>
    BY <1>1, <1>2 DEF PipelineTyped
  <2> HIDE DEF r
  <2>3. /\ <<r>> \in Seq(CallReceipts) /\ Len(<<r>>) = 1
        /\ \A i \in DOMAIN <<r>> : Supports(<<r>>[i], RolesInOrder[i], pipeline.step)
    BY <2>1 DEF RolesInOrder
  <2>4. \A i \in DOMAIN pipeline'.evidence : Supports(pipeline'.evidence[i], RolesInOrder[i], pipeline'.step)
    BY <2>2, <2>3
  <2>5. "executing" \in DOMAIN Stages /\ Stages["executing"] = 1
    BY DEF Stages
  <2>6. PipelineInv'
    BY <2>1, <2>2, <2>3, <2>4, <2>5 DEF PipelineInv
  <2>7. "executing" \in DOMAIN Awaited /\ Awaited["executing"] = "worker"
    BY DEF Awaited
  <2>8. CallInv'
    BY <1>1, <1>2, <2>1, <2>2, <2>7, StartsCall DEF ModelInv, r
  <2>9. QED BY <1>1, <2>2, <2>6, <2>8 DEF ModelInv
<1>3. CASE ~(pipeline.pending # NoProvenance /\ pipeline.pending.proposal = pipeline.proposal) /\ Models!StepEnds /\ UNCHANGED modelCall
  <2>1. pipeline.pending = NoProvenance
    BY <1>1, <1>3 DEF PipelineInv
  <2>2. PipelineTyped' /\ PipelineInv'
    BY <1>1, <1>3, <2>1, StepEndsHolds
  <2>3. modelCall.pc = "none"
    BY <1>1 DEF CallInv, Awaited
  <2>4. CallInv'
    BY <1>1, <1>3, <2>3 DEF CallInv
  <2>5. QED BY <1>1, <2>2, <2>4 DEF ModelInv
<1>4. QED BY <1>2, <1>3 DEF Models!Execute

LEMMA LeaveKeeps ==
  ASSUME ModelInv, Models!RunEnds \/ Models!NewProcess \/ Models!Cancelled
  PROVE  ModelInv'
<1>1. PipelineTyped /\ PipelineInv /\ CallInv
  BY DEF ModelInv
<1>2. CASE Models!RunEnds
  <2>1. pipeline.pc = "planned" /\ pipeline' = [pipeline EXCEPT !.pc = "ended"] /\ UNCHANGED <<models, modelCall>>
    BY <1>2 DEF Models!RunEnds, Models!PipelineTo
  <2>2. "ended" \in DOMAIN Stages /\ Stages["ended"] = Stages["planned"]
    BY DEF Stages
  <2>3. PipelineTyped' /\ PipelineInv'
    BY <2>1, <2>2, PipelineMoves
  <2>4. modelCall.pc = "none"
    BY <1>1, <2>1 DEF CallInv, Awaited
  <2>5. CallInv'
    BY <1>1, <2>1, <2>4 DEF CallInv
  <2>6. QED BY <2>1, <2>3, <2>5 DEF ModelInv
<1>3. CASE Models!NewProcess
  <2>1. /\ pipeline' = [pipeline EXCEPT !.pc = "idle", !.pending = NoProvenance, !.evidence = <<>>]
        /\ modelCall' = Models!NoModelCall /\ UNCHANGED models
    BY <1>3 DEF Models!NewProcess
  <2>2. /\ PipelineTyped' /\ pipeline'.pc = "idle" /\ pipeline'.step = pipeline.step
        /\ pipeline'.pending = NoProvenance /\ pipeline'.evidence = <<>>
    BY <1>1, <2>1 DEF PipelineTyped
  <2>3. PipelineInv'
    BY <1>1, <2>2 DEF PipelineInv, Stages
  <2>4. QED BY <2>1, <2>2, <2>3, NoCallHolds DEF ModelInv
<1>4. CASE Models!Cancelled
  BY <1>1, <1>4, CallMoves DEF Models!Cancelled, CallInv, ModelInv
<1>5. QED BY <1>2, <1>3, <1>4

LEMMA ModelsKeep == OperationsAssumption /\ ModelInv /\ [Next]_vars => ModelInv'
<1> SUFFICES ASSUME OperationsAssumption, ModelInv, [Next]_vars PROVE ModelInv'
  OBVIOUS
<1>1. CASE UNCHANGED modelVars
  BY <1>1, CallMoves DEF modelVars, ModelInv, CallInv
<1>2. CASE Models!ModelNext
  BY <1>2, BeginAttemptKeeps, InvokeKeeps, RetryKeeps, AskKeeps, EndOfStepKeeps, PlannedKeeps,
     AnsweredCallKeeps, ExecutePlanKeeps, LeaveKeeps DEF Models!ModelNext
<1>3. QED BY <1>1, <1>2, StepOfOne

LEMMA ModelsGive == ModelInv => ReceiptsAreBound
<1> SUFFICES ASSUME ModelInv PROVE ReceiptsAreBound
  OBVIOUS
<1>1. /\ \A i \in DOMAIN pipeline.evidence : Supports(pipeline.evidence[i], RolesInOrder[i], pipeline.step)
      /\ pipeline.pc \notin {"planned", "ended"} => pipeline.pending = NoProvenance
  BY DEF ModelInv, PipelineInv
<1>2. QED BY <1>1 DEF ReceiptsAreBound, Models!ReceiptsAreBound, Supports, Faithful, RolesInOrder

\* Whatever a provider answers, does to its request or turns into, and whenever the caller cancels
\* or the process stops: the receipts of a step are of calls that were made as they say.
THEOREM ReceiptsStayBound == Spec => []ReceiptsAreBound
<1>1. ModelInv /\ [Next]_vars => ModelInv'
  BY ModelsKeep, OperationsAssumption
<1>2. QED BY <1>1, ModelsStart, ModelsGive, PTL DEF Spec

-----------------------------------------------------------------------------
\* commands.apply.

BeforeOk == <<"before_apply", "ok">>
ApplyOk == <<"apply", "ok">>
ApplyFailed == <<"apply", "failed">>

\* The hooks that may have been run at each point of the command.
HooksAt(l) ==
  CASE l = "apply" -> {<<BeforeOk>>}
    [] l = "after_apply" -> {<<BeforeOk, ApplyOk>>}
    [] l = "rollback" -> {<<BeforeOk, ApplyFailed>>}
    [] l = "applied" -> {<<BeforeOk, ApplyOk, <<"after_apply", "ok">>>>}
    [] l = "failed" ->
         {<<>>, <<<<"before_apply", "failed">>>>, <<BeforeOk>>, <<BeforeOk, ApplyOk, <<"after_apply", "failed">>>>}
         \cup {<<BeforeOk, ApplyFailed, <<"rollback", code>>>> : code \in {"ok", "failed"}}
    [] l = "dead" -> {<<>>, <<BeforeOk>>, <<BeforeOk, ApplyOk>>, <<BeforeOk, ApplyFailed>>}
    [] OTHER -> {<<>>}

Collecting == {"branch", "status", "kernel", "expected", "origin", "enforce"}
ApplyPoints ==
  Collecting \cup {"none", "start", "verify", "dry_run", "cancelled", "before_apply", "apply", "after_apply",
                   "rollback", "applied", "failed", "dead"}

Repositories ==
  [branch : Branches \cup {TargetBranch}, clean : BOOLEAN, kernel : Identities \cup {Absent},
   origin : Identities \cup {Absent}]

ApplyTyped ==
  /\ repo \in Repositories
  /\ apply = [pc |-> apply.pc, dry |-> apply.dry, context |-> apply.context, hooks |-> apply.hooks, seen |-> apply.seen]
  /\ apply.context = [branch |-> apply.context.branch, dirty |-> apply.context.dirty, kernel |-> apply.context.kernel]
  /\ apply.pc \in ApplyPoints /\ apply.context.dirty \in BOOLEAN
  /\ applied = [edits |-> applied.edits, before |-> applied.before, ran |-> applied.ran, rewritten |-> applied.rewritten]
  /\ applied.edits \in Nat /\ applied.rewritten \in BOOLEAN

\* While nobody else edits, what was read is what there is, and the action is the one that was
\* verified unless a script of the package rewrote it.
ReadsHold ==
  /\ apply.pc \in Collecting \cup {"verify", "before_apply", "apply"} =>
       applied.rewritten \/ block.files["apply"] = apply.seen
  /\ apply.pc \in (Collecting \ {"branch"}) \cup {"before_apply"} => apply.context.branch = repo.branch
  /\ apply.pc \in (Collecting \ {"branch", "status"}) \cup {"before_apply"} => (apply.context.dirty <=> ~repo.clean)
  /\ apply.pc = "origin" => apply.context.kernel = repo.kernel
  /\ apply.pc \in {"enforce", "before_apply"} => repo.kernel \in {Absent, repo.origin}

\* What the hooks were run on.
RanOn ==
  /\ applied.before.clean /\ applied.before.branch = TargetBranch
  /\ applied.before.kernel \in {Absent, applied.before.origin}
  /\ applied.rewritten \/ applied.ran \in {Absent, apply.seen}

ApplyInv ==
  /\ ApplyTyped /\ apply.hooks \in HooksAt(apply.pc)
  /\ apply.pc = "before_apply" \/ apply.hooks # <<>> =>
       ~apply.dry /\ apply.context.branch = TargetBranch /\ ~apply.context.dirty
  /\ applied.edits = 0 => ReadsHold
  /\ applied.edits = 0 /\ apply.hooks # <<>> => RanOn
  /\ apply.hooks = <<>> => applied.ran = Absent

LEMMA ApplyStarts == Init => ApplyInv
<1> SUFFICES ASSUME Init PROVE ApplyInv
  OBVIOUS
<1>1. WorkBlock!ApplyInit
  BY DEF Init
<1>2. ApplyTyped
  BY <1>1 DEF WorkBlock!ApplyInit, WorkBlock!NoContext, ApplyTyped, Repositories, ApplyPoints, Collecting
<1>3. apply.pc = "none" /\ apply.hooks = <<>> /\ applied.ran = Absent
  BY <1>1 DEF WorkBlock!ApplyInit
<1>4. apply.hooks \in HooksAt(apply.pc)
  BY <1>3 DEF HooksAt
<1>5. QED BY <1>2, <1>3, <1>4 DEF ApplyInv, ReadsHold, Collecting

\* A step of the command before any hook was run, which reads x and the context k.
LEMMA HooklessMoves ==
  ASSUME ApplyInv, apply.hooks = <<>>, repo' \in Repositories, UNCHANGED applied, NEW l \in ApplyPoints,
         NEW d, NEW k, NEW x, apply' = [pc |-> l, dry |-> d, context |-> k, hooks |-> apply.hooks, seen |-> x],
         k = [branch |-> k.branch, dirty |-> k.dirty, kernel |-> k.kernel], k.dirty \in BOOLEAN,
         <<>> \in HooksAt(l), applied.edits = 0 => ReadsHold',
         l = "before_apply" => ~d /\ k.branch = TargetBranch /\ ~k.dirty
  PROVE  ApplyInv'
<1>1. apply'.pc = l /\ apply'.dry = d /\ apply'.context = k /\ apply'.hooks = <<>> /\ apply'.seen = x
  OBVIOUS
<1>2. ApplyTyped'
  BY <1>1 DEF ApplyInv, ApplyTyped
<1>3. QED BY <1>1, <1>2 DEF ApplyInv

\* The points at which no hook was run, and what a step there leaves.
LEMMA NoHooksYet ==
  ASSUME ApplyInv, apply.pc \in Collecting \cup {"none", "start", "verify", "before_apply"}
  PROVE  apply.hooks = <<>>
BY DEF ApplyInv, HooksAt, Collecting

LEMMA ApplyShape ==
  ASSUME ApplyInv
  PROVE  /\ repo \in Repositories
         /\ apply = [pc |-> apply.pc, dry |-> apply.dry, context |-> apply.context, hooks |-> apply.hooks, seen |-> apply.seen]
         /\ apply.context = [branch |-> apply.context.branch, dirty |-> apply.context.dirty, kernel |-> apply.context.kernel]
         /\ apply.context.dirty \in BOOLEAN
BY DEF ApplyInv, ApplyTyped

\* The command moves on without reading anything.
LEMMA ApplyMoves ==
  ASSUME ApplyInv, apply.pc \in Collecting \cup {"none", "start", "verify", "before_apply"},
         NEW l \in ApplyPoints, WorkBlock!ApplyTo(l), repo' \in Repositories, UNCHANGED applied,
         <<>> \in HooksAt(l), applied.edits = 0 => ReadsHold',
         l = "before_apply" => ~apply.dry /\ apply.context.branch = TargetBranch /\ ~apply.context.dirty
  PROVE  ApplyInv'
<1>1. apply' = [pc |-> l, dry |-> apply.dry, context |-> apply.context, hooks |-> apply.hooks, seen |-> apply.seen]
  BY ApplyShape DEF WorkBlock!ApplyTo
<1>2. QED BY <1>1, NoHooksYet, ApplyShape, HooklessMoves

\* A command that ends before its hooks.
LEMMA ApplyEnds ==
  ASSUME ApplyInv, apply.pc \in Collecting \cup {"none", "start", "verify", "before_apply"},
         NEW l \in {"failed", "cancelled", "dry_run", "dead"}, WorkBlock!ApplyTo(l), repo' \in Repositories, UNCHANGED applied
  PROVE  ApplyInv'
<1>1. apply'.pc = l
  BY ApplyShape DEF WorkBlock!ApplyTo
<1>2. l \in ApplyPoints /\ <<>> \in HooksAt(l) /\ l # "before_apply"
  BY DEF ApplyPoints, HooksAt
<1>3. ReadsHold'
  BY <1>1 DEF ReadsHold, Collecting
<1>4. QED BY <1>2, <1>3, ApplyMoves

LEMMA PrepareKeeps ==
  ASSUME ApplyInv, WorkBlock!Prepare
  PROVE  ApplyInv'
<1>1. apply.pc = "none" /\ WorkBlock!ApplyTo("start") /\ UNCHANGED applied
  BY DEF WorkBlock!Prepare
<1>2. repo' \in Repositories
  BY DEF WorkBlock!Prepare, WorkBlock!Repositories, Repositories
<1>3. apply'.pc = "start" /\ "start" \in ApplyPoints /\ <<>> \in HooksAt("start")
  BY <1>1, ApplyShape DEF WorkBlock!ApplyTo, ApplyPoints, HooksAt
<1>4. ReadsHold'
  BY <1>3 DEF ReadsHold, Collecting
<1>5. QED BY <1>1, <1>2, <1>3, <1>4, ApplyMoves

LEMMA VerifyWorkBlockKeeps ==
  ASSUME ApplyInv, WorkBlock!VerifyWorkBlock
  PROVE  ApplyInv'
<1>1. apply.pc = "start"
  BY DEF WorkBlock!VerifyWorkBlock
<1>2. CASE WorkBlock!ApplyFails
  BY <1>1, <1>2, ApplyEnds, ApplyShape DEF WorkBlock!ApplyFails, WorkBlock!Keep
<1>3. CASE apply' = [apply EXCEPT !.pc = "verify", !.seen = block.files["apply"]] /\ WorkBlock!Keep
  <2>1. apply' = [pc |-> "verify", dry |-> apply.dry, context |-> apply.context, hooks |-> apply.hooks,
                  seen |-> block.files["apply"]]
    BY <1>3, ApplyShape
  <2>2. UNCHANGED <<repo, block, applied>> /\ repo \in Repositories
    BY <1>3, ApplyShape DEF WorkBlock!Keep
  <2>3. "verify" \in ApplyPoints /\ <<>> \in HooksAt("verify")
    BY DEF ApplyPoints, HooksAt
  <2>4. ReadsHold'
    BY <2>1, <2>2 DEF ReadsHold, Collecting
  <2>5. QED BY <1>1, <2>1, <2>2, <2>3, <2>4, NoHooksYet, ApplyShape, HooklessMoves
<1>4. QED BY <1>2, <1>3 DEF WorkBlock!VerifyWorkBlock

\* What a script of the package may do to the repository.
LEMMA RunsTyped == ASSUME ApplyInv, WorkBlock!Runs PROVE repo' \in Repositories
BY ApplyShape DEF Repositories, WorkBlock!Runs, WorkBlock!Repositories

LEMMA VerifyActionKeeps ==
  ASSUME ApplyInv, WorkBlock!VerifyAction
  PROVE  ApplyInv'
<1>1. /\ apply.pc = "verify" /\ repo' \in Repositories
      /\ applied' = [applied EXCEPT !.rewritten = @ \/ WorkBlock!Rewrites]
  BY RunsTyped DEF WorkBlock!VerifyAction
<1>2. apply.hooks = <<>> /\ applied.ran = Absent
  BY <1>1, NoHooksYet DEF ApplyInv
<1>3. PICK l \in {"branch", "cancelled", "failed"}, d \in {apply.dry} \cup BOOLEAN :
        apply' = [pc |-> l, dry |-> d, context |-> apply.context, hooks |-> apply.hooks, seen |-> apply.seen]
  <2>1. CASE \E l \in {"cancelled", "failed"} : WorkBlock!ApplyTo(l)
    BY <2>1, ApplyShape DEF WorkBlock!ApplyTo
  <2>2. CASE \E d \in BOOLEAN : apply' = [apply EXCEPT !.pc = "branch", !.dry = d]
    BY <2>2, ApplyShape
  <2>3. QED BY <2>1, <2>2 DEF WorkBlock!VerifyAction
<1>4. /\ apply'.pc = l /\ apply'.context = apply.context /\ apply'.hooks = <<>> /\ apply'.seen = apply.seen
      /\ l # "before_apply"
  BY <1>2, <1>3
<1>5. /\ applied' = [edits |-> applied'.edits, before |-> applied'.before, ran |-> applied'.ran, rewritten |-> applied'.rewritten]
      /\ applied'.edits = applied.edits /\ applied'.ran = Absent
      /\ (applied'.rewritten <=> applied.rewritten \/ block'.files["apply"] # block.files["apply"])
      /\ applied'.rewritten \in BOOLEAN /\ applied.edits \in Nat
  BY <1>1, <1>2 DEF ApplyInv, ApplyTyped, WorkBlock!Rewrites
<1>6. l \in ApplyPoints /\ <<>> \in HooksAt(l)
  BY DEF ApplyPoints, Collecting, HooksAt
<1>7. ApplyTyped'
  BY <1>1, <1>3, <1>4, <1>5, <1>6, ApplyShape DEF ApplyTyped
<1>8. applied.edits = 0 /\ ~applied'.rewritten => block'.files["apply"] = apply.seen
  BY <1>1, <1>5 DEF ApplyInv, ReadsHold
<1>9. applied.edits = 0 => ReadsHold'
  BY <1>4, <1>5, <1>8 DEF ReadsHold, Collecting
<1>10. QED BY <1>4, <1>5, <1>6, <1>7, <1>9 DEF ApplyInv

\* The context is read by one command after the other.
LEMMA CollectKeeps ==
  ASSUME ApplyInv, WorkBlock!ReadBranch \/ WorkBlock!ReadStatus \/ WorkBlock!ExpectedIdentity
  PROVE  ApplyInv'
<1>1. apply.pc \in {"branch", "status", "expected"}
  BY DEF WorkBlock!ReadBranch, WorkBlock!ReadStatus, WorkBlock!ExpectedIdentity
<1>2. CASE WorkBlock!ApplyFails
  BY <1>1, <1>2, ApplyEnds, ApplyShape DEF WorkBlock!ApplyFails, WorkBlock!Keep, Collecting
<1>3. ASSUME NEW l \in {"status", "kernel", "origin"}, NEW k, WorkBlock!Keep,
             k = [branch |-> k.branch, dirty |-> k.dirty, kernel |-> k.kernel], k.dirty \in BOOLEAN,
             apply' = [pc |-> l, dry |-> apply.dry, context |-> k, hooks |-> apply.hooks, seen |-> apply.seen],
             \/ apply.pc = "branch" /\ l = "status" /\ k.branch = repo.branch
             \/ apply.pc = "status" /\ l = "kernel" /\ (k.dirty <=> ~repo.clean) /\ k.branch = apply.context.branch
             \/ /\ apply.pc = "expected" /\ l = "origin" /\ k.kernel = repo.kernel
                /\ k.branch = apply.context.branch /\ k.dirty = apply.context.dirty
      PROVE  ApplyInv'
  <2>1. UNCHANGED <<repo, block, applied>> /\ repo \in Repositories /\ apply.hooks = <<>>
    BY <1>1, <1>3, ApplyShape, NoHooksYet DEF WorkBlock!Keep, Collecting
  <2>2. l \in ApplyPoints /\ <<>> \in HooksAt(l)
    BY DEF ApplyPoints, Collecting, HooksAt
  <2>3. apply'.pc = l /\ apply'.context = k /\ apply'.seen = apply.seen
    BY <1>3
  <2>4. applied.edits = 0 => ReadsHold'
    <3> SUFFICES ASSUME applied.edits = 0 PROVE ReadsHold'
      OBVIOUS
    <3>1. ReadsHold
      BY DEF ApplyInv
    <3>2. QED BY <1>3, <2>1, <2>3, <3>1 DEF ReadsHold, Collecting
  <2>5. QED BY <1>3, <2>1, <2>2, <2>4, HooklessMoves
<1>4. CASE WorkBlock!ReadBranch
  <2>1. SUFFICES ASSUME apply' = [apply EXCEPT !.pc = "status", !.context.branch = repo.branch], WorkBlock!Keep
                 PROVE  ApplyInv'
    BY <1>2, <1>4 DEF WorkBlock!ReadBranch
  <2> DEFINE k == [branch |-> repo.branch, dirty |-> apply.context.dirty, kernel |-> apply.context.kernel]
  <2>2. apply' = [pc |-> "status", dry |-> apply.dry, context |-> k, hooks |-> apply.hooks, seen |-> apply.seen]
    BY <2>1, ApplyShape
  <2>3. k = [branch |-> k.branch, dirty |-> k.dirty, kernel |-> k.kernel] /\ k.dirty \in BOOLEAN /\ k.branch = repo.branch
    BY ApplyShape
  <2>4. apply.pc = "branch"
    BY <1>4 DEF WorkBlock!ReadBranch
  <2> HIDE DEF k
  <2>5. QED BY <1>3, <2>1, <2>2, <2>3, <2>4
<1>5. CASE WorkBlock!ReadStatus
  <2>1. SUFFICES ASSUME apply' = [apply EXCEPT !.pc = "kernel", !.context.dirty = ~repo.clean], WorkBlock!Keep
                 PROVE  ApplyInv'
    BY <1>2, <1>5 DEF WorkBlock!ReadStatus
  <2>2. PICK d \in BOOLEAN : d = ~repo.clean
    BY ApplyShape DEF Repositories
  <2> DEFINE k == [branch |-> apply.context.branch, dirty |-> d, kernel |-> apply.context.kernel]
  <2>3. apply' = [pc |-> "kernel", dry |-> apply.dry, context |-> k, hooks |-> apply.hooks, seen |-> apply.seen]
    BY <2>1, <2>2, ApplyShape
  <2>4. /\ k = [branch |-> k.branch, dirty |-> k.dirty, kernel |-> k.kernel] /\ k.dirty \in BOOLEAN
        /\ (k.dirty <=> ~repo.clean) /\ k.branch = apply.context.branch
    BY <2>2
  <2>5. apply.pc = "status"
    BY <1>5 DEF WorkBlock!ReadStatus
  <2> HIDE DEF k
  <2>6. QED BY <1>3, <2>1, <2>3, <2>4, <2>5
<1>6. CASE WorkBlock!ExpectedIdentity
  <2>1. SUFFICES ASSUME apply' = [apply EXCEPT !.pc = "origin", !.context.kernel = repo.kernel], WorkBlock!Keep
                 PROVE  ApplyInv'
    BY <1>2, <1>6 DEF WorkBlock!ExpectedIdentity
  <2> DEFINE k == [branch |-> apply.context.branch, dirty |-> apply.context.dirty, kernel |-> repo.kernel]
  <2>2. apply' = [pc |-> "origin", dry |-> apply.dry, context |-> k, hooks |-> apply.hooks, seen |-> apply.seen]
    BY <2>1, ApplyShape
  <2>3. /\ k = [branch |-> k.branch, dirty |-> k.dirty, kernel |-> k.kernel] /\ k.dirty \in BOOLEAN
        /\ k.kernel = repo.kernel /\ k.branch = apply.context.branch /\ k.dirty = apply.context.dirty
    BY ApplyShape
  <2>4. apply.pc = "expected"
    BY <1>6 DEF WorkBlock!ExpectedIdentity
  <2> HIDE DEF k
  <2>5. QED BY <1>3, <2>1, <2>2, <2>3, <2>4
<1>7. QED BY <1>4, <1>5, <1>6

\* The checks of the context, which change nothing but where the command is.
LEMMA CheckKeeps ==
  ASSUME ApplyInv, WorkBlock!ReadKernel \/ WorkBlock!ResolveIdentity \/ WorkBlock!Enforce
  PROVE  ApplyInv'
<1>1. apply.pc \in {"kernel", "origin", "enforce"}
  BY DEF WorkBlock!ReadKernel, WorkBlock!ResolveIdentity, WorkBlock!Enforce
<1>2. CASE WorkBlock!ApplyFails \/ (WorkBlock!ApplyTo("dry_run") /\ WorkBlock!Keep)
  BY <1>1, <1>2, ApplyEnds, ApplyShape DEF WorkBlock!ApplyFails, WorkBlock!Keep, Collecting
<1>3. ASSUME NEW l \in {"enforce", "expected", "before_apply"}, WorkBlock!ApplyTo(l), WorkBlock!Keep,
             \/ apply.pc = "kernel" /\ l = "enforce" /\ repo.kernel = Absent
             \/ apply.pc = "kernel" /\ l = "expected"
             \/ apply.pc = "origin" /\ l = "enforce" /\ repo.origin = apply.context.kernel
             \/ apply.pc = "enforce" /\ l = "before_apply"
                /\ ~apply.dry /\ apply.context.branch = TargetBranch /\ ~apply.context.dirty
      PROVE  ApplyInv'
  <2>1. UNCHANGED <<repo, block, applied>> /\ repo \in Repositories
    BY <1>3, ApplyShape DEF WorkBlock!Keep
  <2>2. l \in ApplyPoints /\ <<>> \in HooksAt(l)
    BY DEF ApplyPoints, Collecting, HooksAt
  <2>3. apply'.pc = l /\ apply'.context = apply.context /\ apply'.seen = apply.seen
    BY <1>3, ApplyShape DEF WorkBlock!ApplyTo
  <2>4. applied.edits = 0 => ReadsHold'
    <3> SUFFICES ASSUME applied.edits = 0 PROVE ReadsHold'
      OBVIOUS
    <3>1. ReadsHold
      BY DEF ApplyInv
    <3>2. QED BY <1>3, <2>1, <2>3, <3>1 DEF ReadsHold, Collecting
  <2>5. QED BY <1>1, <1>3, <2>1, <2>2, <2>4, ApplyMoves DEF Collecting
<1>4. CASE WorkBlock!ReadKernel
  BY <1>2, <1>3, <1>4 DEF WorkBlock!ReadKernel
<1>5. CASE WorkBlock!ResolveIdentity
  BY <1>2, <1>3, <1>5 DEF WorkBlock!ResolveIdentity
<1>6. CASE WorkBlock!Enforce
  BY <1>2, <1>3, <1>6 DEF WorkBlock!Enforce
<1>7. QED BY <1>4, <1>5, <1>6

-----------------------------------------------------------------------------
\* A hook at h ends with code, after which the command is at l.
LEMMA HookKeeps ==
  ASSUME ApplyInv, NEW h \in {"before_apply", "apply", "after_apply", "rollback"}, NEW code \in {"ok", "failed"},
         NEW l \in {"apply", "after_apply", "rollback", "applied", "failed"}, apply.pc = h,
         apply' = [apply EXCEPT !.pc = l, !.hooks = Append(@, <<h, code>>)],
         UNCHANGED <<repo, block>> \/ WorkBlock!Runs,
         NEW w \in BOOLEAN, w <=> applied.rewritten \/ (h = "before_apply" /\ block'.files["apply"] # block.files["apply"]),
         applied' = [applied EXCEPT !.before = IF apply.hooks = <<>> THEN repo ELSE @,
                                    !.ran = IF h = "apply" THEN block.files[h] ELSE @,
                                    !.rewritten = w],
         l = "apply" => h = "before_apply",
         Append(apply.hooks, <<h, code>>) \in HooksAt(l), Append(apply.hooks, <<h, code>>) # <<>>
  PROVE  ApplyInv'
<1>1. repo' \in Repositories
  BY ApplyShape, RunsTyped
<1>2. /\ apply' = [pc |-> l, dry |-> apply.dry, context |-> apply.context, hooks |-> Append(apply.hooks, <<h, code>>),
                   seen |-> apply.seen]
  BY ApplyShape
<1>3. /\ apply'.pc = l /\ apply'.dry = apply.dry /\ apply'.context = apply.context /\ apply'.seen = apply.seen
      /\ apply'.hooks = Append(apply.hooks, <<h, code>>)
  BY <1>2
<1>4. /\ applied = [edits |-> applied.edits, before |-> applied.before, ran |-> applied.ran, rewritten |-> applied.rewritten]
      /\ applied.edits \in Nat /\ applied.rewritten \in BOOLEAN
      /\ apply.context = [branch |-> apply.context.branch, dirty |-> apply.context.dirty, kernel |-> apply.context.kernel]
      /\ apply.context.dirty \in BOOLEAN
  BY DEF ApplyInv, ApplyTyped
<1>5. /\ applied' = [edits |-> applied'.edits, before |-> applied'.before, ran |-> applied'.ran, rewritten |-> applied'.rewritten]
      /\ applied'.edits = applied.edits
      /\ applied'.before = (IF apply.hooks = <<>> THEN repo ELSE applied.before)
      /\ applied'.ran = (IF h = "apply" THEN block.files["apply"] ELSE applied.ran)
      /\ applied'.rewritten \in BOOLEAN /\ (applied.rewritten => applied'.rewritten)
      /\ (h = "before_apply" /\ block'.files["apply"] # block.files["apply"] => applied'.rewritten)
  BY <1>4
<1>6. ApplyTyped'
  <2>1. l \in ApplyPoints
    BY DEF ApplyPoints
  <2>2. QED BY <1>1, <1>2, <1>3, <1>4, <1>5, <2>1 DEF ApplyTyped
<1>7. h = "before_apply" \/ apply.hooks # <<>>
  <2>1. h # "before_apply" => <<>> \notin HooksAt(h)
    BY DEF HooksAt
  <2>2. QED BY <2>1 DEF ApplyInv
<1>8. ~apply.dry /\ apply.context.branch = TargetBranch /\ ~apply.context.dirty
  BY <1>7 DEF ApplyInv
<1>9. applied.edits = 0 => ReadsHold'
  <2>1. applied.edits = 0 /\ h = "before_apply" => applied.rewritten \/ block.files["apply"] = apply.seen
    BY DEF ApplyInv, ReadsHold
  <2>2. applied.edits = 0 /\ l = "apply" => applied'.rewritten \/ block'.files["apply"] = apply.seen
    BY <1>5, <2>1
  <2>3. QED BY <1>3, <2>2 DEF ReadsHold, Collecting
<1>10. applied.edits = 0 => RanOn'
  <2> SUFFICES ASSUME applied.edits = 0 PROVE RanOn'
    OBVIOUS
  <2>1. ReadsHold
    BY DEF ApplyInv
  <2>2. CASE h = "before_apply"
    <3>1. apply.hooks = <<>> /\ applied.ran = Absent
      BY <2>2, NoHooksYet DEF ApplyInv
    <3>2. repo.clean /\ repo.branch = TargetBranch /\ repo.kernel \in {Absent, repo.origin}
      BY <1>8, <2>1, <2>2 DEF ReadsHold
    <3>3. QED BY <1>3, <1>5, <2>2, <3>1, <3>2 DEF RanOn
  <2>3. CASE h # "before_apply"
    <3>1. RanOn
      BY <1>7, <2>3 DEF ApplyInv
    <3>2. h = "apply" => applied.rewritten \/ block.files["apply"] = apply.seen
      BY <2>1 DEF ReadsHold
    <3>3. QED BY <1>3, <1>5, <1>7, <2>3, <3>1, <3>2 DEF RanOn
  <2>4. QED BY <2>2, <2>3
<1>11. QED BY <1>3, <1>5, <1>6, <1>8, <1>9, <1>10 DEF ApplyInv

LEMMA RunHookKeeps ==
  ASSUME ApplyInv, NEW h \in {"before_apply", "apply", "after_apply", "rollback"},
         NEW ok \in {"apply", "after_apply", "applied", "failed"}, NEW failed \in {"rollback", "failed"},
         WorkBlock!RunHook(h, ok, failed), ok = "apply" => h = "before_apply",
         apply.pc = h => /\ Append(apply.hooks, <<h, "ok">>) \in HooksAt(ok) \ {<<>>}
                         /\ Append(apply.hooks, <<h, "failed">>) \in HooksAt(failed) \ {<<>>}
  PROVE  ApplyInv'
<1>1. PICK code \in {"ok", "failed"} :
        apply' = [apply EXCEPT !.pc = IF code = "ok" THEN ok ELSE failed, !.hooks = Append(@, <<h, code>>)]
  BY DEF WorkBlock!RunHook
<1>2. apply.pc = h /\ (UNCHANGED <<repo, block>> \/ WorkBlock!Runs)
  BY DEF WorkBlock!RunHook
<1> DEFINE w == applied.rewritten \/ (h = "before_apply" /\ WorkBlock!Rewrites)
<1>7. applied' = [applied EXCEPT !.before = IF apply.hooks = <<>> THEN repo ELSE @,
                                 !.ran = IF h = "apply" THEN block.files[h] ELSE @,
                                 !.rewritten = w]
  BY DEF WorkBlock!RunHook
<1>8. w \in BOOLEAN
  BY DEF ApplyInv, ApplyTyped
<1>9. w <=> applied.rewritten \/ (h = "before_apply" /\ block'.files["apply"] # block.files["apply"])
  BY DEF WorkBlock!Rewrites
<1> HIDE DEF w
<1>3. PICK l \in {"apply", "after_apply", "rollback", "applied", "failed"} :
        l = (IF code = "ok" THEN ok ELSE failed)
  OBVIOUS
<1>4. l = "apply" => h = "before_apply"
  BY <1>3
<1>5. Append(apply.hooks, <<h, code>>) \in HooksAt(l) /\ Append(apply.hooks, <<h, code>>) # <<>>
  BY <1>2, <1>3
<1>6. apply' = [apply EXCEPT !.pc = l, !.hooks = Append(@, <<h, code>>)]
  BY <1>1, <1>3
<1>10. QED BY <1>2, <1>4, <1>5, <1>6, <1>7, <1>8, <1>9, HookKeeps

\* What the hooks are after each of them.
LEMMA AppendOne == ASSUME NEW a PROVE Append(<<>>, a) = <<a>> /\ <<a>> # <<>>
OBVIOUS

LEMMA AppendTwo == ASSUME NEW a, NEW b PROVE Append(<<a>>, b) = <<a, b>> /\ <<a, b>> # <<>>
<1> DEFINE s == <<a>>
           all == {a, b}
<1>1. s \in Seq(all) /\ Len(s) = 1 /\ s[1] = a /\ b \in all
  OBVIOUS
<1> HIDE DEF s, all
<1>2. /\ Append(s, b) \in Seq(all) /\ Len(Append(s, b)) = 2
      /\ Append(s, b)[1] = a /\ Append(s, b)[2] = b
  <2>1. /\ Append(s, b) \in Seq(all) /\ Len(Append(s, b)) = Len(s) + 1
        /\ \A i \in 1..Len(s) : Append(s, b)[i] = s[i]
        /\ Append(s, b)[Len(s) + 1] = b
    <3>1. s \in Seq(all) /\ b \in all
      BY <1>1
    <3>2. QED BY <3>1, AppendProperties
  <2>2. QED BY <1>1, <2>1
<1>3. <<a, b>> \in Seq(all) /\ Len(<<a, b>>) = 2 /\ <<a, b>>[1] = a /\ <<a, b>>[2] = b
  BY DEF all
<1>4. Append(s, b) = <<a, b>>
  <2>1. \A i \in 1..2 : Append(s, b)[i] = <<a, b>>[i]
    BY <1>2, <1>3
  <2> DEFINE t == <<a, b>>
  <2>2. t \in Seq(all) /\ Len(t) = 2 /\ \A i \in 1..2 : Append(s, b)[i] = t[i]
    BY <1>3, <2>1
  <2> HIDE DEF t
  <2>3. QED BY <1>2, <2>2, SeqEqual DEF t
<1>5. QED BY <1>4 DEF s

LEMMA AppendThree == ASSUME NEW a, NEW b, NEW c PROVE Append(<<a, b>>, c) = <<a, b, c>> /\ <<a, b, c>> # <<>>
<1> DEFINE s == <<a, b>>
           all == {a, b, c}
<1>1. s \in Seq(all) /\ Len(s) = 2 /\ s[1] = a /\ s[2] = b /\ c \in all
  OBVIOUS
<1> HIDE DEF s, all
<1>2. /\ Append(s, c) \in Seq(all) /\ Len(Append(s, c)) = 3
      /\ Append(s, c)[1] = a /\ Append(s, c)[2] = b /\ Append(s, c)[3] = c
  <2>1. /\ Append(s, c) \in Seq(all) /\ Len(Append(s, c)) = Len(s) + 1
        /\ \A i \in 1..Len(s) : Append(s, c)[i] = s[i]
        /\ Append(s, c)[Len(s) + 1] = c
    <3>1. s \in Seq(all) /\ c \in all
      BY <1>1
    <3>2. QED BY <3>1, AppendProperties
  <2>2. QED BY <1>1, <2>1
<1>3. <<a, b, c>> \in Seq(all) /\ Len(<<a, b, c>>) = 3 /\ <<a, b, c>>[1] = a /\ <<a, b, c>>[2] = b /\ <<a, b, c>>[3] = c
  BY DEF all
<1>4. Append(s, c) = <<a, b, c>>
  <2>1. \A i \in 1..3 : Append(s, c)[i] = <<a, b, c>>[i]
    BY <1>2, <1>3
  <2> DEFINE t == <<a, b, c>>
  <2>2. t \in Seq(all) /\ Len(t) = 3 /\ \A i \in 1..3 : Append(s, c)[i] = t[i]
    BY <1>3, <2>1
  <2> HIDE DEF t
  <2>3. QED BY <1>2, <2>2, SeqEqual DEF t
<1>5. QED BY <1>4 DEF s

LEMMA HooksKeep ==
  ASSUME ApplyInv, WorkBlock!BeforeApply \/ WorkBlock!ApplyHook \/ WorkBlock!Rollback \/ WorkBlock!AfterApply
  PROVE  ApplyInv'
<1>1. CASE WorkBlock!BeforeApply
  <2>1. apply.pc = "before_apply" => apply.hooks = <<>>
    BY NoHooksYet
  <2>2. apply.pc = "before_apply" =>
          /\ Append(apply.hooks, <<"before_apply", "ok">>) \in HooksAt("apply") \ {<<>>}
          /\ Append(apply.hooks, <<"before_apply", "failed">>) \in HooksAt("failed") \ {<<>>}
    BY <2>1, AppendOne DEF HooksAt, BeforeOk
  <2>3. QED BY <1>1, <2>2, RunHookKeeps DEF WorkBlock!BeforeApply
<1>2. CASE WorkBlock!RunHook("apply", "after_apply", "rollback")
  <2>1. apply.pc = "apply" => apply.hooks = <<BeforeOk>>
    BY DEF ApplyInv, HooksAt
  <2>2. apply.pc = "apply" =>
          /\ Append(apply.hooks, <<"apply", "ok">>) \in HooksAt("after_apply") \ {<<>>}
          /\ Append(apply.hooks, <<"apply", "failed">>) \in HooksAt("rollback") \ {<<>>}
    <3>1. Append(<<BeforeOk>>, ApplyOk) \in HooksAt("after_apply") \ {<<>>}
      BY AppendTwo DEF HooksAt
    <3>2. Append(<<BeforeOk>>, ApplyFailed) \in HooksAt("rollback") \ {<<>>}
      BY AppendTwo DEF HooksAt
    <3>3. QED BY <2>1, <3>1, <3>2 DEF ApplyOk, ApplyFailed
  <2>3. QED BY <1>2, <2>2, RunHookKeeps
<1>3. CASE apply.pc = "apply" /\ WorkBlock!ApplyFails
  <2>1. apply.hooks = <<BeforeOk>>
    BY <1>3 DEF ApplyInv, HooksAt
  <2>2. apply.hooks \in HooksAt("failed") /\ "failed" \in ApplyPoints
    BY <2>1 DEF HooksAt, ApplyPoints
  <2>3. apply' = [pc |-> "failed", dry |-> apply.dry, context |-> apply.context, hooks |-> apply.hooks, seen |-> apply.seen]
    BY <1>3, ApplyShape DEF WorkBlock!ApplyFails, WorkBlock!ApplyTo
  <2>4. apply'.pc = "failed" /\ apply'.dry = apply.dry /\ apply'.context = apply.context
        /\ apply'.hooks = apply.hooks /\ apply'.seen = apply.seen
    BY <2>3
  <2>5. UNCHANGED <<repo, block, applied>>
    BY <1>3 DEF WorkBlock!ApplyFails, WorkBlock!Keep
  <2>6. QED BY <2>2, <2>3, <2>4, <2>5 DEF ApplyInv, ApplyTyped, ReadsHold, RanOn, Collecting
<1>4. CASE WorkBlock!Rollback
  <2>1. apply.pc = "rollback" => apply.hooks = <<BeforeOk, ApplyFailed>>
    BY DEF ApplyInv, HooksAt
  <2>2. apply.pc = "rollback" =>
          /\ Append(apply.hooks, <<"rollback", "ok">>) \in HooksAt("failed") \ {<<>>}
          /\ Append(apply.hooks, <<"rollback", "failed">>) \in HooksAt("failed") \ {<<>>}
    BY <2>1, AppendThree DEF HooksAt
  <2>3. QED BY <1>4, <2>2, RunHookKeeps DEF WorkBlock!Rollback
<1>5. CASE WorkBlock!AfterApply
  <2>1. apply.pc = "after_apply" => apply.hooks = <<BeforeOk, ApplyOk>>
    BY DEF ApplyInv, HooksAt
  <2>2. apply.pc = "after_apply" =>
          /\ Append(apply.hooks, <<"after_apply", "ok">>) \in HooksAt("applied") \ {<<>>}
          /\ Append(apply.hooks, <<"after_apply", "failed">>) \in HooksAt("failed") \ {<<>>}
    BY <2>1, AppendThree DEF HooksAt
  <2>3. QED BY <1>5, <2>2, RunHookKeeps DEF WorkBlock!AfterApply
<1>6. QED BY <1>1, <1>2, <1>3, <1>4, <1>5 DEF WorkBlock!ApplyHook

LEMMA ApplyStopsKeeps ==
  ASSUME ApplyInv, WorkBlock!ApplyStops
  PROVE  ApplyInv'
<1>1. /\ apply.pc \notin {"none", "failed", "cancelled", "dry_run", "applied", "dead"} /\ apply.pc \in ApplyPoints
      /\ apply' = [apply EXCEPT !.pc = "dead"] /\ UNCHANGED <<repo, block, applied>>
  BY DEF WorkBlock!ApplyStops, WorkBlock!ApplyTo, WorkBlock!Keep, ApplyInv, ApplyTyped
<1>2. apply' = [pc |-> "dead", dry |-> apply.dry, context |-> apply.context, hooks |-> apply.hooks, seen |-> apply.seen]
  BY <1>1, ApplyShape
<1>3. apply'.pc = "dead" /\ apply'.dry = apply.dry /\ apply'.context = apply.context
      /\ apply'.hooks = apply.hooks /\ apply'.seen = apply.seen
  BY <1>2
<1>4. apply.hooks \in HooksAt("dead") /\ "dead" \in ApplyPoints
  BY <1>1 DEF ApplyInv, HooksAt, ApplyPoints, Collecting
<1>5. QED BY <1>1, <1>2, <1>3, <1>4 DEF ApplyInv, ApplyTyped, ReadsHold, RanOn, Collecting

\* An edit of others ends what the command can know.
LEMMA EditKeeps ==
  ASSUME ApplyInv, WorkBlock!EditRepository
  PROVE  ApplyInv'
<1>1. UNCHANGED apply /\ applied' = [applied EXCEPT !.edits = @ + 1]
  BY DEF WorkBlock!EditRepository
<1>2. /\ applied' = [edits |-> applied'.edits, before |-> applied'.before, ran |-> applied'.ran, rewritten |-> applied'.rewritten]
      /\ applied'.edits \in Nat /\ applied'.edits # 0 /\ applied'.ran = applied.ran /\ applied'.rewritten \in BOOLEAN
  BY <1>1 DEF ApplyInv, ApplyTyped
<1>3. repo' \in Repositories
  BY DEF WorkBlock!EditRepository, Repositories, ApplyInv, ApplyTyped
<1>4. QED BY <1>1, <1>2, <1>3 DEF ApplyInv, ApplyTyped

LEMMA ApplyKeeps == ApplyInv /\ [Next]_vars => ApplyInv'
<1> SUFFICES ASSUME ApplyInv, [Next]_vars PROVE ApplyInv'
  OBVIOUS
<1>1. CASE UNCHANGED applyVars
  BY <1>1 DEF applyVars, ApplyInv, ApplyTyped, ReadsHold, RanOn
<1>2. CASE WorkBlock!ApplyNext
  BY <1>2, PrepareKeeps, VerifyWorkBlockKeeps, VerifyActionKeeps, CollectKeeps, CheckKeeps, HooksKeep,
     ApplyStopsKeeps, EditKeeps DEF WorkBlock!ApplyNext
<1>3. QED BY <1>1, <1>2, StepOfOne

LEMMA ApplyGives == ApplyInv => AppliedAsVerified
<1> SUFFICES ASSUME ApplyInv PROVE AppliedAsVerified
  OBVIOUS
<1>1. apply.hooks # <<>> =>
        /\ ~apply.dry /\ apply.context.branch = TargetBranch /\ ~apply.context.dirty
        /\ applied.edits = 0 => RanOn
  BY DEF ApplyInv
<1>2. apply.hooks \in HooksAt(apply.pc)
  BY DEF ApplyInv
<1>3. /\ apply.pc = "applied" => apply.hooks = <<BeforeOk, ApplyOk, <<"after_apply", "ok">>>>
      /\ apply.pc = "failed" /\ WorkBlock!Ran("apply", "failed") => Len(apply.hooks) = 3
  BY <1>2 DEF HooksAt, WorkBlock!Ran, BeforeOk, ApplyOk, ApplyFailed
<1>4. /\ WorkBlock!Ran("rollback", "ok") \/ WorkBlock!Ran("rollback", "failed") => WorkBlock!Ran("apply", "failed")
      /\ WorkBlock!Ran("apply", "ok") => WorkBlock!Ran("before_apply", "ok")
  BY <1>2 DEF HooksAt, WorkBlock!Ran, BeforeOk, ApplyOk, ApplyFailed
<1>5. QED BY <1>1, <1>3, <1>4 DEF AppliedAsVerified, WorkBlock!AppliedAsVerified, RanOn, BeforeOk, ApplyOk

\* Whatever fails, stops, is edited by others or left behind by verify.sh: hooks begin on what was
\* confirmed and checked, run the verified action unless a script of the package rewrote it, go
\* in order, and a failed action is rolled back.
THEOREM BlockAppliedAsVerified == Spec => []AppliedAsVerified
<1>1. QED BY ApplyStarts, ApplyKeeps, ApplyGives, PTL DEF Spec

-----------------------------------------------------------------------------
\* first_write_packet.

PacketPoints ==
  {"start", "readiness", "evidence", "snapshot", "head", "main", "bind", "marker", "index", "compare",
   "sealed", "blocked", "refused"}

\* The documents that were read are acceptable, and the readiness binds the evidence.
DocumentsHold ==
  /\ FirstWrite!ValidManifest(packet.read["manifest"])
  /\ FirstWrite!Ready(packet.read["readiness"], packet.read["evidence"])

\* They are about the commit that HEAD and main were, and about one run and authorization.
DocumentsAgree ==
  LET m == packet.read["manifest"]
      e == packet.read["evidence"] IN
  /\ packet.head = packet.main /\ m.commit = packet.head /\ e.commit = packet.head
  /\ m.auth = e.authorization.reference /\ e.run = m.run /\ e.destination = m.destination

\* The artifacts that were read are those the evidence describes.
BytesMatch ==
  LET e == packet.read["evidence"] IN
  /\ \A a \in FirstWrite!Artifacts : packet.read[a] = e.hashes[a]
  /\ FirstWrite!ValidVersionMarker(packet.read["cybercore-version.json"], packet.head, e.run)

PacketInv ==
  /\ packet = [pc |-> packet.pc, read |-> packet.read, head |-> packet.head, main |-> packet.main]
  /\ packet.read = [f \in FirstWrite!PacketFiles |-> packet.read[f]]
  /\ packet.pc \in PacketPoints
  /\ packet.pc \in {"head", "main", "bind", "marker", "index", "compare", "sealed", "blocked"} => DocumentsHold
  /\ packet.pc \in {"marker", "index", "compare", "sealed", "blocked"} => DocumentsAgree
  /\ packet.pc \in {"sealed", "blocked"} => BytesMatch

LEMMA PacketStarts == Init => PacketInv
BY DEF Init, FirstWrite!PacketInit, PacketInv, PacketPoints

\* A step that only moves on.
LEMMA Advances ==
  ASSUME PacketInv, NEW l \in PacketPoints, FirstWrite!Advance(l)
  PROVE  /\ packet' = [pc |-> l, read |-> packet.read, head |-> packet.head, main |-> packet.main]
         /\ packet'.pc = l /\ UNCHANGED <<packet.read, packet.head, packet.main>>
         /\ DocumentsHold' = DocumentsHold /\ DocumentsAgree' = DocumentsAgree /\ BytesMatch' = BytesMatch
<1>1. packet' = [packet EXCEPT !.pc = l]
  BY DEF FirstWrite!Advance
<1>2. packet = [pc |-> packet.pc, read |-> packet.read, head |-> packet.head, main |-> packet.main]
  BY DEF PacketInv
<1>3. packet' = [pc |-> l, read |-> packet.read, head |-> packet.head, main |-> packet.main]
  BY <1>1, <1>2
<1>4. packet'.pc = l /\ UNCHANGED <<packet.read, packet.head, packet.main>>
  BY <1>3
<1>5. QED BY <1>3, <1>4 DEF DocumentsHold, DocumentsAgree, BytesMatch

LEMMA RefusalKeeps ==
  ASSUME PacketInv, FirstWrite!RefusePacket
  PROVE  PacketInv'
<1>1. "refused" \in PacketPoints
  BY DEF PacketPoints
<1>2. QED BY <1>1, Advances DEF FirstWrite!RefusePacket, PacketInv

\* A step that reads one file.
LEMMA Reads ==
  ASSUME PacketInv, NEW f \in FirstWrite!PacketFiles, NEW l, FirstWrite!ReadFile(f, l)
  PROVE  /\ packet' = [pc |-> l, read |-> packet'.read, head |-> packet.head, main |-> packet.main]
         /\ packet'.pc = l /\ UNCHANGED <<packet.head, packet.main>>
         /\ packet'.read = [g \in FirstWrite!PacketFiles |-> packet'.read[g]]
         /\ packet'.read[f] = files[f]
         /\ \A g \in FirstWrite!PacketFiles \ {f} : packet'.read[g] = packet.read[g]
<1>1. packet' = [packet EXCEPT !.pc = l, !.read[f] = files[f]]
  BY DEF FirstWrite!ReadFile
<1>2. /\ packet = [pc |-> packet.pc, read |-> packet.read, head |-> packet.head, main |-> packet.main]
      /\ packet.read = [g \in FirstWrite!PacketFiles |-> packet.read[g]]
  BY DEF PacketInv
<1>3. packet'.pc = l /\ packet'.head = packet.head /\ packet'.main = packet.main
      /\ packet'.read = [packet.read EXCEPT ![f] = files[f]]
  BY <1>1, <1>2
<1>4. packet' = [pc |-> l, read |-> packet'.read, head |-> packet.head, main |-> packet.main]
  BY <1>1, <1>2
<1>5. QED BY <1>2, <1>3, <1>4

LEMMA CapturesKeep ==
  ASSUME PacketInv, FirstWrite!CaptureManifest \/ FirstWrite!CaptureReadiness \/ FirstWrite!CaptureEvidence
  PROVE  PacketInv'
<1>1. {"manifest", "readiness", "evidence"} \subseteq FirstWrite!PacketFiles
  BY DEF FirstWrite!PacketFiles
<1>2. ASSUME NEW f \in FirstWrite!PacketFiles, NEW l \in {"readiness", "evidence", "snapshot"}, FirstWrite!ReadFile(f, l)
      PROVE  PacketInv'
  BY <1>2, Reads DEF PacketInv, PacketPoints
<1>3. QED BY <1>1, <1>2, RefusalKeeps DEF FirstWrite!CaptureManifest, FirstWrite!CaptureReadiness, FirstWrite!CaptureEvidence

LEMMA ValidateSnapshotKeeps ==
  ASSUME PacketInv, FirstWrite!ValidateSnapshot
  PROVE  PacketInv'
<1>1. CASE /\ DocumentsHold /\ FirstWrite!Advance("head")
  <2>1. "head" \in PacketPoints
    BY DEF PacketPoints
  <2>2. QED BY <1>1, <2>1, Advances DEF PacketInv
<1>2. QED BY <1>1, RefusalKeeps DEF FirstWrite!ValidateSnapshot, FirstWrite!WasRead, DocumentsHold

\* What git says changes nothing of what was read.
LEMMA GitKeeps ==
  ASSUME PacketInv, FirstWrite!GitHead \/ FirstWrite!GitMain
  PROVE  PacketInv'
<1>1. /\ packet = [pc |-> packet.pc, read |-> packet.read, head |-> packet.head, main |-> packet.main]
      /\ packet.read = [g \in FirstWrite!PacketFiles |-> packet.read[g]]
  BY DEF PacketInv
<1>2. ASSUME packet.pc \in {"head", "main"}, NEW l \in {"main", "bind"}, NEW d,
             packet' = [packet EXCEPT !.pc = l, !.head = d] \/ packet' = [packet EXCEPT !.pc = l, !.main = d]
      PROVE  PacketInv'
  <2>1. packet' = [pc |-> l, read |-> packet.read, head |-> packet'.head, main |-> packet'.main]
    BY <1>1, <1>2
  <2>2. packet'.pc = l /\ packet'.read = packet.read
    BY <2>1
  <2>3. DocumentsHold'
    BY <1>2, <2>2 DEF PacketInv, DocumentsHold
  <2>4. QED BY <1>1, <1>2, <2>1, <2>2, <2>3 DEF PacketInv, PacketPoints
<1>3. QED BY <1>2, RefusalKeeps DEF FirstWrite!GitHead, FirstWrite!GitMain, FirstWrite!At

LEMMA BindKeeps ==
  ASSUME PacketInv, FirstWrite!Bind
  PROVE  PacketInv'
<1>1. packet.pc = "bind" /\ "marker" \in PacketPoints
  BY DEF FirstWrite!Bind, FirstWrite!At, PacketPoints
<1>2. (DocumentsAgree /\ FirstWrite!Advance("marker")) \/ FirstWrite!RefusePacket
  BY DEF FirstWrite!Bind, FirstWrite!WasRead, DocumentsAgree
<1>3. CASE DocumentsAgree /\ FirstWrite!Advance("marker")
  BY <1>1, <1>3, Advances DEF PacketInv
<1>4. QED BY <1>2, <1>3, RefusalKeeps

LEMMA ArtifactsKeep ==
  ASSUME PacketInv, FirstWrite!ReadMarker \/ FirstWrite!ReadIndex
  PROVE  PacketInv'
<1>1. ASSUME packet.pc \in {"marker", "index"}, NEW f \in FirstWrite!Artifacts, NEW l \in {"index", "compare"},
             FirstWrite!ReadFile(f, l)
      PROVE  PacketInv'
  <2>1. /\ f \in FirstWrite!PacketFiles /\ f \notin {"manifest", "readiness", "evidence"}
        /\ {"manifest", "readiness", "evidence"} \subseteq FirstWrite!PacketFiles
    BY <1>1 DEF FirstWrite!PacketFiles, FirstWrite!Artifacts
  <2>2. packet'.read["manifest"] = packet.read["manifest"] /\ packet'.read["readiness"] = packet.read["readiness"]
        /\ packet'.read["evidence"] = packet.read["evidence"] /\ packet'.head = packet.head /\ packet'.main = packet.main
    <3>1. /\ UNCHANGED <<packet.head, packet.main>>
          /\ \A g \in FirstWrite!PacketFiles \ {f} : packet'.read[g] = packet.read[g]
      BY <1>1, <2>1, Reads
    <3>2. QED BY <2>1, <3>1
  <2>3. DocumentsHold' /\ DocumentsAgree'
    <3>1. DocumentsHold /\ DocumentsAgree /\ packet.pc \in {"marker", "index"}
      BY <1>1 DEF PacketInv
    <3>2. DocumentsHold'
      BY <2>2, <3>1 DEF DocumentsHold
    <3>3. DocumentsAgree'
      BY <2>2, <3>1 DEF DocumentsAgree
    <3>4. QED BY <3>2, <3>3
  <2>4. QED BY <1>1, <2>1, <2>3, Reads DEF PacketInv, PacketPoints
<1>2. QED BY <1>1, RefusalKeeps DEF FirstWrite!ReadMarker, FirstWrite!ReadIndex, FirstWrite!At, FirstWrite!Artifacts

LEMMA SealKeeps ==
  ASSUME PacketInv, FirstWrite!Seal
  PROVE  PacketInv'
<1>1. packet.pc = "compare" /\ "sealed" \in PacketPoints
  BY DEF FirstWrite!Seal, FirstWrite!At, PacketPoints
<1>2. (BytesMatch /\ FirstWrite!Advance("sealed")) \/ FirstWrite!RefusePacket
  BY DEF FirstWrite!Seal, FirstWrite!WasRead, BytesMatch
<1>3. CASE BytesMatch /\ FirstWrite!Advance("sealed")
  BY <1>1, <1>3, Advances DEF PacketInv
<1>4. QED BY <1>2, <1>3, RefusalKeeps

LEMMA BlockedUploadKeeps ==
  ASSUME PacketInv, FirstWrite!Upload
  PROVE  PacketInv'
<1>1. packet.pc = "sealed" /\ "blocked" \in PacketPoints /\ FirstWrite!Advance("blocked")
  BY DEF FirstWrite!Upload, FirstWrite!At, PacketPoints
<1>2. QED BY <1>1, Advances DEF PacketInv

LEMMA PacketKeeps == PacketInv /\ [Next]_vars => PacketInv'
<1> SUFFICES ASSUME PacketInv, [Next]_vars PROVE PacketInv'
  OBVIOUS
<1>1. CASE UNCHANGED packet
  BY <1>1 DEF PacketInv, DocumentsHold, DocumentsAgree, BytesMatch
<1>2. CASE FirstWrite!PacketNext
  BY <1>1, <1>2, CapturesKeep, ValidateSnapshotKeeps, GitKeeps, BindKeeps, ArtifactsKeep, SealKeeps, BlockedUploadKeeps
     DEF FirstWrite!PacketNext, FirstWrite!PacketStep, FirstWrite!Draft
<1>3. QED BY <1>1, <1>2, StepOfOne DEF packetVars

LEMMA PacketGives == PacketInv => SealedIsApproved
BY DEF PacketInv, DocumentsHold, DocumentsAgree, BytesMatch, SealedIsApproved, FirstWrite!SealedIsApproved,
       FirstWrite!WasRead, FirstWrite!ValidManifest, FirstWrite!Ready, FirstWrite!BoundEvidence,
       FirstWrite!ValidEvidence, FirstWrite!EvidenceIdentity, FirstWrite!AuthorizationEvidence,
       FirstWrite!ValidVersionMarker

\* Whatever is edited or moved while a packet is validated: what is sealed is what one
\* authorization approved, for the commit that HEAD and main were, and these very bytes.
THEOREM WhatIsSealedIsApproved == Spec => []SealedIsApproved
<1>1. QED BY PacketStarts, PacketKeeps, PacketGives, PTL DEF Spec

-----------------------------------------------------------------------------
\* cloudflare_dns.

\* The finite sets and cardinalities of the instance are those of the library.
LEMMA SameFinite ==
  ASSUME NEW S
  PROVE  (Dns!IsFiniteSet(S) <=> IsFiniteSet(S)) /\ Dns!Cardinality(S) = Cardinality(S)
BY DEF Dns!IsFiniteSet, IsFiniteSet, Dns!Cardinality, Cardinality

Before(a, b) == \E i \in 1..5 : a[i] < b[i] /\ \A j \in 1..(i - 1) : a[j] = b[j]

\* The order of the tuples that records are sorted by is strict.
LEMMA BeforeIsStrict ==
  ASSUME NEW a \in [1..5 -> Int], NEW b \in [1..5 -> Int], NEW c \in [1..5 -> Int]
  PROVE  ~Before(a, a) /\ (Before(a, b) /\ Before(b, c) => Before(a, c))
<1>1. ASSUME Before(a, b), Before(b, c) PROVE Before(a, c)
  <2>1. PICK i \in 1..5 : a[i] < b[i] /\ \A j \in 1..(i - 1) : a[j] = b[j]
    BY <1>1 DEF Before
  <2>2. PICK k \in 1..5 : b[k] < c[k] /\ \A j \in 1..(k - 1) : b[j] = c[j]
    BY <1>1 DEF Before
  <2>3. CASE i < k
    <3>1. a[i] < c[i] /\ \A j \in 1..(i - 1) : a[j] = c[j]
      BY <2>1, <2>2, <2>3
    <3>2. QED BY <3>1 DEF Before
  <2>4. CASE k < i
    <3>1. a[k] < c[k] /\ \A j \in 1..(k - 1) : a[j] = c[j]
      BY <2>1, <2>2, <2>4
    <3>2. QED BY <3>1 DEF Before
  <2>5. CASE i = k
    <3>1. a[i] < c[i] /\ \A j \in 1..(i - 1) : a[j] = c[j]
      BY <2>1, <2>2, <2>5
    <3>2. QED BY <3>1 DEF Before
  <2>6. QED BY <2>3, <2>4, <2>5
<1>2. ~Before(a, a)
  BY DEF Before
<1>3. QED BY <1>1, <1>2

SortKey(q) == <<q.content, q.ttl, IF q.proxied THEN 1 ELSE 0, q.priority, q.meta>>

LEMMA PrecedesIsStrict ==
  ASSUME NEW r \in Dns!Record, NEW s \in Dns!Record, NEW t \in Dns!Record
  PROVE  ~Dns!Precedes(r, r) /\ (Dns!Precedes(r, s) /\ Dns!Precedes(s, t) => Dns!Precedes(r, t))
<1>1. \A q \in Dns!Record : SortKey(q) \in [1..5 -> Int]
  BY DEF SortKey, Dns!Record
<1>2. \A p, q : Dns!Precedes(p, q) <=> Before(SortKey(p), SortKey(q))
  BY DEF Dns!Precedes, Before, SortKey
<1>3. QED BY <1>1, <1>2, BeforeIsStrict

\* A set of numbers has a least one.
LEMMA LeastOne ==
  ASSUME NEW N \in SUBSET Nat, N # {}
  PROVE  \E m \in N : \A n \in N : m <= n
<1>1. PICK m \in N : \A n \in N : ~(<<n, m>> \in OpToRel(<, Nat))
  BY NatLessThanWellFounded, WFMin
<1>2. \A n \in N : ~(n < m)
  BY <1>1 DEF OpToRel
<1>3. QED BY <1>2

\* Something is first in every finite set of records that is not empty.
LEMMA SomethingIsFirst ==
  ASSUME NEW S \in SUBSET Dns!Record, IsFiniteSet(S), S # {}
  PROVE  \E r \in S : Dns!Rank(r, S) = 0
<1> DEFINE Below(r) == {s \in S : Dns!Precedes(s, r)}
<1>1. \A r : Dns!Rank(r, S) = Cardinality(Below(r))
  BY SameFinite DEF Dns!Rank
<1>2. \A r : IsFiniteSet(Below(r)) /\ Cardinality(Below(r)) \in Nat
  BY FS_Subset, FS_CardinalityType
<1>3. PICK r \in S : \A s \in S : Cardinality(Below(r)) <= Cardinality(Below(s))
  <2> DEFINE N == {Cardinality(Below(s)) : s \in S}
  <2>1. N \in SUBSET Nat /\ N # {}
    BY <1>2
  <2>2. PICK m \in N : \A n \in N : m <= n
    BY <2>1, LeastOne
  <2>3. QED BY <2>2
<1>4. ASSUME NEW s \in Below(r) PROVE FALSE
  <2>1. s \in S /\ s \in Dns!Record /\ r \in Dns!Record /\ Dns!Precedes(s, r)
    OBVIOUS
  <2>2. \A t \in Below(s) : t \in Below(r)
    BY <2>1, PrecedesIsStrict
  <2>3. s \notin Below(s)
    BY <2>1, PrecedesIsStrict
  <2>4. Below(s) \in SUBSET Below(r) /\ Below(s) # Below(r)
    BY <1>4, <2>2, <2>3
  <2>5. Cardinality(Below(s)) < Cardinality(Below(r))
    <3>1. IsFiniteSet(Below(r)) /\ Cardinality(Below(r)) \in Nat /\ Cardinality(Below(s)) \in Nat
      BY <1>2
    <3> HIDE DEF Below
    <3>2. /\ Cardinality(Below(s)) <= Cardinality(Below(r))
          /\ Cardinality(Below(r)) = Cardinality(Below(s)) => Below(r) = Below(s)
      BY <2>4, <3>1, FS_Subset
    <3>3. QED BY <2>4, <3>1, <3>2
  <2>6. QED
    <3>1. /\ Cardinality(Below(r)) \in Nat /\ Cardinality(Below(s)) \in Nat
          /\ Cardinality(Below(r)) <= Cardinality(Below(s))
      BY <1>2, <1>3, <2>1
    <3> HIDE DEF Below
    <3>2. QED BY <2>5, <3>1
<1>5. Below(r) = {}
  BY <1>4
<1>6. QED BY <1>1, <1>5, FS_EmptySet

\* A desired state whose documents the plan is made of.
Desired(doc) == doc.records \subseteq Dns!Record /\ IsFiniteSet(doc.records)

Keyed(doc, r, s) == Dns!PlanningKey(r, doc.rollback) = Dns!PlanningKey(s, doc.rollback)
Mine(current, x) == {r \in current : Dns!RecordSet(r) = x}

\* A plan of one record set is empty exactly if all match.
LEMMA NothingToChange ==
  ASSUME NEW doc, NEW current \in SUBSET Dns!Record, IsFiniteSet(current), Desired(doc), NEW x
  PROVE  Dns!RecordSetChanges(doc, current, x) = {} <=>
           /\ \A r \in Mine(current, x) : \E s \in Mine(doc.records, x) : Keyed(doc, r, s)
           /\ \A s \in Mine(doc.records, x) : \E r \in Mine(current, x) : Keyed(doc, r, s)
<1> DEFINE old == {r \in Mine(current, x) : \A s \in Mine(doc.records, x) : ~Keyed(doc, r, s)}
           new == {s \in Mine(doc.records, x) : \A r \in Mine(current, x) : ~Keyed(doc, r, s)}
           updates == {q \in old \X new : Dns!Rank(q[1], old) = Dns!Rank(q[2], new)}
           creates == {t \in new : Dns!Rank(t, new) >= Dns!Cardinality(old)}
           deletes == {t \in old : Dns!Rank(t, old) >= Dns!Cardinality(new)}
<1>1. Dns!RecordSetChanges(doc, current, x) =
        {Dns!Change("UPDATE", p[1], p[2]) : p \in updates}
        \cup {Dns!Change("CREATE", <<>>, s) : s \in creates}
        \cup {Dns!Change("DELETE", r, <<>>) : r \in deletes}
  BY DEF Dns!RecordSetChanges, Keyed, Mine
<1>2. /\ old \in SUBSET Dns!Record /\ IsFiniteSet(old)
      /\ new \in SUBSET Dns!Record /\ IsFiniteSet(new)
  BY FS_Subset DEF Desired, Mine
<1>3. ASSUME Dns!RecordSetChanges(doc, current, x) = {} PROVE old = {} /\ new = {}
  <2>1. updates = {} /\ creates = {} /\ deletes = {}
    <3> HIDE DEF updates, creates, deletes
    <3>1. updates = {}
      BY <1>1, <1>3
    <3>2. creates = {}
      BY <1>1, <1>3
    <3>3. deletes = {}
      BY <1>1, <1>3
    <3>4. QED BY <3>1, <3>2, <3>3
  <2> HIDE DEF old, new
  <2>2. \A S \in SUBSET Dns!Record : IsFiniteSet(S) /\ S # {} => \E r \in S : Dns!Rank(r, S) = 0
    BY SomethingIsFirst
  <2>3. ~(old # {} /\ new # {})
    <3> SUFFICES ASSUME old # {}, new # {} PROVE FALSE
      OBVIOUS
    <3>1. PICK r \in old : Dns!Rank(r, old) = 0
      BY <1>2, <2>2
    <3>2. PICK s \in new : Dns!Rank(s, new) = 0
      BY <1>2, <2>2
    <3>3. <<r, s>> \in updates
      BY <3>1, <3>2
    <3>4. QED BY <2>1, <3>3
  <2>4. ~(old = {} /\ new # {})
    <3> SUFFICES ASSUME old = {}, new # {} PROVE FALSE
      OBVIOUS
    <3>1. PICK s \in new : Dns!Rank(s, new) = 0
      BY <1>2, <2>2
    <3>2. s \in creates
      BY <3>1, FS_EmptySet, SameFinite
    <3>3. QED BY <2>1, <3>2
  <2>5. ~(old # {} /\ new = {})
    <3> SUFFICES ASSUME old # {}, new = {} PROVE FALSE
      OBVIOUS
    <3>1. PICK r \in old : Dns!Rank(r, old) = 0
      BY <1>2, <2>2
    <3>2. r \in deletes
      BY <3>1, FS_EmptySet, SameFinite
    <3>3. QED BY <2>1, <3>2
  <2>6. QED BY <2>3, <2>4, <2>5
<1>4. old = {} /\ new = {} => Dns!RecordSetChanges(doc, current, x) = {}
  <2> SUFFICES ASSUME old = {}, new = {} PROVE updates = {} /\ creates = {} /\ deletes = {}
    BY <1>1
  <2> QED OBVIOUS
<1>5. (old = {} /\ new = {}) <=>
           /\ \A r \in Mine(current, x) : \E s \in Mine(doc.records, x) : Keyed(doc, r, s)
           /\ \A s \in Mine(doc.records, x) : \E r \in Mine(current, x) : Keyed(doc, r, s)
  BY DEF Keyed
<1>6. QED BY <1>3, <1>4, <1>5

\* A manifest that restores: its records are of its record sets, and without an identity.
Restoring(doc) ==
  /\ doc.rollback = TRUE /\ Desired(doc)
  /\ \A r \in doc.records : Dns!RecordSet(r) \in doc.managed /\ r.id = 0

\* Its plan is empty exactly if the zone holds what it restores.
LEMMA NothingToRestore ==
  ASSUME NEW doc, NEW current \in SUBSET Dns!Record, IsFiniteSet(current), Restoring(doc)
  PROVE  Dns!BuildPlan(doc, current) = {} <=> Dns!Restorable(doc, current) = doc.records
<1>1. \A r \in Dns!Record :
        /\ Dns!RestorePayload(r) \in Dns!Record
        /\ Dns!RecordSet(Dns!RestorePayload(r)) = Dns!RecordSet(r)
        /\ r.id = 0 => Dns!RestorePayload(r) = r
        /\ Dns!RestorePayload(Dns!RestorePayload(r)) = Dns!RestorePayload(r)
  <2> SUFFICES ASSUME NEW r \in Dns!Record
               PROVE  /\ Dns!RestorePayload(r) \in Dns!Record
                      /\ Dns!RecordSet(Dns!RestorePayload(r)) = Dns!RecordSet(r)
                      /\ r.id = 0 => Dns!RestorePayload(r) = r
                      /\ Dns!RestorePayload(Dns!RestorePayload(r)) = Dns!RestorePayload(r)
    OBVIOUS
  <2>1. \A e \in Int : [r EXCEPT !.id = e] \in Dns!Record
    BY DEF Dns!Record
  <2>2. Dns!RestorePayload(r) \in Dns!Record
    BY <2>1 DEF Dns!RestorePayload
  <2>3. Dns!RecordSet(Dns!RestorePayload(r)) = Dns!RecordSet(r)
    BY DEF Dns!Record, Dns!RestorePayload, Dns!RecordSet
  <2>4. r.id = 0 => Dns!RestorePayload(r) = r
    BY DEF Dns!Record, Dns!RestorePayload
  <2>5. Dns!RestorePayload(Dns!RestorePayload(r)) = Dns!RestorePayload(r)
    BY DEF Dns!Record, Dns!RestorePayload
  <2>6. QED BY <2>2, <2>3, <2>4, <2>5
<1>2. \A r, s : Keyed(doc, r, s) <=> Dns!RestorePayload(r) = Dns!RestorePayload(s)
  BY DEF Keyed, Dns!PlanningKey, Restoring
<1>3. \A s \in doc.records : s \in Dns!Record /\ Dns!RestorePayload(s) = s /\ Dns!RecordSet(s) \in doc.managed
  <2> SUFFICES ASSUME NEW s \in doc.records
               PROVE  s \in Dns!Record /\ Dns!RestorePayload(s) = s /\ Dns!RecordSet(s) \in doc.managed
    OBVIOUS
  <2>1. s \in Dns!Record /\ s.id = 0 /\ Dns!RecordSet(s) \in doc.managed
    BY DEF Restoring, Desired
  <2>2. QED BY <1>1, <2>1
<1>4. Dns!Restorable(doc, current) = {Dns!RestorePayload(r) : r \in {q \in current : Dns!RecordSet(q) \in doc.managed}}
  BY DEF Dns!Restorable, Dns!Managed
<1>5. ASSUME NEW x
      PROVE  Dns!RecordSetChanges(doc, current, x) = {} <=>
               /\ \A r \in Mine(current, x) : \E s \in Mine(doc.records, x) : Keyed(doc, r, s)
               /\ \A s \in Mine(doc.records, x) : \E r \in Mine(current, x) : Keyed(doc, r, s)
  BY NothingToChange DEF Restoring
<1>6. Dns!BuildPlan(doc, current) = {} <=> \A x \in doc.managed : Dns!RecordSetChanges(doc, current, x) = {}
  BY DEF Dns!BuildPlan
<1>7. ASSUME \A x \in doc.managed : Dns!RecordSetChanges(doc, current, x) = {}
      PROVE  Dns!Restorable(doc, current) = doc.records
  <2>1. ASSUME NEW r \in current, Dns!RecordSet(r) \in doc.managed PROVE Dns!RestorePayload(r) \in doc.records
    <3>1. r \in Mine(current, Dns!RecordSet(r))
      BY <2>1 DEF Mine
    <3>2. PICK s \in Mine(doc.records, Dns!RecordSet(r)) : Keyed(doc, r, s)
      BY <1>5, <1>7, <2>1, <3>1
    <3>3. QED BY <1>2, <1>3, <3>2 DEF Mine
  <2>2. ASSUME NEW s \in doc.records
        PROVE  \E r \in current : Dns!RecordSet(r) \in doc.managed /\ Dns!RestorePayload(r) = s
    <3>1. s \in Mine(doc.records, Dns!RecordSet(s))
      BY DEF Mine
    <3>2. PICK r \in Mine(current, Dns!RecordSet(s)) : Keyed(doc, r, s)
      BY <1>3, <1>5, <1>7, <3>1
    <3>3. QED BY <1>2, <1>3, <3>2 DEF Mine
  <2>3. QED BY <1>4, <2>1, <2>2
<1>8. ASSUME Dns!Restorable(doc, current) = doc.records, NEW x \in doc.managed
      PROVE  Dns!RecordSetChanges(doc, current, x) = {}
  <2>1. ASSUME NEW r \in Mine(current, x) PROVE \E s \in Mine(doc.records, x) : Keyed(doc, r, s)
    <3>1. r \in current /\ r \in Dns!Record /\ Dns!RecordSet(r) = x
      BY DEF Mine
    <3>2. Dns!RestorePayload(r) \in doc.records
      BY <1>4, <1>8, <3>1
    <3>3. Dns!RecordSet(Dns!RestorePayload(r)) = x /\ Dns!RestorePayload(Dns!RestorePayload(r)) = Dns!RestorePayload(r)
      BY <1>1, <3>1
    <3>4. Dns!RestorePayload(r) \in Mine(doc.records, x)
      BY <3>2, <3>3 DEF Mine
    <3>5. QED BY <1>2, <3>3, <3>4
  <2>2. ASSUME NEW s \in Mine(doc.records, x) PROVE \E r \in Mine(current, x) : Keyed(doc, r, s)
    <3>1. s \in doc.records /\ Dns!RecordSet(s) = x
      BY DEF Mine
    <3>2. PICK r \in current : Dns!RecordSet(r) \in doc.managed /\ Dns!RestorePayload(r) = s
      BY <1>4, <1>8, <3>1
    <3>3. Dns!RecordSet(r) = x
      BY <1>1, <3>1, <3>2
    <3>4. r \in Mine(current, x) /\ Dns!RestorePayload(s) = s
      BY <1>3, <3>1, <3>3 DEF Mine
    <3>5. QED BY <1>2, <3>2, <3>4
  <2>3. QED BY <1>5, <2>1, <2>2
<1>9. QED BY <1>6, <1>7, <1>8

\* What is created or put in place of something is a desired record.
LEMMA PlannedAfter ==
  ASSUME NEW doc, NEW current, NEW c \in Dns!BuildPlan(doc, current), c.action \in {"UPDATE", "CREATE"}
  PROVE  c.after \in doc.records
<1>1. PICK x \in doc.managed : c \in Dns!RecordSetChanges(doc, current, x)
  BY DEF Dns!BuildPlan
<1> DEFINE Key(r) == Dns!PlanningKey(r, doc.rollback)
           mine == {r \in current : Dns!RecordSet(r) = x}
           wanted == {r \in doc.records : Dns!RecordSet(r) = x}
           old == {r \in mine : \A s \in wanted : Key(r) # Key(s)}
           new == {s \in wanted : \A r \in mine : Key(r) # Key(s)}
           updates == {q \in old \X new : Dns!Rank(q[1], old) = Dns!Rank(q[2], new)}
           creates == {t \in new : Dns!Rank(t, new) >= Dns!Cardinality(old)}
           deletes == {t \in old : Dns!Rank(t, old) >= Dns!Cardinality(new)}
<1>2. c \in {Dns!Change("UPDATE", p[1], p[2]) : p \in updates}
           \cup {Dns!Change("CREATE", <<>>, s) : s \in creates}
           \cup {Dns!Change("DELETE", r, <<>>) : r \in deletes}
  BY <1>1 DEF Dns!RecordSetChanges
<1>3. creates \subseteq doc.records /\ \A p \in updates : p[2] \in doc.records
  OBVIOUS
<1> HIDE DEF updates, creates, deletes
<1>4. QED BY <1>2, <1>3 DEF Dns!Change

\* A batch leaves a finite set of records.
LEMMA BatchIsTyped ==
  ASSUME zone.records \in SUBSET Dns!Record, IsFiniteSet(zone.records), zone.fresh \in Int, Desired(dns.doc)
  PROVE  /\ Dns!Batched(Dns!Changes) \in SUBSET Dns!Record /\ IsFiniteSet(Dns!Batched(Dns!Changes))
         /\ Len(Dns!Posts(Dns!Changes)) \in Nat /\ DOMAIN Dns!Posts(Dns!Changes) = 1..Len(Dns!Posts(Dns!Changes))
         /\ \A i \in DOMAIN Dns!Posts(Dns!Changes) :
              Dns!Posts(Dns!Changes)[i] \in {c.after : c \in {d \in Dns!Changes : d.action = "CREATE"}}
<1> DEFINE changes == Dns!Changes
           kept == zone.records \ UNION {Dns!BatchTarget(c) : c \in changes}
           updated == UNION {{Dns!Patched(r, c.after) : r \in Dns!BatchTarget(c)} : c \in {d \in changes : d.action = "UPDATE"}}
           created == {c.after : c \in {d \in changes : d.action = "CREATE"}}
           posts == Dns!Posts(changes)
           posted == {[posts[i] EXCEPT !.id = zone.fresh + i] : i \in DOMAIN posts}
<1>1. Dns!Batched(Dns!Changes) = kept \cup updated \cup posted
  BY DEF Dns!Batched
<1>2. kept \in SUBSET Dns!Record /\ IsFiniteSet(kept)
  BY FS_Subset
<1>3. \A c \in changes : c.action \in {"UPDATE", "CREATE"} => c.after \in dns.doc.records
  BY PlannedAfter DEF Dns!Changes
<1>4. updated \in SUBSET Dns!Record /\ IsFiniteSet(updated)
  <2> DEFINE f == [p \in zone.records \X dns.doc.records |-> Dns!Patched(p[1], p[2])]
             all == {f[p] : p \in zone.records \X dns.doc.records}
  <2>1. \A r \in zone.records, a \in dns.doc.records : Dns!Patched(r, a) \in Dns!Record /\ Dns!Patched(r, a) = f[<<r, a>>]
    BY DEF Dns!Patched, Dns!Record, Desired
  <2>2. \A c \in changes : Dns!BatchTarget(c) \subseteq zone.records
    BY DEF Dns!BatchTarget
  <2>3. ASSUME NEW u \in updated PROVE u \in all /\ u \in Dns!Record
    <3>1. PICK c \in changes : c.action = "UPDATE" /\ u \in {Dns!Patched(r, c.after) : r \in Dns!BatchTarget(c)}
      OBVIOUS
    <3>2. PICK r \in zone.records : u = Dns!Patched(r, c.after)
      BY <2>2, <3>1
    <3>3. c.after \in dns.doc.records
      BY <1>3, <3>1
    <3>4. QED BY <2>1, <3>2, <3>3
  <2>4. IsFiniteSet(all)
    <3>1. f \in Surjection(zone.records \X dns.doc.records, all)
      BY DEF Surjection
    <3>2. IsFiniteSet(zone.records \X dns.doc.records)
      BY FS_Product DEF Desired
    <3> HIDE DEF f, all
    <3>3. QED BY <3>1, <3>2, FS_Surjection
  <2> HIDE DEF updated, all
  <2>5. QED BY <2>3, <2>4, FS_Subset
<1>5. posted \in SUBSET Dns!Record /\ IsFiniteSet(posted) /\ Len(posts) \in Nat /\ DOMAIN posts = 1..Len(posts)
      /\ \A i \in DOMAIN posts : posts[i] \in created
  <2>1. created \in SUBSET dns.doc.records
    BY <1>3
  <2>0. posts = CHOOSE f \in [1..Dns!Cardinality(created) -> created] : Dns!IsInjective(f)
    BY DEF Dns!Posts
  <2> HIDE DEF created, posts
  <2>2. IsFiniteSet(created) /\ Cardinality(created) \in Nat
    BY <2>1, FS_Subset, FS_CardinalityType DEF Desired
  <2>3. posts \in [1..Cardinality(created) -> created]
    <3>1. Bijection(1..Cardinality(created), created) # {}
      BY <2>2, FS_CardinalityType DEF ExistsBijection
    <3>2. \E f \in [1..Cardinality(created) -> created] : Dns!IsInjective(f)
      BY <3>1 DEF Bijection, Injection, IsInjective, Dns!IsInjective
    <3>3. QED BY <2>0, <3>2, SameFinite
  <2> DEFINE f == [i \in 1..Cardinality(created) |-> [posts[i] EXCEPT !.id = zone.fresh + i]]
  <2>4. posted = {f[i] : i \in 1..Cardinality(created)}
    BY <2>3
  <2>5. \A i \in 1..Cardinality(created) : posts[i] \in Dns!Record /\ zone.fresh + i \in Int
    BY <2>1, <2>2, <2>3 DEF Desired
  <2>6. \A i \in 1..Cardinality(created) : [posts[i] EXCEPT !.id = zone.fresh + i] \in Dns!Record
    BY <2>5 DEF Dns!Record
  <2>7. IsFiniteSet(1..Cardinality(created))
    BY <2>2, FS_Interval
  <2>8. IsFiniteSet(posted)
    <3>1. f \in Surjection(1..Cardinality(created), posted)
      BY <2>4 DEF Surjection
    <3> HIDE DEF f, posted
    <3>2. QED BY <2>7, <3>1, FS_Surjection
  <2>9. Len(posts) \in Nat /\ DOMAIN posts = 1..Len(posts)
    BY <2>2, <2>3
  <2>10. QED BY <2>3, <2>6, <2>8, <2>9
<1> HIDE DEF kept, updated, posted
<1>6. Dns!Batched(Dns!Changes) \in SUBSET Dns!Record /\ IsFiniteSet(Dns!Batched(Dns!Changes))
  BY ONLY <1>1, <1>2, <1>4, <1>5, FS_Union
<1>7. QED BY <1>5, <1>6

\* The points of a running command, and those up to its batch.
DnsActive == {"plan", "list", "evidence", "identity", "boundary", "batch", "verify"}
DnsWriting == {"evidence", "identity", "boundary", "batch"}

DnsShape ==
  /\ zone = [status |-> zone.status, records |-> zone.records, fresh |-> zone.fresh]
  /\ dns = [pc |-> dns.pc, doc |-> dns.doc, approved |-> dns.approved, status |-> dns.status, current |-> dns.current]
  /\ evidence = [manifest |-> evidence.manifest, receipt |-> evidence.receipt]
  /\ dnsHist = [edits |-> dnsHist.edits, dirty |-> dnsHist.dirty, before |-> dnsHist.before,
                seen |-> dnsHist.seen, reached |-> dnsHist.reached, command |-> dnsHist.command]

DnsTyped ==
  /\ zone.records \in SUBSET Dns!Record /\ IsFiniteSet(zone.records) /\ zone.fresh \in Int
  /\ dns.pc \in DnsActive \cup {"idle", "returned", "raised", "dead"}
  /\ dns.pc \in DnsActive => Desired(dns.doc)
  /\ dns.current \in SUBSET Dns!Record /\ IsFiniteSet(dns.current)
  /\ dnsHist.edits \in Nat /\ dnsHist.reached \in Nat /\ dnsHist.command \in {0, 1, 2}

\* What is verified was seen, and a running command has not verified yet.
Seen ==
  /\ dns.pc = "returned" => dnsHist.seen
  /\ evidence.receipt = "VERIFIED" => dnsHist.seen
  /\ dns.pc \in DnsActive => evidence.receipt # "VERIFIED"

\* The first command prepares the manifest that the second one applies.
Prepares ==
  /\ evidence.manifest # Dns!NoDoc => Restoring(evidence.manifest)
  /\ dnsHist.command = 0 => dns.pc = "idle" /\ evidence.manifest = Dns!NoDoc /\ dnsHist.reached = 0
  /\ dnsHist.command = 1 /\ dns.pc \in DnsActive \ {"verify"} => dnsHist.reached = 0
  /\ dnsHist.command = 1 /\ dns.pc \in {"identity", "boundary", "batch"} =>
       evidence.manifest = Dns!RollbackManifest(dns.doc, dns.current)
  /\ dnsHist.command = 2 /\ dns.pc \in DnsActive \cup {"returned"} =>
       dns.doc = evidence.manifest /\ evidence.manifest # Dns!NoDoc

\* If nobody else edits: the manifest holds what a batch replaced or would replace, a command acts
\* on what the zone holds, the second one has something to undo, and what returned left nothing to do.
Alone ==
  /\ evidence.manifest # Dns!NoDoc =>
       evidence.manifest.records = IF dnsHist.reached = 0 THEN Dns!Restorable(evidence.manifest, zone.records)
                                   ELSE dnsHist.before
  /\ dns.pc \in DnsWriting => dns.current = zone.records
  /\ dnsHist.command = 2 /\ dns.pc \in DnsWriting => dnsHist.reached > 0
  /\ dns.pc = "returned" => Dns!BuildPlan(dns.doc, zone.records) = {}

DnsInv == DnsShape /\ DnsTyped /\ Seen /\ Prepares /\ (dnsHist.edits = 0 => Alone)

LEMMA DnsStarts == OperationsAssumption /\ Init => DnsInv
<1> SUFFICES ASSUME OperationsAssumption, Init PROVE DnsInv
  OBVIOUS
<1>1. zone = [status |-> "active", records |-> Zone, fresh |-> Cardinality(Zone) + 1] /\ dns = Dns!Idle
      /\ evidence = Dns!NoEvidence /\ dnsHist = Dns!NoHistory
  BY SameFinite DEF Init, Dns!DnsInit
<1>2. Zone \in SUBSET Dns!Record /\ IsFiniteSet(Zone) /\ Cardinality(Zone) + 1 \in Int
  BY SameFinite, FS_CardinalityType DEF OperationsAssumption, Dns!DnsAssumption
<1>3. DnsShape
  BY <1>1 DEF DnsShape, Dns!Idle, Dns!NoEvidence, Dns!NoHistory
<1>4. DnsTyped
  BY <1>1, <1>2, FS_EmptySet DEF DnsTyped, DnsActive, Dns!Idle, Dns!NoEvidence, Dns!NoHistory
<1>5. Seen /\ Prepares /\ Alone
  BY <1>1 DEF Seen, Prepares, Alone, DnsActive, DnsWriting, Dns!Idle, Dns!NoEvidence, Dns!NoHistory
<1>6. QED BY <1>3, <1>4, <1>5 DEF DnsInv

\* The manifest of the evidence restores.
LEMMA RollbackIsRestoring ==
  ASSUME NEW doc, NEW current \in SUBSET Dns!Record, IsFiniteSet(current)
  PROVE  Restoring(Dns!RollbackManifest(doc, current))
<1> DEFINE managed == {r \in current : Dns!RecordSet(r) \in doc.managed}
           f == [r \in managed |-> Dns!RestorePayload(r)]
           all == {Dns!RestorePayload(r) : r \in managed}
<1>1. Dns!Restorable(doc, current) = all
  BY DEF Dns!Restorable, Dns!Managed
<1>2. \A e \in Int : \A r \in Dns!Record :
        [r EXCEPT !.id = e] \in Dns!Record /\ [r EXCEPT !.id = e].id = e
        /\ [r EXCEPT !.id = e].type = r.type /\ [r EXCEPT !.id = e].name = r.name
  BY DEF Dns!Record
<1>3. \A r \in Dns!Record : /\ Dns!RestorePayload(r) \in Dns!Record /\ Dns!RestorePayload(r).id = 0
                            /\ Dns!RecordSet(Dns!RestorePayload(r)) = Dns!RecordSet(r)
  BY <1>2 DEF Dns!RestorePayload, Dns!RecordSet
<1>4. all \in SUBSET Dns!Record /\ \A r \in all : Dns!RecordSet(r) \in doc.managed /\ r.id = 0
  BY <1>3
<1>5. IsFiniteSet(all)
  <2>1. IsFiniteSet(managed)
    BY FS_Subset
  <2>2. f \in Surjection(managed, all)
    BY DEF Surjection
  <2> HIDE DEF f, managed, all
  <2>3. QED BY <2>1, <2>2, FS_Surjection
<1> HIDE DEF all
<1>6. QED BY <1>1, <1>4, <1>5 DEF Restoring, Desired, Dns!RollbackManifest

\* A step of the command alone.
LEMMA DnsGoes ==
  ASSUME DnsShape, NEW l, Dns!Go(l)
  PROVE  /\ dns' = [pc |-> l, doc |-> dns.doc, approved |-> dns.approved, status |-> dns.status, current |-> dns.current]
         /\ dns'.pc = l /\ UNCHANGED <<dns.doc, dns.approved, dns.status, dns.current>>
<1>1. dns' = [dns EXCEPT !.pc = l]
  BY DEF Dns!Go
<1>2. dns = [pc |-> dns.pc, doc |-> dns.doc, approved |-> dns.approved, status |-> dns.status, current |-> dns.current]
  BY DEF DnsShape
<1>3. dns' = [pc |-> l, doc |-> dns.doc, approved |-> dns.approved, status |-> dns.status, current |-> dns.current]
  BY <1>1, <1>2
<1>4. QED BY <1>3

\* A receipt is of the evidence, and leaves the manifest.
LEMMA Receives ==
  ASSUME DnsShape, NEW s, evidence' = [evidence EXCEPT !.receipt = s]
  PROVE  /\ evidence' = [manifest |-> evidence.manifest, receipt |-> s]
         /\ evidence'.manifest = evidence.manifest /\ evidence'.receipt = s
<1>1. evidence' = [manifest |-> evidence.manifest, receipt |-> s]
  BY DEF DnsShape
<1>2. QED BY <1>1

\* A command ends, while the zone is left alone, and says nothing of success.
LEMMA EndKeeps ==
  ASSUME DnsInv, dns.pc # "idle", NEW l \in {"raised", "dead"}, Dns!Go(l), UNCHANGED <<zone, dnsHist>>,
         evidence' = evidence \/ \E s : s # "VERIFIED" /\ evidence' = [evidence EXCEPT !.receipt = s]
  PROVE  DnsInv'
<1>1. /\ dns' = [pc |-> l, doc |-> dns.doc, approved |-> dns.approved, status |-> dns.status, current |-> dns.current]
      /\ dns'.pc = l /\ UNCHANGED <<dns.doc, dns.current>> /\ l \notin DnsActive
  BY DnsGoes DEF DnsInv, DnsActive
<1>2. /\ evidence' = [manifest |-> evidence'.manifest, receipt |-> evidence'.receipt]
      /\ evidence'.manifest = evidence.manifest
      /\ evidence'.receipt = evidence.receipt \/ evidence'.receipt # "VERIFIED"
  <2>1. CASE evidence' = evidence
    BY <2>1 DEF DnsInv, DnsShape
  <2>2. CASE \E s : s # "VERIFIED" /\ evidence' = [evidence EXCEPT !.receipt = s]
    <3>1. PICK s : s # "VERIFIED" /\ evidence' = [evidence EXCEPT !.receipt = s]
      BY <2>2
    <3>2. QED BY <3>1, Receives DEF DnsInv
  <2>3. QED BY <2>1, <2>2
<1>3. DnsShape'
  BY <1>1, <1>2 DEF DnsInv, DnsShape
<1>4. DnsTyped'
  BY <1>1 DEF DnsInv, DnsTyped
<1>5. Seen'
  BY <1>1, <1>2 DEF DnsInv, Seen
<1>6. Prepares'
  BY <1>1, <1>2 DEF DnsInv, Prepares
<1>7. dnsHist.edits = 0 => Alone'
  BY <1>1, <1>2 DEF DnsInv, Alone, DnsWriting, DnsActive
<1>8. QED BY <1>3, <1>4, <1>5, <1>6, <1>7 DEF DnsInv

LEMMA DnsFailKeeps ==
  ASSUME DnsInv, dns.pc # "idle", Dns!DnsFail
  PROVE  DnsInv'
BY EndKeeps DEF Dns!DnsFail

\* A command goes on, and nothing else changes.
LEMMA StepKeeps ==
  ASSUME DnsInv,
         NEW l \in DnsActive, dns.pc \in DnsActive,
         dns'.pc = l, UNCHANGED dns.doc, dns'.current \in SUBSET Dns!Record, IsFiniteSet(dns'.current),
         dns' = [pc |-> dns'.pc, doc |-> dns'.doc, approved |-> dns'.approved, status |-> dns'.status, current |-> dns'.current],
         UNCHANGED <<zone, evidence, dnsHist.edits, dnsHist.before, dnsHist.seen, dnsHist.reached, dnsHist.command>>,
         dnsHist' = [edits |-> dnsHist'.edits, dirty |-> dnsHist'.dirty, before |-> dnsHist'.before,
                     seen |-> dnsHist'.seen, reached |-> dnsHist'.reached, command |-> dnsHist'.command],
         l \in {"identity", "boundary", "batch"} => dns.pc \in {"identity", "boundary", "batch"},
         dns.pc = "verify" => l = "verify",
         l \in {"identity", "boundary", "batch"} => UNCHANGED dns.current,
         l = "evidence" => dns'.current = zone.records /\ Dns!BuildPlan(dns.doc, zone.records) # {}
  PROVE  DnsInv'
<1>1. DnsShape'
  BY DEF DnsInv, DnsShape
<1>2. DnsTyped'
  BY DEF DnsInv, DnsTyped
<1>3. Seen'
  BY DEF DnsInv, Seen, DnsActive
<1>4. Prepares'
  BY DEF DnsInv, Prepares, DnsActive
<1>5. ASSUME dnsHist.edits = 0 PROVE Alone'
  <2>1. Alone
    BY <1>5 DEF DnsInv
  <2>2. CASE l = "evidence"
    <3>1. dnsHist.command = 2 =>
            dns.doc = evidence.manifest /\ evidence.manifest # Dns!NoDoc /\ Restoring(evidence.manifest)
      BY DEF DnsInv, Prepares
    <3>2. zone.records \in SUBSET Dns!Record /\ IsFiniteSet(zone.records) /\ dnsHist.reached \in Nat
      BY DEF DnsInv, DnsTyped
    <3>3. dnsHist.command = 2 => dnsHist.reached > 0
      BY <2>1, <2>2, <3>1, <3>2, NothingToRestore DEF Alone
    <3>4. QED BY <2>1, <2>2, <3>3 DEF Alone, DnsWriting
  <2>3. CASE l # "evidence"
    BY <2>1, <2>3 DEF Alone, DnsWriting, DnsActive
  <2>4. QED BY <2>2, <2>3
<1>6. QED BY <1>1, <1>2, <1>3, <1>4, <1>5 DEF DnsInv

LEMMA HistoryStays ==
  ASSUME DnsInv, UNCHANGED dnsHist
  PROVE  /\ UNCHANGED <<dnsHist.edits, dnsHist.before, dnsHist.seen, dnsHist.reached, dnsHist.command>>
         /\ dnsHist' = [edits |-> dnsHist'.edits, dirty |-> dnsHist'.dirty, before |-> dnsHist'.before,
                        seen |-> dnsHist'.seen, reached |-> dnsHist'.reached, command |-> dnsHist'.command]
BY DEF DnsInv, DnsShape

LEMMA FindZoneKeeps ==
  ASSUME DnsInv, Dns!FindZone
  PROVE  DnsInv'
<1>1. dns.pc = "plan"
  BY DEF Dns!FindZone
<1>2. CASE dns' = [dns EXCEPT !.pc = "list", !.status = zone.status] /\ UNCHANGED <<zone, evidence, dnsHist>>
  <2>1. dns = [pc |-> dns.pc, doc |-> dns.doc, approved |-> dns.approved, status |-> dns.status, current |-> dns.current]
    BY DEF DnsInv, DnsShape
  <2>2. /\ dns' = [pc |-> dns'.pc, doc |-> dns'.doc, approved |-> dns'.approved, status |-> dns'.status, current |-> dns'.current]
        /\ dns'.pc = "list" /\ UNCHANGED <<dns.doc, dns.current>>
    BY <1>2, <2>1
  <2>3. dns.current \in SUBSET Dns!Record /\ IsFiniteSet(dns.current)
    BY DEF DnsInv, DnsTyped
  <2>4. QED BY <1>1, <1>2, <2>2, <2>3, StepKeeps, HistoryStays DEF DnsActive
<1>3. QED BY <1>1, <1>2, DnsFailKeeps DEF Dns!FindZone

LEMMA ListRecordsKeeps ==
  ASSUME DnsInv, Dns!ListRecords
  PROVE  DnsInv'
<1>1. dns.pc = "list"
  BY DEF Dns!ListRecords
<1>2. ASSUME NEW l \in {"verify", "evidence"}, dns' = [dns EXCEPT !.current = zone.records, !.pc = l],
             l = "evidence" => Dns!BuildPlan(dns.doc, zone.records) # {}, UNCHANGED <<zone, evidence, dnsHist>>
      PROVE  DnsInv'
  <2>1. dns = [pc |-> dns.pc, doc |-> dns.doc, approved |-> dns.approved, status |-> dns.status, current |-> dns.current]
    BY DEF DnsInv, DnsShape
  <2>2. /\ dns' = [pc |-> dns'.pc, doc |-> dns'.doc, approved |-> dns'.approved, status |-> dns'.status, current |-> dns'.current]
        /\ dns'.pc = l /\ dns'.doc = dns.doc /\ dns'.current = zone.records
    BY <1>2, <2>1
  <2>3. zone.records \in SUBSET Dns!Record /\ IsFiniteSet(zone.records)
    BY DEF DnsInv, DnsTyped
  <2>4. QED BY <1>1, <1>2, <2>2, <2>3, StepKeeps, HistoryStays DEF DnsActive
<1>3. CASE Dns!DnsFail
  BY <1>1, <1>3, DnsFailKeeps
<1>4. CASE /\ dns' = [dns EXCEPT !.current = zone.records,
                      !.pc = IF Dns!BuildPlan(dns.doc, zone.records) = {} THEN "verify" ELSE "evidence"]
           /\ UNCHANGED <<zone, evidence, dnsHist>>
  <2>1. CASE Dns!BuildPlan(dns.doc, zone.records) = {}
    BY <1>2, <1>4, <2>1
  <2>2. CASE Dns!BuildPlan(dns.doc, zone.records) # {}
    BY <1>2, <1>4, <2>2
  <2>3. QED BY <2>1, <2>2
<1>5. QED BY <1>3, <1>4 DEF Dns!ListRecords

LEMMA PrepareEvidenceKeeps ==
  ASSUME DnsInv, Dns!PrepareEvidence
  PROVE  DnsInv'
<1>1. dns.pc = "evidence" /\ UNCHANGED <<zone, dnsHist>>
  BY DEF Dns!PrepareEvidence
<1>2. PICK l \in {"identity", "raised"} :
        /\ Dns!Go(l)
        /\ \/ l = "raised" /\ evidence' = evidence
           \/ dnsHist.command # 1 /\ evidence' = evidence
           \/ dnsHist.command = 1 /\ evidence' = [evidence EXCEPT !.manifest = Dns!RollbackManifest(dns.doc, dns.current)]
  BY DEF Dns!PrepareEvidence
<1> DEFINE rollback == Dns!RollbackManifest(dns.doc, dns.current)
<1>3. /\ dns' = [pc |-> l, doc |-> dns.doc, approved |-> dns.approved, status |-> dns.status, current |-> dns.current]
      /\ dns'.pc = l /\ UNCHANGED <<dns.doc, dns.current>>
  BY <1>2, DnsGoes DEF DnsInv
<1>4. CASE evidence' = evidence /\ (l = "raised" \/ dnsHist.command # 1)
  <2>1. CASE l = "raised"
    BY <1>1, <1>2, <1>4, <2>1, EndKeeps
  <2>2. CASE l = "identity"
    <3>1. DnsShape'
      BY <1>1, <1>3, <1>4 DEF DnsInv, DnsShape
    <3>2. DnsTyped'
      BY <1>1, <1>3, <1>4, <2>2 DEF DnsInv, DnsTyped, DnsActive
    <3>3. Seen' /\ Prepares'
      BY <1>1, <1>3, <1>4, <2>2 DEF DnsInv, DnsTyped, Seen, Prepares, DnsActive
    <3>4. dnsHist.edits = 0 => Alone'
      BY <1>1, <1>3, <1>4, <2>2 DEF DnsInv, Alone, DnsWriting
    <3>5. QED BY <1>1, <3>1, <3>2, <3>3, <3>4 DEF DnsInv
  <2>3. QED BY <2>1, <2>2
<1>5. CASE dnsHist.command = 1 /\ evidence' = [evidence EXCEPT !.manifest = rollback]
  <2> HIDE DEF rollback
  <2>1. /\ evidence' = [manifest |-> rollback, receipt |-> evidence.receipt]
        /\ evidence'.manifest = rollback /\ evidence'.receipt = evidence.receipt
    <3>1. evidence = [manifest |-> evidence.manifest, receipt |-> evidence.receipt]
      BY DEF DnsInv, DnsShape
    <3>2. evidence' = [manifest |-> rollback, receipt |-> evidence.receipt]
      BY <1>5, <3>1
    <3>3. QED BY <3>2
  <2>2. DnsShape'
    BY <1>1, <1>3, <2>1 DEF DnsInv, DnsShape
  <2>3. DnsTyped'
    BY <1>1, <1>3 DEF DnsInv, DnsTyped, DnsActive
  <2>4. Restoring(rollback) /\ rollback.records = Dns!Restorable(dns.doc, dns.current) /\ rollback.managed = dns.doc.managed
    <3>1. Restoring(rollback)
      BY RollbackIsRestoring DEF rollback, DnsInv, DnsTyped
    <3>2. QED BY <3>1 DEF rollback, Dns!RollbackManifest
  <2>5. Seen'
    BY <1>1, <1>3, <2>1 DEF DnsInv, Seen, DnsActive
  <2>6. rollback = Dns!RollbackManifest(dns.doc, dns.current)
    BY DEF rollback
  <2>7. Prepares'
    BY <1>1, <1>3, <1>5, <2>1, <2>4, <2>6 DEF DnsInv, Prepares, DnsActive
  <2>8. ASSUME dnsHist.edits = 0 PROVE Alone'
    <3>1. dnsHist.reached = 0 /\ dns.current = zone.records
      BY <1>1, <1>5, <2>8 DEF DnsInv, Prepares, Alone, DnsActive, DnsWriting
    <3>2. rollback.records = Dns!Restorable(rollback, zone.records)
      BY <2>4, <3>1 DEF Dns!Restorable, Dns!Managed
    <3>3. QED BY <1>1, <1>3, <1>5, <2>1, <3>1, <3>2 DEF Alone, DnsWriting
  <2>9. QED BY <1>1, <2>2, <2>3, <2>5, <2>7, <2>8 DEF DnsInv
<1>6. QED BY <1>2, <1>4, <1>5

LEMMA BoundaryIdentityKeeps ==
  ASSUME DnsInv, Dns!BoundaryIdentity
  PROVE  DnsInv'
<1>1. dns.pc = "identity"
  BY DEF Dns!BoundaryIdentity
<1>2. CASE Dns!Go("boundary") /\ UNCHANGED <<zone, evidence, dnsHist>>
  <2>1. /\ dns' = [pc |-> "boundary", doc |-> dns.doc, approved |-> dns.approved, status |-> dns.status, current |-> dns.current]
        /\ dns'.pc = "boundary" /\ UNCHANGED <<dns.doc, dns.approved, dns.status, dns.current>>
    BY <1>2, DnsGoes DEF DnsInv
  <2>2. dns.current \in SUBSET Dns!Record /\ IsFiniteSet(dns.current)
    BY DEF DnsInv, DnsTyped
  <2>3. QED BY <1>1, <1>2, <2>1, <2>2, StepKeeps, HistoryStays DEF DnsActive
<1>3. QED BY <1>1, <1>2, DnsFailKeeps DEF Dns!BoundaryIdentity

LEMMA BoundaryRecordsKeeps ==
  ASSUME DnsInv, Dns!BoundaryRecords
  PROVE  DnsInv'
<1>1. dns.pc = "boundary"
  BY DEF Dns!BoundaryRecords
<1>2. CASE Dns!Go("batch") /\ UNCHANGED <<zone, evidence>> /\ dnsHist' = [dnsHist EXCEPT !.dirty = FALSE]
  <2>1. /\ dns' = [pc |-> "batch", doc |-> dns.doc, approved |-> dns.approved, status |-> dns.status, current |-> dns.current]
        /\ dns'.pc = "batch" /\ UNCHANGED <<dns.doc, dns.approved, dns.status, dns.current>>
    BY <1>2, DnsGoes DEF DnsInv
  <2>2. dns.current \in SUBSET Dns!Record /\ IsFiniteSet(dns.current)
    BY DEF DnsInv, DnsTyped
  <2>3. dnsHist = [edits |-> dnsHist.edits, dirty |-> dnsHist.dirty, before |-> dnsHist.before,
                   seen |-> dnsHist.seen, reached |-> dnsHist.reached, command |-> dnsHist.command]
    BY DEF DnsInv, DnsShape
  <2>4. dnsHist' = [edits |-> dnsHist.edits, dirty |-> FALSE, before |-> dnsHist.before,
                    seen |-> dnsHist.seen, reached |-> dnsHist.reached, command |-> dnsHist.command]
    BY <1>2, <2>3
  <2>5. /\ UNCHANGED <<dnsHist.edits, dnsHist.before, dnsHist.seen, dnsHist.reached, dnsHist.command>>
        /\ dnsHist' = [edits |-> dnsHist'.edits, dirty |-> dnsHist'.dirty, before |-> dnsHist'.before,
                       seen |-> dnsHist'.seen, reached |-> dnsHist'.reached, command |-> dnsHist'.command]
    BY <2>4
  <2>6. QED BY <1>1, <1>2, <2>1, <2>2, <2>5, StepKeeps DEF DnsActive
<1>3. QED BY <1>1, <1>2, DnsFailKeeps DEF Dns!BoundaryRecords
LEMMA PlanCommandKeeps ==
  ASSUME OperationsAssumption, DnsInv, Dns!PlanCommand
  PROVE  DnsInv'
<1>1. PICK doc \in IF dnsHist.command = 0 THEN Manifests ELSE {evidence.manifest} \ {Dns!NoDoc} :
        dns' = [Dns!Idle EXCEPT !.pc = "plan", !.doc = doc,
                !.approved = Dns!Fingerprint(doc, zone.status, Dns!BuildPlan(doc, zone.records))]
  BY DEF Dns!PlanCommand
<1>2. /\ dns' = [pc |-> "plan", doc |-> doc, approved |-> dns'.approved, status |-> "none", current |-> {}]
      /\ dns'.pc = "plan" /\ dns'.doc = doc /\ dns'.current = {} /\ dns'.status = "none"
  BY <1>1 DEF Dns!Idle
<1>3. /\ dnsHist.command \in {0, 1} /\ UNCHANGED zone
      /\ dnsHist' = [dnsHist EXCEPT !.command = dnsHist.command + 1, !.seen = FALSE]
      /\ evidence' = [evidence EXCEPT !.receipt = "none"]
  BY DEF Dns!PlanCommand, DnsInv, DnsTyped
<1>4. dnsHist' = [edits |-> dnsHist.edits, dirty |-> dnsHist.dirty, before |-> dnsHist.before,
                  seen |-> FALSE, reached |-> dnsHist.reached, command |-> dnsHist.command + 1]
  <2>1. dnsHist = [edits |-> dnsHist.edits, dirty |-> dnsHist.dirty, before |-> dnsHist.before,
                   seen |-> dnsHist.seen, reached |-> dnsHist.reached, command |-> dnsHist.command]
    BY DEF DnsInv, DnsShape
  <2>2. QED BY <1>3, <2>1
<1>5. /\ dnsHist'.edits = dnsHist.edits /\ dnsHist'.before = dnsHist.before
      /\ dnsHist'.reached = dnsHist.reached /\ dnsHist'.command = dnsHist.command + 1
      /\ dnsHist' = [edits |-> dnsHist'.edits, dirty |-> dnsHist'.dirty, before |-> dnsHist'.before,
                     seen |-> dnsHist'.seen, reached |-> dnsHist'.reached, command |-> dnsHist'.command]
  BY <1>4
<1>6. evidence' = [manifest |-> evidence.manifest, receipt |-> "none"] /\ evidence'.manifest = evidence.manifest
      /\ evidence'.receipt = "none"
  BY <1>3, Receives DEF DnsInv
<1>7. Desired(doc) /\ (dnsHist.command = 1 => doc = evidence.manifest /\ evidence.manifest # Dns!NoDoc)
  <2>1. CASE dnsHist.command = 0
    BY <1>1, <2>1, SameFinite DEF OperationsAssumption, Dns!DnsAssumption, Desired
  <2>2. CASE dnsHist.command = 1
    BY <1>1, <2>2 DEF DnsInv, Prepares, Restoring
  <2>3. QED BY <1>3, <2>1, <2>2
<1>8. DnsShape'
  BY <1>2, <1>3, <1>5, <1>6 DEF DnsInv, DnsShape
<1>9. DnsTyped'
  BY <1>2, <1>3, <1>5, <1>7, FS_EmptySet DEF DnsInv, DnsTyped, DnsActive
<1>10. Seen'
  BY <1>2, <1>6 DEF Seen
<1>11. Prepares'
  BY <1>2, <1>3, <1>5, <1>6, <1>7 DEF DnsInv, Prepares, DnsActive
<1>12. dnsHist.edits = 0 => Alone'
  BY <1>2, <1>3, <1>5, <1>6 DEF DnsInv, Alone, DnsWriting
<1>13. QED BY <1>5, <1>8, <1>9, <1>10, <1>11, <1>12 DEF DnsInv

LEMMA ApplyBatchKeeps ==
  ASSUME DnsInv, Dns!ApplyBatch
  PROVE  DnsInv'
<1>1. dns.pc = "batch" /\ dnsHist.command \in {1, 2} /\ Desired(dns.doc) /\ dnsHist.reached \in Nat
  BY DEF Dns!ApplyBatch, DnsInv, DnsTyped, Prepares, DnsActive
<1>2. CASE Dns!Go("raised") /\ Dns!Receipt("WRITE_ERROR_RECONCILIATION_REQUIRED") /\ UNCHANGED <<zone, dnsHist>>
  BY <1>1, <1>2, EndKeeps DEF Dns!Receipt
<1>3. CASE /\ zone' = [zone EXCEPT !.records = Dns!Batched(Dns!Changes), !.fresh = zone.fresh + Len(Dns!Posts(Dns!Changes)) + 1]
           /\ dnsHist' = [dnsHist EXCEPT !.reached = dnsHist.reached + 1,
                !.before = IF dnsHist.command = 1 THEN Dns!Restorable(dns.doc, zone.records) ELSE dnsHist.before]
           /\ \/ Dns!Go("verify") /\ UNCHANGED evidence
              \/ Dns!Go("raised") /\ Dns!Receipt("WRITE_ERROR_RECONCILIATION_REQUIRED")
  <2> DEFINE before == IF dnsHist.command = 1 THEN Dns!Restorable(dns.doc, zone.records) ELSE dnsHist.before
  <2>1. PICK l \in {"verify", "raised"} : Dns!Go(l)
    BY <1>3
  <2>2. /\ dns' = [pc |-> l, doc |-> dns.doc, approved |-> dns.approved, status |-> dns.status, current |-> dns.current]
        /\ dns'.pc = l /\ dns'.doc = dns.doc /\ dns'.current = dns.current
    BY <2>1, DnsGoes DEF DnsInv
  <2>3. /\ evidence' = [manifest |-> evidence'.manifest, receipt |-> evidence'.receipt]
        /\ evidence'.manifest = evidence.manifest
        /\ evidence'.receipt = evidence.receipt \/ evidence'.receipt # "VERIFIED"
    <3>1. CASE UNCHANGED evidence
      BY <3>1 DEF DnsInv, DnsShape
    <3>2. CASE Dns!Receipt("WRITE_ERROR_RECONCILIATION_REQUIRED")
      <4>1. PICK s \in {"WRITE_ERROR_RECONCILIATION_REQUIRED", "none"} : evidence' = [evidence EXCEPT !.receipt = s]
        BY <3>2 DEF Dns!Receipt
      <4>2. QED BY <4>1, Receives DEF DnsInv
    <3>3. QED BY <1>3, <3>1, <3>2
  <2>4. /\ zone' = [status |-> zone'.status, records |-> zone'.records, fresh |-> zone'.fresh]
        /\ zone'.records = Dns!Batched(Dns!Changes) /\ zone'.fresh = zone.fresh + Len(Dns!Posts(Dns!Changes)) + 1
    <3>1. zone = [status |-> zone.status, records |-> zone.records, fresh |-> zone.fresh]
      BY DEF DnsInv, DnsShape
    <3>2. QED BY <1>3, <3>1
  <2>5. /\ dnsHist' = [edits |-> dnsHist'.edits, dirty |-> dnsHist'.dirty, before |-> dnsHist'.before,
                       seen |-> dnsHist'.seen, reached |-> dnsHist'.reached, command |-> dnsHist'.command]
        /\ dnsHist'.edits = dnsHist.edits /\ dnsHist'.seen = dnsHist.seen /\ dnsHist'.command = dnsHist.command
        /\ dnsHist'.reached = dnsHist.reached + 1 /\ dnsHist'.before = before
    <3>1. dnsHist = [edits |-> dnsHist.edits, dirty |-> dnsHist.dirty, before |-> dnsHist.before,
                     seen |-> dnsHist.seen, reached |-> dnsHist.reached, command |-> dnsHist.command]
      BY DEF DnsInv, DnsShape
    <3>2. dnsHist' = [dnsHist EXCEPT !.reached = dnsHist.reached + 1, !.before = before]
      BY <1>3
    <3> HIDE DEF before
    <3>3. QED BY <3>1, <3>2
  <2>6. DnsShape'
    BY <2>2, <2>3, <2>4, <2>5 DEF DnsShape
  <2>7. DnsTyped'
    <3>1. /\ Dns!Batched(Dns!Changes) \in SUBSET Dns!Record /\ IsFiniteSet(Dns!Batched(Dns!Changes))
          /\ Len(Dns!Posts(Dns!Changes)) \in Nat
      BY <1>1, BatchIsTyped DEF DnsInv, DnsTyped
    <3>2. QED BY <1>1, <2>2, <2>4, <2>5, <3>1 DEF DnsInv, DnsTyped, DnsActive
  <2>8. Seen'
    BY <1>1, <2>2, <2>3, <2>5 DEF DnsInv, Seen, DnsActive
  <2>9. Prepares'
    BY <1>1, <2>2, <2>3, <2>5 DEF DnsInv, Prepares, DnsActive
  <2>10. ASSUME dnsHist.edits = 0 PROVE Alone'
    <3>1. dns.current = zone.records /\ dnsHist'.reached # 0 /\ Alone
      BY <1>1, <2>5, <2>10 DEF DnsInv, Alone, DnsWriting
    <3>2. ASSUME evidence.manifest # Dns!NoDoc PROVE evidence.manifest.records = before
      <4>1. CASE dnsHist.command = 1
        BY <1>1, <3>1, <4>1 DEF DnsInv, Prepares, Dns!RollbackManifest
      <4>2. CASE dnsHist.command = 2
        BY <1>1, <3>1, <3>2, <4>2 DEF Alone, DnsWriting
      <4>3. QED BY <1>1, <4>1, <4>2
    <3>3. QED BY <2>2, <2>3, <2>5, <3>1, <3>2 DEF Alone, DnsWriting
  <2>11. QED BY <2>5, <2>6, <2>7, <2>8, <2>9, <2>10 DEF DnsInv
<1>4. QED BY <1>2, <1>3 DEF Dns!ApplyBatch

LEMMA VerifyKeeps ==
  ASSUME DnsInv, Dns!Verify
  PROVE  DnsInv'
<1> DEFINE converged == Dns!BuildPlan(dns.doc, zone.records) = {}
<1>1. dns.pc = "verify" /\ UNCHANGED zone /\ evidence.receipt # "VERIFIED" /\ dnsHist.command \in {1, 2}
  BY DEF Dns!Verify, DnsInv, DnsTyped, Seen, Prepares, DnsActive
<1>2. CASE /\ UNCHANGED evidence \/ Dns!Receipt("POST_WRITE_VERIFICATION_ERROR")
           /\ Dns!Go("raised") /\ UNCHANGED dnsHist
  BY <1>1, <1>2, EndKeeps DEF Dns!Receipt
<1>3. CASE /\ UNCHANGED evidence \/ Dns!Receipt(IF converged THEN "VERIFIED" ELSE "NON_CONVERGED")
           /\ dnsHist' = [dnsHist EXCEPT !.seen = converged]
           /\ Dns!Go("raised") \/ (converged /\ Dns!Go("returned"))
  <2>1. PICK l \in {"raised", "returned"} : Dns!Go(l) /\ (l = "returned" => converged)
    BY <1>3
  <2>2. /\ dns' = [pc |-> l, doc |-> dns.doc, approved |-> dns.approved, status |-> dns.status, current |-> dns.current]
        /\ dns'.pc = l /\ dns'.doc = dns.doc /\ dns'.current = dns.current
    BY <2>1, DnsGoes DEF DnsInv
  <2>3. /\ evidence' = [manifest |-> evidence'.manifest, receipt |-> evidence'.receipt]
        /\ evidence'.manifest = evidence.manifest
        /\ evidence'.receipt = "VERIFIED" => converged
    <3>1. CASE UNCHANGED evidence
      BY <1>1, <3>1 DEF DnsInv, DnsShape
    <3>2. CASE Dns!Receipt(IF converged THEN "VERIFIED" ELSE "NON_CONVERGED")
      <4>1. PICK s : s \in {IF converged THEN "VERIFIED" ELSE "NON_CONVERGED", "none"} /\ evidence' = [evidence EXCEPT !.receipt = s]
        BY <3>2 DEF Dns!Receipt
      <4>2. QED BY <4>1, Receives DEF DnsInv
    <3>3. QED BY <1>3, <3>1, <3>2
  <2>4. PICK b \in BOOLEAN : b = converged
    OBVIOUS
  <2>5. /\ dnsHist' = [edits |-> dnsHist'.edits, dirty |-> dnsHist'.dirty, before |-> dnsHist'.before,
                       seen |-> dnsHist'.seen, reached |-> dnsHist'.reached, command |-> dnsHist'.command]
        /\ dnsHist'.edits = dnsHist.edits /\ dnsHist'.seen = b /\ dnsHist'.command = dnsHist.command
        /\ dnsHist'.reached = dnsHist.reached /\ dnsHist'.before = dnsHist.before
    <3>1. dnsHist = [edits |-> dnsHist.edits, dirty |-> dnsHist.dirty, before |-> dnsHist.before,
                     seen |-> dnsHist.seen, reached |-> dnsHist.reached, command |-> dnsHist.command]
      BY DEF DnsInv, DnsShape
    <3>2. dnsHist' = [dnsHist EXCEPT !.seen = b]
      BY <1>3, <2>4
    <3>3. QED BY <3>1, <3>2
  <2>6. DnsShape'
    BY <1>1, <2>2, <2>3, <2>5 DEF DnsInv, DnsShape
  <2>7. DnsTyped'
    BY <1>1, <2>2, <2>5 DEF DnsInv, DnsTyped, DnsActive
  <2>8. Seen'
    BY <2>1, <2>2, <2>3, <2>4, <2>5 DEF Seen, DnsActive
  <2>9. Prepares'
    BY <1>1, <2>2, <2>3, <2>5 DEF DnsInv, Prepares, DnsActive
  <2>10. dnsHist.edits = 0 => Alone'
    BY <1>1, <2>1, <2>2, <2>3, <2>5 DEF DnsInv, Alone, DnsWriting
  <2>11. QED BY <2>5, <2>6, <2>7, <2>8, <2>9, <2>10 DEF DnsInv
<1>4. QED BY <1>2, <1>3 DEF Dns!Verify

LEMMA ForeignEditKeeps ==
  ASSUME OperationsAssumption, DnsInv, Dns!ForeignEdit
  PROVE  DnsInv'
<1>1. /\ dnsHist' = [edits |-> dnsHist'.edits, dirty |-> dnsHist'.dirty, before |-> dnsHist'.before,
                     seen |-> dnsHist'.seen, reached |-> dnsHist'.reached, command |-> dnsHist'.command]
      /\ dnsHist'.edits = dnsHist.edits + 1 /\ dnsHist'.seen = dnsHist.seen /\ dnsHist'.command = dnsHist.command
      /\ dnsHist'.reached = dnsHist.reached
  <2>1. dnsHist = [edits |-> dnsHist.edits, dirty |-> dnsHist.dirty, before |-> dnsHist.before,
                   seen |-> dnsHist.seen, reached |-> dnsHist.reached, command |-> dnsHist.command]
    BY DEF DnsInv, DnsShape
  <2>2. dnsHist' = [dnsHist EXCEPT !.edits = dnsHist.edits + 1, !.dirty = TRUE]
    BY DEF Dns!ForeignEdit
  <2>3. QED BY <2>1, <2>2
<1>2. /\ zone = [status |-> zone.status, records |-> zone.records, fresh |-> zone.fresh]
      /\ zone.records \in SUBSET Dns!Record /\ IsFiniteSet(zone.records) /\ zone.fresh \in Int
      /\ dnsHist.edits \in Nat
  BY DEF DnsInv, DnsShape, DnsTyped
<1>3. \A f \in Foreign, e \in Int : [f EXCEPT !.id = e] \in Dns!Record
  BY DEF OperationsAssumption, Dns!DnsAssumption, Dns!Record
<1>4. /\ zone' = [status |-> zone'.status, records |-> zone'.records, fresh |-> zone'.fresh]
      /\ zone'.records \in SUBSET Dns!Record /\ IsFiniteSet(zone'.records) /\ zone'.fresh \in Int
  <2>1. CASE \E s \in {"active", "pending", "moved"} : zone' = [zone EXCEPT !.status = s]
    BY <1>2, <2>1
  <2>2. CASE \E r \in zone.records : zone' = [zone EXCEPT !.records = zone.records \ {r}]
    <3>1. PICK r \in zone.records : zone' = [zone EXCEPT !.records = zone.records \ {r}]
      BY <2>2
    <3>2. IsFiniteSet(zone.records \ {r})
      BY <1>2, FS_RemoveElement
    <3>3. QED BY <1>2, <3>1, <3>2
  <2>3. CASE \E r \in zone.records, f \in Foreign :
               zone' = [zone EXCEPT !.records = (zone.records \ {r}) \cup {[f EXCEPT !.id = r.id]}]
    <3>1. PICK r \in zone.records, f \in Foreign :
            zone' = [zone EXCEPT !.records = (zone.records \ {r}) \cup {[f EXCEPT !.id = r.id]}]
      BY <2>3
    <3>2. r.id \in Int
      BY <1>2 DEF Dns!Record
    <3> DEFINE new == [f EXCEPT !.id = r.id]
    <3>3. new \in Dns!Record
      BY <1>3, <3>2
    <3> HIDE DEF new
    <3>4. IsFiniteSet((zone.records \ {r}) \cup {new})
      BY <1>2, FS_RemoveElement, FS_AddElement
    <3>5. zone' = [zone EXCEPT !.records = (zone.records \ {r}) \cup {new}]
      BY <3>1 DEF new
    <3>6. QED BY <1>2, <3>3, <3>4, <3>5
  <2>4. CASE \E f \in Foreign :
               zone' = [zone EXCEPT !.records = zone.records \cup {[f EXCEPT !.id = zone.fresh]}, !.fresh = zone.fresh + 1]
    <3>1. PICK f \in Foreign :
            zone' = [zone EXCEPT !.records = zone.records \cup {[f EXCEPT !.id = zone.fresh]}, !.fresh = zone.fresh + 1]
      BY <2>4
    <3> DEFINE new == [f EXCEPT !.id = zone.fresh]
    <3>2. new \in Dns!Record
      BY <1>2, <1>3
    <3> HIDE DEF new
    <3>3. IsFiniteSet(zone.records \cup {new})
      BY <1>2, FS_AddElement
    <3>4. zone' = [zone EXCEPT !.records = zone.records \cup {new}, !.fresh = zone.fresh + 1]
      BY <3>1 DEF new
    <3> DEFINE all == zone.records \cup {new}
               next == zone.fresh + 1
    <3>5. all \in SUBSET Dns!Record /\ IsFiniteSet(all) /\ next \in Int
      BY <1>2, <3>2, <3>3
    <3>6. zone' = [zone EXCEPT !.records = all, !.fresh = next]
      BY <3>4
    <3> HIDE DEF all, next
    <3>7. zone' = [status |-> zone.status, records |-> all, fresh |-> next]
      BY <1>2, <3>6
    <3>8. QED BY <3>5, <3>7
  <2>5. QED BY <2>1, <2>2, <2>3, <2>4 DEF Dns!ForeignEdit
<1>5. UNCHANGED <<dns, evidence>>
  BY DEF Dns!ForeignEdit
<1>6. DnsShape'
  BY <1>1, <1>4, <1>5 DEF DnsInv, DnsShape
<1>7. DnsTyped'
  BY <1>1, <1>2, <1>4, <1>5 DEF DnsInv, DnsTyped
<1>8. Seen' /\ Prepares'
  BY <1>1, <1>5 DEF DnsInv, Seen, Prepares
<1>9. dnsHist'.edits # 0
  BY <1>1, <1>2
<1>10. QED BY <1>6, <1>7, <1>8, <1>9 DEF DnsInv

LEMMA DnsStopsKeeps ==
  ASSUME DnsInv, Dns!DnsStops
  PROVE  DnsInv'
BY EndKeeps DEF Dns!DnsStops

LEMMA DnsKeeps == OperationsAssumption /\ DnsInv /\ [Next]_vars => DnsInv'
<1> SUFFICES ASSUME OperationsAssumption, DnsInv, [Next]_vars PROVE DnsInv'
  OBVIOUS
<1>1. CASE UNCHANGED dnsVars
  BY <1>1 DEF dnsVars, DnsInv, DnsShape, DnsTyped, Seen, Prepares, Alone
<1>2. CASE Dns!DnsNext
  BY <1>2, PlanCommandKeeps, FindZoneKeeps, ListRecordsKeeps, PrepareEvidenceKeeps, BoundaryIdentityKeeps,
     BoundaryRecordsKeeps, ApplyBatchKeeps, VerifyKeeps, ForeignEditKeeps, DnsStopsKeeps
     DEF Dns!DnsNext, Dns!DnsStep
<1>3. QED BY <1>1, <1>2, StepOfOne

LEMMA DnsGives == DnsInv => DnsIsHonest
<1> SUFFICES ASSUME DnsInv PROVE DnsIsHonest
  OBVIOUS
<1>1. Dns!VerifiedIsSeen
  BY DEF DnsInv, Seen, Dns!VerifiedIsSeen
<1>2. ASSUME dnsHist.command = 2, dns.pc = "returned", dnsHist.edits = 0, dnsHist.reached > 0
      PROVE  Dns!Restorable(dns.doc, zone.records) = dnsHist.before
  <2>1. dns.doc = evidence.manifest /\ evidence.manifest # Dns!NoDoc /\ Restoring(evidence.manifest)
    BY <1>2 DEF DnsInv, Prepares
  <2>2. Dns!BuildPlan(dns.doc, zone.records) = {} /\ evidence.manifest.records = dnsHist.before
    BY <1>2, <2>1 DEF DnsInv, Alone, DnsTyped
  <2>3. zone.records \in SUBSET Dns!Record /\ IsFiniteSet(zone.records)
    BY DEF DnsInv, DnsTyped
  <2>4. QED BY <2>1, <2>2, <2>3, NothingToRestore
<1>3. QED BY <1>1, <1>2 DEF DnsIsHonest, Dns!RollbackRestores

\* Whatever fails, stops or is edited by others: a receipt says VERIFIED only of what was seen,
\* and if nobody else edits, the rollback of a command gives back what it found.
THEOREM DnsStaysHonest == Spec => []DnsIsHonest
<1>1. Init => DnsInv
  BY DnsStarts, OperationsAssumption
<1>2. DnsInv /\ [Next]_vars => DnsInv'
  BY DnsKeeps, OperationsAssumption
<1>3. QED BY <1>1, <1>2, DnsGives, PTL DEF Spec

\* The provider's records have numbers of their own, up to the next one.
Numbered ==
  /\ \A r, s \in zone.records : r.id = s.id => r = s
  /\ \A r \in zone.records : r.id < zone.fresh

\* A command is of a manifest that loaded; up to its batch its plan is the one that was approved;
\* and at the batch the managed records are those the evidence was made of, unless somebody edited.
Approved ==
  /\ dns.pc \in DnsActive => Dns!Loaded(dns.doc)
  /\ dns.pc \in DnsWriting => Dns!Fingerprint(dns.doc, dns.status, Dns!Changes) = dns.approved
  /\ dns.pc = "batch" /\ ~dnsHist.dirty => Dns!Managed(dns.doc, zone.records) = Dns!Managed(dns.doc, dns.current)

GuardInv == Numbered /\ Approved

LEMMA GuardStarts == OperationsAssumption /\ Init => GuardInv
<1> SUFFICES ASSUME OperationsAssumption, Init PROVE GuardInv
  OBVIOUS
<1>1. zone = [status |-> "active", records |-> Zone, fresh |-> Cardinality(Zone) + 1] /\ dns = Dns!Idle
  BY SameFinite DEF Init, Dns!DnsInit
<1>2. /\ Cardinality(Zone) \in Nat
      /\ \A r \in Zone : r.id \in 1..Cardinality(Zone)
      /\ \A r, s \in Zone : r.id = s.id => r = s
  BY SameFinite, FS_CardinalityType DEF OperationsAssumption, Dns!DnsAssumption
<1>3. dns.pc = "idle"
  BY <1>1 DEF Dns!Idle
<1>4. \A r \in Zone : r.id < Cardinality(Zone) + 1
  BY <1>2
<1>5. QED BY <1>1, <1>2, <1>3, <1>4 DEF GuardInv, Numbered, Approved, DnsActive, DnsWriting

\* A command that goes on to a point other than the batch keeps what is known of it.
LEMMA GoApproves ==
  ASSUME DnsShape, Approved, NEW l, Dns!Go(l), l # "batch",
         l \in DnsActive => dns.pc \in DnsActive, l \in DnsWriting => dns.pc \in DnsWriting
  PROVE  Approved'
<1>1. dns'.pc = l /\ UNCHANGED <<dns.doc, dns.approved, dns.status, dns.current>>
  BY DnsGoes
<1>2. Dns!Changes' = Dns!Changes
  BY <1>1 DEF Dns!Changes
<1>3. QED BY <1>1, <1>2 DEF Approved

LEMMA PlanApproves == DnsShape /\ Approved /\ Dns!PlanCommand => Approved'
<1> SUFFICES ASSUME Dns!PlanCommand PROVE Approved'
  OBVIOUS
<1>1. PICK doc : /\ Dns!Loaded(doc)
                 /\ dns' = [Dns!Idle EXCEPT !.pc = "plan", !.doc = doc,
                            !.approved = Dns!Fingerprint(doc, zone.status, Dns!BuildPlan(doc, zone.records))]
  BY DEF Dns!PlanCommand
<1>2. dns'.pc = "plan" /\ dns'.doc = doc
  BY <1>1 DEF Dns!Idle
<1>3. QED BY <1>1, <1>2 DEF Approved, DnsWriting

LEMMA ReadsApprove ==
  ASSUME DnsShape, Approved, Dns!FindZone \/ Dns!ListRecords
  PROVE  Approved'
<1>1. dns = [pc |-> dns.pc, doc |-> dns.doc, approved |-> dns.approved, status |-> dns.status, current |-> dns.current]
  BY DEF DnsShape
<1>2. CASE Dns!DnsFail
  BY <1>2, GoApproves DEF Dns!DnsFail, DnsActive, DnsWriting
<1>3. CASE dns.pc = "plan" /\ dns' = [dns EXCEPT !.pc = "list", !.status = zone.status]
  <2>1. dns'.pc = "list" /\ dns'.doc = dns.doc
    BY <1>1, <1>3
  <2>2. QED BY <1>3, <2>1 DEF Approved, DnsActive, DnsWriting
<1>4. CASE /\ dns.pc = "list"
           /\ Dns!Fingerprint(dns.doc, dns.status, Dns!BuildPlan(dns.doc, zone.records)) = dns.approved
           /\ dns' = [dns EXCEPT !.current = zone.records,
                      !.pc = IF Dns!BuildPlan(dns.doc, zone.records) = {} THEN "verify" ELSE "evidence"]
  <2>1. /\ dns'.pc \in {"verify", "evidence"} /\ dns'.doc = dns.doc /\ dns'.current = zone.records
        /\ dns'.approved = dns.approved /\ dns'.status = dns.status
    BY <1>1, <1>4
  <2>2. Dns!Changes' = Dns!BuildPlan(dns.doc, zone.records)
    BY <2>1 DEF Dns!Changes
  <2>3. QED BY <1>4, <2>1, <2>2 DEF Approved, DnsActive
<1>5. QED BY <1>2, <1>3, <1>4 DEF Dns!FindZone, Dns!ListRecords

\* The last look at the zone before the batch.
LEMMA BoundaryApproves == DnsShape /\ Approved /\ Dns!BoundaryRecords => Approved'
<1> SUFFICES ASSUME DnsShape, Approved, Dns!BoundaryRecords PROVE Approved'
  OBVIOUS
<1>1. CASE Dns!DnsFail
  BY <1>1, GoApproves DEF Dns!DnsFail, DnsActive, DnsWriting
<1>2. CASE /\ Dns!ManagedSnapshot(dns.doc, zone.records) = Dns!ManagedSnapshot(dns.doc, dns.current)
           /\ dns.pc = "boundary" /\ Dns!Go("batch") /\ UNCHANGED zone
  <2>1. dns'.pc = "batch" /\ UNCHANGED <<dns.doc, dns.approved, dns.status, dns.current>>
    BY <1>2, DnsGoes
  <2>2. Dns!Changes' = Dns!Changes
    BY <2>1 DEF Dns!Changes
  <2>3. QED BY <1>2, <2>1, <2>2 DEF Approved, DnsActive, DnsWriting, Dns!ManagedSnapshot
<1>3. QED BY <1>1, <1>2 DEF Dns!BoundaryRecords

\* The change of a plan replaces a managed record, or puts a desired one into a managed record set.
LEMMA PlannedWithin ==
  ASSUME NEW doc, NEW current, NEW c \in Dns!BuildPlan(doc, current)
  PROVE  /\ c.before # <<>> => c.before \in Dns!Managed(doc, current)
         /\ c.action \in {"UPDATE", "CREATE"} => c.after \in doc.records /\ Dns!RecordSet(c.after) \in doc.managed
<1>1. PICK x \in doc.managed : c \in Dns!RecordSetChanges(doc, current, x)
  BY DEF Dns!BuildPlan
<1> DEFINE Key(r) == Dns!PlanningKey(r, doc.rollback)
           mine == {r \in current : Dns!RecordSet(r) = x}
           wanted == {r \in doc.records : Dns!RecordSet(r) = x}
           old == {r \in mine : \A s \in wanted : Key(r) # Key(s)}
           new == {s \in wanted : \A r \in mine : Key(r) # Key(s)}
           updates == {q \in old \X new : Dns!Rank(q[1], old) = Dns!Rank(q[2], new)}
           creates == {t \in new : Dns!Rank(t, new) >= Dns!Cardinality(old)}
           deletes == {t \in old : Dns!Rank(t, old) >= Dns!Cardinality(new)}
<1>2. c \in {Dns!Change("UPDATE", p[1], p[2]) : p \in updates}
           \cup {Dns!Change("CREATE", <<>>, s) : s \in creates}
           \cup {Dns!Change("DELETE", r, <<>>) : r \in deletes}
  BY <1>1 DEF Dns!RecordSetChanges
<1>3. old \subseteq Dns!Managed(doc, current) /\ \A s \in new : s \in doc.records /\ Dns!RecordSet(s) \in doc.managed
  BY <1>1 DEF Dns!Managed
<1> HIDE DEF old, new
<1>4. creates \subseteq new /\ deletes \subseteq old /\ \A p \in updates : p[1] \in old /\ p[2] \in new
  OBVIOUS
<1> HIDE DEF updates, creates, deletes
<1>5. QED BY <1>2, <1>3, <1>4 DEF Dns!Change

\* A record of a batch is an old one, or one with the number of an old one or a new number in the
\* record set of a desired one.
LEMMA BatchRecords ==
  ASSUME DnsTyped, Desired(dns.doc), NEW v \in Dns!Batched(Dns!Changes)
  PROVE  \/ v \in zone.records
         \/ /\ Dns!RecordSet(v) \in dns.doc.managed
            /\ \/ \E r \in zone.records : v.id = r.id
               \/ \E i \in 1..Len(Dns!Posts(Dns!Changes)) : v.id = zone.fresh + i
<1> DEFINE changes == Dns!Changes
           updated == UNION {{Dns!Patched(r, c.after) : r \in Dns!BatchTarget(c)} : c \in {d \in changes : d.action = "UPDATE"}}
           posts == Dns!Posts(changes)
           posted == {[posts[i] EXCEPT !.id = zone.fresh + i] : i \in DOMAIN posts}
<1>1. \A r \in Dns!Record, e \in Int :
        Dns!RecordSet([r EXCEPT !.id = e]) = Dns!RecordSet(r) /\ [r EXCEPT !.id = e].id = e
  BY DEF Dns!Record, Dns!RecordSet
<1>2. \A c \in changes : c.action \in {"UPDATE", "CREATE"} =>
        c.after \in dns.doc.records /\ Dns!RecordSet(c.after) \in dns.doc.managed
  BY PlannedWithin DEF Dns!Changes
<1>3. zone.records \in SUBSET Dns!Record /\ zone.fresh \in Int /\ dns.doc.records \in SUBSET Dns!Record
  BY DEF DnsTyped, Desired
<1>4. ASSUME v \in updated
      PROVE  Dns!RecordSet(v) \in dns.doc.managed /\ \E r \in zone.records : v.id = r.id
  <2>1. PICK c \in changes : c.action = "UPDATE" /\ v \in {Dns!Patched(r, c.after) : r \in Dns!BatchTarget(c)}
    BY <1>4
  <2>2. PICK r \in zone.records : v = Dns!Patched(r, c.after)
    BY <2>1 DEF Dns!BatchTarget
  <2>3. c.after \in Dns!Record /\ Dns!RecordSet(c.after) \in dns.doc.managed
    BY <1>2, <1>3, <2>1
  <2> DEFINE m == IF c.after.meta = 0 THEN r.meta ELSE c.after.meta
  <2>4. r.id \in Int /\ m \in Int
    BY <1>3, <2>3 DEF Dns!Record
  <2>5. v = [c.after EXCEPT !.id = r.id, !.meta = m]
    BY <2>2 DEF Dns!Patched
  <2> HIDE DEF m
  <2>6. v.id = r.id /\ Dns!RecordSet(v) = Dns!RecordSet(c.after)
    BY ONLY <2>3, <2>4, <2>5 DEF Dns!Record, Dns!RecordSet
  <2>7. QED BY <2>3, <2>6
<1>5. ASSUME v \in posted
      PROVE  /\ Dns!RecordSet(v) \in dns.doc.managed
             /\ \E i \in 1..Len(posts) : v.id = zone.fresh + i
  <2>1. PICK i \in DOMAIN posts : v = [posts[i] EXCEPT !.id = zone.fresh + i]
    BY <1>5
  <2>2. /\ DOMAIN posts = 1..Len(posts) /\ Len(posts) \in Nat
        /\ posts[i] \in {c.after : c \in {d \in changes : d.action = "CREATE"}}
    BY <2>1, BatchIsTyped DEF DnsTyped
  <2> HIDE DEF posts, changes
  <2>3. posts[i] \in Dns!Record /\ Dns!RecordSet(posts[i]) \in dns.doc.managed
    BY <1>2, <1>3, <2>2
  <2>4. zone.fresh + i \in Int
    BY <1>3, <2>2
  <2>5. QED BY <1>1, <2>1, <2>2, <2>3, <2>4
<1>6. v \in zone.records \cup updated \cup posted
  BY DEF Dns!Batched
<1>7. QED BY <1>4, <1>5, <1>6

\* Unless somebody edited, a batch leaves the records alone that are not managed.
LEMMA BatchLeavesOthers ==
  ASSUME DnsTyped, Desired(dns.doc), Numbered,
         Dns!Managed(dns.doc, zone.records) = Dns!Managed(dns.doc, dns.current)
  PROVE  zone.records \ Dns!Managed(dns.doc, zone.records)
           = Dns!Batched(Dns!Changes) \ Dns!Managed(dns.doc, Dns!Batched(Dns!Changes))
<1> DEFINE after == Dns!Batched(Dns!Changes)
           kept == zone.records \ UNION {Dns!BatchTarget(c) : c \in Dns!Changes}
<1>1. kept \subseteq after
  BY DEF Dns!Batched
<1>2. ASSUME NEW u \in zone.records, Dns!RecordSet(u) \notin dns.doc.managed PROVE u \in kept
  <2>1. ASSUME NEW c \in Dns!Changes, u \in Dns!BatchTarget(c) PROVE FALSE
    <3>1. c.before # <<>> /\ u.id = c.before.id
      BY <2>1 DEF Dns!BatchTarget
    <3>2. c.before \in Dns!Managed(dns.doc, zone.records)
      BY <2>1, <3>1, PlannedWithin DEF Dns!Changes
    <3>3. c.before \in zone.records /\ Dns!RecordSet(c.before) \in dns.doc.managed
      BY <3>2 DEF Dns!Managed
    <3>4. u = c.before
      BY <3>1, <3>3 DEF Numbered
    <3>5. QED BY <1>2, <3>3, <3>4
  <2>2. QED BY <2>1
<1>3. ASSUME NEW v \in after, Dns!RecordSet(v) \notin dns.doc.managed PROVE v \in zone.records
  BY <1>3, BatchRecords
<1> HIDE DEF after, kept
<1>4. \A u \in zone.records : Dns!RecordSet(u) \notin dns.doc.managed => u \in after
  BY <1>1, <1>2
<1>5. \A v : v \in Dns!Managed(dns.doc, after) <=> v \in after /\ Dns!RecordSet(v) \in dns.doc.managed
  BY DEF Dns!Managed
<1>6. \A v : v \in Dns!Managed(dns.doc, zone.records) <=> v \in zone.records /\ Dns!RecordSet(v) \in dns.doc.managed
  BY DEF Dns!Managed
<1>7. zone.records \ Dns!Managed(dns.doc, zone.records) = after \ Dns!Managed(dns.doc, after)
  BY <1>3, <1>4, <1>5, <1>6
<1>8. QED BY <1>7 DEF after

\* The rollback manifest loads if the records it states may be stated.
LEMMA RollbackLoads ==
  ASSUME NEW doc, NEW current \in SUBSET Dns!Record, Dns!Loaded(doc), Dns!Statable(doc, current)
  PROVE  Dns!LoadRollbackManifest(Dns!RollbackManifest(doc, current))
<1> DEFINE managed == Dns!Managed(doc, current)
           rollback == Dns!RollbackManifest(doc, current)
<1>1. /\ rollback.readable = TRUE /\ rollback.rollback = TRUE /\ rollback.template = FALSE
      /\ rollback.managed = doc.managed /\ rollback.records = {Dns!RestorePayload(r) : r \in managed}
  BY DEF Dns!RollbackManifest, Dns!Restorable
<1>2. doc.managed # {} /\ \A s \in doc.managed : s[1] \in Dns!SupportedTypes
  BY DEF Dns!Loaded, Dns!LoadManifest, Dns!LoadRollbackManifest
<1>3. /\ \A r \in managed : Dns!ValidRecord(r) /\ Dns!RecordSet(r) \in doc.managed
      /\ \A r, s \in managed : Dns!SemanticKey(r) = Dns!SemanticKey(s) => r = s
      /\ \A r \in managed : r.type = "MX" /\ r.content = 0 => r.priority = 0
      /\ Dns!ConsistentNames(managed) /\ managed \subseteq Dns!Record
  BY DEF Dns!Statable, Dns!ValidRecords, Dns!Managed
<1> HIDE DEF managed, rollback
<1>4. \A r \in Dns!Record :
        /\ Dns!RestorePayload(r).type = r.type /\ Dns!RestorePayload(r).name = r.name
        /\ Dns!RestorePayload(r).content = r.content /\ Dns!RestorePayload(r).ttl = r.ttl
        /\ Dns!RestorePayload(r).proxied = r.proxied /\ Dns!RestorePayload(r).priority = r.priority
        /\ Dns!SemanticKey(Dns!RestorePayload(r)) = Dns!SemanticKey(r)
  BY DEF Dns!Record, Dns!RestorePayload, Dns!SemanticKey
<1>5. ASSUME NEW p \in rollback.records PROVE \E r \in managed : p = Dns!RestorePayload(r)
  BY <1>1
<1>6. ASSUME NEW p \in rollback.records
      PROVE  Dns!ValidRecord(p) /\ Dns!RecordSet(p) \in rollback.managed
  <2>1. PICK r \in managed : p = Dns!RestorePayload(r)
    BY <1>5
  <2>2. Dns!ValidRecord(r) /\ Dns!RecordSet(r) \in doc.managed /\ r \in Dns!Record
    BY <1>3
  <2>3. /\ p.type = r.type /\ p.name = r.name /\ p.content = r.content
        /\ p.ttl = r.ttl /\ p.proxied = r.proxied /\ p.priority = r.priority
    BY <1>4, <2>1, <2>2
  <2>4. Dns!ValidRecord(p)
    BY ONLY <2>2, <2>3 DEF Dns!ValidRecord
  <2>5. Dns!RecordSet(p) = Dns!RecordSet(r)
    BY ONLY <2>3 DEF Dns!RecordSet
  <2>6. QED BY <1>1, <2>2, <2>4, <2>5
<1>7. \A p, q \in rollback.records : Dns!SemanticKey(p) = Dns!SemanticKey(q) => p = q
  BY <1>3, <1>4, <1>5
<1>8. \A p \in rollback.records : p.type = "MX" /\ p.content = 0 => p.priority = 0
  BY <1>3, <1>4, <1>5
<1>9. Dns!ConsistentNames(rollback.records)
  BY <1>3, <1>4, <1>5 DEF Dns!ConsistentNames
<1>10. QED BY <1>1, <1>2, <1>6, <1>7, <1>8, <1>9 DEF Dns!LoadRollbackManifest, Dns!ValidRecords, rollback

\* A batch keeps the numbers.
LEMMA BatchNumbers ==
  ASSUME DnsTyped, DnsShape, Desired(dns.doc), Numbered, Dns!BatchAccepted(Dns!Changes),
         zone' = [zone EXCEPT !.records = Dns!Batched(Dns!Changes), !.fresh = zone.fresh + Len(Dns!Posts(Dns!Changes)) + 1]
  PROVE  Numbered'
<1> DEFINE n == Len(Dns!Posts(Dns!Changes))
           after == Dns!Batched(Dns!Changes)
<1>1. zone.records \in SUBSET Dns!Record /\ zone.fresh \in Int /\ n \in Nat
  BY BatchIsTyped DEF DnsTyped
<1>2. zone = [status |-> zone.status, records |-> zone.records, fresh |-> zone.fresh]
  BY DEF DnsShape
<1>3. \A v \in after : \/ v \in zone.records
                       \/ \E r \in zone.records : v.id = r.id
                       \/ \E i \in 1..n : v.id = zone.fresh + i
  BY BatchRecords
<1>4. \A r, s \in after : r.id = s.id => r = s
  BY DEF Dns!BatchAccepted
<1> HIDE DEF n, after
<1>5. zone' = [zone EXCEPT !.records = after, !.fresh = zone.fresh + n + 1]
  BY DEF n, after
<1>6. zone'.records = after /\ zone'.fresh = zone.fresh + n + 1
  BY <1>2, <1>5
<1>7. \A r \in zone.records : r.id \in Int /\ r.id < zone.fresh + n + 1
  BY <1>1 DEF Numbered, Dns!Record
<1>8. \A i \in 1..n : zone.fresh + i < zone.fresh + n + 1
  BY <1>1
<1>9. \A v \in after : v.id < zone.fresh + n + 1
  BY <1>3, <1>7, <1>8
<1>10. QED BY <1>4, <1>6, <1>9 DEF Numbered

\* Others give a record its number, or the next one.
LEMMA EditNumbers ==
  ASSUME OperationsAssumption, DnsTyped, DnsShape, Numbered, Dns!ForeignEdit
  PROVE  Numbered'
<1>1. /\ zone = [status |-> zone.status, records |-> zone.records, fresh |-> zone.fresh]
      /\ zone.records \in SUBSET Dns!Record /\ zone.fresh \in Int /\ \A r \in zone.records : r.id \in Int
  BY DEF DnsShape, DnsTyped, Dns!Record
<1>2. \A f \in Foreign, e \in Int : [f EXCEPT !.id = e].id = e
  BY DEF OperationsAssumption, Dns!DnsAssumption, Dns!Record
<1>3. CASE \E s \in {"active", "pending", "moved"} : zone' = [zone EXCEPT !.status = s]
  <2>1. zone'.records = zone.records /\ zone'.fresh = zone.fresh
    BY <1>1, <1>3
  <2>2. QED BY <2>1 DEF Numbered
<1>4. CASE \E r \in zone.records : zone' = [zone EXCEPT !.records = zone.records \ {r}]
  <2>1. zone'.records \subseteq zone.records /\ zone'.fresh = zone.fresh
    BY <1>1, <1>4
  <2>2. QED BY <2>1 DEF Numbered
<1>5. CASE \E r \in zone.records, f \in Foreign :
             zone' = [zone EXCEPT !.records = (zone.records \ {r}) \cup {[f EXCEPT !.id = r.id]}]
  <2>1. PICK r \in zone.records, f \in Foreign :
          zone' = [zone EXCEPT !.records = (zone.records \ {r}) \cup {[f EXCEPT !.id = r.id]}]
    BY <1>5
  <2>2. zone'.records = (zone.records \ {r}) \cup {[f EXCEPT !.id = r.id]} /\ zone'.fresh = zone.fresh
    BY <1>1, <2>1
  <2>3. [f EXCEPT !.id = r.id].id = r.id
    BY <1>1, <1>2
  <2> DEFINE new == [f EXCEPT !.id = r.id]
  <2> HIDE DEF new
  <2>4. zone'.records = (zone.records \ {r}) \cup {new} /\ new.id = r.id
    BY <2>2, <2>3 DEF new
  <2>5. \A s \in zone.records \ {r} : s.id # r.id
    BY DEF Numbered
  <2>6. \A s, t \in zone'.records : s.id = t.id => s = t
    BY <2>4, <2>5 DEF Numbered
  <2>7. QED BY <2>2, <2>4, <2>6 DEF Numbered
<1>6. CASE \E f \in Foreign :
             zone' = [zone EXCEPT !.records = zone.records \cup {[f EXCEPT !.id = zone.fresh]}, !.fresh = zone.fresh + 1]
  <2>1. PICK f \in Foreign :
          zone' = [zone EXCEPT !.records = zone.records \cup {[f EXCEPT !.id = zone.fresh]}, !.fresh = zone.fresh + 1]
    BY <1>6
  <2> DEFINE new == [f EXCEPT !.id = zone.fresh]
             next == zone.fresh + 1
  <2>2. new.id = zone.fresh /\ next = zone.fresh + 1
    BY <1>1, <1>2
  <2>3. zone' = [zone EXCEPT !.records = zone.records \cup {new}, !.fresh = next]
    BY <2>1
  <2> HIDE DEF new, next
  <2>4. zone'.records = zone.records \cup {new} /\ zone'.fresh = next
    BY <1>1, <2>3
  <2>5. \A s \in zone.records : s.id # zone.fresh /\ s.id < next
    BY <1>1, <2>2 DEF Numbered
  <2>6. zone.fresh < next
    BY <1>1, <2>2
  <2>7. \A s, t \in zone'.records : s.id = t.id => s = t
    BY <2>2, <2>4, <2>5 DEF Numbered
  <2>8. QED BY <2>2, <2>4, <2>5, <2>6, <2>7 DEF Numbered
<1>7. QED BY <1>3, <1>4, <1>5, <1>6 DEF Dns!ForeignEdit

LEMMA GuardKeeps ==
  ASSUME OperationsAssumption, DnsInv, GuardInv, [Next]_vars
  PROVE  GuardInv'
<1>1. DnsShape /\ DnsTyped /\ Numbered /\ Approved
  BY DEF DnsInv, GuardInv
<1>2. CASE UNCHANGED dnsVars
  BY <1>2 DEF dnsVars, GuardInv, Numbered, Approved, Dns!Changes
<1>3. CASE Dns!PlanCommand
  BY <1>1, <1>3, PlanApproves DEF Dns!PlanCommand, GuardInv, Numbered
<1>4. CASE Dns!FindZone \/ Dns!ListRecords
  BY <1>1, <1>4, ReadsApprove DEF Dns!FindZone, Dns!ListRecords, Dns!DnsFail, GuardInv, Numbered
<1>5. CASE Dns!BoundaryRecords
  BY <1>1, <1>5, BoundaryApproves DEF Dns!BoundaryRecords, Dns!DnsFail, GuardInv, Numbered
<1>6. CASE Dns!PrepareEvidence \/ Dns!BoundaryIdentity \/ Dns!DnsStops
  <2>1. UNCHANGED zone
    BY <1>6 DEF Dns!PrepareEvidence, Dns!BoundaryIdentity, Dns!DnsStops, Dns!DnsFail
  <2>2. \E l : /\ Dns!Go(l) /\ l # "batch"
               /\ l \in DnsActive => dns.pc \in DnsActive
               /\ l \in DnsWriting => dns.pc \in DnsWriting
    BY <1>6 DEF Dns!PrepareEvidence, Dns!BoundaryIdentity, Dns!DnsStops, Dns!DnsFail, DnsActive, DnsWriting
  <2>3. QED BY <1>1, <2>1, <2>2, GoApproves DEF GuardInv, Numbered
<1>7. CASE Dns!Verify
  <2>1. \E l \in {"returned", "raised"} : Dns!Go(l)
    BY <1>7 DEF Dns!Verify
  <2>2. UNCHANGED zone
    BY <1>7 DEF Dns!Verify
  <2>3. QED BY <1>1, <2>1, <2>2, GoApproves DEF GuardInv, Numbered, DnsActive, DnsWriting
<1>8. CASE Dns!ApplyBatch
  <2>1. dns.pc = "batch" /\ Desired(dns.doc)
    BY <1>1, <1>8 DEF Dns!ApplyBatch, DnsTyped, DnsActive
  <2>2. \E l \in {"verify", "raised"} : Dns!Go(l)
    BY <1>8 DEF Dns!ApplyBatch
  <2>3. Approved'
    BY <1>1, <2>1, <2>2, GoApproves DEF DnsActive, DnsWriting
  <2>4. CASE UNCHANGED zone
    BY <1>1, <2>3, <2>4 DEF GuardInv, Numbered
  <2>5. CASE ~UNCHANGED zone
    <3>1. /\ Dns!BatchAccepted(Dns!Changes)
          /\ zone' = [zone EXCEPT !.records = Dns!Batched(Dns!Changes), !.fresh = zone.fresh + Len(Dns!Posts(Dns!Changes)) + 1]
      BY <1>8, <2>5 DEF Dns!ApplyBatch
    <3>2. QED BY <1>1, <2>1, <2>3, <3>1, BatchNumbers DEF GuardInv
  <2>6. QED BY <2>4, <2>5
<1>9. CASE Dns!ForeignEdit
  <2>1. dns' = dns /\ dnsHist' = [dnsHist EXCEPT !.edits = dnsHist.edits + 1, !.dirty = TRUE]
    BY <1>9 DEF Dns!ForeignEdit
  <2>2. dnsHist'.dirty = TRUE
    <3>1. dnsHist = [edits |-> dnsHist.edits, dirty |-> dnsHist.dirty, before |-> dnsHist.before,
                     seen |-> dnsHist.seen, reached |-> dnsHist.reached, command |-> dnsHist.command]
      BY <1>1 DEF DnsShape
    <3>2. QED BY <2>1, <3>1
  <2>3. Approved'
    BY <1>1, <2>1, <2>2 DEF Approved, Dns!Changes
  <2>4. QED BY <1>1, <1>9, <2>3, EditNumbers DEF GuardInv
<1>10. CASE Dns!DnsNext
  BY <1>3, <1>4, <1>5, <1>6, <1>7, <1>8, <1>9, <1>10 DEF Dns!DnsNext, Dns!DnsStep
<1>11. QED BY <1>2, <1>10, StepOfOne

\* Only a batch reaches the zone.
LEMMA OnlyBatchReaches ==
  ASSUME DnsInv, Dns!DnsNext, dnsHist'.reached > dnsHist.reached
  PROVE  Dns!ApplyBatch
<1>1. /\ dnsHist = [edits |-> dnsHist.edits, dirty |-> dnsHist.dirty, before |-> dnsHist.before,
                    seen |-> dnsHist.seen, reached |-> dnsHist.reached, command |-> dnsHist.command]
      /\ dnsHist.reached \in Nat
  BY DEF DnsInv, DnsShape, DnsTyped
<1>2. ~UNCHANGED dnsHist
  BY <1>1
<1>3. ASSUME NEW e, dnsHist' = [dnsHist EXCEPT !.edits = e, !.dirty = TRUE] PROVE FALSE
  <2>1. dnsHist'.reached = dnsHist.reached
    BY <1>1, <1>3
  <2>2. QED BY <1>1, <2>1
<1>4. ASSUME NEW e, dnsHist' = [dnsHist EXCEPT !.seen = e] PROVE FALSE
  <2>1. dnsHist'.reached = dnsHist.reached
    BY <1>1, <1>4
  <2>2. QED BY <1>1, <2>1
<1>5. ASSUME NEW e, dnsHist' = [dnsHist EXCEPT !.command = e, !.seen = FALSE] PROVE FALSE
  <2>1. dnsHist'.reached = dnsHist.reached
    BY <1>1, <1>5
  <2>2. QED BY <1>1, <2>1
<1>6. ASSUME dnsHist' = [dnsHist EXCEPT !.dirty = FALSE] PROVE FALSE
  <2>1. dnsHist'.reached = dnsHist.reached
    BY <1>1, <1>6
  <2>2. QED BY <1>1, <2>1
<1>7. ~Dns!ForeignEdit /\ ~Dns!Verify /\ ~Dns!PlanCommand
  BY <1>2, <1>3, <1>4, <1>5 DEF Dns!ForeignEdit, Dns!Verify, Dns!PlanCommand
<1>8. ~Dns!BoundaryRecords
  BY <1>2, <1>6 DEF Dns!BoundaryRecords, Dns!DnsFail
<1>9. ~Dns!FindZone /\ ~Dns!ListRecords /\ ~Dns!PrepareEvidence /\ ~Dns!BoundaryIdentity /\ ~Dns!DnsStops
  BY <1>2 DEF Dns!FindZone, Dns!ListRecords, Dns!PrepareEvidence, Dns!BoundaryIdentity, Dns!DnsStops, Dns!DnsFail
<1>10. QED BY <1>7, <1>8, <1>9 DEF Dns!DnsNext, Dns!DnsStep

\* What a batch that reaches the zone was guarded by.
Guarded ==
  /\ Dns!Fingerprint(dns.doc, dns.status, Dns!Changes) = dns.approved
  /\ dnsHist.command = 1 /\ Dns!Statable(dns.doc, dns.current) => Dns!LoadRollbackManifest(evidence.manifest)
  /\ ~dnsHist.dirty =>
       /\ dnsHist.command = 1 => evidence.manifest.records = Dns!Restorable(dns.doc, zone.records)
       /\ zone.records \ Dns!Managed(dns.doc, zone.records) = zone'.records \ Dns!Managed(dns.doc, zone'.records)

LEMMA BatchIsGuarded ==
  ASSUME DnsInv, GuardInv, Dns!ApplyBatch, dnsHist'.reached > dnsHist.reached
  PROVE  Guarded
<1>1. /\ dns.pc = "batch" /\ DnsTyped /\ DnsShape /\ Numbered /\ Approved /\ Desired(dns.doc)
      /\ Dns!Loaded(dns.doc) /\ dns.current \in SUBSET Dns!Record
  BY DEF Dns!ApplyBatch, DnsInv, DnsTyped, GuardInv, Approved, DnsActive
<1>2. Dns!Fingerprint(dns.doc, dns.status, Dns!Changes) = dns.approved
  BY <1>1 DEF Approved, DnsWriting
<1>3. dnsHist.command = 1 => evidence.manifest = Dns!RollbackManifest(dns.doc, dns.current)
  BY <1>1 DEF DnsInv, Prepares
<1>4. dnsHist.command = 1 /\ Dns!Statable(dns.doc, dns.current) => Dns!LoadRollbackManifest(evidence.manifest)
  BY <1>1, <1>3, RollbackLoads
<1>5. zone'.records = Dns!Batched(Dns!Changes)
  <2>1. ~UNCHANGED dnsHist
    BY DEF DnsInv, DnsTyped
  <2>2. zone' = [zone EXCEPT !.records = Dns!Batched(Dns!Changes), !.fresh = zone.fresh + Len(Dns!Posts(Dns!Changes)) + 1]
    BY <2>1 DEF Dns!ApplyBatch
  <2>3. zone = [status |-> zone.status, records |-> zone.records, fresh |-> zone.fresh]
    BY <1>1 DEF DnsShape
  <2>4. QED BY <2>2, <2>3
<1>6. ASSUME ~dnsHist.dirty
      PROVE  /\ dnsHist.command = 1 => evidence.manifest.records = Dns!Restorable(dns.doc, zone.records)
             /\ zone.records \ Dns!Managed(dns.doc, zone.records) = zone'.records \ Dns!Managed(dns.doc, zone'.records)
  <2>1. Dns!Managed(dns.doc, zone.records) = Dns!Managed(dns.doc, dns.current)
    BY <1>1, <1>6 DEF Approved
  <2>2. Dns!Restorable(dns.doc, zone.records) = Dns!Restorable(dns.doc, dns.current)
    BY <2>1 DEF Dns!Restorable
  <2>3. dnsHist.command = 1 => evidence.manifest.records = Dns!Restorable(dns.doc, dns.current)
    BY <1>3 DEF Dns!RollbackManifest
  <2>4. QED BY <1>1, <1>5, <2>1, <2>2, <2>3, BatchLeavesOthers
<1>7. QED BY <1>2, <1>4, <1>6 DEF Guarded

LEMMA GuardStep ==
  ASSUME DnsInv, GuardInv, [Next]_vars
  PROVE  [dnsHist'.reached > dnsHist.reached => Guarded]_dnsVars
<1>1. CASE UNCHANGED dnsVars
  BY <1>1 DEF dnsVars
<1>2. CASE Dns!DnsNext
  BY <1>2, OnlyBatchReaches, BatchIsGuarded
<1>3. QED BY <1>1, <1>2, StepOfOne

\* A batch of cloudflare_dns that reaches the zone is of the plan that was approved; the rollback
\* manifest of its evidence loads, if a manifest may state the managed records at all; and unless
\* somebody edited the zone after the last look at it, the evidence holds every managed record and
\* the batch leaves the others alone: whatever fails, stops or is edited, for all zones, manifests
\* and edits.
THEOREM WritesAreGuarded == Spec => WriteIsGuarded
<1>1. Init => DnsInv /\ GuardInv
  BY DnsStarts, GuardStarts, OperationsAssumption
<1>2. DnsInv /\ GuardInv /\ [Next]_vars => (DnsInv /\ GuardInv)'
  BY DnsKeeps, GuardKeeps, OperationsAssumption
<1>3. DnsInv /\ GuardInv /\ [Next]_vars => [dnsHist'.reached > dnsHist.reached => Guarded]_dnsVars
  BY GuardStep
<1>4. [][dnsHist'.reached > dnsHist.reached => Guarded]_dnsVars => WriteIsGuarded
  BY PTL DEF WriteIsGuarded, Dns!WriteIsGuarded, Guarded, dnsVars, Dns!dnsVars
<1>5. QED BY <1>1, <1>2, <1>3, <1>4, PTL DEF Spec

-----------------------------------------------------------------------------
\* voice.

VoiceFields == {"state", "session", "intent", "input", "heard", "tts", "output", "exhausted", "speaker", "replayed"}
MainFields == {"pc", "live", "preroll", "seen", "ended", "stale"}
WorkerFields == {"pc", "kind", "result"}
HasFields(r, fields) == r = [f \in fields |-> r[f]]

AudioFrame == [speech : BOOLEAN, end : BOOLEAN, moment : {"answer", "tail", "quiet"}]
VoiceStates == {"idle", "listening", "interrupted", "processing", "speaking", "cancelled"}

\* Frames of which none was recorded during an answer; and those of one turn, which an endpoint
\* ends unless it fell into the n frames that were replayed.
OutsideAnswer(s) == s \in Seq(AudioFrame) /\ \A i \in 1..Len(s) : s[i].moment # "answer"
OfOneTurn(s, n) == OutsideAnswer(s) /\ n \in Nat /\ \A i \in 1..Len(s) : s[i].end => i = Len(s) \/ i < n

\* A runtime that has heard one turn, and has nothing to say unless it speaks.
VoiceSound(v) ==
  /\ HasFields(v, VoiceFields)
  /\ v.state \in VoiceStates /\ v.exhausted \in BOOLEAN /\ OfOneTurn(v.heard, v.replayed)
  /\ v.state # "speaking" => v.output = 0 /\ v.tts = 0 /\ ~v.exhausted
  /\ v.state \in {"interrupted", "cancelled"} => v.speaker = 0

\* The states a turn can be in at each point of the main thread.
TurnAt ==
  [l \in {"opening", "capture", "process", "barge", "join", "begin", "speak", "closed"} |->
     IF l = "opening" THEN {"idle"}
     ELSE IF l = "capture" THEN {"idle", "listening", "interrupted", "processing"}
     ELSE IF l = "process" THEN {"processing", "interrupted"}
     ELSE IF l \in {"barge", "begin"} THEN {"processing"}
     ELSE IF l = "speak" THEN {"speaking", "idle"}
     ELSE IF l = "join" THEN VoiceStates \ {"speaking"} ELSE VoiceStates]

MainTyped ==
  /\ HasFields(main, MainFields)
  /\ main.pc \in DOMAIN TurnAt /\ OutsideAnswer(main.preroll)
  /\ main.ended \in BOOLEAN /\ main.stale \in BOOLEAN
  /\ main.pc = "barge" => Len(main.preroll) = 1

\* While an answer is computed, the pump knows whether the barge-in has ended; an answer that
\* was talked over is stale, and none that is stale is begun or spoken.
TurnInv ==
  /\ voice.state \in TurnAt[main.pc]
  /\ main.pc = "process" /\ voice.state = "interrupted" => (main.ended <=> Voice!EndpointDetected(voice))
  /\ (main.pc = "process" /\ voice.state = "processing") \/ main.pc = "begin" \/ voice.state = "speaking" => ~main.stale

\* Outside process the worker is at rest, and cancelled only in a session that is closed.
WorkerInv ==
  /\ HasFields(worker, WorkerFields)
  /\ main.pc \notin {"process", "barge", "join"} => worker.pc \in {"none", "done"}
  /\ main.pc \in {"opening", "capture", "begin", "speak"} => worker.result # "cancelled"
  /\ main.pc = "closed" /\ worker.result = "cancelled" => voice.state = "cancelled" /\ voice.session = "cancelled"

VoiceInv ==
  /\ VoiceSound(voice) /\ MainTyped /\ TurnInv /\ WorkerInv
  /\ mic \in Seq(AudioFrame) /\ (main.pc \notin {"begin", "speak"} => OutsideAnswer(mic))

LEMMA NothingHeard == OutsideAnswer(<<>>) /\ OfOneTurn(<<>>, 0) /\ <<>> \in Seq(AudioFrame)
BY DEF OutsideAnswer, OfOneTurn

LEMMA VoiceStarts == Init => VoiceInv
<1> SUFFICES ASSUME Init PROVE VoiceInv
  OBVIOUS
<1>1. Voice!VoiceInit
  BY DEF Init
<1>2. VoiceSound(voice) /\ voice.state = "idle"
  BY <1>1, NothingHeard DEF Voice!VoiceInit, VoiceSound, VoiceStates, HasFields, VoiceFields
<1>3. MainTyped /\ main.pc = "opening"
  BY <1>1, NothingHeard DEF Voice!VoiceInit, MainTyped, TurnAt, HasFields, MainFields
<1>4. TurnInv
  BY <1>2, <1>3 DEF TurnInv, TurnAt
<1>5. WorkerInv
  BY <1>1, <1>3 DEF Voice!VoiceInit, WorkerInv, HasFields, WorkerFields
<1>6. QED BY <1>1, <1>2, <1>3, <1>4, <1>5, NothingHeard DEF Voice!VoiceInit, VoiceInv

\* Frames that are added to, or read from, frames the speaker did not play.
LEMMA OutsideAnswerAppend ==
  ASSUME NEW s, OutsideAnswer(s), NEW f \in AudioFrame, f.moment # "answer"
  PROVE  /\ OutsideAnswer(Append(s, f)) /\ Append(s, f) # <<>> /\ Len(Append(s, f)) = Len(s) + 1
         /\ Append(s, f)[Len(s) + 1] = f
         /\ \A i \in 1..Len(s) : Append(s, f)[i] = s[i]
<1>1. s \in Seq(AudioFrame) /\ Len(s) \in Nat
  BY DEF OutsideAnswer
<1>2. /\ Append(s, f) \in Seq(AudioFrame) /\ Append(s, f) # <<>> /\ Len(Append(s, f)) = Len(s) + 1
      /\ \A i \in 1..Len(s) : Append(s, f)[i] = s[i]
      /\ Append(s, f)[Len(s) + 1] = f
  BY <1>1, AppendProperties
<1>3. \A i \in 1..(Len(s) + 1) : i \in 1..Len(s) \/ i = Len(s) + 1
  BY <1>1
<1>4. \A i \in 1..(Len(s) + 1) : Append(s, f)[i].moment # "answer"
  BY <1>2, <1>3 DEF OutsideAnswer
<1>5. QED BY <1>2, <1>4 DEF OutsideAnswer

LEMMA OutsideAnswerTail ==
  ASSUME NEW s, OutsideAnswer(s), s # <<>>
  PROVE  OutsideAnswer(Tail(s)) /\ Head(s) \in AudioFrame /\ Head(s).moment # "answer"
<1>1. s \in Seq(AudioFrame) /\ Len(s) \in Nat
  BY DEF OutsideAnswer
<1>2. /\ Head(s) \in AudioFrame /\ Tail(s) \in Seq(AudioFrame) /\ Len(Tail(s)) = Len(s) - 1
      /\ \A i \in 1..Len(Tail(s)) : Tail(s)[i] = s[i + 1]
  BY <1>1, HeadTailProperties
<1>3. Len(s) >= 1 /\ Head(s) = s[1]
  BY <1>1, EmptySeq
<1>4. \A i \in 1..Len(Tail(s)) : i + 1 \in 1..Len(s)
  BY <1>1, <1>2
<1>5. QED BY <1>1, <1>2, <1>3, <1>4 DEF OutsideAnswer

LEMMA OutsideAnswerLast ==
  ASSUME NEW s, OutsideAnswer(s), s # <<>>, NEW n \in {1, 2}
  PROVE  OutsideAnswer(SubSeq(s, n, Len(s)))
<1>1. s \in Seq(AudioFrame) /\ Len(s) \in Nat /\ Len(s) >= 1
  BY EmptySeq DEF OutsideAnswer
<1> DEFINE last == SubSeq(s, n, Len(s))
<1>2. /\ last \in Seq(AudioFrame) /\ Len(last) = Len(s) - n + 1
      /\ \A i \in 1..(Len(s) - n + 1) : last[i] = s[n + i - 1]
  <2>1. n \in 1..(Len(s) + 1) /\ Len(s) \in (n - 1)..Len(s)
    BY <1>1
  <2>2. QED BY <1>1, <2>1, SubSeqProperties
<1> HIDE DEF last
<1>3. \A i \in 1..(Len(s) - n + 1) : n + i - 1 \in 1..Len(s)
  BY <1>1
<1>4. \A i \in 1..Len(last) : last[i].moment # "answer"
  BY <1>2, <1>3 DEF OutsideAnswer
<1>5. QED BY <1>2, <1>4 DEF OutsideAnswer, last

-----------------------------------------------------------------------------
\* What the operations of the runtime leave of one that is sound.
LEMMA FlushedIsSound ==
  ASSUME NEW v, VoiceSound(v)
  PROVE  /\ VoiceSound(Voice!Flushed(v)) /\ Voice!Flushed(v).heard = <<>> /\ Voice!Flushed(v).replayed = 0
         /\ Voice!Flushed(v).state = v.state /\ Voice!Flushed(v).speaker = 0
         /\ Voice!Flushed(v).output = 0 /\ Voice!Flushed(v).tts = 0 /\ ~Voice!Flushed(v).exhausted
<1> DEFINE w == Voice!Flushed(v)
<1>1. HasFields(v, VoiceFields)
  BY DEF VoiceSound
<1>2. HasFields(w, VoiceFields)
  BY <1>1 DEF HasFields, Voice!Flushed
<1>3. /\ w.state = v.state /\ w.heard = <<>> /\ w.replayed = 0 /\ w.speaker = 0 /\ w.output = 0 /\ w.tts = 0
      /\ w.exhausted = FALSE
  BY <1>1 DEF HasFields, VoiceFields, Voice!Flushed
<1> HIDE DEF w
<1>4. VoiceSound(w)
  BY <1>2, <1>3, NothingHeard DEF VoiceSound
<1>5. QED BY <1>3, <1>4 DEF w

LEMMA InterruptedIsSound ==
  ASSUME NEW v, VoiceSound(v), NEW b
  PROVE  /\ VoiceSound(Voice!Interrupted(v, b)) /\ Voice!Interrupted(v, b).heard = <<>>
         /\ Voice!Interrupted(v, b).replayed = 0 /\ Voice!Interrupted(v, b).state = "interrupted"
<1> DEFINE w == Voice!Flushed(v)
<1>1. VoiceSound(w) /\ w.heard = <<>> /\ w.replayed = 0 /\ w.speaker = 0 /\ w.output = 0 /\ w.tts = 0 /\ ~w.exhausted
  BY FlushedIsSound
<1> HIDE DEF w
<1>2. PICK x : Voice!Interrupted(v, b) = [w EXCEPT !.session = x, !.state = "interrupted"]
  BY DEF Voice!Interrupted, w
<1> DEFINE u == [w EXCEPT !.session = x, !.state = "interrupted"]
<1>3. HasFields(u, VoiceFields) /\ u.state = "interrupted" /\ u.heard = w.heard /\ u.replayed = w.replayed /\ u.speaker = w.speaker
      /\ u.output = w.output /\ u.tts = w.tts /\ u.exhausted = w.exhausted
  BY <1>1 DEF VoiceSound, HasFields, VoiceFields
<1> HIDE DEF u
<1>4. VoiceSound(u) /\ u.heard = <<>> /\ u.replayed = 0 /\ u.state = "interrupted"
  BY <1>1, <1>3 DEF VoiceSound, VoiceStates
<1>5. QED BY <1>2, <1>4 DEF u

LEMMA CancelIsSound ==
  ASSUME NEW v, VoiceSound(v)
  PROVE  /\ VoiceSound(Voice!CancelVoice(v))
         /\ Voice!CancelVoice(v).state = "cancelled" /\ Voice!CancelVoice(v).session = "cancelled"
<1> DEFINE w == Voice!Flushed(v)
<1>1. VoiceSound(w) /\ w.speaker = 0 /\ w.output = 0 /\ w.tts = 0 /\ ~w.exhausted
  BY FlushedIsSound
<1> HIDE DEF w
<1>2. Voice!CancelVoice(v) = [w EXCEPT !.session = "cancelled", !.intent = FALSE, !.state = "cancelled"]
  BY DEF Voice!CancelVoice, w
<1> DEFINE u == [w EXCEPT !.session = "cancelled", !.intent = FALSE, !.state = "cancelled"]
<1>3. HasFields(u, VoiceFields) /\ u.state = "cancelled" /\ u.session = "cancelled" /\ u.heard = w.heard /\ u.replayed = w.replayed
      /\ u.speaker = w.speaker /\ u.output = w.output /\ u.tts = w.tts /\ u.exhausted = w.exhausted
  BY <1>1 DEF VoiceSound, HasFields, VoiceFields
<1> HIDE DEF u
<1>4. VoiceSound(u) /\ u.session = "cancelled" /\ u.state = "cancelled"
  BY <1>1, <1>3 DEF VoiceSound, VoiceStates
<1>5. QED BY <1>2, <1>4 DEF u

\* A turn that has not ended takes one more frame.
LEMMA BufferedIsSound ==
  ASSUME NEW v, VoiceSound(v), ~Voice!EndpointDetected(v), NEW f \in AudioFrame, f.moment # "answer"
  PROVE  VoiceSound(Voice!Buffered(v, f)) /\ Voice!Buffered(v, f).state = v.state
<1> DEFINE s == Append(v.heard, f)
<1>1. OfOneTurn(v.heard, v.replayed) /\ OutsideAnswer(v.heard) /\ Len(v.heard) \in Nat
  BY DEF VoiceSound, OfOneTurn, OutsideAnswer
<1>2. \A i \in 1..Len(v.heard) : v.heard[i].end => i < v.replayed
  BY <1>1, EmptySeq DEF OfOneTurn, Voice!EndpointDetected
<1>3. /\ OutsideAnswer(s) /\ Len(s) = Len(v.heard) + 1 /\ \A i \in 1..Len(v.heard) : s[i] = v.heard[i]
  BY <1>1, OutsideAnswerAppend
<1> HIDE DEF s
<1>4. OfOneTurn(s, v.replayed)
  BY <1>1, <1>2, <1>3 DEF OfOneTurn
<1>5. Voice!Buffered(v, f) = [v EXCEPT !.input = @ + 1, !.heard = s]
  BY DEF Voice!Buffered, s
<1> DEFINE w == [v EXCEPT !.input = @ + 1, !.heard = s]
<1>6. HasFields(w, VoiceFields) /\ w.heard = s /\ w.replayed = v.replayed /\ w.state = v.state /\ w.speaker = v.speaker
      /\ w.output = v.output /\ w.tts = v.tts /\ w.exhausted = v.exhausted
  BY DEF VoiceSound, HasFields, VoiceFields
<1> HIDE DEF w
<1>7. VoiceSound(w) /\ w.state = v.state
  BY <1>4, <1>6 DEF VoiceSound
<1>8. QED BY <1>5, <1>7 DEF w

LEMMA FinishIsSound ==
  ASSUME NEW v, VoiceSound(v), v.state # "speaking", NEW text \in BOOLEAN
  PROVE  /\ VoiceSound(Voice!FinishUtterance(v, text))
         /\ Voice!FinishUtterance(v, text).state = IF text THEN "processing" ELSE "idle"
<1> DEFINE x == IF v.session = "interrupted" THEN "active" ELSE v.session
           l == IF text THEN "processing" ELSE "idle"
<1>1. Voice!FinishUtterance(v, text) = [v EXCEPT !.input = 0, !.session = x, !.state = l] /\ l \in {"processing", "idle"}
  BY DEF Voice!FinishUtterance
<1> HIDE DEF x, l
<1> DEFINE w == [v EXCEPT !.input = 0, !.session = x, !.state = l]
<1>2. HasFields(w, VoiceFields) /\ w.state = l /\ w.heard = v.heard /\ w.replayed = v.replayed /\ w.speaker = v.speaker
      /\ w.output = v.output /\ w.tts = v.tts /\ w.exhausted = v.exhausted
  BY DEF VoiceSound, HasFields, VoiceFields
<1> HIDE DEF w
<1>3. VoiceSound(w)
  BY <1>1, <1>2 DEF VoiceSound, VoiceStates
<1>4. QED BY <1>1, <1>2, <1>3 DEF w, l

LEMMA StartIsSound ==
  ASSUME NEW v, VoiceSound(v), v.state = "idle"
  PROVE  VoiceSound(Voice!StartListening(v)) /\ Voice!StartListening(v).state = "listening"
<1> DEFINE x == IF v.state = "interrupted" /\ v.session = "interrupted" THEN "active" ELSE v.session
           u == [v EXCEPT !.session = x, !.heard = <<>>, !.replayed = 0, !.input = 0, !.state = "listening"]
<1>1. Voice!StartListening(v) = u
  BY DEF Voice!StartListening
<1> HIDE DEF x
<1>2. HasFields(u, VoiceFields) /\ u.state = "listening" /\ u.heard = <<>> /\ u.replayed = 0 /\ u.speaker = v.speaker
      /\ u.output = v.output /\ u.tts = v.tts /\ u.exhausted = v.exhausted
  BY DEF VoiceSound, HasFields, VoiceFields
<1> HIDE DEF u
<1>3. VoiceSound(u)
  BY <1>2, NothingHeard DEF VoiceSound, VoiceStates
<1>4. QED BY <1>1, <1>2, <1>3

\* The frames from before the speech are heard with it, with the endpoints among them.
LEMMA ReplayIsSound ==
  ASSUME NEW v, VoiceSound(v), v.state = "listening", NEW s, OutsideAnswer(s)
  PROVE  VoiceSound(Voice!Replayed(v, s)) /\ Voice!Replayed(v, s).state = "listening"
<1>1. Len(s) \in Nat /\ \A i \in 1..Len(s) : i = Len(s) \/ i < Len(s)
  BY DEF OutsideAnswer
<1>2. OfOneTurn(s, Len(s))
  BY <1>1 DEF OfOneTurn
<1> DEFINE n == Len(s)
           w == [v EXCEPT !.input = n, !.heard = s, !.replayed = n]
<1>3. HasFields(w, VoiceFields) /\ w.heard = s /\ w.replayed = n /\ w.state = v.state /\ w.speaker = v.speaker
      /\ w.output = v.output /\ w.tts = v.tts /\ w.exhausted = v.exhausted
  <2> HIDE DEF n
  <2>1. QED BY DEF VoiceSound, HasFields, VoiceFields
<1> HIDE DEF w
<1>4. VoiceSound(w) /\ w.state = "listening"
  BY <1>2, <1>3 DEF VoiceSound
<1>5. QED BY <1>4 DEF Voice!Replayed, w

\* Speaking: what settles is idle and has nothing left to say.
LEMMA SettledIsSound ==
  ASSUME NEW v, VoiceSound(v), v.state = "speaking"
  PROVE  VoiceSound(Voice!Settled(v)) /\ Voice!Settled(v).state \in {"speaking", "idle"}
<1>1. CASE Voice!Settled(v) = v
  BY <1>1
<1>2. CASE v.output = 0 /\ Voice!Settled(v) = [v EXCEPT !.tts = 0, !.exhausted = FALSE, !.state = "idle"]
  <2> DEFINE w == [v EXCEPT !.tts = 0, !.exhausted = FALSE, !.state = "idle"]
  <2>1. HasFields(w, VoiceFields) /\ w.state = "idle" /\ w.heard = v.heard /\ w.replayed = v.replayed /\ w.output = v.output
        /\ w.tts = 0 /\ w.exhausted = FALSE
    BY DEF VoiceSound, HasFields, VoiceFields
  <2> HIDE DEF w
  <2>2. VoiceSound(w)
    BY <1>2, <2>1 DEF VoiceSound, VoiceStates
  <2>3. QED BY <1>2, <2>1, <2>2 DEF w
<1>3. QED BY <1>1, <1>2 DEF Voice!Settled

\* What an answer has left may change while it is spoken.
LEMMA StillSpeaking ==
  ASSUME NEW v, VoiceSound(v), NEW w, HasFields(w, VoiceFields), w.state = "speaking",
         w.heard = v.heard, w.replayed = v.replayed,
         w.exhausted \in BOOLEAN
  PROVE  VoiceSound(w)
BY DEF VoiceSound, VoiceStates

LEMMA BeginIsSound ==
  ASSUME NEW v, VoiceSound(v), NEW n
  PROVE  VoiceSound(Voice!BeginSpeaking(v, n)) /\ Voice!BeginSpeaking(v, n).state = "speaking"
<1> DEFINE w == Voice!BeginSpeaking(v, n)
<1>1. HasFields(w, VoiceFields) /\ w.state = "speaking" /\ w.heard = v.heard /\ w.replayed = v.replayed /\ w.exhausted = FALSE
  BY DEF VoiceSound, HasFields, VoiceFields, Voice!BeginSpeaking
<1> HIDE DEF w
<1>2. VoiceSound(w)
  BY <1>1, StillSpeaking
<1>3. QED BY <1>1, <1>2 DEF w

LEMMA PumpIsSound ==
  ASSUME NEW v, VoiceSound(v), v.state = "speaking"
  PROVE  VoiceSound(Voice!PumpSynthesis(v)) /\ Voice!PumpSynthesis(v).state \in {"speaking", "idle"}
<1> DEFINE x == [v EXCEPT !.exhausted = TRUE]
           y == [v EXCEPT !.tts = @ - 1, !.output = @ + 1]
<1>1. VoiceSound(x) /\ x.state = "speaking"
  <2>1. HasFields(x, VoiceFields) /\ x.state = "speaking" /\ x.heard = v.heard /\ x.replayed = v.replayed /\ x.exhausted = TRUE
    BY DEF VoiceSound, HasFields, VoiceFields
  <2> HIDE DEF x
  <2>2. QED BY <2>1, StillSpeaking
<1>2. VoiceSound(y) /\ y.state = "speaking"
  <2>1. HasFields(y, VoiceFields) /\ y.state = "speaking" /\ y.heard = v.heard /\ y.replayed = v.replayed /\ y.exhausted = v.exhausted
    BY DEF VoiceSound, HasFields, VoiceFields
  <2>2. v.exhausted \in BOOLEAN
    BY DEF VoiceSound
  <2> HIDE DEF y
  <2>3. QED BY <2>1, <2>2, StillSpeaking
<1>3. Voice!PumpSynthesis(v) \in {Voice!Settled(x), y}
  BY DEF Voice!PumpSynthesis
<1> HIDE DEF x, y
<1>4. QED BY <1>1, <1>2, <1>3, SettledIsSound

LEMMA SendIsSound ==
  ASSUME NEW v, VoiceSound(v), v.state = "speaking"
  PROVE  VoiceSound(Voice!SendNextOutput(v)) /\ Voice!SendNextOutput(v).state \in {"speaking", "idle"}
<1> DEFINE y == [v EXCEPT !.output = @ - 1, !.speaker = @ + 1]
<1>1. VoiceSound(y) /\ y.state = "speaking"
  <2>1. HasFields(y, VoiceFields) /\ y.state = "speaking" /\ y.heard = v.heard /\ y.replayed = v.replayed /\ y.exhausted = v.exhausted
    BY DEF VoiceSound, HasFields, VoiceFields
  <2>2. v.exhausted \in BOOLEAN
    BY DEF VoiceSound
  <2> HIDE DEF y
  <2>3. QED BY <2>1, <2>2, StillSpeaking
<1>2. Voice!SendNextOutput(v) \in {Voice!Settled(v), Voice!Settled(y)}
  BY DEF Voice!SendNextOutput
<1> HIDE DEF y
<1>3. QED BY <1>1, <1>2, SettledIsSound

\* What the device still has to play is nothing to the rest.
LEMMA SpeakerTurned ==
  ASSUME NEW v, VoiceSound(v), NEW n, v.state \in {"interrupted", "cancelled"} => n = 0
  PROVE  LET w == [v EXCEPT !.speaker = n] IN
         /\ VoiceSound(w) /\ w.state = v.state /\ w.session = v.session
         /\ w.heard = v.heard /\ w.replayed = v.replayed
<1> DEFINE w == [v EXCEPT !.speaker = n]
<1>1. HasFields(w, VoiceFields) /\ w.state = v.state /\ w.session = v.session /\ w.heard = v.heard
      /\ w.replayed = v.replayed /\ w.speaker = n /\ w.output = v.output /\ w.tts = v.tts /\ w.exhausted = v.exhausted
  BY DEF VoiceSound, HasFields, VoiceFields
<1> HIDE DEF w
<1>2. VoiceSound(w)
  BY <1>1 DEF VoiceSound
<1>3. QED BY <1>1, <1>2 DEF w

-----------------------------------------------------------------------------
\* The steps of the two threads, of the microphone and of the speaker.
LEMMA MainGoes ==
  ASSUME VoiceInv, NEW l, Voice!MainTo(l)
  PROVE  HasFields(main', MainFields) /\ main'.pc = l /\ UNCHANGED <<main.preroll, main.ended, main.stale>>
BY DEF VoiceInv, MainTyped, HasFields, MainFields, Voice!MainTo

LEMMA OpenKeeps ==
  ASSUME VoiceInv, Voice!OpenSession
  PROVE  VoiceInv'
<1>1. main.pc = "opening" /\ voice.state = "idle" /\ UNCHANGED <<voice, mic, worker>>
  BY DEF Voice!OpenSession, VoiceInv, TurnInv, TurnAt
<1>2. /\ HasFields(main', MainFields) /\ main'.pc = "capture"
      /\ UNCHANGED <<main.preroll, main.ended, main.stale>>
  BY DEF Voice!OpenSession, VoiceInv, MainTyped, HasFields, MainFields
<1>3. MainTyped'
  BY <1>1, <1>2 DEF VoiceInv, MainTyped, TurnAt
<1>4. TurnInv'
  BY <1>1, <1>2 DEF VoiceInv, TurnInv, TurnAt
<1>5. WorkerInv'
  BY <1>1, <1>2 DEF VoiceInv, WorkerInv
<1>6. QED BY <1>1, <1>2, <1>3, <1>4, <1>5 DEF VoiceInv

LEMMA RecordKeeps ==
  ASSUME VoiceInv, Voice!Record
  PROVE  VoiceInv'
<1>1. UNCHANGED <<voice, main, worker>>
  BY DEF Voice!Record
<1> DEFINE m == Voice!Moment
<1>2. PICK s \in BOOLEAN, e \in BOOLEAN : mic' = Append(mic, [speech |-> s, end |-> e, moment |-> m])
  BY DEF Voice!Record
<1>3. m \in {"answer", "tail", "quiet"} /\ (main.pc \notin {"begin", "speak"} => m # "answer")
  BY DEF Voice!Moment
<1> HIDE DEF m
<1> DEFINE f == [speech |-> s, end |-> e, moment |-> m]
<1>4. f \in AudioFrame /\ f.moment = m
  BY <1>3 DEF AudioFrame
<1>5. mic' = Append(mic, f)
  BY <1>2
<1> HIDE DEF f
<1>6. mic' \in Seq(AudioFrame)
  BY <1>4, <1>5, AppendProperties DEF VoiceInv
<1>7. main.pc \notin {"begin", "speak"} => OutsideAnswer(mic')
  BY <1>3, <1>4, <1>5, OutsideAnswerAppend DEF VoiceInv
<1>8. VoiceSound(voice') /\ MainTyped' /\ TurnInv' /\ WorkerInv'
  BY <1>1 DEF VoiceInv, MainTyped, TurnInv, WorkerInv, Voice!EndpointDetected
<1>9. QED BY <1>1, <1>6, <1>7, <1>8 DEF VoiceInv

LEMMA PlayKeeps ==
  ASSUME VoiceInv, Voice!Play
  PROVE  VoiceInv'
<1> DEFINE n == voice.speaker - 1
<1>1. voice' = [voice EXCEPT !.speaker = n] /\ UNCHANGED <<mic, main, worker>> /\ VoiceSound(voice)
  BY DEF Voice!Play, VoiceInv
<1>2. voice.state \notin {"interrupted", "cancelled"}
  BY <1>1 DEF Voice!Play, VoiceSound
<1> HIDE DEF n
<1>3. /\ VoiceSound(voice') /\ voice'.state = voice.state /\ voice'.session = voice.session
      /\ voice'.heard = voice.heard /\ voice'.replayed = voice.replayed
  BY <1>1, <1>2, SpeakerTurned
<1>4. MainTyped' /\ TurnInv' /\ WorkerInv'
  BY <1>1, <1>3 DEF VoiceInv, MainTyped, TurnInv, WorkerInv, Voice!EndpointDetected
<1>5. QED BY <1>1, <1>3, <1>4 DEF VoiceInv, OutsideAnswer

\* Whatever a session was at, it closes with the microphone; a cancelled worker has cancelled it.
LEMMA CloseKeeps ==
  ASSUME VoiceInv, NEW v, VoiceSound(v), Voice!Close(v), worker.pc \in {"none", "done"},
         v.state = "speaking" => ~main.stale,
         worker.result = "cancelled" => v.state = "cancelled" /\ v.session = "cancelled"
  PROVE  VoiceInv'
<1>1. /\ HasFields(main', MainFields) /\ main'.pc = "closed"
      /\ UNCHANGED <<main.preroll, main.ended, main.stale>> /\ UNCHANGED worker /\ mic' = <<>>
  BY MainGoes DEF Voice!Close
<1>2. VoiceSound(voice') /\ voice'.state = v.state /\ voice'.session = v.session
  BY SpeakerTurned DEF Voice!Close
<1>3. MainTyped'
  BY <1>1 DEF VoiceInv, MainTyped, TurnAt
<1>4. TurnInv'
  BY <1>1, <1>2 DEF VoiceSound, TurnInv, TurnAt
<1>5. WorkerInv'
  BY <1>1, <1>2 DEF VoiceInv, WorkerInv
<1>6. QED BY <1>1, <1>2, <1>3, <1>4, <1>5, NothingHeard DEF VoiceInv

\* An utterance is processed, or there was nothing in it.
LEMMA CapturedKeeps ==
  ASSUME VoiceInv, main.pc = "capture", NEW v, VoiceSound(v), v.state \in {"listening", "interrupted"},
         Voice!Captured(v), OutsideAnswer(mic')
  PROVE  VoiceInv'
<1>1. PICK text \in BOOLEAN :
        /\ voice' = Voice!FinishUtterance(v, text)
        /\ IF text
           THEN /\ main' = [main EXCEPT !.pc = "process", !.preroll = <<>>, !.ended = FALSE, !.stale = FALSE]
                /\ worker' = [pc |-> "compile", kind |-> "none", result |-> "none"]
           ELSE main' = [main EXCEPT !.preroll = <<>>] /\ UNCHANGED worker
  BY DEF Voice!Captured
<1>2. VoiceSound(voice') /\ voice'.state = IF text THEN "processing" ELSE "idle"
  BY <1>1, FinishIsSound
<1>3. CASE text
  <2>1. /\ HasFields(main', MainFields) /\ main'.pc = "process" /\ main'.preroll = <<>>
        /\ main'.ended = FALSE /\ main'.stale = FALSE
    BY <1>1, <1>3 DEF VoiceInv, MainTyped, HasFields, MainFields
  <2>2. MainTyped'
    BY <2>1, NothingHeard DEF MainTyped, TurnAt
  <2>3. TurnInv'
    BY <1>2, <1>3, <2>1 DEF TurnInv, TurnAt
  <2>4. WorkerInv'
    BY <1>1, <1>3, <2>1 DEF WorkerInv, HasFields, WorkerFields
  <2>5. QED BY <1>2, <2>1, <2>2, <2>3, <2>4 DEF VoiceInv, OutsideAnswer
<1>4. CASE ~text
  <2>1. /\ HasFields(main', MainFields) /\ main'.pc = "capture" /\ main'.preroll = <<>>
        /\ UNCHANGED <<main.ended, main.stale>>
    BY <1>1, <1>4 DEF VoiceInv, MainTyped, HasFields, MainFields
  <2>2. MainTyped'
    BY <2>1, NothingHeard DEF VoiceInv, MainTyped, TurnAt
  <2>3. TurnInv'
    BY <1>2, <1>4, <2>1 DEF TurnInv, TurnAt
  <2>4. WorkerInv'
    BY <1>1, <1>4, <2>1 DEF VoiceInv, WorkerInv
  <2>5. QED BY <1>2, <2>1, <2>2, <2>3, <2>4 DEF VoiceInv, OutsideAnswer
<1>5. QED BY <1>3, <1>4

LEMMA AfterFrameKeeps ==
  ASSUME VoiceInv, main.pc = "capture", NEW v, VoiceSound(v), v.state \in {"listening", "interrupted"},
         Voice!AfterFrame(v), OutsideAnswer(mic')
  PROVE  VoiceInv'
<1>1. CASE Voice!Captured(v)
  BY <1>1, CapturedKeeps
<1>2. CASE voice' = v /\ main' = [main EXCEPT !.preroll = <<>>] /\ UNCHANGED worker
  <2>1. /\ HasFields(main', MainFields) /\ main'.pc = "capture" /\ main'.preroll = <<>>
        /\ UNCHANGED <<main.ended, main.stale>>
    BY <1>2 DEF VoiceInv, MainTyped, HasFields, MainFields
  <2>2. MainTyped'
    BY <2>1, NothingHeard DEF VoiceInv, MainTyped, TurnAt
  <2>3. TurnInv'
    BY <1>2, <2>1 DEF TurnInv, TurnAt
  <2>4. WorkerInv'
    BY <1>2, <2>1 DEF VoiceInv, WorkerInv
  <2>5. QED BY <1>2, <2>1, <2>2, <2>3, <2>4 DEF VoiceInv, OutsideAnswer
<1>3. QED BY <1>1, <1>2 DEF Voice!AfterFrame

LEMMA FinishPendingKeeps ==
  ASSUME VoiceInv, Voice!FinishPending
  PROVE  VoiceInv'
<1>1. OutsideAnswer(mic')
  BY DEF Voice!FinishPending, VoiceInv
<1>2. QED BY <1>1, CapturedKeeps DEF Voice!FinishPending, VoiceInv

\* What capture reads was recorded outside the answers.
LEMMA CaptureReads ==
  ASSUME VoiceInv, main.pc \in {"capture", "process"}, mic # <<>>
  PROVE  OutsideAnswer(Tail(mic)) /\ Head(mic) \in AudioFrame /\ Head(mic).moment # "answer"
BY OutsideAnswerTail DEF VoiceInv

\* In capture the worker is at rest and nothing is spoken.
LEMMA CaptureRests ==
  ASSUME VoiceInv, main.pc = "capture"
  PROVE  /\ worker.pc \in {"none", "done"} /\ worker.result # "cancelled"
         /\ voice.state \in {"idle", "listening", "interrupted", "processing"}
BY DEF VoiceInv, WorkerInv, TurnInv, TurnAt

LEMMA CaptureIdleKeeps ==
  ASSUME VoiceInv, Voice!CaptureIdle
  PROVE  VoiceInv'
<1> DEFINE f == Head(mic)
           replay == Append(main.preroll, f)
           v == Voice!StartListening(voice)
           w == Voice!Replayed(v, replay)
<1>1. main.pc = "capture" /\ mic # <<>> /\ voice.state = "idle" /\ VoiceSound(voice)
  BY DEF Voice!CaptureIdle, VoiceInv
<1>2. OutsideAnswer(Tail(mic)) /\ f \in AudioFrame /\ f.moment # "answer"
  BY <1>1, CaptureReads
<1>3. OutsideAnswer(main.preroll)
  BY DEF VoiceInv, MainTyped
<1> HIDE DEF f
<1>4. OutsideAnswer(replay) /\ replay # <<>>
  BY <1>2, <1>3, OutsideAnswerAppend
<1> HIDE DEF replay
<1>5. VoiceSound(w) /\ w.state = "listening"
  BY <1>1, <1>4, StartIsSound, ReplayIsSound
<1>6. \/ \E n \in {1, 2} : /\ main' = [main EXCEPT !.preroll = SubSeq(replay, n, Len(replay))]
                           /\ mic' = Tail(mic) /\ UNCHANGED <<voice, worker>>
      \/ Voice!AfterFrame(w) /\ mic' = Tail(mic)
      \/ Voice!Close(v)
  BY DEF Voice!CaptureIdle, f, replay
<1>7. ASSUME NEW n \in {1, 2}, main' = [main EXCEPT !.preroll = SubSeq(replay, n, Len(replay))],
             mic' = Tail(mic), UNCHANGED <<voice, worker>>
      PROVE  VoiceInv'
  <2> DEFINE kept == SubSeq(replay, n, Len(replay))
  <2>1. OutsideAnswer(kept)
    BY <1>4, OutsideAnswerLast
  <2>2. main' = [main EXCEPT !.preroll = kept]
    BY <1>7
  <2> HIDE DEF kept
  <2>3. /\ HasFields(main', MainFields) /\ main'.pc = "capture" /\ main'.preroll = kept
        /\ UNCHANGED <<main.ended, main.stale>>
    BY <1>1, <2>2 DEF VoiceInv, MainTyped, HasFields, MainFields
  <2>4. MainTyped'
    BY <2>1, <2>3 DEF VoiceInv, MainTyped, TurnAt
  <2>5. TurnInv' /\ WorkerInv'
    BY <1>1, <1>7, <2>3 DEF VoiceInv, TurnInv, WorkerInv
  <2>6. QED BY <1>2, <1>7, <2>3, <2>4, <2>5 DEF VoiceInv, OutsideAnswer
<1>8. VoiceSound(v) /\ v.state # "speaking"
  BY <1>1, StartIsSound
<1>9. CASE Voice!AfterFrame(w) /\ mic' = Tail(mic)
  <2> HIDE DEF w
  <2>1. QED BY <1>1, <1>2, <1>5, <1>9, AfterFrameKeeps
<1>10. CASE Voice!Close(v)
  <2> HIDE DEF v
  <2>1. QED BY <1>1, <1>8, <1>10, CloseKeeps, CaptureRests
<1>11. QED BY <1>6, <1>7, <1>9, <1>10

LEMMA CaptureFrameKeeps ==
  ASSUME VoiceInv, Voice!CaptureFrame
  PROVE  VoiceInv'
<1> DEFINE f == Head(mic)
           v == IF voice.state = "processing" /\ f.speech
                THEN Voice!Interrupted(voice, voice.session = "cancelled") ELSE voice
<1>1. /\ main.pc = "capture" /\ mic # <<>> /\ voice.state # "idle" /\ VoiceSound(voice)
      /\ ~(Voice!EndpointDetected(voice) /\ voice.state \in {"listening", "interrupted"})
  BY DEF Voice!CaptureFrame, VoiceInv
<1>2. OutsideAnswer(Tail(mic)) /\ f \in AudioFrame /\ f.moment # "answer"
  BY <1>1, CaptureReads
<1>3. voice.state \in {"listening", "interrupted", "processing"}
  BY <1>1, CaptureRests
<1>4. /\ VoiceSound(v) /\ v.state \in {"listening", "interrupted", "processing"}
      /\ v.state # "processing" => ~Voice!EndpointDetected(v)
  <2>1. CASE v = voice
    BY <1>1, <1>3, <2>1
  <2>2. CASE v = Voice!Interrupted(voice, voice.session = "cancelled")
    <3>1. VoiceSound(v) /\ v.heard = <<>> /\ v.state = "interrupted"
      BY <1>1, <2>2, InterruptedIsSound
    <3>2. QED BY <3>1 DEF Voice!EndpointDetected
  <2>3. QED BY <2>1, <2>2
<1>5. \/ mic' = Tail(mic) /\ UNCHANGED <<voice, main, worker>>
      \/ v.state # "processing" /\ Voice!AfterFrame(Voice!Buffered(v, f)) /\ mic' = Tail(mic)
      \/ v.state # "processing" /\ Voice!Close(v)
  BY DEF Voice!CaptureFrame
<1> HIDE DEF v, f
<1>6. CASE mic' = Tail(mic) /\ UNCHANGED <<voice, main, worker>>
  BY <1>2, <1>6 DEF VoiceInv, MainTyped, TurnInv, WorkerInv, Voice!EndpointDetected, OutsideAnswer
<1>7. CASE v.state # "processing" /\ Voice!AfterFrame(Voice!Buffered(v, f)) /\ mic' = Tail(mic)
  <2> DEFINE w == Voice!Buffered(v, f)
  <2>1. VoiceSound(w) /\ w.state \in {"listening", "interrupted"}
    BY <1>2, <1>4, <1>7, BufferedIsSound
  <2> HIDE DEF w
  <2>2. QED BY <1>1, <1>2, <1>7, <2>1, AfterFrameKeeps DEF w
<1>8. CASE v.state # "processing" /\ Voice!Close(v)
  BY <1>1, <1>4, <1>8, CloseKeeps, CaptureRests
<1>9. QED BY <1>5, <1>6, <1>7, <1>8

\* A worker works while the main thread waits for it, and leaves the turn as it is.
LEMMA WorkerGoes ==
  ASSUME VoiceInv, worker.pc \notin {"none", "done"}, HasFields(worker', WorkerFields), UNCHANGED <<mic, main>>,
         VoiceSound(voice'), voice'.state = voice.state, voice'.heard = voice.heard /\ voice'.replayed = voice.replayed
  PROVE  VoiceInv'
<1>1. main.pc \in {"process", "barge", "join"}
  BY DEF VoiceInv, WorkerInv, MainTyped, TurnAt
<1>2. WorkerInv'
  BY <1>1 DEF WorkerInv
<1>3. TurnInv'
  BY DEF VoiceInv, TurnInv, Voice!EndpointDetected
<1>4. MainTyped'
  BY DEF VoiceInv, MainTyped
<1>5. QED BY <1>2, <1>3, <1>4 DEF VoiceInv, OutsideAnswer

LEMMA WorkerKeeps ==
  ASSUME VoiceInv, Voice!WorkerStep
  PROVE  VoiceInv'
<1>1. HasFields(worker, WorkerFields) /\ HasFields(voice, VoiceFields) /\ VoiceSound(voice)
  BY DEF VoiceInv, WorkerInv, VoiceSound
<1>2. UNCHANGED <<mic, main>> /\ worker.pc \notin {"none", "done"}
  BY DEF Voice!WorkerStep, Voice!CompileIntent, Voice!RouteIntent, Voice!MarkIntent, Voice!CancelSession,
         Voice!PlanAction, Voice!ActionReady
<1>3. HasFields(worker', WorkerFields)
  <2>1. \/ \E k : worker' = [worker EXCEPT !.kind = k, !.pc = "route"]
        \/ \E l : worker' = [worker EXCEPT !.pc = l]
        \/ \E x : worker' = [worker EXCEPT !.pc = "done", !.result = x]
    BY DEF Voice!WorkerStep, Voice!CompileIntent, Voice!RouteIntent, Voice!MarkIntent, Voice!CancelSession,
           Voice!PlanAction, Voice!ActionReady, Voice!WorkerTo, Voice!Returns
  <2>2. QED BY <1>1, <2>1 DEF HasFields
<1>4. voice' = voice \/ voice' = [voice EXCEPT !.intent = TRUE]
      \/ voice' = [voice EXCEPT !.session = "cancelled", !.intent = FALSE]
  BY DEF Voice!WorkerStep, Voice!CompileIntent, Voice!RouteIntent, Voice!MarkIntent, Voice!CancelSession,
         Voice!PlanAction, Voice!ActionReady
<1>5. HasFields(voice', VoiceFields)
  BY <1>1, <1>4 DEF HasFields
<1>6. /\ voice'.state = voice.state /\ voice'.heard = voice.heard /\ voice'.replayed = voice.replayed /\ voice'.output = voice.output
      /\ voice'.tts = voice.tts /\ voice'.exhausted = voice.exhausted /\ voice'.speaker = voice.speaker
  BY <1>1, <1>4 DEF HasFields, VoiceFields
<1>7. VoiceSound(voice')
  BY <1>1, <1>5, <1>6 DEF VoiceSound
<1>8. QED BY <1>2, <1>3, <1>6, <1>7, WorkerGoes

\* The pump drops, interrupts, buffers, or gives the session up.
LEMMA PumpKeeps ==
  ASSUME VoiceInv, Voice!PumpAvailableInput
  PROVE  VoiceInv'
<1> DEFINE f == Head(mic)
           v == Voice!Buffered(voice, f)
<1>1. /\ main.pc = "process" /\ mic # <<>> /\ VoiceSound(voice) /\ mic' = Tail(mic) /\ UNCHANGED worker
      /\ WorkerInv /\ TurnInv /\ HasFields(main, MainFields) /\ MainTyped
  BY DEF Voice!PumpAvailableInput, VoiceInv, MainTyped
<1>2. OutsideAnswer(Tail(mic)) /\ f \in AudioFrame /\ f.moment # "answer"
  BY <1>1, CaptureReads
<1>3. \/ UNCHANGED <<voice, main>>
      \/ /\ voice' = Voice!Flushed(voice) /\ voice.state = "processing"
         /\ main' = [main EXCEPT !.pc = "barge", !.seen = voice.session = "cancelled", !.preroll = <<f>>, !.stale = TRUE]
      \/ /\ ~main.ended /\ voice.state = "interrupted" /\ voice' = v
         /\ main' = [main EXCEPT !.ended = Voice!EndpointDetected(v)]
      \/ voice' = Voice!CancelVoice(voice) /\ Voice!MainTo("join")
  BY DEF Voice!PumpAvailableInput
<1> HIDE DEF f
<1>4. CASE UNCHANGED <<voice, main>>
  BY <1>1, <1>2, <1>4 DEF VoiceInv, MainTyped, TurnInv, WorkerInv, Voice!EndpointDetected, OutsideAnswer
<1>5. CASE /\ voice' = Voice!Flushed(voice) /\ voice.state = "processing"
           /\ main' = [main EXCEPT !.pc = "barge", !.seen = voice.session = "cancelled", !.preroll = <<f>>, !.stale = TRUE]
  <2>1. VoiceSound(voice') /\ voice'.state = "processing"
    BY <1>1, <1>5, FlushedIsSound
  <2>2. PICK b \in BOOLEAN : main' = [main EXCEPT !.pc = "barge", !.seen = b, !.preroll = <<f>>, !.stale = TRUE]
    BY <1>5
  <2> DEFINE one == <<f>>
  <2>3. OutsideAnswer(one) /\ Len(one) = 1
    BY <1>2 DEF OutsideAnswer
  <2>4. main' = [main EXCEPT !.pc = "barge", !.seen = b, !.preroll = one, !.stale = TRUE]
    BY <2>2
  <2> HIDE DEF one
  <2>5. HasFields(main', MainFields) /\ main'.pc = "barge" /\ main'.preroll = one /\ main'.stale = TRUE
        /\ main'.ended = main.ended
    BY <1>1, <2>4 DEF HasFields, MainFields
  <2>6. MainTyped'
    BY <1>1, <2>3, <2>5 DEF MainTyped, TurnAt
  <2>7. TurnInv'
    BY <2>1, <2>5 DEF TurnInv, TurnAt
  <2>8. WorkerInv'
    BY <1>1, <2>5 DEF WorkerInv
  <2>9. QED BY <1>1, <1>2, <2>1, <2>6, <2>7, <2>8 DEF VoiceInv, OutsideAnswer
<1>6. CASE /\ ~main.ended /\ voice.state = "interrupted" /\ voice' = v
           /\ main' = [main EXCEPT !.ended = Voice!EndpointDetected(v)]
  <2>1. ~Voice!EndpointDetected(voice)
    BY <1>1, <1>6 DEF TurnInv
  <2>2. VoiceSound(voice') /\ voice'.state = "interrupted"
    BY <1>1, <1>2, <1>6, <2>1, BufferedIsSound
  <2> HIDE DEF v
  <2>3. PICK b \in BOOLEAN : b = Voice!EndpointDetected(v)
    BY <1>6, <2>2 DEF Voice!EndpointDetected, VoiceSound, OfOneTurn, OutsideAnswer, AudioFrame
  <2>4. HasFields(main', MainFields) /\ main'.pc = "process" /\ main'.ended = b
        /\ UNCHANGED <<main.preroll, main.stale>>
    BY <1>1, <1>6, <2>3 DEF HasFields, MainFields
  <2>5. MainTyped'
    BY <1>1, <2>4 DEF MainTyped, TurnAt
  <2>6. TurnInv'
    BY <1>6, <2>2, <2>3, <2>4 DEF TurnInv, TurnAt, Voice!EndpointDetected
  <2>7. WorkerInv'
    BY <1>1, <2>4 DEF WorkerInv
  <2>8. QED BY <1>1, <1>2, <2>2, <2>5, <2>6, <2>7 DEF VoiceInv, OutsideAnswer
<1>7. CASE voice' = Voice!CancelVoice(voice) /\ Voice!MainTo("join")
  <2>1. VoiceSound(voice') /\ voice'.state = "cancelled"
    BY <1>1, <1>7, CancelIsSound
  <2>2. HasFields(main', MainFields) /\ main'.pc = "join" /\ UNCHANGED <<main.preroll, main.ended, main.stale>>
    BY <1>7, MainGoes
  <2>3. MainTyped'
    BY <1>1, <2>2 DEF MainTyped, TurnAt
  <2>4. TurnInv'
    BY <2>1, <2>2 DEF TurnInv, TurnAt, VoiceStates
  <2>5. WorkerInv'
    BY <1>1, <2>2 DEF WorkerInv
  <2>6. QED BY <1>1, <1>2, <2>1, <2>3, <2>4, <2>5 DEF VoiceInv, OutsideAnswer
<1>8. QED BY <1>3, <1>4, <1>5, <1>6, <1>7

\* The turn that was talked over is thrown away, and the frame that did it is heard.
LEMMA BargeInKeeps ==
  ASSUME VoiceInv, Voice!BargeIn
  PROVE  VoiceInv'
<1> DEFINE f == main.preroll[1]
           u == Voice!Interrupted(voice, main.seen)
           v == Voice!Buffered(u, f)
<1>1. /\ main.pc = "barge" /\ VoiceSound(voice) /\ UNCHANGED <<mic, worker>>
      /\ WorkerInv /\ HasFields(main, MainFields) /\ MainTyped /\ OutsideAnswer(mic)
  BY DEF Voice!BargeIn, VoiceInv, MainTyped
<1>2. voice' = v /\ main' = [main EXCEPT !.pc = "process", !.preroll = <<>>, !.ended = Voice!EndpointDetected(v)]
  BY DEF Voice!BargeIn
<1>3. f \in AudioFrame /\ f.moment # "answer"
  <2>1. OutsideAnswer(main.preroll) /\ Len(main.preroll) = 1
    BY <1>1 DEF MainTyped
  <2>2. QED BY <2>1 DEF OutsideAnswer
<1>4. VoiceSound(u) /\ u.heard = <<>> /\ u.replayed = 0 /\ u.state = "interrupted"
  BY <1>1, InterruptedIsSound
<1> HIDE DEF f, u
<1>5. VoiceSound(v) /\ v.state = "interrupted"
  BY <1>3, <1>4, BufferedIsSound DEF Voice!EndpointDetected
<1> HIDE DEF v
<1>6. PICK b \in BOOLEAN : b = Voice!EndpointDetected(v)
  BY <1>5 DEF Voice!EndpointDetected, VoiceSound, OfOneTurn, OutsideAnswer, AudioFrame
<1>7. main' = [main EXCEPT !.pc = "process", !.preroll = <<>>, !.ended = b]
  BY <1>2, <1>6
<1>8. HasFields(main', MainFields) /\ main'.pc = "process" /\ main'.preroll = <<>> /\ main'.ended = b
      /\ main'.stale = main.stale
  BY <1>1, <1>7 DEF HasFields, MainFields
<1>9. MainTyped'
  BY <1>1, <1>8, NothingHeard DEF MainTyped, TurnAt
<1>10. TurnInv'
  BY <1>2, <1>5, <1>6, <1>8 DEF TurnInv, TurnAt, Voice!EndpointDetected
<1>11. WorkerInv'
  BY <1>1, <1>8 DEF WorkerInv
<1>12. QED BY <1>1, <1>2, <1>5, <1>9, <1>10, <1>11 DEF VoiceInv, OutsideAnswer

\* A step that only moves the main thread on, to where the turn may be as it is.
LEMMA MainMoves ==
  ASSUME VoiceInv, NEW l \in DOMAIN TurnAt, l # "barge", Voice!MainTo(l), UNCHANGED worker,
         VoiceSound(voice'), voice'.state \in TurnAt[l], mic' \in Seq(AudioFrame), l \notin {"begin", "speak"} => OutsideAnswer(mic'),
         l = "process" => FALSE,
         l = "begin" \/ voice'.state = "speaking" => ~main.stale,
         l \notin {"join"} => worker.pc \in {"none", "done"} /\ worker.result # "cancelled"
  PROVE  VoiceInv'
<1>1. /\ HasFields(main', MainFields) /\ main'.pc = l
      /\ UNCHANGED <<main.preroll, main.ended, main.stale>>
  BY MainGoes
<1>2. MainTyped'
  BY <1>1 DEF VoiceInv, MainTyped
<1>3. TurnInv'
  BY <1>1 DEF TurnInv
<1>4. WorkerInv'
  BY <1>1 DEF VoiceInv, WorkerInv
<1>5. QED BY <1>1, <1>2, <1>3, <1>4 DEF VoiceInv

LEMMA JoinedKeeps ==
  ASSUME VoiceInv, Voice!Joined
  PROVE  VoiceInv'
<1>1. /\ main.pc = "process" /\ worker.pc = "done" /\ VoiceSound(voice) /\ OutsideAnswer(mic) /\ mic \in Seq(AudioFrame)
      /\ voice.state \in {"processing", "interrupted"}
  BY DEF Voice!Joined, VoiceInv, TurnInv, TurnAt
<1>2. CASE Voice!Close(Voice!CancelVoice(voice))
  BY <1>1, <1>2, CancelIsSound, CloseKeeps
<1>3. CASE worker.result = "error" /\ Voice!Close(voice)
  BY <1>1, <1>3, CloseKeeps
<1>4. CASE worker.result \notin {"cancelled", "error"} /\ Voice!MainTo("begin") /\ voice.state = "processing"
           /\ UNCHANGED <<voice, mic, worker>>
  <2>1. ~main.stale
    BY <1>1, <1>4 DEF VoiceInv, TurnInv
  <2>2. "begin" \in DOMAIN TurnAt /\ voice'.state \in TurnAt["begin"]
    BY <1>4 DEF TurnAt
  <2>3. QED BY <1>1, <1>4, <2>1, <2>2, MainMoves
<1>5. CASE worker.result \notin {"cancelled", "error"} /\ Voice!MainTo("capture") /\ UNCHANGED <<voice, mic, worker>>
  <2>1. "capture" \in DOMAIN TurnAt /\ voice'.state \in TurnAt["capture"]
    BY <1>1, <1>5 DEF TurnAt
  <2>2. QED BY <1>1, <1>5, <2>1, MainMoves
<1>6. QED BY <1>2, <1>3, <1>4, <1>5 DEF Voice!Joined

LEMMA ProcessFailsKeeps ==
  ASSUME VoiceInv, Voice!ProcessFails
  PROVE  VoiceInv'
<1>1. /\ main.pc = "process" /\ VoiceSound(voice) /\ OutsideAnswer(mic) /\ mic \in Seq(AudioFrame)
      /\ voice.state \in {"processing", "interrupted"}
  BY DEF Voice!ProcessFails, VoiceInv, TurnInv, TurnAt
<1>2. VoiceSound(voice') /\ voice'.state \in {"processing", "interrupted", "cancelled"}
  BY <1>1, CancelIsSound DEF Voice!ProcessFails
<1>3. "join" \in DOMAIN TurnAt /\ voice'.state \in TurnAt["join"] /\ voice'.state # "speaking"
  BY <1>2 DEF TurnAt, VoiceStates
<1>4. Voice!MainTo("join") /\ UNCHANGED <<mic, worker>>
  BY DEF Voice!ProcessFails
<1>5. QED BY <1>1, <1>2, <1>3, <1>4, MainMoves

LEMMA JoinThenCloseKeeps ==
  ASSUME VoiceInv, Voice!JoinThenClose
  PROVE  VoiceInv'
<1>1. VoiceSound(voice) /\ worker.pc = "done" /\ Voice!Close(Voice!CancelVoice(voice))
  BY DEF Voice!JoinThenClose, VoiceInv
<1>2. QED BY <1>1, CancelIsSound, CloseKeeps

\* Begun, spoken and failed: what is recorded meanwhile never reaches the recogniser.
LEMMA BeginAnswerKeeps ==
  ASSUME VoiceInv, Voice!BeginAnswer
  PROVE  VoiceInv'
<1>1. /\ main.pc = "begin" /\ VoiceSound(voice) /\ ~main.stale /\ mic' = <<>> /\ UNCHANGED worker
      /\ worker.pc \in {"none", "done"} /\ worker.result # "cancelled" /\ Voice!MainTo("speak")
  BY DEF Voice!BeginAnswer, VoiceInv, TurnInv, WorkerInv
<1>2. VoiceSound(voice') /\ voice'.state = "speaking"
  BY <1>1, BeginIsSound DEF Voice!BeginAnswer
<1>3. "speak" \in DOMAIN TurnAt /\ voice'.state \in TurnAt["speak"]
  BY <1>2 DEF TurnAt
<1>4. QED BY <1>1, <1>2, <1>3, NothingHeard, MainMoves

LEMMA SpeakRoundKeeps ==
  ASSUME VoiceInv, Voice!SpeakRound
  PROVE  VoiceInv'
<1> DEFINE v == IF voice.output = 0 THEN Voice!PumpSynthesis(voice) ELSE voice
<1>1. /\ main.pc = "speak" /\ voice.state = "speaking" /\ VoiceSound(voice) /\ ~main.stale
      /\ mic' = <<>> /\ UNCHANGED <<main, worker>>
  BY DEF Voice!SpeakRound, VoiceInv, TurnInv
<1>2. VoiceSound(v) /\ v.state \in {"speaking", "idle"}
  BY <1>1, PumpIsSound
<1>3. voice' = IF v.state = "speaking" THEN Voice!SendNextOutput(v) ELSE v
  BY DEF Voice!SpeakRound
<1> HIDE DEF v
<1>4. VoiceSound(voice') /\ voice'.state \in {"speaking", "idle"}
  BY <1>2, <1>3, SendIsSound
<1>5. TurnInv'
  BY <1>1, <1>4 DEF TurnInv, TurnAt
<1>6. MainTyped' /\ WorkerInv'
  BY <1>1 DEF VoiceInv, MainTyped, WorkerInv
<1>7. QED BY <1>1, <1>4, <1>5, <1>6, NothingHeard DEF VoiceInv

LEMMA SpokenKeeps ==
  ASSUME VoiceInv, Voice!Spoken
  PROVE  VoiceInv'
<1>1. /\ main.pc = "speak" /\ voice.state = "idle" /\ VoiceSound(voice) /\ mic' = <<>> /\ UNCHANGED worker
      /\ worker.pc \in {"none", "done"} /\ worker.result # "cancelled" /\ Voice!MainTo("capture")
  BY DEF Voice!Spoken, VoiceInv, TurnInv, TurnAt, WorkerInv
<1>2. VoiceSound(voice') /\ voice'.state = "idle"
  BY <1>1 DEF Voice!Spoken
<1>3. "capture" \in DOMAIN TurnAt /\ voice'.state \in TurnAt["capture"]
  BY <1>2 DEF TurnAt
<1>4. QED BY <1>1, <1>2, <1>3, NothingHeard, MainMoves

LEMMA SessionFailsKeeps ==
  ASSUME VoiceInv, Voice!SessionFails
  PROVE  VoiceInv'
<1>1. /\ VoiceSound(voice) /\ worker.pc \in {"none", "done"} /\ worker.result # "cancelled"
      /\ voice.state = "speaking" => ~main.stale
  BY DEF Voice!SessionFails, VoiceInv, TurnInv, WorkerInv
<1>2. Voice!Close(voice) \/ Voice!Close(Voice!CancelVoice(voice))
  BY DEF Voice!SessionFails
<1>3. QED BY <1>1, <1>2, CancelIsSound, CloseKeeps

LEMMA VoiceKeeps ==
  ASSUME VoiceInv, [Next]_vars
  PROVE  VoiceInv'
<1>1. CASE Voice!VoiceNext
  BY <1>1, OpenKeeps, RecordKeeps, PlayKeeps, FinishPendingKeeps, CaptureIdleKeeps, CaptureFrameKeeps, WorkerKeeps, PumpKeeps,
     BargeInKeeps, JoinedKeeps, ProcessFailsKeeps, JoinThenCloseKeeps, BeginAnswerKeeps, SpeakRoundKeeps, SpokenKeeps,
     SessionFailsKeeps
     DEF Voice!VoiceNext
<1>2. CASE UNCHANGED voiceVars
  BY <1>2 DEF voiceVars, VoiceInv, MainTyped, TurnInv, WorkerInv, Voice!EndpointDetected
<1>3. QED BY <1>1, <1>2, StepOfOne

LEMMA VoiceGives == VoiceInv => HeardIsOneTurn /\ VoiceQuiet
<1> SUFFICES ASSUME VoiceInv PROVE HeardIsOneTurn /\ VoiceQuiet
  OBVIOUS
<1>1. HeardIsOneTurn
  <2>1. voice.heard \in Seq(AudioFrame) /\ DOMAIN voice.heard = 1..Len(voice.heard)
    BY DEF VoiceInv, VoiceSound, OfOneTurn, OutsideAnswer
  <2>2. QED BY <2>1 DEF VoiceInv, VoiceSound, OfOneTurn, OutsideAnswer, HeardIsOneTurn, Voice!HeardIsOneTurn
<1>2. VoiceQuiet
  BY DEF VoiceInv, VoiceSound, TurnInv, WorkerInv, VoiceQuiet, Voice!VoiceQuiet
<1>3. QED BY <1>1, <1>2

\* Whatever is recorded, talked over or fails: what the recogniser hears is of one turn, without
\* what was recorded before an answer was spoken, and without anything after an endpoint but in
\* the pre-roll.
THEOREM OneTurnIsHeard == Spec => []HeardIsOneTurn
<1>1. QED BY VoiceStarts, VoiceKeeps, VoiceGives, PTL DEF Spec

\* However worker and microphone race: nothing is left to be said outside an output turn, an answer
\* that was talked over is never said, and a session cancelled by voice ends cancelled.
THEOREM VoiceStaysQuiet == Spec => []VoiceQuiet
<1>1. QED BY VoiceStarts, VoiceKeeps, VoiceGives, PTL DEF Spec

-----------------------------------------------------------------------------
\* governed_runner: what is proved of it alone holds of it here.  Its definitions are the same in both
\* instances, down to what they are made of.

Proofs == INSTANCE GovernedRunnerProofs

LEMMA SamePrepared ==
  ASSUME NEW cmd, NEW grant, NEW strict
  PROVE  Runner!Prepared(cmd, grant, strict) <=> Proofs!Prepared(cmd, grant, strict)
<1>1. \A s : Runner!Cardinality(s) = Proofs!Cardinality(s)
  BY DEF Runner!Cardinality, Proofs!Cardinality
<1>2. \A s, t : Runner!IsPrefix(s, t) <=> Proofs!IsPrefix(s, t)
  BY DEF Runner!IsPrefix, Proofs!IsPrefix
<1>3. Runner!SelectCommandBinding(cmd, grant, strict) <=> Proofs!SelectCommandBinding(cmd, grant, strict)
  BY <1>1, <1>2 DEF Runner!SelectCommandBinding, Runner!Argv, Proofs!SelectCommandBinding, Proofs!Argv
<1>4. QED
  BY <1>3 DEF Runner!PositivePolicy, Runner!ResolveExecutable, Runner!PythonCodeInput,
         Runner!Prepared, Proofs!PositivePolicy, Proofs!ResolveExecutable, Proofs!PythonCodeInput,
         Proofs!Prepared

LEMMA SameAdmission ==
  ASSUME NEW c
  PROVE  /\ Runner!PreparePlan(c) <=> Proofs!PreparePlan(c)
         /\ Runner!TrustedConsume(c) <=> Proofs!TrustedConsume(c)
         /\ Runner!CreateMarker(c) <=> Proofs!CreateMarker(c)
         /\ Runner!WriteMarker(c) <=> Proofs!WriteMarker(c)
         /\ Runner!UnlinkMarker(c) <=> Proofs!UnlinkMarker(c)
         /\ Runner!SyncDirectory(c) <=> Proofs!SyncDirectory(c)
BY SamePrepared DEF Runner!PreparePlan, Runner!NoPlans, Runner!Unexpired, Runner!To,
       Runner!RequiresNonce, Runner!ReplaySensitive, Runner!Classes, Runner!clockVars,
       Runner!histVars, Runner!TrustedConsume, Runner!Nonce, Runner!MarkTo, Runner!CreateMarker,
       Runner!WriteMarker, Runner!UnlinkMarker, Runner!SyncDirectory, Proofs!PreparePlan,
       Proofs!NoPlans, Proofs!Unexpired, Proofs!To, Proofs!RequiresNonce, Proofs!ReplaySensitive,
       Proofs!Classes, Proofs!clockVars, Proofs!histVars, Proofs!TrustedConsume, Proofs!Nonce,
       Proofs!MarkTo, Proofs!CreateMarker, Proofs!WriteMarker, Proofs!UnlinkMarker,
       Proofs!SyncDirectory

LEMMA SameCommand ==
  ASSUME NEW c
  PROVE  /\ Runner!Revalidate(c) <=> Proofs!Revalidate(c)
         /\ Runner!Spawn(c) <=> Proofs!Spawn(c)
         /\ Runner!Poll(c) <=> Proofs!Poll(c)
         /\ Runner!Terminate(c) <=> Proofs!Terminate(c)
         /\ Runner!AwaitStop(c) <=> Proofs!AwaitStop(c)
         /\ Runner!Join(c) <=> Proofs!Join(c)
         /\ Runner!Crash(c) <=> Proofs!Crash(c)
BY DEF Runner!Revalidate, Runner!Unexpired, Runner!To, Runner!Record, Runner!NotRun,
       Runner!clockVars, Runner!histVars, Runner!Spawn, Runner!Min2, Runner!NoUnit, Runner!NoFlags,
       Runner!Poll, Runner!Polled, Runner!Alive, Runner!Watch, Runner!Terminate, Runner!End,
       Runner!Signalled, Runner!AwaitStop, Runner!Join, Runner!Crash, Runner!Final,
       Proofs!Revalidate, Proofs!Unexpired, Proofs!To, Proofs!Record, Proofs!NotRun,
       Proofs!clockVars, Proofs!histVars, Proofs!Spawn, Proofs!Min2, Proofs!NoUnit, Proofs!NoFlags,
       Proofs!Poll, Proofs!Polled, Proofs!Alive, Proofs!Watch, Proofs!Terminate, Proofs!End,
       Proofs!Signalled, Proofs!AwaitStop, Proofs!Join, Proofs!Crash, Proofs!Final

LEMMA SameUnit ==
  ASSUME NEW c
  PROVE  /\ Runner!Inspect(c) <=> Proofs!Inspect(c)
         /\ Runner!Seal(c) <=> Proofs!Seal(c)
         /\ Runner!Exec(c) <=> Proofs!Exec(c)
         /\ Runner!Payload(c) <=> Proofs!Payload(c)
         /\ Runner!RuntimeMax(c) <=> Proofs!RuntimeMax(c)
         /\ Runner!ClientDies(c) <=> Proofs!ClientDies(c)
BY DEF Runner!Inspect, Runner!Unexpired, Runner!End, Runner!UnitStep, Runner!clockVars,
       Runner!callVars, Runner!Seal, Runner!Exec, Runner!Payload, Runner!RuntimeMax, Runner!Alive,
       Runner!ClientDies, Proofs!Inspect, Proofs!Unexpired, Proofs!End, Proofs!UnitStep,
       Proofs!clockVars, Proofs!callVars, Proofs!Seal, Proofs!Exec, Proofs!Payload,
       Proofs!RuntimeMax, Proofs!Alive, Proofs!ClientDies

LEMMA SameEnvironment ==
  /\ Runner!Submit <=> Proofs!Submit
  /\ Runner!Tick <=> Proofs!Tick
  /\ Runner!Edit <=> Proofs!Edit
  /\ Runner!PowerLoss <=> Proofs!PowerLoss
BY DEF Runner!Submit, Runner!NoPlans, Runner!clockVars, Runner!histVars, Runner!Tick,
       Runner!callVars, Runner!Edit, Runner!PowerLoss, Runner!Losses, Runner!NewDirectory,
       Runner!Final, Runner!Alive, Proofs!Submit,
       Proofs!NoPlans, Proofs!clockVars, Proofs!histVars, Proofs!Tick, Proofs!callVars, Proofs!Edit,
       Proofs!PowerLoss, Proofs!Losses, Proofs!NewDirectory, Proofs!Final, Proofs!Alive

LEMMA SameStep == (Runner!Next \/ UNCHANGED runnerVars) <=> [Proofs!Next]_(Proofs!vars)
<1>1. \A c : (Runner!CallStep(c) <=> Proofs!CallStep(c)) /\ (Runner!Crash(c) <=> Proofs!Crash(c))
  BY SameAdmission, SameCommand DEF Runner!CallStep, Proofs!CallStep
<1>2. Runner!Next <=> Proofs!Next
  BY <1>1, SameUnit, SameEnvironment DEF Runner!Next, Proofs!Next
<1>3. UNCHANGED runnerVars <=> UNCHANGED Proofs!vars
  BY DEF runnerVars, Proofs!vars, Proofs!clockVars, Proofs!callVars, Proofs!histVars
<1>4. QED BY <1>2, <1>3

LEMMA SameStart == OperationsAssumption => Proofs!RunnerAssumption /\ (Init => Proofs!Init)
<1>1. Runner!RunnerAssumption <=> Proofs!RunnerAssumption
  BY DEF Runner!RunnerAssumption, Runner!Original, Runner!Command, Runner!Classes, Runner!Names,
         Runner!WellFormed, Proofs!RunnerAssumption, Proofs!Original, Proofs!Command, Proofs!Classes,
         Proofs!Names, Proofs!WellFormed
<1>2. Runner!Init <=> Proofs!Init
  BY DEF Runner!Init, Runner!Original, Runner!NoPlans, Runner!NoFlags, Runner!NoUnit, Proofs!Init,
         Proofs!Original, Proofs!NoPlans, Proofs!NoFlags, Proofs!NoUnit
<1>3. QED BY <1>1, <1>2 DEF OperationsAssumption, Init

LEMMA SameInv == RunnerInv <=> Proofs!Inv
BY DEF RunnerInv, Runner!Inv, Runner!TypeOK, Runner!Marker, Proofs!Marker, Runner!Time, Runner!NoPlans, Runner!Final,
       Runner!ReceiptsTruthful, Runner!NothingLeftRunning, Runner!Alive,
       Runner!RunsWhatWasValidated, Runner!Current, Proofs!Inv, Proofs!TypeOK, Proofs!Time,
       Proofs!NoPlans, Proofs!Final, Proofs!ReceiptsTruthful, Proofs!NothingLeftRunning,
       Proofs!Alive, Proofs!RunsWhatWasValidated, Proofs!Current

\* Whatever crashes, is edited, times out or dies alone: receipts tell the truth, a call that
\* returned left nothing running, and what runs is what was validated.
THEOREM RunnerStaysSound == Spec => []RunnerInv
<1>1. Proofs!RunnerAssumption
  BY OperationsAssumption, SameStart
<1>2. Init => Proofs!RunnerInv
  BY <1>1, OperationsAssumption, SameStart, Proofs!InitRunnerInv
<1>3. Proofs!RunnerInv /\ [Next]_vars => Proofs!RunnerInv'
  BY <1>1, StepOfOne, SameStep, Proofs!NextRunnerInv
<1>4. Proofs!RunnerInv => RunnerInv
  BY <1>1, SameInv, Proofs!RunnerInvGives
<1>5. QED BY <1>2, <1>3, <1>4, PTL DEF Spec

LEMMA SameOnce ==
  /\ Runner!Once!Init <=> Proofs!Once!Init
  /\ [Proofs!Once!Next]_(Proofs!Once!vars) => [Runner!Once!Next]_(Runner!Once!vars)
<1>1. \A a, i : /\ Runner!Once!Claim(a, i) <=> Proofs!Once!Claim(a, i)
                /\ Runner!Once!Act(a, i) <=> Proofs!Once!Act(a, i)
  BY DEF Runner!Once!Claim, Runner!Once!Act, Proofs!Once!Claim, Proofs!Once!Act, Runner!Nonce, Proofs!Nonce,
         Runner!Kept, Runner!NewDirectory, Runner!NoPlans, Proofs!Kept, Proofs!NewDirectory, Proofs!NoPlans,
         Runner!RequiresNonce, Runner!ReplaySensitive, Runner!Classes,
         Proofs!RequiresNonce, Proofs!ReplaySensitive, Proofs!Classes
<1>2. Runner!Once!Next <=> Proofs!Once!Next
  BY <1>1 DEF Runner!Once!Next, Proofs!Once!Next
<1>3. UNCHANGED Proofs!Once!vars <=> UNCHANGED Runner!Once!vars
  BY DEF Runner!Once!vars, Proofs!Once!vars, Runner!Nonce, Proofs!Nonce,
         Runner!Kept, Runner!NewDirectory, Runner!NoPlans, Proofs!Kept, Proofs!NewDirectory, Proofs!NoPlans,
         Runner!RequiresNonce, Runner!ReplaySensitive, Runner!Classes,
         Proofs!RequiresNonce, Proofs!ReplaySensitive, Proofs!Classes
<1>4. Runner!Once!Init <=> Proofs!Once!Init
  BY DEF Runner!Once!Init, Proofs!Once!Init, Runner!Nonce, Proofs!Nonce,
         Runner!Kept, Runner!NewDirectory, Runner!NoPlans, Proofs!Kept, Proofs!NewDirectory, Proofs!NoPlans,
         Runner!RequiresNonce, Runner!ReplaySensitive, Runner!Classes,
         Proofs!RequiresNonce, Proofs!ReplaySensitive, Proofs!Classes
<1>5. QED BY <1>2, <1>3, <1>4

\* A nonce is consumed by one call, whatever crashes and whatever of the markers a power loss
\* takes, and only that call spawns commands of a replay-sensitive plan.
THEOREM NonceStaysSingleUse == Spec => NonceIsSingleUse
<1>1. Proofs!RunnerAssumption
  BY OperationsAssumption, SameStart
<1>2. Init => Proofs!NonceInv /\ Runner!Once!Init
  <2>1. Proofs!Init => Proofs!Once!Init
    BY DEF Proofs!Init, Proofs!Once!Init
  <2>2. QED BY <1>1, <2>1, OperationsAssumption, SameStart, SameOnce, Proofs!InitNonceInv
<1>3. Proofs!NonceInv /\ [Next]_vars => Proofs!NonceInv' /\ [Runner!Once!Next]_(Runner!Once!vars)
  BY <1>1, StepOfOne, SameStep, SameOnce, Proofs!NextNonceInv, Proofs!StepImplements
<1>4. QED BY <1>2, <1>3, PTL DEF Spec, NonceIsSingleUse, Runner!ImplementsSingleUse, Runner!Once!Spec
=============================================================================
