------------------------- MODULE GovernedOperations -------------------------
(***************************************************************************)
(* The operations that one command, call or session carries out on its     *)
(* own: a governed plan, a DNS change, the validation and the upload of a  *)
(* staging preview, a change of the canonical memory, remote actions, a    *)
(* voice session, a room's texts, the calls of a step's models, and a Work *)
(* Block.  Each is a system of its own module.  They share no state, so    *)
(* that a behaviour of this specification is one of exactly one of them.   *)
(***************************************************************************)
EXTENDS Integers, Sequences, FiniteSets

CONSTANTS
  Calls, Nonces, Workloads, Files, MaxTime, NoCall,
  Manifests, Zone, Foreign, MaxEdits,
  Packet, Drafts, Commits, Unread, MaxDraftEdits,
  Uploads, Previews, NoUpload, MaxClock, Skew, MaxLifetime,
  MemoryCommands, FirstArtifact, NoArtifact, NoIdentity, MaxCommands,
  RemoteCalls, Actions, ClientGrants, ServerGrants, DockerOutcomes,
  Controllers, InputLimit, PrerollLimit, SpokenLimit, DeviceLimit, MicLimit, MaxFrames,
  Submits, Addressed, Agents, Online,
  Proposals, MaxAttempts, MaxSteps, NoProvenance,
  Packages, Identities, TargetBranch, Branches, Absent, Rewritable, LeftBehind, MaxApplyEdits

VARIABLES
  operation, \* the operation that is carried out
  now, disk, markers, plan, pc, at, identity, deadline, flags, unit, receipt, status, owner, spawned, done,
  zone, dns, evidence, dnsHist,
  files, git, packet, edited,
  clock, up, nonces, root,
  book, committed, job, torn, jobs,
  client, server, effects,
  voice, mic, frames, main, worker,
  room, registry, submit,
  models, modelCall, pipeline, cancel,
  repo, block, apply, applied

Runner == INSTANCE GovernedRunner
Dns == INSTANCE DnsApply
FirstWrite == INSTANCE FirstWritePacket
Preview == INSTANCE StagingPreview
Memory == INSTANCE CanonicalMemory
Remote == INSTANCE RemoteExecution
Voice == INSTANCE VoiceTurns
Room == INSTANCE RoomCoordinator
Models == INSTANCE ModelCalls
WorkBlock == INSTANCE WorkBlockApply

ASSUME OperationsAssumption ==
  /\ Runner!RunnerAssumption /\ Dns!DnsAssumption /\ Room!RoomAssumption /\ NoUpload \notin Uploads
  /\ MaxAttempts \in Nat \ {0} /\ DeviceLimit \in Nat \ {0}

Init ==
  /\ operation \in {"runner", "dns", "firstwrite", "preview", "memory", "remote", "voice", "room", "models", "workblock"}
  /\ Runner!Init /\ Dns!DnsInit /\ FirstWrite!PacketInit /\ Preview!PreviewInit /\ Memory!MemoryInit
  /\ Remote!RemoteInit /\ Voice!VoiceInit /\ Room!RoomInit /\ Models!ModelInit /\ WorkBlock!ApplyInit

runnerVars == <<now, disk, markers, plan, pc, at, identity, deadline, flags, unit, receipt, status, owner, spawned, done>>
dnsVars == <<zone, dns, evidence, dnsHist>>
packetVars == <<files, git, packet, edited>>
previewVars == <<clock, up, nonces, root>>
memoryVars == <<book, committed, job, torn, jobs>>
remoteVars == <<client, server, effects>>
voiceVars == <<voice, mic, frames, main, worker>>
roomVars == <<room, registry, submit>>
modelVars == <<models, modelCall, pipeline, cancel>>
applyVars == <<repo, block, apply, applied>>
vars ==
  <<operation, runnerVars, dnsVars, packetVars, previewVars, memoryVars,
    remoteVars, voiceVars, roomVars, modelVars, applyVars>>

RunnerStep(step) ==
  /\ operation = "runner" /\ step
  /\ UNCHANGED <<operation, dnsVars, packetVars, previewVars, memoryVars, remoteVars,
                 voiceVars, roomVars, modelVars, applyVars>>

DnsOperation ==
  /\ operation = "dns" /\ Dns!DnsNext
  /\ UNCHANGED <<operation, runnerVars, packetVars, previewVars, memoryVars, remoteVars,
                 voiceVars, roomVars, modelVars, applyVars>>

FirstWriteValidation ==
  /\ operation = "firstwrite" /\ FirstWrite!PacketNext
  /\ UNCHANGED <<operation, runnerVars, dnsVars, previewVars, memoryVars, remoteVars,
                 voiceVars, roomVars, modelVars, applyVars>>

PreviewUploads ==
  /\ operation = "preview" /\ Preview!PreviewNext
  /\ UNCHANGED <<operation, runnerVars, dnsVars, packetVars, memoryVars, remoteVars,
                 voiceVars, roomVars, modelVars, applyVars>>

MemoryChanges ==
  /\ operation = "memory" /\ Memory!MemoryNext
  /\ UNCHANGED <<operation, runnerVars, dnsVars, packetVars, previewVars, remoteVars,
                 voiceVars, roomVars, modelVars, applyVars>>

RemoteActions ==
  /\ operation = "remote" /\ Remote!RemoteNext
  /\ UNCHANGED <<operation, runnerVars, dnsVars, packetVars, previewVars, memoryVars,
                 voiceVars, roomVars, modelVars, applyVars>>

VoiceSession ==
  /\ operation = "voice" /\ Voice!VoiceNext
  /\ UNCHANGED <<operation, runnerVars, dnsVars, packetVars, previewVars, memoryVars,
                 remoteVars, roomVars, modelVars, applyVars>>

RoomTexts ==
  /\ operation = "room" /\ Room!RoomNext
  /\ UNCHANGED <<operation, runnerVars, dnsVars, packetVars, previewVars, memoryVars,
                 remoteVars, voiceVars, modelVars, applyVars>>

ModelStep ==
  /\ operation = "models" /\ Models!ModelNext
  /\ UNCHANGED <<operation, runnerVars, dnsVars, packetVars, previewVars, memoryVars,
                 remoteVars, voiceVars, roomVars, applyVars>>

WorkBlockRun ==
  /\ operation = "workblock" /\ WorkBlock!ApplyNext
  /\ UNCHANGED <<operation, runnerVars, dnsVars, packetVars, previewVars, memoryVars,
                 remoteVars, voiceVars, roomVars, modelVars>>

Next ==
  \/ RunnerStep(Runner!Next) \/ DnsOperation \/ FirstWriteValidation \/ PreviewUploads \/ MemoryChanges
  \/ RemoteActions \/ VoiceSession \/ RoomTexts \/ ModelStep \/ WorkBlockRun

\* The fairness of the runner: processes are scheduled, time passes, systemd enforces its limits.
Fairness ==
  /\ WF_runnerVars(RunnerStep(Runner!Tick))
  /\ \A c \in Calls : WF_runnerVars(RunnerStep(Runner!CallStep(c))) /\ WF_runnerVars(RunnerStep(Runner!RuntimeMax(c)))

Spec == Init /\ [][Next]_vars /\ Fairness

-----------------------------------------------------------------------------
\* governed_runner: see GovernedRunner for the parts: receipts tell the truth, nothing is left
\* running, and what runs is what was validated.
RunnerInv == Runner!Inv

\* governed_runner: a nonce that is kept is consumed by one call, and only it spawns commands.
NonceIsSingleUse == Runner!ImplementsSingleUse

\* governed_runner: every call ends, and so does every unit, also one whose call is dead.
RunsEnd == Runner!RunsEnd

\* cloudflare_dns: a batch that reaches the zone was approved, its evidence restores what it
\* replaces, and it leaves other records alone.
WriteIsGuarded == Dns!WriteIsGuarded

\* cloudflare_dns: VERIFIED is a fact that was seen, and the rollback of the evidence restores the zone.
DnsIsHonest == Dns!VerifiedIsSeen /\ Dns!RollbackRestores

\* first_write_packet: what is sealed is what one authorization approved.
SealedIsApproved == FirstWrite!SealedIsApproved

\* staging_preview_runtime: one approval creates at most one file, and a failure that rules out
\* a mutation left none.
UploadIsHonest == Preview!OneFilePerApproval /\ Preview!FailureIsHonest

\* checkpoint_memory and post_merge_state: both files or none, and Kernel, State and worklog agree.
MemoryIsWhole == Memory!AllOrNothing /\ Memory!MemoryCoherent

\* execution: receipts never rule out a mutation that happened, and what they claim happened; an
\* inventory that does not validate is not reported.
RemoteIsHonest == Remote!ReceiptsAreHonest /\ Remote!InventoryValidates

\* voice: an utterance is of one turn.
HeardIsOneTurn == Voice!HeardIsOneTurn

\* voice: what was interrupted is never said, and what was cancelled stays so.
VoiceQuiet == Voice!VoiceQuiet

\* communication: every agent that was heard is accounted for, and every event has its cause.
RepliesAccounted == Room!RepliesAccounted

\* longrun.provider: the receipts of a step are of calls that were made as they say.
ReceiptsAreBound == Models!ReceiptsAreBound

\* commands.apply: hooks run on what was verified and trusted, and are rolled back when they fail.
AppliedAsVerified == WorkBlock!AppliedAsVerified
=============================================================================
