# A verification development of CyberCore

This directory specifies the parts of CyberCore (`src/src/cybercore`) whose
correctness depends on the order of steps: who may act once, what survives a
crash, what a timeout leaves behind, and which stored record may be believed.
Each TLA+ module is written from the Python source; `PROJECT.json` maps every
definition to the lines it stands for. Paths below are relative to
`src/src/cybercore` unless they begin with `docs/` or `tests/`.

## 1. The system

CyberCore is a governed operations toolkit. Nothing in it is one big server:
it is a set of small authorities that hand records to each other, most of them
fail-closed.

| Component | State it keeps | Operations | What makes it correct |
|---|---|---|---|
| Action kernel (`action_kernel.py`) | reserved task ids, in memory, under a lock | `execute`: audit, policy, audit, expiry again, reserve, evidence, two audits | a task id is executed once; an execution is claimed only with its whole trail stored; a denial consumes nothing; every call returns a receipt |
| CyberHIVE bridge (`action_kernel_hive_bridge.py`, `..._sqlite_replay.py`) | process replay guard (bounded, expiring), durable replay table | `run_local_hive_dry_run` | one dispatch per authorization (actor, task id and correlation id) across threads, processes, restarts and clock corrections; results accepted in time; refusals leave the authorization usable |
| Trusted broker (`action_kernel_trusted_broker.py`) | none | `execute` | only a receipt of this very call reaches the bridge; what is dispatched is on record, once per authorization |
| Audit trail (`action_kernel_sqlite_audit.py`, `..._audit_checkpoint.py`, `..._anchor_authority.py`) | hash-chained SQLite table; anchors kept elsewhere | sink call, export, propose, compare-and-set | events whose call committed stored once, chain intact, anchors only advance, damage below an anchor is detected |
| Long-run runtime (`longrun/`) | run row, append-only ledger, both in SQLite | start, resume, perform one step | the row is the replay of the ledger; limits hold across restarts; completion is justified; a terminal run is never touched |
| Room broker and wake dispatcher (`mcp/room_broker.py`, `wake/`) | ledger (external), ledger lock, bounded wake queue, thread | post, submit, send, drain, start, stop | wakes in ledger order, once; posts never wait for a wake; `drain` keeps its word |
| Slack ingress (`mcp/slack_ingress.py`) | cursor file | poll, post, save | no message skipped, first occurrences in order, duplicates only where explained |
| Failover simulator (`failover_sim.py`) | journal, lease row, provider epoch, effects | `run`, `reconcile`, `compensate`, `lease` | no operation restarts a service twice; an unresolved one blocks others; reported success is real |
| Governed runner (`governed_runner.py`, `governed_plan.py`) | nonce markers on disk, one transient unit per command | `execute`: prepare, consume the nonce, look again, spawn, watch, terminate, join | a nonce is used once, over power loss; what runs is what was validated; receipts are true; nothing is left running |
| Remote execution (`execution/`) | effects on the server | SSH client and forced-command server | no receipt denies a mutation that was made or may still be made; an inventory always validates |
| Staging write path (`first_write*.py`, `staging_preview_runtime.py`, `staging.py`) | draft files, nonce service, remote directory | packet validation and seal, preview upload | what is sealed is what one authorization approved; one upload per approval; failures are honest |
| Cloudflare DNS (`cloudflare_dns.py`) | the zone, evidence directory | plan, apply, verify, roll back | only the approved change, with evidence before it; VERIFIED was seen; the rollback restores |
| Canonical memory (`checkpoint_memory.py`, `post_merge_state.py`, `memory.py`) | several Markdown and JSON files | staged replacement with rollback | all files of one command or none, and they agree |
| Voice (`voice/`) | turn state, audio buffers, session, worker thread | input, synthesis, barge-in, cancel | an utterance is of one turn, and nothing recorded during an answer; nothing is said after an interruption; a cancelled session stays so |
| Room coordinator (`communication/`) | none (room events) | `submit_text`, `submit_voice_transcript` | every agent that was heard is accounted for by one event |
| Model provider (`longrun/provider.py`, `longrun/model_components.py`) | attempts of a call, receipts of a step | `ModelRuntime.call`, planner, worker, evaluator | receipts of a step are of calls that were made as they say |
| Work Block apply (`commands/apply.py`, `commands/verify.py`) | repository, package | verify, confirm, enforce the context, hooks, rollback | hooks run in the context that was confirmed, on what was verified unless the package's own scripts rewrote it |
| Orchestration, CASER checks, MCP adapters, CLI | none | pure checks and I/O | unit-testable |

How they interact:

- The broker calls the kernel and passes its receipt to the bridge in the same
  call; the bridge calls the process guard, the durable guard and the registry.
  The kernel calls an evidence sink, which is the SQLite audit sink. A publisher
  reads the audit database and proposes anchors to an external store.
- The room broker is the one writer of a room. Its handler threads append under
  a lock and put wake requests into a queue; the dispatcher's thread calls
  sinks. The Slack ingress is a client of the room broker in another process.
- The long-run engine calls back planner, executor and evaluator, and writes
  one transaction per step.
- Failover controllers share a journal file and a provider.
- The governed runner, the DNS apply, the packet validation, the preview upload,
  the memory commands, the remote bridge, the voice session, the room
  coordinator, the model provider and the Work Block apply are operations that
  one process carries out on its own. They meet the world, not each other: what
  interferes with them is somebody who edits the same file, zone or branch, a
  server that goes on, a second run of the same operation, or a crash.

What is hard: threads of one process between two critical sections (kernel,
guards, room), processes that share only a file (replay store, audit database,
journal), errors raised after a commit, crashes between an effect and its
record, two clocks of which one may be set back, client timeouts while the
server goes on, and bounded queues, guards and reads. `PROJECT.json` lists each
of these under `hazards` at its line.

## 2. Modules

| Module | Models | State and actions |
|---|---|---|
| `SingleUse` | the promise of an at-most-once admission | `Claim` an item for ever, `Act` once as its owner |
| `ActionKernel` | `ActionKernel.execute` | one action per step of the method: `AuditRequest`, the two halves of the policy, `AuditPolicy`, `Recheck`, `Reserve`, `BuildEvidence`, `AuditExecution`, `AuditEvidence`; the sink may raise before or after it stored; `Die`, `Tick`, `StepBack` |
| `HiveBridge` | `run_local_hive_dry_run` | `Begin`, three clock samples, `Recheck`, `ReadNow`, `ProcessClaim`, `DurableClaim`, `Dispatch`, `Result`; both clocks; process death |
| `TrustedBroker` | the composition | the kernel, extended, and an instance of the bridge on its calls and clock; a replay key (`Keys`) is an actor, a task id and a correlation id; `Admit`, `HandOver` |
| `AuditLog` | the audit database and its anchors | sink: `Begin`, `ReadLast`, `Commit` (which returns, or raises or dies all the same), `Rollback`; publisher: `ReadAccepted`, `ExportCheckpoint`, `Propose`, `AcceptIfCurrent`; damage: `Edit`, `Lose`, `Restore` |
| `LongRun` | `LongRunEngine` on its store, under the operator | load, create, watchdog, plan, admit, execute, evaluate, finish, each transaction with the crash or database error that replaces it |
| `RoomBroker` | broker handlers, wake queue, dispatcher thread, runtime owner | `Receive`, `AppendEvent`, `Submit`, `Answer`; `Check`, `Get`, `Send`, `TaskDone`; `Start`, `CloseSockets`, `Drain`, `PutStop`, `Join` |
| `SlackIngress` | the ingress process, its client and the broker behind it | `Fetch`, `Ingest`, `Answered`, `GiveUp`, `SaveState`, `Fail`, `Restart`; `Serve`, `ServeStale`; Slack's `Write` |
| `FailoverSim` | controllers on one journal and provider | `Begin`, `Look`, `Gate`, `Mark`, `Regate`, `Fetch`, `Mutate` or `Refuse`, `Verify`, `Confirm`, `Observe`, `Finish`, `Crash`; `Acquire`, `Fence` |
| `CommandPolicy` | which commands a plan may hold | `Prepared`: binding, executable, shell, working directory, production policy |
| `GovernedRunner` | `GovernedRunner.execute` and the wrapper in its unit | `PreparePlan`; `TrustedConsume` or `CreateMarker`, `WriteMarker`, `UnlinkMarker`, `SyncDirectory`; `Revalidate`, `Spawn`, `Poll`, `Terminate`, `AwaitStop`, `Join`; inside the unit `Inspect`, `Seal`, `Exec`, `Payload`; `RuntimeMax`, `ClientDies`, `Edit`, `Crash`, `PowerLoss` |
| `DnsPlan`, `DnsApply` | `cloudflare_dns`: the pure planning, and `apply_manifest` for a manifest and its rollback | `PlanCommand`, `FindZone`, `ListRecords`, `PrepareEvidence`, `BoundaryIdentity`, `BoundaryRecords`, `ApplyBatch`, `Verify`; `ForeignEdit`, `DnsStops` |
| `FirstWriteDocuments`, `FirstWritePacket` | the checks on the first-write documents, and `validate_first_write_packet` | capture of each document, validation in place and on the snapshot, git, artifacts, `Seal`, the blocked `Upload`; `Draft` by others |
| `StagingPreview` | `execute_staging_preview_stou` | `Gates`, `ConnectFtps`, `ConsumeNonce`, `FinalVerify`, `Stou`, `HashRemoteFile`; `UploadStops`, `Rewritten` |
| `CanonicalMemory` | checkpoints and the post-merge closeout | `PlanCheckpoint`, `PlanPostMerge`, `StageTargets`, `ReplaceTargets`, `RollBackTargets`, `MemoryStops`; the operator's `Commit`, `Restore` |
| `RemoteExecution` | both ends of the SSH bridge | `ExecuteAction`, `TransportFails`, `Answered`; `Receive`, `Dispatch`, `CommandEnds` |
| `VoiceTurns` | the local voice session: main thread, worker thread, microphone, speaker, realtime runtime | `Record`, `Play`, `CaptureIdle`, `CaptureFrame`, `FinishPending`, `BeginAnswer`, `PumpAvailableInput`, `BargeIn`, `SpeakRound`, `WorkerStep`, `JoinThenClose`, ... |
| `RoomCoordinator` | `submit_text`, `submit_voice_transcript`, the registry | `SubmitText`, `SelectAgents`, `Ask`, `AppendReply`, `AppendError`, `Register` |
| `ModelCalls` | `ModelRuntime.call` and the components made of it | `BeginAttempt`, `Invoke`, `Retry`, `AcceptResponse`; `Plan`, `Execute`, `Evaluate`; `NewProcess`, `Cancelled` |
| `WorkBlockApply` | `cybercore apply` | `Prepare`, `VerifyWorkBlock`, `VerifyAction`, the reads of the context, `Enforce`, the four hooks; verify.sh and the hooks may leave repository and package changed (`Runs`); `EditRepository`, `ApplyStops` |
| `GovernedOperations` | the ten single operations as one specification | `operation` chooses one of them; its actions are theirs |
| `MC*` | instances for TLC | the values of the constants, nothing else |
| `*Proofs` | theorems for TLAPS | see section 5 |

`TrustedBroker` extends `ActionKernel`, whose calls it hands over, and instantiates
`HiveBridge` on the kernel's requests and clock. Kernel, bridge and governed runner each implement `SingleUse` under a refinement
mapping, stated as the property `ImplementsSingleUse` (for the runner,
`NonceIsSingleUse` of the composite), checked by TLC and proved.

`GovernedOperations` instantiates the modules of the single operations over
disjoint variables. It is a disjoint union and not an interleaving, because they
share no state: a behaviour is one of exactly one of them, chosen by `operation`
in the initial state, and every property is that of the module it belongs to.

Definitions whose comment begins with "Mutant:" are not part of a
specification. Each is a plausible error in the definition that follows it, and
putting it in that definition's place makes TLC report the property
`PROJECT.json` lists it for. A property that is a conjunction of claims has a
mutant for each claim that could fail on its own.

### Abstractions

- Identifiers, payloads, paths and messages are model values. SHA-256 is the
  sequence of what was hashed, so that two digests are equal exactly when their
  inputs are.
- Policy checks are the name of the first check that fails, split at the
  point where `execute` reads the clock and the reservations.
  Every policy check ends with a verdict: arguments nested so deeply that
  `json.dumps` raises `RecursionError`, which `_evaluate_policy` does not catch
  (`action_kernel.py:357`), are outside the model.
- Bridge tasks and receipts keep the fields the bridge compares: the replay key
  for the identifiers, and the three times. A call presents any key of its task id.
- Clocks are small numbers. The wall clock may be set, where the run says so;
  the monotonic clock only advances.
- Planner, executor and evaluator of a long run return anything their types
  allow, or raise, and take time.
- In the failover model, scope, approval, capabilities, verdicts and lifetimes
  are one choice at every look at the gates, because each of them may begin or
  end between any two looks; the barrier of unresolved operations, the lease and
  the epochs are modelled exactly.
- The identity of an executable is its metadata and its content; an edit that
  restores the metadata is possible. The grant's expiry is the bound of the
  clock.
- DNS records, documents and packages are records of the fields that the code
  compares; a file that is missing or unreadable is a value of its own.
- Audio frames are what detector and recogniser see of them (speech or not, an
  endpoint or not) and when they were recorded: during an answer, while the device
  still plays the tail of one, or in a quiet room. The device takes frames up to
  `DeviceLimit` and plays them in its own time. Recogniser, synthesiser and intent
  compiler answer anything.
- The files of a work block are contents that equal their checksum or not. A
  script may rewrite the files of `Rewritable` and leave the repository in a state of
  `LeftBehind`; the theorem is for any.
- The external event store of the room answers a bounded read with its oldest
  events; the two Slack runs depend on it.

## 3. Runs

| Run | Instance | What it shows |
|---|---|---|
| `action_kernel` | 3 calls on 2 kernels, 2 task ids, 5 kinds of request, clock of 2 values that may step back | `Inv`; `ConsumptionIsSound`: one execution per task, consumption only on record, denial consumes nothing; `EveryCallReturns`; `ImplementsSingleUse` |
| `hive_bridge` | 2 calls, in one process or two, same or another key, durable, fresh or no guard; both clocks to 2; guard capacity 1 | `Inv`; `GuardsAreFair`: the process guard alone suffices while the clock is not set back, and a refusal leaves the claim; `AcceptedWithinAuthorization`; `ImplementsSingleUse` |
| `trusted_broker` | 2 calls of one task in two processes, with one replay key or two, wall clock to 2 that may be set back | `OneAuditedDispatch`: a dispatch has its whole trail and happens once per replay key; `ClaimsDrain` |
| `audit_log` | 4 events (one too large), 2 publishers racing for one identity, one damage of any kind | `Inv`; `TrailIsFaithful`: stored once if and only if the call reached its commit point, and damage below an anchor detected; `AnchorsAdvance` |
| `longrun` | 4 workers one after the other, 2 missions, 2 steps a call, every limit at 1 or 2 | `Inv`; `LedgerIsFaithful`: the row is the replay of the ledger, and no step is executed twice; `EndsAreJustified`: completion is justified, an end is final |
| `longrun_two_workers` | 2 workers at the same time | violation of `LedgerIsSequence` (a finding) |
| `room_broker` | 3 posts, queue of 2, 2 sinks, the runtime started twice | `Inv`, which holds the order of wakes; `DrainedIsAttempted`, `PostsComplete`, `AcceptedIsAttempted` |
| `slack_ingress` | 3 messages, window of 3 events, sessions of up to 6, up to 2 given-up posts | `IngressInv`: nothing is skipped; `SessionIsFaithful`: first occurrences in order, and every duplicate has its cause |
| `slack_window` | the same without given-up posts | violation of `IngestedOnce` (a finding) |
| `failover` | 2 controllers, 2 operations of 2 actors, 3 leases, 3 effects, provider with and without receipts | `Inv`; `RestartsAreTrue`: at most one restart, none when STOPPED; `NoOverlap`; `SuccessIsReal` |
| `failover_fencing` | the same | violation of `EffectByHolder` (a finding) |
| `governed_operations` | 360,857 states of ten operations, see below | `RunnerInv`, `NonceIsSingleUse`, `RunsEnd`; `WriteIsGuarded`, `DnsIsHonest`; `SealedIsApproved`; `UploadIsHonest`; `MemoryIsWhole`; `RemoteIsHonest`; `HeardIsOneTurn`, `VoiceQuiet`; `RepliesAccounted`; `ReceiptsAreBound`; `AppliedAsVerified` |

The instances of `governed_operations`, one line per operation:

- runner: 2 calls on one nonce, plans of one and two commands, strict and not,
  that the policy admits or refuses; a clock of 2 values; a new marker directory and an old one; files replaced with
  and without their metadata. Two calls are what races for a marker; the second
  command is what a failed first one must prevent.
- DNS: 6 manifests on a zone of 3 records (one with metadata, one protected
  type), one foreign edit at any point, a command and its rollback. One edit
  falls before, between or after the two looks, and before or after the batch.
- first write: a packet of commit `k1`, documents of `k2` or a pending
  authorization that replace its files, 3 edits. A switch of a consistent pair
  and back needs three.
- preview: 2 uploads on one approval, a clock to 2 with a skew of 1.
- memory: 3 commands out of 2 checkpoints and 2 closeouts, so that a retry
  follows a crash and another command follows both.
- remote: a read, a mutation authorized on both sides and one that only the
  client authorizes; 4 outcomes of the docker commands.
- voice: 4 recorded frames, a pre-roll, an input, a microphone queue and an answer
  of 2 frames each, a device that holds one, with a worker thread and without. Four
  frames overrun each buffer, let a frame of the next turn arrive in the same round
  as the end of this one, and leave one for the tail of an answer; two spoken frames
  make the second wait for the device.
- room: 2 texts, one for all of 3 agents, of which 2 are online.
- models: 2 attempts, 2 steps, 2 proposals, with a new process at every point.
- Work Block: 3 packages (complete but for checksums of its optional hooks, without
  optional hooks, with an incomplete list of checksums), one edit of anything by
  others, and scripts that may rewrite or remove the action and leave the repository
  as it is or in one of 3 states: in order, on another branch, or unclean with the
  origin of another repository.

Why the bounds suffice. The hazards are races of two parties, so two calls that
collide and one that does not are the least that shows them; a third kernel call
runs on a kernel without a sink. A guard of capacity 1 makes the second claim
meet the limit. Clocks of three values separate before, at and after an expiry.
Four workers let a run be created, crash, be resumed with another mission, and
be resumed after its end. A queue of two is overrun by a broadcast beside
another event. A window of three with sessions of six puts a message inside,
at and beyond the window. Two effects are needed for a repeated restart, a third
leaves room for the other operation or a restore; three leases give a takeover
and a hand-back. Deadlock is not checked where every call may have returned, no
more time passes, and the system has rightly stopped.

Fairness. `ActionKernel!FairSpec` is weak fairness of each call's step: threads
are scheduled by the operating system, sinks and the lock return. `Die` is
another action and is never forced. `RoomBroker!FairSpec` is weak fairness of
every handler and of the dispatcher's thread: a handler holds the lock only
around calls that do not block, and the webhook sink has a timeout. Nothing is
assumed of clients, of the owner of the runtime, or of clocks.
`GovernedRunner`'s fairness, which `GovernedOperations!Spec` carries, is weak
fairness of the step of every call, of time, and of `RuntimeMax`: processes are
scheduled, the watch loop of the code compares with a clock that goes on, and
systemd enforces the `RuntimeMaxSec` that the code gives every unit. `RunsEnd`
needs the last one for a unit whose call is dead; no signal that the runner sends
is assumed to arrive. The other specifications are checked for safety only.

## 4. Findings

1. `longrun_two_workers`: ADR-0007 calls a run a sequence of independently
   checkpointed steps. Two operators that resume the same run both execute and
   record step n + 1, because `save_with_event` does not compare the row with
   the one that was loaded (`longrun/state.py:206`).
2. `slack_window`: the test suite states that a Slack message is idempotent by
   channel and timestamp. `_already_ingested` reads the first 1000 events of the
   session, so that it does not find a message behind them
   (`mcp/slack_ingress.py:167`).
3. `failover_fencing`: the runbook has exclusive lease and effect-boundary
   fencing checked independently. `run` sends the epoch of the lease that is
   current after its last look at the gates, whoever holds it
   (`failover_sim.py:478`). It takes two controllers that run at the same time;
   the command line runs one.

Two further disagreements with documents are in the models, as exceptions that the
properties name. `docs/architecture/CYBER_VOICE_LOCAL.md:197` says that during playback
microphone frames are not passed to `receive_input`; `speak` discards the microphone's
audio when the device has accepted the last frame (`voice/local_runtime.py:463`), and
neither flushes the output nor waits for it, so that a device which buffers plays the
tail of the answer into the next turn (`Play`, frames of moment "tail").
`HeardIsOneTurn` therefore speaks of what was recorded while the answer was synthesized
and sent. And `docs/specifications/cxp-0001-package-format.md:60` says that additional
files fail the verification; `verify_workblock` looks at the files that
`checksums.sha256` lists and at the required ones (`workblock.py:99`), so that a package
with an unlisted hook verifies, and the hook is run. `AppliedAsVerified` therefore
speaks of the action, which has to be listed.

Observations that no document contradicts, and that the models have: a runtime of the room whose
dispatcher did not end in time loses its wakes after a second start
(`wake/dispatcher.py:65`), and `AcceptedIsAttempted` therefore promises nothing
once a runtime was closed; and a database restored from a copy older than its
anchor is accepted again as soon as it has outgrown the anchor, so that
`AnchorsAdvance` relates contents only while the file is undamaged. A Work Block
without a rollback hook is reported with `ROLLBACK_OK`, as a hook that is not
there counts as one that succeeded; one whose `after_apply` fails is not rolled
back; and its verify.sh and before_apply.sh may rewrite the action, or switch the
branch, before the action runs, so that `AppliedAsVerified` says of the action that it
is the one verified or was rewritten by them, and of the optional hooks only
that they run in their place. The kernel reserves task ids and the bridge claims
authorizations: after a restart the same task id is executed again, and is dispatched
again if it comes with another correlation id, which the tests of the broker do not
speak of. In test mode the runner does not sync the entry of a newly created marker
directory (`governed_runner.py:330`), so that a power loss may forget its nonces
(`Kept` leaves them out). An endpoint that the recogniser sees within the replayed
pre-roll is overwritten by the next frame (`voice/local_runtime.py:262`), which
`HeardIsOneTurn` allows for. A gateway
that stores a reply and then raises makes the coordinator report the agent as
failed beside its reply, which `RepliesAccounted` allows for. The rollback manifest
of a DNS apply is written without being checked (`cloudflare_dns.py:833`): a zone
whose managed records no manifest may state, such as one with a TTL below 60 or a
CNAME beside another managed type, leaves evidence that `load_rollback_manifest`
refuses. `WriteIsGuarded` promises a manifest that loads only if the records are
`Statable`.

## 5. Proofs

`tlapm` checks eight modules; every lemma is proved to its leaves.

- `TrustedBrokerProofs`, for the kernel and its composition with the bridge, all
  processes, calls, requests and clock bounds. The kernel's
  `Inv` is inductive: besides types it says that a reserved task id has one
  owner, that whoever is past the reservation is that owner (`Ownership`), and
  what is in the trail at each point (`TrailOf`). Without `Ownership`,
  `AtMostOneExecution` is not inductive, as two calls that are both past the
  reservation could not be excluded; without `TrailOf` nothing is known of the
  trail when the receipt is made. Each action has its lemma `...Keeps`.
  Theorems: `Invariance`, `ExecutesAtMostOnce`, `ExecutionIsAudited`,
  `ConsumptionIsAudited`, `DenialConsumesNothing`, `ConsumptionSound`,
  `KernelIsSingleUse`. A step of the composition is one of the kernel, one that
  leaves the kernel alone, or the death of a process; therefore the kernel's `Inv`
  holds of the broker's kernels as well (`KernelsKeepTheirWord`).
  For a dispatch the invariants of kernel and bridge do not suffice: what has to be
  known is how the two halves of a call are tied. `Trailed` takes the kernel's `TrailOf`
  over to the result; `Handed` says that a call whose bridge has begun has an
  executed result of its own task, and that its bridge works with that result's
  times; `Timely` that those times are the kernel's, so that no authorization is
  longer than policy allows. With the durable `Ownership` of the bridge, two calls
  that dispatched one authorization would both own its key, and with the `Ownership` of
  the kernel, two calls of one process that dispatched one task id would both own that
  (`DispatchedOwns`). A task id under two keys in two processes is dispatched twice, as
  the run shows. Theorems:
  `DispatchedOnceOnRecord`, `DispatchedOncePerProcess`, `GuardDrains`.
- `HiveBridgeProofs`, for all keys, capacities, lifetimes and clock behaviour.
  `Inv` adds to types and ownership that the monotonic budget of a call ends no
  later than its authorization did by its first wall clock sample
  (`BudgetSound`) and that the guards are within capacity, which needs the
  library's theorems on finite sets. For `GuardsAreFair`, `Progress` says which of
  its claims a call can have made at each point, and `Guarded` that, unless the
  clock was set back, a call past the process guard has its claim there or its
  authorization is over, so that of two such calls for one task at most one
  dispatched. Theorems: `Invariance`, `DispatchesAtMostOnce`, `AcceptanceIsTimely`,
  `GuardsFair`, `BridgeIsSingleUse`.
- `AuditLogProofs`, for all events, publishers and identities. The inductive
  invariant is `Inv` (serialized transactions, a chain that verifies) together
  with `StoredExactlyOnce`: as a commit may raise or die after the commit point
  (`uncertain`), an event is stored exactly for the calls of `Committed`, of which
  those that returned are a part. That the digest of a row in a chain that verifies
  stands for all payloads up to that row is a statement about every row; it is
  proved of the least row at which it fails, which exists as the natural numbers
  are well-founded. From it follow that a verified anchor still has its prefix,
  and that anchors extend each other. Theorems:
  `Invariance`, `EventsStoredOnce`, `TrailFaithful`, `AnchorsGrow`.
- `LongRunProofs`, for all missions, limits and workers, under `Exclusive`: the
  operator runs one worker at a time, which `LongRun` makes the guard of a start.
  Without it the properties are false, as the finding shows. `Inv` is not
  inductive: a worker must be alone in its call (`Alone`), the run it performs a
  step of must be of its mission, with the evidence in hand that the mission
  demands (`Assigned`), and what was executed must be of earlier steps than the
  row's, lost, or in flight (`Counted`). That the row
  is what replaying its ledger yields (`LedgerReplays`) is proved too: `Replayed` is
  a recursive function over the length of the ledger, and as every transaction
  appends at most one event, two such functions agree up to the old length and the
  new event takes the old progress to the new (`ReplaysTo`). Theorems:
  `RunHolds`, `ExecutedOnce`, `EndsJustified`, `LedgerFaithful`.
- `GovernedRunnerProofs`, for all calls, plans, policies, files and bounds on
  time. `NonceInv`: a marker is made by one call at a time, a consumed nonce is
  marked, and whoever is past the consumption owns the nonce. A marker is present,
  synced in its directory, or durable with the directory itself; what a power loss may
  take is in `Losses`, so that the claim is of the nonces that are `Kept`, those of
  production calls and those in a directory that is not new, and the mutant which forgets
  the sync of the directory has no such invariant. `RunnerInv` holds, per call: a receipt for
  each command it is past (`Receipts`), a unit that is alive only while it is
  watched or its call has ended (`Units`), and that what was prepared was admitted
  by the policy (`Preparations`). `CallFrame` reduces a step of one call to that
  call; `GoKeeps`, `RecordKeeps` and `UnitKeeps` cover the steps that move on,
  write a receipt, or change the unit. Theorems: `RunnerIsSingleUse`,
  `RunnerSound`.
- `FailoverSimProofs`, for any number of controllers, operations, actors, leases
  and effects. `Inv` and `RestartOnce` are not inductive: nothing in them keeps
  a second call from an effect that the first is about to have. `IInv` adds
  `Alone`, that two calls never share an operation, that a call on its way to a
  restart has found none (`Fresh`), that of two operations with an effect, or
  past the first look at the gates, one is resolved (`Barrier`), and that what a
  call observed still holds when it reports success (`Health`, which follows
  from `Barrier`: no other operation may have an effect meanwhile). One lemma,
  `MovedKeeps`, says what a step that leaves lease and provider alone has to
  know; eleven of the actions follow from it. Theorems: `RowsCoverCrashes`,
  `AtMostOneRestart`, `StoppedIsHarmless`, `RestartsTrue`,
  `EffectsDoNotOverlap`, `SuccessIsTrue`. `Alone` is an assumption in `Spec`, on
  whoever starts the controllers: the code lets two of them begin one operation, and
  then a slow run overwrites the STOPPED of another (a hazard without a property).
- `RoomProofs`, for the two processes that write into a room.
  - The broker, for any requests, actors, sinks, restarts and sizes of the queue
    (`BrokerIInv`). `Inv` is not inductive: `WokenInOrder` is about what was attempted,
    and nothing in it keeps a late wake from an early place. `Places` says where
    every accepted wake is (queued, in the hand of the dispatcher's thread, or
    attempted), `QueueOrdered`, `HandOrdered` and `AttemptsOrdered` that along this way
    the order is the ledger's, and `TodoLatest` that what a handler still submits is
    about the newest event, which is what the ledger lock is for. That the thread
    alone works on the queue follows from `Inv` (whoever is alive is the current
    thread), so that the thread which `stop` gave up and `start` finds alive breaks
    no order. `DrainedIsAttempted` follows from `Places`: with no task unfinished,
    nothing is queued or in a hand. Theorems: `BrokerIsConsistent`,
    `DrainWaitsForTheSinks`.
  - The ingress, for any messages, windows, sessions and failures (`IngressIInv`).
    `SessionIsFaithful` is not inductive, as nothing in it keeps a message out of the
    session before its time. The batch is sorted (`Batched`); everything before the
    first of the batch is in the session (`HeadIsCleared`), and so it is for every
    post that was given up, as it was the first of its batch (`Behind`); and while
    nothing was given up and the session fits the window, a pending post is of a
    message that is not there (`Answers`). Theorems: `IngressLosesNothing`,
    `IngressIsFaithful`.

- `GovernedOperationsProofs`, for all uploads, files, documents, zones, commands,
  frames, recordings, agents, attempts and packages. As a step is of one operation (`StepOfOne`), each
  of these operations has an inductive invariant over its own variables:
  - Preview (`PreviewInv`): past the service the nonce is consumed for the upload,
    and until the transfer, or after a failure that rules it out, there is no file
    of it. A file is therefore of the one execution its nonce belongs to.
    `UploadsAreHonest`.
  - Canonical memory (`MemoryInv`, `JobInv`): what is staged is what the command
    planned from the books as they were (`PlannedFor`), and between two replacements
    the books are the old ones with a prefix replaced (`Replaced`), which is what the
    rollback undoes; a worklog holds no identity twice (`Once`). `MemoryStaysWhole`.
  - Remote execution (`RemoteInv`): what reached the server was authorized at the
    client, what took effect there was authorized by both, and a receipt says what
    the call is and, if it reports success, that the server answered so.
    `RemoteStaysHonest`.
  - Room coordinator (`RoomInv`): the agents that are left to ask come after those
    that were reported, and nothing is stored of them but a reply of the first for
    which the gateway raised (`Asking`); what is stored or was heard is accounted for by
    what will be returned, or is of the first agent (`Storing`). The event a call is about
    to append is therefore new, and stands behind the others. Other calls and later
    registrations do not disturb it (`OthersText`). `RepliesStayAccounted`.
  - Model calls (`CallInv`, `PipelineInv`): the attempts of a call are counted by
    what was sent, nothing that was sent mutated goes unnoticed, and the receipts of
    a step are those of its roles in their order. `ReceiptsStayBound`.
  - Work blocks (`ApplyInv`): the hooks that ran at each point (`HooksAt`), what
    of the repository the reads have confirmed (`ReadsHold`), and that the action is
    the one verified until a script or somebody else rewrites it. `BlockAppliedAsVerified`.
  - First write (`PacketInv`): the documents that were read hold together
    (`DocumentsHold`, `DocumentsAgree`), and the bytes validated are those that
    were captured (`BytesMatch`), whatever happens to the drafts.
    `WhatIsSealedIsApproved`.
  - DNS (`DnsInv`): the evidence says what was seen (`Seen`), the prepared rollback is
    that of the zone as it was planned for (`Prepares`), and, if nobody else edits,
    the zone is the one before the command or the one after its batch (`Alone`).
    The argument for the rollback is about sets: in a record set, what is left over
    on either side is paired by rank; as the sort key is a strict order in which every
    nonempty set has a least element, an update, a creation or a deletion exists
    whenever anything is left over. Hence a plan without changes means that the zone
    holds what the document wants (`NothingToChange`), and of a rollback manifest that it
    holds what it held, metadata included (`NothingToRestore`). `DnsStaysHonest`.
    For the batch itself there is `GuardInv`: the provider's records have numbers of
    their own (`Numbered`), and a command at its batch has the plan that was approved,
    of managed records that are still those the evidence was made of unless somebody
    edited (`Approved`). The first half is what makes the batch harmless: a change
    names a managed record by its number, so no other record can be hit
    (`BatchLeavesOthers`), and what is put in its place is in a managed record set
    (`BatchRecords`). `WritesAreGuarded`.
  - Voice (`VoiceInv`): which states a turn can be in at each point of the main
    thread (`TurnAt`), that the pump knows whether the endpoint of a barge-in was
    heard, that an answer which was talked over is stale and no stale one is begun
    (`TurnInv`), and that the worker is at rest outside `process` and has cancelled
    only a session that closes (`WorkerInv`). Every operation of the runtime keeps a
    sound runtime (`VoiceSound`); the microphone's queue holds nothing that was recorded
    during an answer unless the session still speaks, as `Spoken` discards it
    (`OutsideAnswer`), and what the recogniser has after an endpoint can only be the
    rest of a replay (`OfOneTurn`). The tail that the device plays later is no part of it. `OneTurnIsHeard`, `VoiceStaysQuiet`.
  - The runner: `Proofs` is an instance of `GovernedRunnerProofs`, and the lemmas
    `Same...` say that its definitions are those of the instance in the composition.
    `RunnerStaysSound`, `NonceStaysSingleUse`.

The assumptions are the named `ASSUME`s of the modules, which say what kind of
value each constant is; TLC evaluates them in the runs. `RunnerAssumption` and
`DnsAssumption` (a zone and the records of a manifest are finite sets of records, and
the provider numbers those of the zone one by one) are hypotheses of the operations' modules, which `GovernedOperations` assumes of
its instances, together with at least one attempt per model call, as the provider
demands of its policy (`longrun/provider.py:98-101`). `BrokerAssumption` says
the same of the constants that kernel and bridge share; `OperationsAssumption` adds that
the audio device holds at least one frame. The one
assumption about behaviour is `Alone` of `FailoverSim`, stated in its `Spec`. `RoomAssumption` says that
agents are numbered from 1, their place in the order of `AgentRegistry.select`, and
that the user is 0; it stands for the ids of actors that differ.

Only model-checked: liveness (`EveryCallReturns`, `PostsComplete`,
`AcceptedIsAttempted`, `RunsEnd`), which is out of the prover's reach.

## 6. Not modelled

- Pure functions of one input, whose branches a unit test reaches: the
  classification of text in `voice/intelligence/safety.py` and the rest of
  `voice/intelligence`, CASER evidence checks, orchestration documents, loaders
  and manifests of long runs, the sanitisation in repository identity,
  disclosure, presentation, argument parsing.
- Inside components that are modelled: speech recognition, synthesis, resampling
  and detection of voice (choices of their outcome); the payloads of the room's
  sinks; the text of evidence and receipts. `WorkBlockApply` assumes a manifest
  that names a target branch.
- `staging.py` and `first_write_rollback.py` are gates of the same form as those
  in `FirstWriteDocuments` and only inspect; `first_write_runtime.py` refuses
  before its effect. `memory.py` is an earlier copy of the procedure of
  `checkpoint_memory.py`.
- Adapters without state of their own: the MCP server and the room app (the
  client's timeout is in `SlackIngress`), the HTTP runtime of an agent (one
  request, in `RoomCoordinator` a choice of an answer or an error), the CyberHIVE
  runtime adapters.
- External code: the event store of the room, the CyberHIVE registry, Slack, the
  anchor store, the DNS and FTP servers, systemd. They are modelled from the calls
  CyberCore makes and marked external in the map.

## 7. Plan

Done, in this order: `SingleUse`, `ActionKernel`, `HiveBridge` (the admission
path, the most important behaviour), `TrustedBroker`, `AuditLog`, `LongRun`,
`RoomBroker`, `SlackIngress`, `FailoverSim`; then the single operations by
weight: `GovernedRunner`, `DnsApply`, `FirstWritePacket`, `StagingPreview`,
`CanonicalMemory`, `RemoteExecution`, `VoiceTurns`, `RoomCoordinator`,
`ModelCalls`, `WorkBlockApply`, and their composite.

Left to model: the ingress, the broker and the dispatcher in one specification,
where a wake and a given-up post meet; the classification of voice intents, if
it ever keeps state.

Left to prove: nothing that the prover reaches. Every invariant and action property
of the passing runs is a theorem; their liveness stays with TLC.
