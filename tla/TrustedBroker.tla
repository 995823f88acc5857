---------------------------- MODULE TrustedBroker ----------------------------
(***************************************************************************)
(* cybercore.action_kernel_trusted_broker.TrustedLocalHiveBroker: the      *)
(* Action Kernel and the CyberHIVE bridge composed in one call.  execute() *)
(* refuses a foreign actor, runs the kernel, and only hands a receipt the  *)
(* kernel itself just returned as EXECUTED to the bridge, together with    *)
(* the durable replay guard of the broker.  Every process has a broker     *)
(* with a kernel and a process guard of its own; the replay store is       *)
(* shared, and so is the wall clock.                                       *)
(***************************************************************************)
EXTENDS ActionKernel, FiniteSets, Integers

\* The clock of the kernels is also the one of the bridge, where setting it may move it
\* forward as well: ClockMayStepBack says whether it may be set.
CONSTANTS
  MaxEntries, MaxPerActor, MaxLifetime, \* as in HiveBridge
  RequestedAt,   \* RequestedAt[c]: requested_at of the task of call c
  Actors, Correlations, \* authenticated actors, correlation ids
  Authorizations \* the assignments of a replay key to every call

\* The replay key of a call names its actor, its task id and its correlation id:
\* one task id may be presented again under another correlation id.
Keys == [actor : Actors, task : Tasks, correlation : Correlations]

VARIABLES
  mono, stepped,                                               \* the clocks, beside utc
  claims, store, at, in, budget, outcome, claimant, dispatched, \* the bridge
  phase    \* the part of TrustedLocalHiveBroker.execute each call is in

B == INSTANCE HiveBridge WITH ClockMayStep <- ClockMayStepBack

ASSUME BrokerAssumption ==
  /\ MaxLifetime \in Nat
  /\ RequestedAt \in [Calls -> 0..MaxTime]
  /\ Authorizations \subseteq [Calls -> Keys]

bridgeVars == <<claims, store, at, in, budget, outcome, claimant, dispatched>>
brokerVars == <<utc, mono, stepped, alive, kernelVars, bridgeVars, phase>>

\* The task of call c as the bridge sees it, with a receipt.
Input(c, key, allowed) ==
  [proc    |-> Home[c], guard |-> "DURABLE",
   task    |-> [key |-> key, requested |-> RequestedAt[c], expires |-> req[c].expires],
   receipt |-> [allowed |-> allowed, key |-> key,
                expires |-> req[c].expires, completed |-> receipt[c].completed]]

\* The same, with the EXECUTED receipt the kernel returned.
Executed(c) == Input(c, in[c].task.key, TRUE)

BrokerInit ==
  /\ Init
  /\ mono = 0 /\ stepped = FALSE
  /\ claims = [p \in Procs |-> [k \in Keys |-> 0]]
  /\ store = {}
  /\ at = [c \in Calls |-> "idle"]
  /\ \E key \in Authorizations :
       /\ \A c \in Calls : key[c].task = req[c].task
       /\ in = [c \in Calls |-> Input(c, key[c], FALSE)]
  /\ budget = [c \in Calls |-> B!NoBudget]
  /\ outcome = [c \in Calls |-> "NONE"]
  /\ claimant = [k \in Keys |-> NoCall]
  /\ dispatched = {}
  /\ phase = [c \in Calls |-> "entry"]

-----------------------------------------------------------------------------
Running(c, ph) == Home[c] \in alive /\ phase[c] = ph
Move(c, ph) == phase' = [phase EXCEPT ![c] = ph]

\* The actor of the task is not the authenticated one: denied before the kernel.
Admit(c) ==
  /\ Running(c, "entry")
  /\ Move(c, IF req[c].early = "ACTOR_MISMATCH" THEN "denied" ELSE "kernel")
  /\ UNCHANGED <<utc, mono, stepped, alive, kernelVars, bridgeVars>>

\* ActionKernel.execute.
KernelStep(c) ==
  /\ Running(c, "kernel")
  /\ CallStep(c)
  /\ UNCHANGED <<mono, stepped, bridgeVars, phase>>

\* Mutant: the ALLOW verdict is taken for the receipt's status.
HandOverOnVerdict(c) ==
  /\ Running(c, "kernel")
  /\ pc[c] = "returned"
  /\ IF verdict[c] = ALLOWED
     THEN Move(c, "bridge") /\ in' = [in EXCEPT ![c] = Executed(c)]
     ELSE Move(c, "denied") /\ UNCHANGED in
  /\ UNCHANGED <<utc, mono, stepped, alive, kernelVars, claims, store, at, budget,
                 outcome, claimant, dispatched>>

\* Mutant: every call makes a replay guard of its own.
HandOverFreshGuard(c) ==
  /\ Running(c, "kernel")
  /\ pc[c] = "returned"
  /\ IF receipt[c].status = "EXECUTED"
     THEN /\ Move(c, "bridge")
          /\ in' = [in EXCEPT ![c] = [Executed(c) EXCEPT !.guard = "FRESH"]]
     ELSE Move(c, "denied") /\ UNCHANGED in
  /\ UNCHANGED <<utc, mono, stepped, alive, kernelVars, claims, store, at, budget,
                 outcome, claimant, dispatched>>

\* Only a receipt the kernel just returned as EXECUTED reaches the bridge.
HandOver(c) ==
  /\ Running(c, "kernel")
  /\ pc[c] = "returned"
  /\ IF receipt[c].status = "EXECUTED"
     THEN Move(c, "bridge") /\ in' = [in EXCEPT ![c] = Executed(c)]
     ELSE Move(c, "denied") /\ UNCHANGED in
  /\ UNCHANGED <<utc, mono, stepped, alive, kernelVars, claims, store, at, budget,
                 outcome, claimant, dispatched>>

\* run_local_hive_dry_run.
BridgeStep(c) ==
  /\ Running(c, "bridge")
  /\ B!CallStep(c)
  /\ UNCHANGED <<kernelVars, phase>>

Execute(c) == Admit(c) \/ KernelStep(c) \/ HandOver(c) \/ BridgeStep(c)

BrokerTick   == B!Tick /\ UNCHANGED <<kernelVars, phase>>
SetClock     == B!SetClock /\ UNCHANGED <<kernelVars, phase>>
BrokerDie(p) == B!Die(p) /\ UNCHANGED <<kernelVars, phase>>

BrokerNext ==
  \/ \E c \in Calls : Execute(c)
  \/ BrokerTick
  \/ SetClock
  \/ \E p \in Procs : BrokerDie(p)

BrokerSpec == BrokerInit /\ [][BrokerNext]_brokerVars

-----------------------------------------------------------------------------
\* Nothing is dispatched to the registry before the kernel stored the whole
\* audit trail of the same call: request, ALLOW verdict, execution, evidence.
DispatchIsAudited ==
  \A c \in dispatched :
    trail[c] = {<<"request", "OBSERVED">>, <<"policy", "ALLOW">>,
                <<"execution", "COMPLETED">>, <<"evidence", "RECORDED">>}

\* An authorization, that is one actor, task id and correlation id, is dispatched
\* at most once, also when the process was restarted and the new kernel, whose
\* reservations are only in memory, executed it again.
OneDispatchPerKey ==
  \A c, d \in dispatched : B!Key(c) = B!Key(d) => c = d

\* What is dispatched is on record, and dispatched once as far as either guard reaches.
OneAuditedDispatch == DispatchIsAudited /\ OneDispatchPerKey

\* Within one process a task id is dispatched at most once, under whatever
\* correlation ids it is presented: the kernel reserves the task id alone.  Beyond
\* the process that reservation is gone, and only the key counts.
OneDispatchPerTaskAndProcess ==
  \A c, d \in dispatched : Item(c) = Item(d) => c = d

\* While the wall clock is not set back, a claim occupies the bounded process
\* guard for at most the maximal authorization lifetime, whatever requested_at
\* the caller wrote (comment at action_kernel_hive_bridge.py:187).
ClaimsDrain ==
  ~stepped => \A p \in Procs, k \in Keys : claims[p][k] - utc <= MaxLifetime
=============================================================================
