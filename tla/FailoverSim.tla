----------------------------- MODULE FailoverSim -----------------------------
(***************************************************************************)
(* cybercore.failover_sim: controllers that restart one service through a  *)
(* durable journal, an exclusive lease with fencing epochs, capabilities,  *)
(* a security verdict and a provider that checks the epoch of an effect.   *)
(* Each controller is a Simulator with its own connection to the journal;  *)
(* they share the journal file and the provider and interleave.  A call of *)
(* run, reconcile or compensate may end between any two of its accesses to *)
(* journal and provider, by a crash or by an error of either; whoever goes *)
(* on with the operation reconciles or compensates it from its row.        *)
(* Scope, inventory, approval, capabilities, verdicts and times to live    *)
(* may change at any time, so that a look at the gates may always be       *)
(* refused; gates is one step.  The code does not keep two controllers     *)
(* from working on one operation at the same time: that they do not is the *)
(* assumption Alone on whoever starts them, apart from the code's steps.   *)
(***************************************************************************)
EXTENDS Integers, Sequences, FiniteSets

CONSTANTS
  Controllers, \* the simulators, each in one call at a time
  Ops,         \* operation ids
  Actors,      \* actors of requests and holders of leases
  Actor,       \* Actor[o]: the actor of the request o
  MaxEpoch,    \* bound on the leases
  MaxEffects,  \* bound on the effects
  Nobody       \* the holder before the first lease

ASSUME FailoverAssumption ==
  /\ Actor \in [Ops -> Actors] /\ Ops # {}
  /\ MaxEpoch \in Nat \ {0} /\ MaxEffects \in Nat
  /\ Nobody \notin Actors

Actions == {"restart", "restore"}

VARIABLES
  journal,     \* the state of each operation row, "NONE" without one
  lease,       \* the row of leases: holder and epoch
  unfenced,    \* epochs acquired and not yet made known to the provider
  epoch,       \* the provider's fencing epoch
  healthy,     \* the health of the service
  effects,     \* the effects on the service, in their order
  idempotent,  \* whether the provider keeps receipts
  pc,          \* where each controller's call is
  call,        \* its kind, operation and retry flag
  held,        \* the lease it has read for its effect
  seen         \* the health it has observed

controlVars == <<lease, unfenced>>
providerVars == <<epoch, healthy, effects, idempotent>>
callVars == <<pc, call, held, seen>>
vars == <<journal, controlVars, providerVars, callVars>>

NoLease == [holder |-> Nobody, epoch |-> 0]
NoCall == [kind |-> "run", op |-> CHOOSE o \in Ops : TRUE, retry |-> FALSE]

Unresolved == {"PREPARED", "EXECUTING", "VERIFYING", "UNKNOWN", "RECOVERING"}
Final == {"STOPPED", "SUCCEEDED", "RECOVERY_FAILED", "RECOVERY_BLOCKED"}

Init ==
  /\ journal = [o \in Ops |-> "NONE"]
  /\ lease = NoLease /\ unfenced = {}
  /\ epoch = 0 /\ healthy = TRUE /\ effects = <<>> /\ idempotent \in BOOLEAN
  /\ pc = [c \in Controllers |-> "idle"] /\ call = [c \in Controllers |-> NoCall]
  /\ held = [c \in Controllers |-> NoLease] /\ seen = [c \in Controllers |-> FALSE]

-----------------------------------------------------------------------------
To(c, l) == pc' = [pc EXCEPT ![c] = l]

\* The call ends, normally or by an exception.
Done(c) ==
  /\ To(c, "idle") /\ call' = [call EXCEPT ![c] = NoCall]
  /\ held' = [held EXCEPT ![c] = NoLease] /\ seen' = [seen EXCEPT ![c] = FALSE]

Op(c) == call[c].op
Kind(c) == call[c].kind
Action(c) == IF Kind(c) = "compensate" THEN "restore" ELSE "restart"

\* Mutant: an operation whose outcome is unknown does not count.
InFlightIfKnown(o) == \E p \in Ops \ {o} : journal[p] \in Unresolved \ {"UNKNOWN"}

\* in_flight: another operation on the target is not resolved.
InFlight(o) == \E p \in Ops \ {o} : journal[p] \in Unresolved

\* gates: what it takes to pass; without a capability, a verdict, an approval or in
\* time it may be refused all the same.
Gates(o) == ~InFlight(o) /\ lease.holder = Actor[o] /\ lease.epoch = epoch

\* One transition of the journal, which commits the row and its event together.
Write(o, s) == journal' = [journal EXCEPT ![o] = s]

\* A call starts.
Begin(c) ==
  /\ pc[c] = "idle"
  /\ \E o \in Ops, k \in {"run", "reconcile", "compensate"}, r \in BOOLEAN :
       /\ r => k = "reconcile"
       /\ call' = [call EXCEPT ![c] = [kind |-> k, op |-> o, retry |-> r]]
       /\ \/ k = "run" /\ journal[o] = "NONE" /\ Write(o, "PREPARED") /\ To(c, "gate")
          \/ /\ k = "reconcile" /\ journal[o] \in Unresolved
             /\ To(c, "look") /\ UNCHANGED journal
          \/ /\ k = "compensate" /\ journal[o] \in {"UNKNOWN", "RECOVERING"}
             /\ To(c, "gate") /\ UNCHANGED journal
  /\ UNCHANGED <<controlVars, providerVars, held, seen>>

Performed(o, a) == \E i \in DOMAIN effects : effects[i].op = o /\ effects[i].action = a

\* Mutant: without a receipt a retry is safe whatever the provider.
LookAndTrust(c) ==
  /\ pc[c] = "look"
  /\ \/ /\ idempotent /\ Performed(Op(c), "restart")
        /\ seen' = [seen EXCEPT ![c] = healthy] /\ To(c, "confirm")
     \/ /\ ~(idempotent /\ Performed(Op(c), "restart"))
        /\ To(c, IF call[c].retry THEN "gate" ELSE "unknown")
        /\ UNCHANGED seen
  /\ UNCHANGED <<journal, controlVars, providerVars, call, held>>

\* Mutant: health without a receipt is taken for success.
LookAtHealth(c) ==
  /\ pc[c] = "look"
  /\ seen' = [seen EXCEPT ![c] = healthy]
  /\ To(c, IF healthy THEN "confirm" ELSE "unknown")
  /\ UNCHANGED <<journal, controlVars, providerVars, call, held>>

\* reconcile observes the provider, which may be unreadable: with a receipt the
\* effect happened; without one it is only repeated where the provider keeps receipts.
Look(c) ==
  /\ pc[c] = "look"
  /\ \/ /\ idempotent /\ Performed(Op(c), "restart")
        /\ seen' = [seen EXCEPT ![c] = healthy] /\ To(c, "confirm")
     \/ /\ ~(idempotent /\ Performed(Op(c), "restart"))
        /\ To(c, IF call[c].retry /\ idempotent THEN "gate" ELSE "unknown")
        /\ UNCHANGED seen
     \/ To(c, "unknown") /\ UNCHANGED seen
  /\ UNCHANGED <<journal, controlVars, providerVars, call, held>>

\* The first look at the gates.
Gate(c) ==
  /\ pc[c] = "gate"
  /\ \/ Gates(Op(c)) /\ To(c, "mark")
     \/ To(c, IF Kind(c) = "compensate" THEN "blocked" ELSE "stop")
  /\ UNCHANGED <<journal, controlVars, providerVars, call, held, seen>>

\* Mutant: run is not durably EXECUTING before its effect.
MarkLate(c) ==
  /\ pc[c] = "mark"
  /\ IF Kind(c) = "compensate" THEN Write(Op(c), "RECOVERING") ELSE UNCHANGED journal
  /\ To(c, IF Kind(c) = "run" THEN "regate" ELSE "fetch")
  /\ UNCHANGED <<controlVars, providerVars, call, held, seen>>

\* The checkpoint before the effect; only run looks at the gates again.
Mark(c) ==
  /\ pc[c] = "mark"
  /\ Write(Op(c), IF Kind(c) = "compensate" THEN "RECOVERING" ELSE "EXECUTING")
  /\ To(c, IF Kind(c) = "run" THEN "regate" ELSE "fetch")
  /\ UNCHANGED <<controlVars, providerVars, call, held, seen>>

Regate(c) ==
  /\ pc[c] = "regate"
  /\ (Gates(Op(c)) /\ To(c, "fetch")) \/ To(c, "stop")
  /\ UNCHANGED <<journal, controlVars, providerVars, call, held, seen>>

\* The lease of the target, whoever holds it by now; once there is one it is never
\* deleted, so that after the gates there always is one.
Fetch(c) ==
  /\ pc[c] = "fetch"
  /\ held' = [held EXCEPT ![c] = lease] /\ To(c, "effect")
  /\ UNCHANGED <<journal, controlVars, providerVars, call, seen>>

Effect(c) == [op |-> Op(c), action |-> Action(c), epoch |-> held[c].epoch, holder |-> held[c].holder]

\* mutate refuses another epoch than the provider's; reconcile does not catch that.
Refuse(c) ==
  /\ pc[c] = "effect" /\ held[c].epoch # epoch
  /\ IF Kind(c) = "reconcile" THEN Done(c)
     ELSE /\ To(c, IF Kind(c) = "run" THEN "stop" ELSE "failed")
          /\ held' = [held EXCEPT ![c] = NoLease] /\ UNCHANGED <<call, seen>>
  /\ UNCHANGED <<journal, controlVars, providerVars>>

\* mutate otherwise: an idempotent provider does not repeat an effect; after an
\* effect the service may be unhealthy.
Mutate(c) ==
  /\ pc[c] = "effect" /\ held[c].epoch = epoch
  /\ IF idempotent /\ Performed(Op(c), Action(c)) THEN UNCHANGED <<effects, healthy>>
     ELSE /\ Len(effects) < MaxEffects
          /\ effects' = Append(effects, Effect(c)) /\ healthy' \in BOOLEAN
  /\ To(c, "verify") /\ held' = [held EXCEPT ![c] = NoLease]
  /\ UNCHANGED <<journal, controlVars, epoch, idempotent, call, seen>>

Verify(c) ==
  /\ pc[c] = "verify"
  /\ Write(Op(c), "VERIFYING") /\ To(c, "observe")
  /\ UNCHANGED <<controlVars, providerVars, call, held, seen>>

\* reconcile found the receipt: it goes on with the health that it observed then.
Confirm(c) ==
  /\ pc[c] = "confirm"
  /\ Write(Op(c), "VERIFYING") /\ To(c, IF seen[c] THEN "succeed" ELSE "unknown")
  /\ UNCHANGED <<controlVars, providerVars, call, held, seen>>

\* The health after the effect; that the provider is unreadable is like a crash.
Observe(c) ==
  /\ pc[c] = "observe"
  /\ To(c, IF healthy THEN "succeed" ELSE IF Kind(c) = "compensate" THEN "failed" ELSE "unknown")
  /\ UNCHANGED <<journal, controlVars, providerVars, call, held, seen>>

Outcome == [stop |-> "STOPPED", unknown |-> "UNKNOWN", succeed |-> "SUCCEEDED",
            failed |-> "RECOVERY_FAILED", blocked |-> "RECOVERY_BLOCKED"]

\* The last transition of a call.
Finish(c) ==
  /\ pc[c] \in DOMAIN Outcome
  /\ Write(Op(c), Outcome[pc[c]]) /\ Done(c)
  /\ UNCHANGED <<controlVars, providerVars>>

CallStep(c) ==
  \/ Begin(c) \/ Look(c) \/ Gate(c) \/ Mark(c) \/ Regate(c) \/ Fetch(c) \/ Refuse(c)
  \/ Mutate(c) \/ Verify(c) \/ Confirm(c) \/ Observe(c) \/ Finish(c)

\* The controller crashes, or its journal cannot be written, or the provider read.
Crash(c) ==
  /\ pc[c] # "idle" /\ Done(c)
  /\ UNCHANGED <<journal, controlVars, providerVars>>

-----------------------------------------------------------------------------
\* The first half of lease: a live lease of another is only replaced by a takeover,
\* which anyone may ask for, so that it needs no case of its own.
Acquire ==
  /\ lease.epoch < MaxEpoch
  /\ \E h \in Actors : lease' = [holder |-> h, epoch |-> lease.epoch + 1]
  /\ unfenced' = unfenced \cup {lease.epoch + 1}
  /\ UNCHANGED <<journal, providerVars, callVars>>

\* The second half, unless the controller crashes between: a stale epoch is refused.
Fence ==
  \E e \in unfenced :
    /\ unfenced' = unfenced \ {e}
    /\ epoch' \in IF e < epoch THEN {epoch} ELSE {epoch, e}
    /\ UNCHANGED <<journal, lease, healthy, effects, idempotent, callVars>>

Next ==
  \/ \E c \in Controllers : CallStep(c) \/ Crash(c)
  \/ Acquire \/ Fence

\* What is assumed of the operator, not done by the code: two controllers are
\* never given the same operation at the same time.
Alone == \A c, d \in Controllers : pc[c] # "idle" /\ pc[d] # "idle" /\ Op(c) = Op(d) => c = d

Spec == Init /\ [][Next /\ Alone']_vars

-----------------------------------------------------------------------------
Leases == [holder : Actors \cup {Nobody}, epoch : 0..MaxEpoch]

TypeOK ==
  /\ journal \in [Ops -> Unresolved \cup Final \cup {"NONE"}]
  /\ lease \in Leases
  /\ unfenced \subseteq 1..MaxEpoch /\ epoch \in 0..MaxEpoch
  /\ healthy \in BOOLEAN /\ idempotent \in BOOLEAN
  /\ effects \in Seq([op : Ops, action : Actions, epoch : 0..MaxEpoch, holder : Actors \cup {Nobody}])
  /\ pc \in [Controllers -> {"idle", "look", "gate", "mark", "regate", "fetch", "effect",
                             "verify", "confirm", "observe"} \cup DOMAIN Outcome]
  /\ call \in [Controllers -> [kind : {"run", "reconcile", "compensate"}, op : Ops, retry : BOOLEAN]]
  /\ held \in [Controllers -> Leases] /\ seen \in [Controllers -> BOOLEAN]

\* The row of an operation tells what a crash has left behind (runbook:24): while a
\* call works on it, it is unresolved, and an effect follows its durable checkpoint.
Inv ==
  /\ TypeOK
  /\ \A c \in Controllers : pc[c] # "idle" =>
       /\ journal[Op(c)] \in Unresolved
       /\ pc[c] \in {"regate", "fetch", "effect", "verify"} =>
            journal[Op(c)] = (IF Kind(c) = "compensate" THEN "RECOVERING" ELSE "EXECUTING")
  /\ \A o \in Ops : Performed(o, "restart") => journal[o] \notin {"NONE", "PREPARED"}
  /\ epoch <= lease.epoch

\* An unresolved operation blocks new effects on its target until it is reconciled
\* (failover-simulator-runbook.md:25): when an operation has an effect, every other
\* operation that had one is resolved.
NoOverlap ==
  [][\A i \in DOMAIN effects' \ DOMAIN effects, j \in DOMAIN effects :
       effects'[i].op = effects[j].op \/ journal[effects[j].op] \in Final]_vars

\* A lost acknowledgement never leads to a second restart for one operation, whether
\* the provider keeps receipts or not (failover-simulator-runbook.md:26).
RestartOnce ==
  \A i, j \in DOMAIN effects :
    effects[i].op = effects[j].op /\ effects[i].action = "restart" /\ effects[j].action = "restart"
      => i = j

\* An operation is STOPPED only if it did not restart the service.
StoppedDidNothing ==
  \A o \in Ops : journal[o] = "STOPPED" => ~Performed(o, "restart")

\* An operation restarts the service at most once, and not at all when it is STOPPED.
RestartsAreTrue == RestartOnce /\ StoppedDidNothing

\* Success is only reported of an operation that had an effect, and while the service
\* is healthy: what a call observed before its last transition still holds, because
\* no other operation can have had an effect meanwhile.
SuccessIsReal ==
  [][\A o \in Ops : journal[o] # "SUCCEEDED" /\ journal'[o] = "SUCCEEDED" =>
       healthy /\ \E a \in Actions : Performed(o, a)]_vars

\* Exclusive controller lease and effect-boundary fencing
\* (failover-simulator-runbook.md:25): an effect is made under a lease that the actor
\* of its operation holds.
EffectByHolder ==
  \A i \in DOMAIN effects : effects[i].holder = Actor[effects[i].op]
=============================================================================
