----------------------------- MODULE HiveBridge -----------------------------
(***************************************************************************)
(* cybercore.action_kernel_hive_bridge.run_local_hive_dry_run: calls on    *)
(* the threads of several processes, each with its own expiring process    *)
(* guard, and one durable replay store shared by all.  A call binds the    *)
(* kernel receipt to the task, anchors a monotonic budget between two      *)
(* samples of the wall clock, claims the task in the process guard and in  *)
(* the durable guard, dispatches to the registry and accepts the result    *)
(* only if neither clock says the authorization ended meanwhile.           *)
(* The wall clock may be set forward or back between any two steps, the    *)
(* monotonic clock only advances, the durable store may raise before or    *)
(* after it committed, and a process may die at any point.  A restarted    *)
(* process is another member of Procs: it begins with an empty guard.      *)
(***************************************************************************)
EXTENDS Integers, FiniteSets

CONSTANTS
  Procs,         \* process incarnations
  Calls,         \* calls of run_local_hive_dry_run
  Keys,          \* replay keys, records with a field "actor"
  Workloads,     \* the assignments of an Input to every call
  MaxEntries,    \* _PROCESS_REPLAY_MAX_ENTRIES
  MaxPerActor,   \* _PROCESS_REPLAY_MAX_PER_ACTOR
  MaxLifetime,   \* _MAX_AUTHORIZATION_LIFETIME
  MaxTime,       \* bound on both clocks
  ClockMayStep,  \* whether the wall clock may be set
  NoCall         \* the owner of a key nobody claimed durably

Time == 0..MaxTime

\* What the bridge reads of a TaskRequest and of an ExecutionReceipt.  Of the
\* identifiers compared with the task, only the replay key is kept; "allowed"
\* says that the receipt is EXECUTED under an ALLOW verdict.
Task    == [key : Keys, requested : Time, expires : Time]
Receipt == [allowed : BOOLEAN, key : Keys, expires : Time, completed : Time]

\* A call: its process, the task, the receipt and the replay guard presented,
\* which is absent, the shared durable store, or made for this call alone.
Input == [proc : Procs, task : Task, receipt : Receipt,
          guard : {"NONE", "DURABLE", "FRESH"}]

ASSUME BridgeAssumption ==
  /\ IsFiniteSet(Keys)
  /\ Workloads \subseteq [Calls -> Input]
  /\ MaxEntries \in Nat \ {0} /\ MaxPerActor \in Nat \ {0}
  /\ MaxLifetime \in Nat /\ MaxTime \in Nat
  /\ ClockMayStep \in BOOLEAN
  /\ NoCall \notin Calls

VARIABLES
  utc,      \* the wall clock
  mono,     \* the monotonic clock
  stepped,  \* history: the wall clock was once set back
  alive,    \* the processes that have not died
  claims,   \* claims[p][k]: expiry of the claim in p's process guard, or 0
  store,    \* the keys in the durable replay_claims table
  at,       \* where each call is
  in,       \* what it was given
  budget,   \* its clock samples and remaining_seconds
  outcome,  \* how it ended
  claimant, \* history: the call whose durable claim inserted the key
  dispatched  \* history: the calls that reached registry.dispatch

bridgeVars == <<claims, store, at, in, budget, outcome, claimant, dispatched>>
clockVars == <<utc, mono, stepped>>
vars == <<clockVars, alive, bridgeVars>>

\* The local variables of a call, each 0 before it is set and after it was last
\* read.  "until" is history: the monotonic time at which the authorization
\* ends according to the first sample of the wall clock.
NoBudget == [started |-> 0, before |-> 0, anchor |-> 0, remaining |-> 0, now |-> 0,
             until |-> 0]

Budget == [started : Time, before : Time, anchor : Time, remaining : Time, now : Time,
           until : Nat]

Outcomes == {"NONE", "NOT_ALLOWED", "MISMATCH", "LIFETIME", "EXPIRED", "NO_GUARD",
             "UNSHAPED", "CONSUMED", "CAPACITY", "UNAVAILABLE", "DISPATCH_FAILED",
             "LATE", "UNEXPECTED_RESULT", "DRY_RUN"}

Points == {"idle", "before", "anchor", "after", "recheck", "now", "process",
           "durable", "dispatch", "inFlight", "returned"}

Init ==
  /\ utc = 0 /\ mono = 0 /\ stepped = FALSE
  /\ alive = Procs
  /\ claims = [p \in Procs |-> [k \in Keys |-> 0]]
  /\ store = {}
  /\ at = [c \in Calls |-> "idle"]
  /\ in \in Workloads
  /\ budget = [c \in Calls |-> NoBudget]
  /\ outcome = [c \in Calls |-> "NONE"]
  /\ claimant = [k \in Keys |-> NoCall]
  /\ dispatched = {}

-----------------------------------------------------------------------------
ProcOf(c) == in[c].proc
At(c, l) == ProcOf(c) \in alive /\ at[c] = l

\* The call goes on at l, with these values of its local variables.
Goto(c, l, locals) ==
  /\ at' = [at EXCEPT ![c] = l]
  /\ budget' = [budget EXCEPT ![c] = locals]
  /\ UNCHANGED outcome

\* The call returns or raises.
Stop(c, why) ==
  /\ at' = [at EXCEPT ![c] = "returned"]
  /\ budget' = [budget EXCEPT ![c] = NoBudget]
  /\ outcome' = [outcome EXCEPT ![c] = why]
Key(c) == in[c].task.key
Expires(c) == in[c].task.expires
Later(x, y) == IF x > y THEN x ELSE y

\* _assert_not_expired and the monotonic budget, read one after the other with
\* nothing in between that another thread could see.
Expired(c) == Expires(c) <= utc \/ mono - budget[c].anchor >= budget[c].remaining

\* Mutant: the lifetime is counted from the requested_at the caller wrote.
RefusalByRequestedAt(i) ==
  IF ~i.receipt.allowed THEN "NOT_ALLOWED"
  ELSE IF i.receipt.key # i.task.key \/ i.receipt.expires # i.task.expires THEN "MISMATCH"
  ELSE IF \/ i.task.expires <= i.task.requested
          \/ i.task.expires - i.task.requested > MaxLifetime THEN "LIFETIME"
  ELSE "NONE"

\* The receipt allows this very task, with the expiry the kernel approved, and
\* the lifetime counted from the kernel's own timestamp is within policy.
Refusal(i) ==
  IF ~i.receipt.allowed THEN "NOT_ALLOWED"
  ELSE IF i.receipt.key # i.task.key \/ i.receipt.expires # i.task.expires THEN "MISMATCH"
  ELSE IF \/ i.task.expires <= i.task.requested
          \/ i.task.requested > i.receipt.completed
          \/ i.task.expires - i.receipt.completed > MaxLifetime THEN "LIFETIME"
  ELSE "NONE"

\* Entry: the receipt checks, then sampling_started.
Begin(c) ==
  /\ At(c, "idle")
  /\ IF Refusal(in[c]) # "NONE"
     THEN Stop(c, Refusal(in[c]))
     ELSE Goto(c, "before", [NoBudget EXCEPT !.started = mono])
  /\ UNCHANGED <<claims, store, in, claimant, dispatched>>

\* utc_before.
SampleBefore(c) ==
  /\ At(c, "before")
  /\ IF Expires(c) <= utc
     THEN Stop(c, "EXPIRED")
     ELSE Goto(c, "anchor", [budget[c] EXCEPT !.before = utc,
                                             !.until = mono + (Expires(c) - utc)])
  /\ UNCHANGED <<claims, store, in, claimant, dispatched>>

\* authorization_started.
SampleAnchor(c) ==
  /\ At(c, "anchor")
  /\ Goto(c, "after", [budget[c] EXCEPT !.anchor = mono])
  /\ UNCHANGED <<claims, store, in, claimant, dispatched>>

\* Mutant: the budget starts at the second sample alone.
RemainingFromSecondSample(c) == LET b == budget[c]
                                IN Expires(c) - utc - (b.anchor - b.started)

\* remaining_seconds, with utc_after read now.
Remaining(c) == LET b == budget[c]
                IN Expires(c) - Later(b.before, utc) - (b.anchor - b.started)

\* utc_after and remaining_seconds; then a missing guard, a task that
\* to_hive_health_dry_run refuses and an absent optional runtime stop the call.
SampleAfter(c) ==
  /\ At(c, "after")
  /\ IF Expires(c) <= utc \/ Remaining(c) <= 0
     THEN Stop(c, "EXPIRED")
     ELSE IF in[c].guard = "NONE"
     THEN Stop(c, "NO_GUARD")
     ELSE \/ Stop(c, "UNSHAPED")
          \/ Goto(c, "recheck", [budget[c] EXCEPT !.started = 0, !.before = 0,
                                                  !.remaining = Remaining(c)])
  /\ UNCHANGED <<claims, store, in, claimant, dispatched>>

Recheck(c) ==
  /\ At(c, "recheck")
  /\ IF Expired(c) THEN Stop(c, "EXPIRED") ELSE Goto(c, "now", budget[c])
  /\ UNCHANGED <<claims, store, in, claimant, dispatched>>

\* now=_utc_now() is evaluated before the process guard takes its lock.
ReadNow(c) ==
  /\ At(c, "now")
  /\ Goto(c, "process", [budget[c] EXCEPT !.now = utc])
  /\ UNCHANGED <<claims, store, in, claimant, dispatched>>

Held(held) == {k \in Keys : held[k] # 0}

\* Mutant: a full guard makes room by dropping what it holds.
UnexpiredOrEvicted(held, t) ==
  [k \in Keys |-> IF Cardinality(Held(held)) >= MaxEntries \/ held[k] <= t
                  THEN 0 ELSE held[k]]

\* The claims of a process guard that are kept at wall clock time t.
Unexpired(held, t) == [k \in Keys |-> IF held[k] <= t THEN 0 ELSE held[k]]

HeldBy(held, actor) == {k \in Held(held) : k.actor = actor}

\* Mutant: the comparisons with the capacity are off by one.
FullOffByOne(held, actor) ==
  \/ Cardinality(Held(held)) > MaxEntries
  \/ Cardinality(HeldBy(held, actor)) > MaxPerActor

\* No room for another claim of this actor.
Full(held, actor) ==
  \/ Cardinality(Held(held)) >= MaxEntries
  \/ Cardinality(HeldBy(held, actor)) >= MaxPerActor

\* Mutant: the irreversible durable claim is attempted before the bounded one.
ProcessClaimLast(c) ==
  /\ At(c, "process")
  /\ LET kept == Unexpired(claims[ProcOf(c)], budget[c].now)
     IN /\ claims' = [claims EXCEPT ![ProcOf(c)] =
                        IF Full(kept, Key(c).actor) THEN kept
                        ELSE [kept EXCEPT ![Key(c)] = Expires(c)]]
        /\ IF Full(kept, Key(c).actor) THEN Stop(c, "CAPACITY")
           ELSE Goto(c, "dispatch", [budget[c] EXCEPT !.now = 0])
  /\ in[c].guard = "DURABLE" => Key(c) \notin store
  /\ store' = store \cup {Key(c)}
  /\ claimant' = [claimant EXCEPT ![Key(c)] = c]
  /\ UNCHANGED <<in, dispatched>>

\* _ExpiringProcessReplayGuard.claim_once, one critical section.
ProcessClaim(c) ==
  /\ At(c, "process")
  /\ LET p == ProcOf(c)
         now == budget[c].now
         kept == Unexpired(claims[p], now)
         full == Full(kept, Key(c).actor)
         proceed == Goto(c, "durable", [budget[c] EXCEPT !.now = 0])
     IN \/ /\ kept[Key(c)] # 0
           /\ claims' = [claims EXCEPT ![p] = kept]
           /\ Stop(c, "CONSUMED")
        \/ /\ kept[Key(c)] = 0 /\ Expires(c) <= now
           /\ claims' = [claims EXCEPT ![p] = kept]
           /\ proceed
        \/ /\ kept[Key(c)] = 0 /\ Expires(c) > now /\ full
           /\ claims' = [claims EXCEPT ![p] = kept]
           /\ Stop(c, "CAPACITY")
        \/ /\ kept[Key(c)] = 0 /\ Expires(c) > now /\ ~full
           /\ claims' = [claims EXCEPT ![p] = [kept EXCEPT ![Key(c)] = Expires(c)]]
           /\ proceed
  /\ UNCHANGED <<store, in, claimant, dispatched>>

Insert(c) ==
  /\ store' = store \cup {Key(c)}
  /\ claimant' = [claimant EXCEPT ![Key(c)] = c]

\* Mutant: the number of inserted rows is not looked at.
DurableClaimIgnoresRowcount(c) ==
  /\ At(c, "durable")
  /\ IF in[c].guard = "DURABLE" THEN Insert(c) ELSE UNCHANGED <<store, claimant>>
  /\ Goto(c, "dispatch", budget[c])
  /\ UNCHANGED <<claims, in, dispatched>>

\* replay_guard.claim_once: SQLite's INSERT OR IGNORE by primary key, which may
\* raise before or after its commit; an in-memory guard of the call's own
\* always grants.
DurableClaim(c) ==
  /\ At(c, "durable")
  /\ \/ /\ in[c].guard = "FRESH"
        /\ Goto(c, "dispatch", budget[c]) /\ UNCHANGED <<store, claimant>>
     \/ /\ in[c].guard = "DURABLE" /\ Key(c) \in store
        /\ Stop(c, "CONSUMED") /\ UNCHANGED <<store, claimant>>
     \/ /\ in[c].guard = "DURABLE" /\ Key(c) \notin store
        /\ Insert(c)
        /\ Goto(c, "dispatch", budget[c]) \/ Stop(c, "UNAVAILABLE")
     \/ /\ in[c].guard = "DURABLE"
        /\ Stop(c, "UNAVAILABLE") /\ UNCHANGED <<store, claimant>>
  /\ UNCHANGED <<claims, in, dispatched>>

\* The check after the claims, and registry.dispatch: from here on the dry run
\* may have happened.
Dispatch(c) ==
  /\ At(c, "dispatch")
  /\ IF Expired(c)
     THEN Stop(c, "EXPIRED") /\ UNCHANGED dispatched
     ELSE Goto(c, "inFlight", budget[c]) /\ dispatched' = dispatched \cup {c}
  /\ UNCHANGED <<claims, store, in, claimant>>

\* registry.dispatch raises, or returns a result that is late, does not match
\* the task, or is accepted.
Result(c) ==
  /\ At(c, "inFlight")
  /\ \/ Stop(c, "DISPATCH_FAILED")
     \/ Expired(c) /\ Stop(c, "LATE")
     \/ ~Expired(c) /\ Stop(c, "UNEXPECTED_RESULT")
     \/ ~Expired(c) /\ Stop(c, "DRY_RUN")
  /\ UNCHANGED <<claims, store, in, claimant, dispatched>>

\* One step of a call.
CallStep(c) ==
  /\ \/ Begin(c) \/ SampleBefore(c) \/ SampleAnchor(c) \/ SampleAfter(c)
     \/ Recheck(c) \/ ReadNow(c) \/ ProcessClaim(c) \/ DurableClaim(c)
     \/ Dispatch(c) \/ Result(c)
  /\ UNCHANGED <<clockVars, alive>>

-----------------------------------------------------------------------------
\* Environment: time passes, the wall clock is set, a process dies.
Tick ==
  /\ mono < MaxTime
  /\ mono' = mono + 1
  /\ utc' = IF utc < MaxTime THEN utc + 1 ELSE utc
  /\ UNCHANGED <<stepped, alive, bridgeVars>>

SetClock ==
  /\ ClockMayStep
  /\ \E t \in Time \ {utc} : utc' = t /\ stepped' = (stepped \/ t < utc)
  /\ UNCHANGED <<mono, alive, bridgeVars>>

Die(p) ==
  /\ p \in alive
  /\ alive' = alive \ {p}
  /\ UNCHANGED <<clockVars, bridgeVars>>

Next ==
  \/ \E c \in Calls : CallStep(c)
  \/ Tick
  \/ SetClock
  \/ \E p \in Procs : Die(p)

Spec == Init /\ [][Next]_vars

-----------------------------------------------------------------------------
TypeOK ==
  /\ utc \in Time /\ mono \in Time /\ stepped \in BOOLEAN
  /\ alive \subseteq Procs
  /\ claims \in [Procs -> [Keys -> Time]]
  /\ store \subseteq Keys
  /\ at \in [Calls -> Points]
  /\ in \in Workloads
  /\ budget \in [Calls -> Budget]
  /\ outcome \in [Calls -> Outcomes]
  /\ claimant \in [Keys -> Calls \cup {NoCall}]
  /\ dispatched \subseteq Calls

\* A call with the durable guard that may dispatch, or did, owns its key.
Owns(c) == in[c].guard = "DURABLE" /\ (at[c] \in {"dispatch", "inFlight"} \/ c \in dispatched)
             => claimant[Key(c)] = c

\* A durably claimed key has an owner.
Ownership ==
  /\ store = {k \in Keys : claimant[k] # NoCall}
  /\ \A c \in Calls : Owns(c)

\* The clock samples of a call bound its authorization: whatever is left of the
\* monotonic budget ends no later than the authorization did by the first sample.
BudgetSound(c) ==
  LET b == budget[c] IN
  /\ at[c] = "before" => b.started <= mono
  /\ at[c] \in {"anchor", "after"} =>
       b.started <= mono /\ b.started + (Expires(c) - b.before) <= b.until
  /\ at[c] = "after" => b.started <= b.anchor
  /\ at[c] \in {"recheck", "now", "process", "durable", "dispatch", "inFlight"} =>
       b.anchor + b.remaining <= b.until

\* The process guard never holds more than its capacity, in total and per actor.
CapacityRespected ==
  \A p \in Procs :
    /\ Cardinality(Held(claims[p])) <= MaxEntries
    /\ \A k \in Keys : Cardinality(HeldBy(claims[p], k.actor)) <= MaxPerActor

\* The inductive invariant: types, ownership of the durable claims, soundness of
\* the monotonic budgets, capacity of the process guards.
Inv == TypeOK /\ Ownership /\ CapacityRespected /\ \A c \in Calls : BudgetSound(c)

\* With the durable guard, one replay key is dispatched at most once: by threads
\* of one process or of several, after restarts, after the wall clock was set
\* back and after the store raised with its commit done.
AtMostOneDispatch ==
  \A c, d \in dispatched :
    in[c].guard = "DURABLE" /\ in[d].guard = "DURABLE" /\ Key(c) = Key(d) => c = d

\* As long as the wall clock never goes back, the process guard alone keeps one
\* authorization from being dispatched twice in one process, even when every
\* caller passes a replay guard of its own (action_kernel_hive_bridge.py:164).
ProcessGuardSuffices ==
  ~stepped => \A c, d \in dispatched :
                ProcOf(c) = ProcOf(d) /\ in[c].task = in[d].task => c = d

\* A result is accepted only before the moment at which the authorization ends
\* by the first wall clock sample, in time that actually passed: no correction of
\* the wall clock between or after the samples lengthens an authorization.
AcceptedWithinAuthorization ==
  [][\A c \in Calls : outcome[c] = "NONE" /\ outcome'[c] = "DRY_RUN"
                        => mono < budget[c].until]_vars

\* A call refused for capacity, or before its claims, has not used up the durable
\* claim of its key: the caller may try again later.
RefusalIsRetryable ==
  \A c \in Calls :
    outcome[c] \in {"NOT_ALLOWED", "MISMATCH", "LIFETIME", "NO_GUARD", "UNSHAPED", "CAPACITY"}
      => \A k \in Keys : claimant[k] # c

\* The process guard neither lets a replay through nor costs an honest caller the retry
\* that a refusal leaves to it.
GuardsAreFair == ProcessGuardSuffices /\ RefusalIsRetryable

\* Calls with the durable guard implement single use of their key.
Once == INSTANCE SingleUse WITH
  Items <- Keys, Actors <- Calls, Nobody <- NoCall, owner <- claimant,
  acted <- {<<c, Key(c)>> : c \in {d \in dispatched : in[d].guard = "DURABLE"}}

ImplementsSingleUse == Once!Spec
=============================================================================
