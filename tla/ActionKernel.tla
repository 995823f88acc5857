---------------------------- MODULE ActionKernel ----------------------------
(***************************************************************************)
(* cybercore.action_kernel.ActionKernel: concurrent calls of execute() on  *)
(* kernel objects, one per process.  A call audits the request, evaluates  *)
(* the policy, audits the verdict, re-reads the clock, reserves the task   *)
(* id under the lock, builds the synthetic evidence and audits execution   *)
(* and evidence.  Threads interleave between any two of these steps, the   *)
(* wall clock moves (and may be corrected backwards), the audit sink may   *)
(* raise at every stage, before or after it stored the event, and the      *)
(* process may die at any point.                                           *)
(***************************************************************************)
EXTENDS Naturals

CONSTANTS
  Procs,      \* processes; each constructs one kernel, with its own reservations
  Calls,      \* the calls of execute(), each made on a thread of its own
  Home,       \* Home[c]: the process call c runs in
  Audited,    \* the processes whose kernel was given an evidence_sink
  Tasks,      \* task ids
  Workloads,  \* the assignments of a TaskRequest to every call (see Request)
  MaxTime,    \* bound on the wall clock
  ClockMayStepBack, \* whether the wall clock may be corrected backwards
  NoCall      \* the owner of a task id nobody reserved

Time == 0..MaxTime

\* The reasons of the policy checks made before the clock and the reservations
\* are read, and of those made after.
EarlyFaults == {"FEATURE_DISABLED", "ACTOR_DENIED", "ACTOR_MISMATCH", "SCHEMA_DENIED",
                "CONTRACT_DENIED", "PROVENANCE_INVALID", "INVALID_ID", "INVALID_TIME"}
LateFaults  == {"CAPABILITY_DENIED", "CAPABILITY_DESCRIPTOR_INVALID", "TARGET_DENIED",
                "INVALID_ARGUMENTS", "OVERSIZED", "ARGUMENTS_DENIED", "INVALID_INVENTORY"}

\* What execute() reads of a TaskRequest: "early" and "late" are the first of
\* those checks that fail, if any.
Request ==
  [task : Tasks, expires : Time, early : EarlyFaults \cup {"NONE"},
   late : LateFaults \cup {"NONE"}, evidence : {"FITS", "OVERSIZED"}]

ASSUME KernelAssumption ==
  /\ Home \in [Calls -> Procs]
  /\ Audited \subseteq Procs
  /\ Workloads \subseteq [Calls -> Request]
  /\ MaxTime \in Nat
  /\ ClockMayStepBack \in BOOLEAN
  /\ NoCall \notin Calls

VARIABLES
  utc,     \* the wall clock every process reads
  alive,   \* the processes that have not died
  used,    \* used[p]: ActionKernel._used of process p
  pc,      \* where each call is in execute()
  req,     \* the request of each call
  verdict, \* the reason of its policy verdict; ALLOWED stands for ALLOW
  receipt, \* what the call returned
  trail,   \* the audit events stored for the call, as <<stage, outcome>>
  owner    \* history: the call that reserved <<process, task id>>

kernelVars == <<used, pc, req, verdict, receipt, trail, owner>>
vars == <<utc, alive, kernelVars>>

ALLOWED == "READ_ONLY_ALLOWED"
Statuses == {"NONE", "DENIED", "FAILED", "EXECUTED"}
NoReceipt == [status |-> "NONE", reason |-> "NONE", completed |-> 0]

Verdicts == {"NONE", ALLOWED, "EXPIRED", "DUPLICATE"} \cup EarlyFaults \cup LateFaults
Reasons  == Verdicts \cup {"AUDIT_UNAVAILABLE", "AUDIT_FAILED", "EVIDENCE_OVERSIZED",
                          "SYNTHETIC_ONLY"}

Receipt == [status : Statuses, reason : Reasons, completed : Time]

\* The calls' program counter: before the verdict is stored, between it and the
\* reservation of the task id, and after the reservation.
Judging == {"idle", "auditRequest", "policyClock", "policyReserved", "auditPolicy"}
Allowed == {"recheck", "auditExpired", "reserve", "auditDuplicate"}
Holding == {"evidence", "auditExecution", "auditEvidence"}
PCs     == Judging \cup Allowed \cup Holding \cup {"returned"}

OBSERVED  == <<"request", "OBSERVED">>
ALLOW     == <<"policy", "ALLOW">>
DENY      == <<"policy", "DENY">>
REFUSED   == <<"execution", "DENIED">>
COMPLETED == <<"execution", "COMPLETED">>
RECORDED  == <<"evidence", "RECORDED">>
Events == {OBSERVED, ALLOW, DENY, REFUSED, COMPLETED, RECORDED}

Init ==
  /\ utc = 0
  /\ alive = Procs
  /\ used = [p \in Procs |-> {}]
  /\ pc = [c \in Calls |-> "idle"]
  /\ req \in Workloads
  /\ verdict = [c \in Calls |-> "NONE"]
  /\ receipt = [c \in Calls |-> NoReceipt]
  /\ trail = [c \in Calls |-> {}]
  /\ owner = [i \in Procs \X Tasks |-> NoCall]

Item(c) == <<Home[c], req[c].task>>

-----------------------------------------------------------------------------
\* Call c is at step l of execute() and its process is alive.
At(c, l) == Home[c] \in alive /\ pc[c] = l

Goto(c, l) == pc' = [pc EXCEPT ![c] = l]

\* execute() returns a receipt.  completed_at is kept for the EXECUTED receipt
\* only (BuildEvidence): nothing reads it of another.
Return(c, status, reason) ==
  /\ receipt' = [receipt EXCEPT ![c].status = status, ![c].reason = reason]
  /\ Goto(c, "returned")

\* Mutant: the exception of the sink is swallowed and the call goes on.
AuditBestEffort(c, event, ok) ==
  /\ trail' \in {trail, [trail EXCEPT ![c] = @ \cup {event}]}
  /\ ok
  /\ UNCHANGED <<used, verdict, owner>>

\* _audit(): the sink stores the event and returns, and the call goes on as
\* ok says; or the sink raises, with the event stored or not, and the receipt
\* is FAILED.
Audit(c, event, ok) ==
  /\ \/ /\ trail' = [trail EXCEPT ![c] = @ \cup {event}]
        /\ ok
     \/ /\ trail' \in {trail, [trail EXCEPT ![c] = @ \cup {event}]}
        /\ Return(c, "FAILED", "AUDIT_FAILED")
  /\ UNCHANGED <<used, verdict, owner>>

\* execute() is entered; without a sink it is denied at once.
Enter(c) ==
  /\ At(c, "idle")
  /\ IF Home[c] \in Audited
     THEN Goto(c, "auditRequest") /\ UNCHANGED receipt
     ELSE Return(c, "DENIED", "AUDIT_UNAVAILABLE")
  /\ UNCHANGED <<used, verdict, trail, owner>>

AuditRequest(c) ==
  /\ At(c, "auditRequest")
  /\ Audit(c, OBSERVED, Goto(c, "policyClock") /\ UNCHANGED receipt)

Decide(c, reason) ==
  /\ verdict' = [verdict EXCEPT ![c] = reason]
  /\ Goto(c, "auditPolicy")

\* _evaluate_policy up to the comparison with the clock.
PolicyClock(c) ==
  /\ At(c, "policyClock")
  /\ \/ req[c].early # "NONE" /\ Decide(c, req[c].early)
     \/ req[c].early = "NONE" /\ req[c].expires <= utc /\ Decide(c, "EXPIRED")
     \/ /\ req[c].early = "NONE" /\ req[c].expires > utc
        /\ Goto(c, "policyReserved") /\ UNCHANGED verdict
  /\ UNCHANGED <<used, receipt, trail, owner>>

\* Mutant: the policy already takes the reservation it only has to look up.
PolicyReservedTakes(c) ==
  /\ At(c, "policyReserved")
  /\ IF req[c].task \in used[Home[c]]
     THEN Decide(c, "DUPLICATE") /\ UNCHANGED <<used, owner>>
     ELSE /\ used' = [used EXCEPT ![Home[c]] = @ \cup {req[c].task}]
          /\ owner' = [owner EXCEPT ![Item(c)] = c]
          /\ Decide(c, IF req[c].late # "NONE" THEN req[c].late ELSE ALLOWED)
  /\ UNCHANGED <<receipt, trail>>

\* _task_id_is_reserved under the lock, then the rest of _evaluate_policy.
PolicyReserved(c) ==
  /\ At(c, "policyReserved")
  /\ Decide(c, IF req[c].task \in used[Home[c]] THEN "DUPLICATE"
               ELSE IF req[c].late # "NONE" THEN req[c].late ELSE ALLOWED)
  /\ UNCHANGED <<used, receipt, trail, owner>>

AuditPolicy(c) ==
  /\ At(c, "auditPolicy")
  /\ IF verdict[c] = ALLOWED
     THEN Audit(c, ALLOW, Goto(c, "recheck") /\ UNCHANGED receipt)
     ELSE Audit(c, DENY, Return(c, "DENIED", verdict[c]))

\* Time of check is not authority to execute later: the clock is read again.
Recheck(c) ==
  /\ At(c, "recheck")
  /\ Goto(c, IF req[c].expires <= utc THEN "auditExpired" ELSE "reserve")
  /\ UNCHANGED <<used, verdict, receipt, trail, owner>>

\* Mutant: stage and outcome are passed in the wrong order.
AuditExpiredSwapped(c) ==
  /\ At(c, "auditExpired")
  /\ Audit(c, <<"DENIED", "execution">>, Return(c, "DENIED", "EXPIRED"))

AuditExpired(c) ==
  /\ At(c, "auditExpired")
  /\ Audit(c, REFUSED, Return(c, "DENIED", "EXPIRED"))

\* Mutant: the lookup made by the policy is trusted and the id only inserted.
ReserveWithoutTest(c) ==
  /\ At(c, "reserve")
  /\ used' = [used EXCEPT ![Home[c]] = @ \cup {req[c].task}]
  /\ owner' = [owner EXCEPT ![Item(c)] = c]
  /\ Goto(c, "evidence")
  /\ UNCHANGED <<verdict, receipt, trail>>

\* Mutant: a call waits until the task id it found reserved is free again.
ReserveWaits(c) ==
  /\ At(c, "reserve")
  /\ req[c].task \notin used[Home[c]]
  /\ used' = [used EXCEPT ![Home[c]] = @ \cup {req[c].task}]
  /\ owner' = [owner EXCEPT ![Item(c)] = c]
  /\ Goto(c, "evidence")
  /\ UNCHANGED <<verdict, receipt, trail>>

\* _reserve_task_id: test and insertion in one critical section.
Reserve(c) ==
  /\ At(c, "reserve")
  /\ IF req[c].task \in used[Home[c]]
     THEN Goto(c, "auditDuplicate") /\ UNCHANGED <<used, owner>>
     ELSE /\ used' = [used EXCEPT ![Home[c]] = @ \cup {req[c].task}]
          /\ owner' = [owner EXCEPT ![Item(c)] = c]
          /\ Goto(c, "evidence")
  /\ UNCHANGED <<verdict, receipt, trail>>

AuditDuplicate(c) ==
  /\ At(c, "auditDuplicate")
  /\ Audit(c, REFUSED, Return(c, "DENIED", "DUPLICATE"))

\* The synthetic evidence is encoded, its size checked and the EXECUTED
\* receipt built, with completed_at, before the execution is audited.
BuildEvidence(c) ==
  /\ At(c, "evidence")
  /\ IF req[c].evidence = "OVERSIZED"
     THEN Return(c, "FAILED", "EVIDENCE_OVERSIZED")
     ELSE /\ receipt' = [receipt EXCEPT ![c].completed = utc]
          /\ Goto(c, "auditExecution")
  /\ UNCHANGED <<used, verdict, trail, owner>>

AuditExecution(c) ==
  /\ At(c, "auditExecution")
  /\ Audit(c, COMPLETED, Goto(c, "auditEvidence") /\ UNCHANGED receipt)

AuditEvidence(c) ==
  /\ At(c, "auditEvidence")
  /\ Audit(c, RECORDED, Return(c, "EXECUTED", "SYNTHETIC_ONLY"))

\* One step of execute() on the thread of call c.
CallStep(c) ==
  /\ \/ Enter(c) \/ AuditRequest(c) \/ PolicyClock(c) \/ PolicyReserved(c)
     \/ AuditPolicy(c) \/ Recheck(c) \/ AuditExpired(c) \/ Reserve(c)
     \/ AuditDuplicate(c) \/ BuildEvidence(c) \/ AuditExecution(c) \/ AuditEvidence(c)
  /\ UNCHANGED <<utc, alive, req>>

-----------------------------------------------------------------------------
\* Environment: the clock advances, is corrected backwards, or a process dies.
Tick ==
  /\ utc < MaxTime
  /\ utc' = utc + 1
  /\ UNCHANGED <<alive, kernelVars>>

StepBack ==
  /\ ClockMayStepBack
  /\ \E t \in Time : t < utc /\ utc' = t
  /\ UNCHANGED <<alive, kernelVars>>

Die(p) ==
  /\ p \in alive
  /\ alive' = alive \ {p}
  /\ UNCHANGED <<utc, kernelVars>>

Next ==
  \/ \E c \in Calls : CallStep(c)
  \/ Tick
  \/ StepBack
  \/ \E p \in Procs : Die(p)

Spec == Init /\ [][Next]_vars

\* A started thread is not suspended for ever by the operating system.
FairSpec == Spec /\ \A c \in Calls : WF_vars(CallStep(c))

-----------------------------------------------------------------------------
TypeOK ==
  /\ utc \in Time
  /\ alive \subseteq Procs
  /\ used \in [Procs -> SUBSET Tasks]
  /\ pc \in [Calls -> PCs]
  /\ req \in Workloads
  /\ verdict \in [Calls -> Verdicts]
  /\ receipt \in [Calls -> Receipt]
  /\ trail \in [Calls -> SUBSET Events]
  /\ owner \in [Procs \X Tasks -> Calls \cup {NoCall}]

\* The call went through the reservation of its task id: it is past Reserve, or
\* its trail or its receipt shows that it was.
Performed(c) == \/ pc[c] \in Holding
                \/ COMPLETED \in trail[c]
                \/ receipt[c].status = "EXECUTED"
                \/ receipt[c].reason = "EVIDENCE_OVERSIZED"

\* The call got past Reserve with its request and its ALLOW verdict stored, and
\* was not denied since.
Settled(c) == /\ {OBSERVED, ALLOW} \subseteq trail[c]
              /\ \/ pc[c] \in Holding
                 \/ pc[c] = "returned" /\ receipt[c].status \in {"FAILED", "EXECUTED"}

\* Every reserved task id has one owner, which is settled, and whoever performs
\* owns its task id.
Ownership ==
  /\ \A p \in Procs, t \in Tasks : t \in used[p] <=> owner[<<p, t>>] # NoCall
  /\ \A c \in Calls : Performed(c) => owner[Item(c)] = c
  /\ \A i \in Procs \X Tasks, c \in Calls : owner[i] = c => Settled(c)

\* What is stored for a call at each point of execute().
TrailOf(c) ==
  /\ pc[c] \in {"idle", "auditRequest"} => trail[c] = {}
  /\ pc[c] \in Judging \ {"idle", "auditRequest"} => trail[c] = {OBSERVED}
  /\ pc[c] \in Allowed \cup {"evidence", "auditExecution"} => trail[c] = {OBSERVED, ALLOW}
  /\ pc[c] = "auditEvidence" => trail[c] = {OBSERVED, ALLOW, COMPLETED}
  /\ COMPLETED \in trail[c] => \/ pc[c] = "auditEvidence"
                               \/ pc[c] = "returned" /\ receipt[c].status # "DENIED"
  /\ pc[c] # "returned" => receipt[c].status = "NONE" /\ receipt[c].reason = "NONE"

FullyAudited(c) == receipt[c].status = "EXECUTED" =>
                     trail[c] = {OBSERVED, ALLOW, COMPLETED, RECORDED}

\* The inductive invariant: types, ownership of task ids, contents of the trails.
Inv == TypeOK /\ Ownership /\ \A c \in Calls : TrailOf(c) /\ FullyAudited(c)

\* An EXECUTED receipt is only returned when request, ALLOW verdict, execution
\* and evidence are all stored, and no DENY or DENIED event of the call is.
ExecutedIsFullyAudited == \A c \in Calls : FullyAudited(c)

\* Two calls with one task id on one kernel never both get past the
\* reservation, whatever the interleaving and whatever fails afterwards: a task
\* whose execution or audit became uncertain is not executed again (comment at
\* action_kernel.py:257).
AtMostOneExecution ==
  \A c, d \in Calls : Performed(c) /\ Performed(d) /\ Item(c) = Item(d) => c = d

\* A denied call consumed nothing: the task id is not reserved on its behalf,
\* so an honest retry of a request denied as expired or for its policy is not
\* refused as a duplicate of itself.
DeniedConsumesNothing ==
  \A c \in Calls : receipt[c].status = "DENIED" =>
     /\ owner[Item(c)] # c
     /\ COMPLETED \notin trail[c]

\* A task id is only ever consumed by a call whose request and ALLOW verdict
\* are in the audit trail: no execution precedes its authorisation record.
ConsumedWasAudited ==
  \A p \in Procs : \A t \in used[p] :
     LET c == owner[<<p, t>>] IN
       /\ c # NoCall
       /\ {OBSERVED, ALLOW} \subseteq trail[c]

\* What a call consumes, it alone executes, after its authorisation is recorded; and what is
\* denied consumed nothing: neither a retry nor a race gets a task executed twice or lost.
ConsumptionIsSound == AtMostOneExecution /\ ConsumedWasAudited /\ DeniedConsumesNothing

\* Every call ends with a structured receipt (ADR-0014, invariant 5) unless its
\* process dies, whatever the sink and the clock do.
EveryCallReturns ==
  \A c \in Calls : <>(receipt[c].status # "NONE" \/ Home[c] \notin alive)

\* The reservation implements single use: an item is a task id of one kernel,
\* the effect of the call that holds it is the COMPLETED event.
Once == INSTANCE SingleUse WITH
  Items  <- Procs \X Tasks, Actors <- Calls, Nobody <- NoCall,
  acted  <- {<<c, Item(c)>> : c \in {d \in Calls : COMPLETED \in trail[d]}}

ImplementsSingleUse == Once!Spec
=============================================================================
