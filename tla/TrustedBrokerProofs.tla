------------------------- MODULE TrustedBrokerProofs -------------------------
(***************************************************************************)
(* Proofs about ActionKernel and about TrustedBroker, which runs it, for   *)
(* every set of processes, calls, tasks and requests, and for every limit. *)
(* A kernel executes a task once and on record, and implements single use. *)
(* The broker dispatches nothing without the whole audit trail of its call *)
(* and no task twice, and the process guard drains.  For those the kernel  *)
(* contributes its invariant, which the steps of the broker preserve, and  *)
(* the bridge the ownership of the durable claims; what is added is the    *)
(* link between them.                                                      *)
(***************************************************************************)
EXTENDS TrustedBroker, TLAPS

\* The six kinds of audit event are different from one another.
LEMMA EventsDiffer ==
  /\ OBSERVED \in Events /\ ALLOW \in Events /\ DENY \in Events
  /\ REFUSED \in Events /\ COMPLETED \in Events /\ RECORDED \in Events
  /\ COMPLETED \notin {OBSERVED, ALLOW, DENY, REFUSED, RECORDED}
  /\ ALLOW \notin {OBSERVED, DENY, REFUSED, RECORDED}
BY DEF Events, OBSERVED, ALLOW, DENY, REFUSED, COMPLETED, RECORDED

\* The verdicts contain none of the reasons of a call that got further.
LEMMA VerdictsAreReasons ==
  /\ Verdicts \subseteq Reasons
  /\ {"AUDIT_UNAVAILABLE", "AUDIT_FAILED", "EVIDENCE_OVERSIZED", "SYNTHETIC_ONLY"} \subseteq Reasons
  /\ {"NONE", ALLOWED, "EXPIRED", "DUPLICATE"} \cup EarlyFaults \cup LateFaults \subseteq Verdicts
  /\ "EVIDENCE_OVERSIZED" \notin Verdicts
BY DEF Reasons, Verdicts, EarlyFaults, LateFaults, ALLOWED

\* Returning keeps the receipts well formed.
LEMMA ReturnTyped ==
  ASSUME TypeOK, NEW c \in Calls, NEW s \in Statuses, NEW r \in Reasons, Return(c, s, r)
  PROVE  receipt' \in [Calls -> Receipt] /\ pc' \in [Calls -> PCs]
<1>1. receipt[c] \in Receipt
  BY DEF TypeOK
<1>2. [receipt[c] EXCEPT !.status = s, !.reason = r] \in Receipt
  BY <1>1 DEF Receipt
<1>3. receipt' = [receipt EXCEPT ![c] = [receipt[c] EXCEPT !.status = s, !.reason = r]]
  BY DEF Return, TypeOK
<1>4. QED BY <1>2, <1>3 DEF TypeOK, Return, Goto, PCs

\* An audited step keeps the types if the call goes on well typed.
LEMMA AuditTyped ==
  ASSUME TypeOK, NEW c \in Calls, NEW e \in Events,
         receipt' \in [Calls -> Receipt], pc' \in [Calls -> PCs],
         trail' \in {trail, [trail EXCEPT ![c] = @ \cup {e}]},
         UNCHANGED <<utc, alive, req, used, verdict, owner>>
  PROVE  TypeOK'
BY DEF TypeOK

\* What a request may be.
LEMMA RequestTyped ==
  ASSUME TypeOK, NEW c \in Calls
  PROVE  /\ Home[c] \in Procs /\ req[c].task \in Tasks /\ Item(c) \in Procs \X Tasks
         /\ req[c].early \in EarlyFaults \cup {"NONE"}
         /\ req[c].late \in LateFaults \cup {"NONE"}
<1>1. req[c] \in Request
  BY KernelAssumption DEF TypeOK
<1>2. QED BY <1>1, KernelAssumption DEF Request, Item

\* The step of call c changes nothing of the other calls.
Others(c) == \A d \in Calls \ {c} :
  pc'[d] = pc[d] /\ receipt'[d] = receipt[d] /\ trail'[d] = trail[d]

\* A step of call c that reserves nothing preserves the invariant if it respects
\* what the invariant says of c alone.
LEMMA Frame ==
  ASSUME Inv, NEW c \in Calls, TypeOK', Others(c),
         UNCHANGED <<req, used, owner>>,
         TrailOf(c)', FullyAudited(c)',
         Performed(c)' => Performed(c),
         Settled(c) => Settled(c)'
  PROVE  Inv'
<1>1. ASSUME NEW d \in Calls PROVE TrailOf(d)' /\ FullyAudited(d)'
  BY <1>1 DEF Inv, Others, TrailOf, FullyAudited
<1>2. ASSUME NEW d \in Calls PROVE (Performed(d)' => Performed(d)) /\ (Settled(d) => Settled(d)')
  BY <1>2 DEF Others, Performed, Settled
<1>3. Ownership'
  BY <1>2 DEF Inv, Ownership, Item
<1>4. QED BY <1>1, <1>3 DEF Inv

LEMMA EnterKeeps ==
  ASSUME Inv, NEW c \in Calls, Enter(c), UNCHANGED <<utc, alive, req>>
  PROVE  Inv'
<1> USE EventsDiffer, VerdictsAreReasons
<1>1. TypeOK'
  <2>1. CASE Return(c, "DENIED", "AUDIT_UNAVAILABLE")
    BY <2>1, ReturnTyped DEF Inv, TypeOK, Enter, Statuses
  <2>2. CASE Goto(c, "auditRequest") /\ UNCHANGED receipt
    BY <2>2 DEF Inv, TypeOK, Enter, Goto, PCs, Judging
  <2>3. QED BY <2>1, <2>2 DEF Enter
<1>2. Others(c)
  BY DEF Inv, TypeOK, Others, Enter, At, Goto, Return, Audit, Decide
<1>3. TrailOf(c)' /\ FullyAudited(c)'
  BY DEF Inv, TypeOK, Receipt, TrailOf, FullyAudited, Enter, At, Goto, Return, Audit, Decide, Judging, Allowed, Holding
<1>4. (Performed(c)' => Performed(c)) /\ (Settled(c) => Settled(c)')
  BY DEF Inv, TypeOK, Receipt, TrailOf, Performed, Settled, Enter, At, Goto, Return, Audit, Decide, Judging, Allowed, Holding
<1>5. UNCHANGED <<req, used, owner>>
  BY DEF Enter, Audit
<1>6. QED BY <1>1, <1>2, <1>3, <1>4, <1>5, Frame

LEMMA AuditRequestKeeps ==
  ASSUME Inv, NEW c \in Calls, AuditRequest(c), UNCHANGED <<utc, alive, req>>
  PROVE  Inv'
<1> USE EventsDiffer, VerdictsAreReasons
<1>1. TypeOK'
  <2>1. receipt' \in [Calls -> Receipt] /\ pc' \in [Calls -> PCs]
    <3>1. CASE Goto(c, "policyClock") /\ UNCHANGED receipt
      BY <3>1 DEF Inv, TypeOK, Goto, PCs, Judging, Holding
    <3>2. CASE Return(c, "FAILED", "AUDIT_FAILED")
      BY <3>2, ReturnTyped DEF Inv, Statuses
    <3>3. QED BY <3>1, <3>2 DEF AuditRequest, Audit
  <2>2. QED BY <2>1, AuditTyped DEF Inv, AuditRequest, Audit
<1>2. Others(c)
  BY DEF Inv, TypeOK, Others, AuditRequest, At, Goto, Return, Audit, Decide
<1>3. TrailOf(c)' /\ FullyAudited(c)'
  BY DEF Inv, TypeOK, Receipt, TrailOf, FullyAudited, AuditRequest, At, Goto, Return, Audit, Decide, Judging, Allowed, Holding
<1>4. (Performed(c)' => Performed(c)) /\ (Settled(c) => Settled(c)')
  BY DEF Inv, TypeOK, Receipt, TrailOf, Performed, Settled, AuditRequest, At, Goto, Return, Audit, Decide, Judging, Allowed, Holding
<1>5. UNCHANGED <<req, used, owner>>
  BY DEF AuditRequest, Audit
<1>6. QED BY <1>1, <1>2, <1>3, <1>4, <1>5, Frame

LEMMA PolicyClockKeeps ==
  ASSUME Inv, NEW c \in Calls, PolicyClock(c), UNCHANGED <<utc, alive, req>>
  PROVE  Inv'
<1> USE EventsDiffer, VerdictsAreReasons
<1>1. TypeOK'
  BY RequestTyped DEF Inv, TypeOK, PolicyClock, At, Goto, Decide, PCs, Judging
<1>2. Others(c)
  BY DEF Inv, TypeOK, Others, PolicyClock, At, Goto, Return, Audit, Decide
<1>3. TrailOf(c)' /\ FullyAudited(c)'
  BY DEF Inv, TypeOK, Receipt, TrailOf, FullyAudited, PolicyClock, At, Goto, Return, Audit, Decide, Judging, Allowed, Holding
<1>4. (Performed(c)' => Performed(c)) /\ (Settled(c) => Settled(c)')
  BY DEF Inv, TypeOK, Receipt, TrailOf, Performed, Settled, PolicyClock, At, Goto, Return, Audit, Decide, Judging, Allowed, Holding
<1>5. UNCHANGED <<req, used, owner>>
  BY DEF PolicyClock, Audit
<1>6. QED BY <1>1, <1>2, <1>3, <1>4, <1>5, Frame

LEMMA PolicyReservedKeeps ==
  ASSUME Inv, NEW c \in Calls, PolicyReserved(c), UNCHANGED <<utc, alive, req>>
  PROVE  Inv'
<1> USE EventsDiffer, VerdictsAreReasons
<1>1. TypeOK'
  BY KernelAssumption
  DEF Inv, TypeOK, PolicyReserved, At, Goto, Return, Audit, Decide, Request, PCs, Judging, Allowed, Holding
<1>2. Others(c)
  BY DEF Inv, TypeOK, Others, PolicyReserved, At, Goto, Return, Audit, Decide
<1>3. TrailOf(c)' /\ FullyAudited(c)'
  BY DEF Inv, TypeOK, Receipt, TrailOf, FullyAudited, PolicyReserved, At, Goto, Return, Audit, Decide, Judging, Allowed, Holding
<1>4. (Performed(c)' => Performed(c)) /\ (Settled(c) => Settled(c)')
  BY DEF Inv, TypeOK, Receipt, TrailOf, Performed, Settled, PolicyReserved, At, Goto, Return, Audit, Decide, Judging, Allowed, Holding
<1>5. UNCHANGED <<req, used, owner>>
  BY DEF PolicyReserved, Audit
<1>6. QED BY <1>1, <1>2, <1>3, <1>4, <1>5, Frame

LEMMA AuditPolicyKeeps ==
  ASSUME Inv, NEW c \in Calls, AuditPolicy(c), UNCHANGED <<utc, alive, req>>
  PROVE  Inv'
<1> USE EventsDiffer, VerdictsAreReasons
<1>1. TypeOK'
  <2>1. receipt' \in [Calls -> Receipt] /\ pc' \in [Calls -> PCs]
    <3>1. CASE Goto(c, "recheck") /\ UNCHANGED receipt
      BY <3>1 DEF Inv, TypeOK, Goto, PCs, Allowed
    <3>2. CASE \E s \in Statuses, r \in Reasons : Return(c, s, r)
      BY <3>2, ReturnTyped DEF Inv
    <3>3. \A r \in Reasons : r = "AUDIT_FAILED" \/ r = verdict[c] =>
            \A s \in {"FAILED", "DENIED"} : Return(c, s, r) => \E t \in Statuses, q \in Reasons : Return(c, t, q)
      BY DEF Statuses
    <3>4. QED BY <3>1, <3>2, <3>3 DEF AuditPolicy, Audit, Inv, TypeOK
  <2>2. QED BY <2>1, AuditTyped DEF Inv, AuditPolicy, Audit
<1>2. Others(c)
  BY DEF Inv, TypeOK, Others, AuditPolicy, At, Goto, Return, Audit, Decide
<1>3. TrailOf(c)' /\ FullyAudited(c)'
  BY DEF Inv, TypeOK, Receipt, TrailOf, FullyAudited, AuditPolicy, At, Goto, Return, Audit, Decide, Judging, Allowed, Holding
<1>4. (Performed(c)' => Performed(c)) /\ (Settled(c) => Settled(c)')
  BY DEF Inv, TypeOK, Receipt, TrailOf, Performed, Settled, AuditPolicy, At, Goto, Return, Audit, Decide, Judging, Allowed, Holding
<1>5. UNCHANGED <<req, used, owner>>
  BY DEF AuditPolicy, Audit
<1>6. QED BY <1>1, <1>2, <1>3, <1>4, <1>5, Frame

LEMMA RecheckKeeps ==
  ASSUME Inv, NEW c \in Calls, Recheck(c), UNCHANGED <<utc, alive, req>>
  PROVE  Inv'
<1> USE EventsDiffer, VerdictsAreReasons
<1>1. TypeOK'
  BY KernelAssumption
  DEF Inv, TypeOK, Recheck, At, Goto, Return, Audit, Decide, Request, PCs, Judging, Allowed, Holding
<1>2. Others(c)
  BY DEF Inv, TypeOK, Others, Recheck, At, Goto, Return, Audit, Decide
<1>3. TrailOf(c)' /\ FullyAudited(c)'
  BY DEF Inv, TypeOK, Receipt, TrailOf, FullyAudited, Recheck, At, Goto, Return, Audit, Decide, Judging, Allowed, Holding
<1>4. (Performed(c)' => Performed(c)) /\ (Settled(c) => Settled(c)')
  BY DEF Inv, TypeOK, Receipt, TrailOf, Performed, Settled, Recheck, At, Goto, Return, Audit, Decide, Judging, Allowed, Holding
<1>5. UNCHANGED <<req, used, owner>>
  BY DEF Recheck, Audit
<1>6. QED BY <1>1, <1>2, <1>3, <1>4, <1>5, Frame

LEMMA AuditExpiredKeeps ==
  ASSUME Inv, NEW c \in Calls, AuditExpired(c), UNCHANGED <<utc, alive, req>>
  PROVE  Inv'
<1> USE EventsDiffer, VerdictsAreReasons
<1>1. TypeOK'
  <2>1. receipt' \in [Calls -> Receipt] /\ pc' \in [Calls -> PCs]
    <3>1. CASE Return(c, "DENIED", "EXPIRED")
      BY <3>1, ReturnTyped DEF Inv, Statuses
    <3>2. CASE Return(c, "FAILED", "AUDIT_FAILED")
      BY <3>2, ReturnTyped DEF Inv, Statuses
    <3>3. QED BY <3>1, <3>2 DEF AuditExpired, Audit
  <2>2. QED BY <2>1, AuditTyped DEF Inv, AuditExpired, Audit
<1>2. Others(c)
  BY DEF Inv, TypeOK, Others, AuditExpired, At, Goto, Return, Audit, Decide
<1>3. TrailOf(c)' /\ FullyAudited(c)'
  BY DEF Inv, TypeOK, Receipt, TrailOf, FullyAudited, AuditExpired, At, Goto, Return, Audit, Decide, Judging, Allowed, Holding
<1>4. (Performed(c)' => Performed(c)) /\ (Settled(c) => Settled(c)')
  BY DEF Inv, TypeOK, Receipt, TrailOf, Performed, Settled, AuditExpired, At, Goto, Return, Audit, Decide, Judging, Allowed, Holding
<1>5. UNCHANGED <<req, used, owner>>
  BY DEF AuditExpired, Audit
<1>6. QED BY <1>1, <1>2, <1>3, <1>4, <1>5, Frame

LEMMA AuditDuplicateKeeps ==
  ASSUME Inv, NEW c \in Calls, AuditDuplicate(c), UNCHANGED <<utc, alive, req>>
  PROVE  Inv'
<1> USE EventsDiffer, VerdictsAreReasons
<1>1. TypeOK'
  <2>1. receipt' \in [Calls -> Receipt] /\ pc' \in [Calls -> PCs]
    <3>1. CASE Return(c, "DENIED", "DUPLICATE")
      BY <3>1, ReturnTyped DEF Inv, Statuses
    <3>2. CASE Return(c, "FAILED", "AUDIT_FAILED")
      BY <3>2, ReturnTyped DEF Inv, Statuses
    <3>3. QED BY <3>1, <3>2 DEF AuditDuplicate, Audit
  <2>2. QED BY <2>1, AuditTyped DEF Inv, AuditDuplicate, Audit
<1>2. Others(c)
  BY DEF Inv, TypeOK, Others, AuditDuplicate, At, Goto, Return, Audit, Decide
<1>3. TrailOf(c)' /\ FullyAudited(c)'
  BY DEF Inv, TypeOK, Receipt, TrailOf, FullyAudited, AuditDuplicate, At, Goto, Return, Audit, Decide, Judging, Allowed, Holding
<1>4. (Performed(c)' => Performed(c)) /\ (Settled(c) => Settled(c)')
  BY DEF Inv, TypeOK, Receipt, TrailOf, Performed, Settled, AuditDuplicate, At, Goto, Return, Audit, Decide, Judging, Allowed, Holding
<1>5. UNCHANGED <<req, used, owner>>
  BY DEF AuditDuplicate, Audit
<1>6. QED BY <1>1, <1>2, <1>3, <1>4, <1>5, Frame

LEMMA BuildEvidenceKeeps ==
  ASSUME Inv, NEW c \in Calls, BuildEvidence(c), UNCHANGED <<utc, alive, req>>
  PROVE  Inv'
<1> USE EventsDiffer, VerdictsAreReasons
<1>1. TypeOK'
  <2>1. CASE Return(c, "FAILED", "EVIDENCE_OVERSIZED")
    BY <2>1, ReturnTyped DEF Inv, TypeOK, BuildEvidence, Statuses
  <2>2. CASE receipt' = [receipt EXCEPT ![c].completed = utc] /\ Goto(c, "auditExecution")
    <3>1. [receipt[c] EXCEPT !.completed = utc] \in Receipt
      BY DEF Inv, TypeOK, Receipt
    <3>2. receipt' = [receipt EXCEPT ![c] = [receipt[c] EXCEPT !.completed = utc]]
      BY <2>2 DEF Inv, TypeOK
    <3>3. QED BY <2>2, <3>1, <3>2 DEF Inv, TypeOK, BuildEvidence, Goto, PCs, Holding
  <2>3. QED BY <2>1, <2>2 DEF BuildEvidence
<1>2. Others(c)
  BY DEF Inv, TypeOK, Others, BuildEvidence, At, Goto, Return, Audit, Decide
<1>3. TrailOf(c)' /\ FullyAudited(c)'
  BY DEF Inv, TypeOK, Receipt, TrailOf, FullyAudited, BuildEvidence, At, Goto, Return, Audit, Decide, Judging, Allowed, Holding
<1>4. (Performed(c)' => Performed(c)) /\ (Settled(c) => Settled(c)')
  BY DEF Inv, TypeOK, Receipt, TrailOf, Performed, Settled, BuildEvidence, At, Goto, Return, Audit, Decide, Judging, Allowed, Holding
<1>5. UNCHANGED <<req, used, owner>>
  BY DEF BuildEvidence, Audit
<1>6. QED BY <1>1, <1>2, <1>3, <1>4, <1>5, Frame

LEMMA AuditExecutionKeeps ==
  ASSUME Inv, NEW c \in Calls, AuditExecution(c), UNCHANGED <<utc, alive, req>>
  PROVE  Inv'
<1> USE EventsDiffer, VerdictsAreReasons
<1>1. TypeOK'
  <2>1. receipt' \in [Calls -> Receipt] /\ pc' \in [Calls -> PCs]
    <3>1. CASE Goto(c, "auditEvidence") /\ UNCHANGED receipt
      BY <3>1 DEF Inv, TypeOK, Goto, PCs, Judging, Holding
    <3>2. CASE Return(c, "FAILED", "AUDIT_FAILED")
      BY <3>2, ReturnTyped DEF Inv, Statuses
    <3>3. QED BY <3>1, <3>2 DEF AuditExecution, Audit
  <2>2. QED BY <2>1, AuditTyped DEF Inv, AuditExecution, Audit
<1>2. Others(c)
  BY DEF Inv, TypeOK, Others, AuditExecution, At, Goto, Return, Audit, Decide
<1>3. TrailOf(c)' /\ FullyAudited(c)'
  BY DEF Inv, TypeOK, Receipt, TrailOf, FullyAudited, AuditExecution, At, Goto, Return, Audit, Decide, Judging, Allowed, Holding
<1>4. (Performed(c)' => Performed(c)) /\ (Settled(c) => Settled(c)')
  BY DEF Inv, TypeOK, Receipt, TrailOf, Performed, Settled, AuditExecution, At, Goto, Return, Audit, Decide, Judging, Allowed, Holding
<1>5. UNCHANGED <<req, used, owner>>
  BY DEF AuditExecution, Audit
<1>6. QED BY <1>1, <1>2, <1>3, <1>4, <1>5, Frame

LEMMA AuditEvidenceKeeps ==
  ASSUME Inv, NEW c \in Calls, AuditEvidence(c), UNCHANGED <<utc, alive, req>>
  PROVE  Inv'
<1> USE EventsDiffer, VerdictsAreReasons
<1>1. TypeOK'
  <2>1. receipt' \in [Calls -> Receipt] /\ pc' \in [Calls -> PCs]
    <3>1. CASE Return(c, "EXECUTED", "SYNTHETIC_ONLY")
      BY <3>1, ReturnTyped DEF Inv, Statuses
    <3>2. CASE Return(c, "FAILED", "AUDIT_FAILED")
      BY <3>2, ReturnTyped DEF Inv, Statuses
    <3>3. QED BY <3>1, <3>2 DEF AuditEvidence, Audit
  <2>2. QED BY <2>1, AuditTyped DEF Inv, AuditEvidence, Audit
<1>2. Others(c)
  BY DEF Inv, TypeOK, Others, AuditEvidence, At, Goto, Return, Audit, Decide
<1>3. TrailOf(c)' /\ FullyAudited(c)'
  BY DEF Inv, TypeOK, Receipt, TrailOf, FullyAudited, AuditEvidence, At, Goto, Return, Audit, Decide, Judging, Allowed, Holding
<1>4. (Performed(c)' => Performed(c)) /\ (Settled(c) => Settled(c)')
  BY DEF Inv, TypeOK, Receipt, TrailOf, Performed, Settled, AuditEvidence, At, Goto, Return, Audit, Decide, Judging, Allowed, Holding
<1>5. UNCHANGED <<req, used, owner>>
  BY DEF AuditEvidence, Audit
<1>6. QED BY <1>1, <1>2, <1>3, <1>4, <1>5, Frame

\* The reservation: the only step that gives out a task id.
LEMMA ReserveKeeps ==
  ASSUME Inv, NEW c \in Calls, Reserve(c), UNCHANGED <<utc, alive, req>>
  PROVE  Inv'
<1> USE EventsDiffer, VerdictsAreReasons
<1>1. CASE req[c].task \in used[Home[c]]
  <2>1. TypeOK'
    BY <1>1 DEF Inv, TypeOK, Reserve, Goto, PCs, Allowed
  <2>2. Others(c) /\ UNCHANGED <<req, used, owner>>
    BY <1>1 DEF Inv, TypeOK, Others, Reserve, Goto
  <2>3. TrailOf(c)' /\ FullyAudited(c)'
    BY <1>1 DEF Inv, TypeOK, TrailOf, FullyAudited, Reserve, At, Goto, Judging, Allowed, Holding
  <2>4. (Performed(c)' => Performed(c)) /\ (Settled(c) => Settled(c)')
    BY <1>1 DEF Inv, TypeOK, TrailOf, Performed, Settled, Reserve, At, Goto, Allowed, Holding
  <2>5. QED BY <2>1, <2>2, <2>3, <2>4, Frame
<1>2. CASE req[c].task \notin used[Home[c]]
  <2>1. /\ Item(c) \in Procs \X Tasks /\ Home[c] \in Procs /\ req[c].task \in Tasks
        /\ owner[Item(c)] = NoCall
        /\ NoCall # c
    BY <1>2, RequestTyped, KernelAssumption DEF Inv, Ownership, Item
  <2>2. TypeOK'
    BY <1>2, <2>1 DEF Inv, TypeOK, Reserve, Goto, PCs, Holding
  <2>3. Others(c)
    BY <1>2 DEF Inv, TypeOK, Others, Reserve, Goto
  <2>4. TrailOf(c)' /\ FullyAudited(c)' /\ Settled(c)'
    BY <1>2 DEF Inv, TypeOK, TrailOf, FullyAudited, Settled, Reserve, At, Goto, Judging, Allowed, Holding
  <2>5. ASSUME NEW d \in Calls, d # c
        PROVE  /\ TrailOf(d)' /\ FullyAudited(d)'
               /\ Performed(d)' => Performed(d)
               /\ Settled(d) => Settled(d)'
    BY <2>3, <2>5 DEF Inv, Others, TrailOf, FullyAudited, Performed, Settled
  <2>6. owner' = [owner EXCEPT ![Item(c)] = c] /\ req' = req
    BY <1>2 DEF Reserve
  <2>7. ASSUME NEW p \in Procs, NEW t \in Tasks
        PROVE  t \in used'[p] <=> owner'[<<p, t>>] # NoCall
    BY <1>2, <2>1, <2>6 DEF Inv, TypeOK, Ownership, Reserve, Item
  <2>8. ASSUME NEW d \in Calls, Performed(d)' PROVE (owner[Item(d)] = d)'
    <3>1. CASE d = c
      BY <3>1, <2>1, <2>6 DEF Inv, TypeOK, Item
    <3>2. CASE d # c
      <4>1. owner[Item(d)] = d /\ Item(d) # Item(c)
        BY <3>2, <2>1, <2>5, <2>8, KernelAssumption DEF Inv, Ownership
      <4>2. QED BY <4>1, <2>6, RequestTyped DEF Inv, TypeOK, Item
    <3>3. QED BY <3>1, <3>2
  <2>9. ASSUME NEW i \in Procs \X Tasks, NEW d \in Calls, owner'[i] = d PROVE Settled(d)'
    BY <2>4, <2>5, <2>6, <2>9 DEF Inv, TypeOK, Ownership
  <2>10. Ownership'
    BY <2>7, <2>8, <2>9 DEF Ownership
  <2>11. QED BY <2>2, <2>4, <2>5, <2>10 DEF Inv
<1>3. QED BY <1>1, <1>2

\* The invariant speaks of no clock reading and of no process being alive.
LEMMA EnvironmentKeeps ==
  ASSUME Inv, UNCHANGED kernelVars, utc' \in Time, alive' \subseteq Procs
  PROVE  Inv'
<1>1. TypeOK'
  BY DEF Inv, TypeOK, kernelVars
<1>2. Ownership'
  BY DEF Inv, Ownership, Performed, Settled, Item, kernelVars
<1>3. ASSUME NEW c \in Calls PROVE TrailOf(c)' /\ FullyAudited(c)'
  BY <1>3 DEF Inv, TrailOf, FullyAudited, kernelVars
<1>4. QED BY <1>1, <1>2, <1>3 DEF Inv

LEMMA InitInv == Init => Inv
<1> SUFFICES ASSUME Init PROVE Inv
  OBVIOUS
<1>1. TypeOK
  BY KernelAssumption, VerdictsAreReasons
  DEF Init, TypeOK, Time, PCs, Judging, Receipt, Statuses, NoReceipt
<1>2. Ownership
  BY KernelAssumption DEF Init, Ownership, Performed, NoReceipt, Holding
<1>3. ASSUME NEW c \in Calls PROVE TrailOf(c) /\ FullyAudited(c)
  BY <1>3 DEF Init, TrailOf, FullyAudited, NoReceipt, Judging, Allowed
<1>4. QED BY <1>1, <1>2, <1>3 DEF Inv

\* One step of execute() preserves the invariant.
LEMMA CallKeeps ==
  ASSUME Inv, NEW c \in Calls, CallStep(c)
  PROVE  Inv'
BY EnterKeeps, AuditRequestKeeps, PolicyClockKeeps, PolicyReservedKeeps,
     AuditPolicyKeeps, RecheckKeeps, AuditExpiredKeeps, ReserveKeeps, AuditDuplicateKeeps,
     BuildEvidenceKeeps, AuditExecutionKeeps, AuditEvidenceKeeps DEF CallStep

LEMMA NextInv == Inv /\ [Next]_vars => Inv'
<1> SUFFICES ASSUME Inv, [Next]_vars PROVE Inv'
  OBVIOUS
<1>1. ASSUME NEW c \in Calls, CallStep(c) PROVE Inv'
  BY <1>1, CallKeeps
<1>2. CASE Tick
  BY <1>2, EnvironmentKeeps, KernelAssumption DEF Tick, Inv, TypeOK, Time
<1>3. CASE StepBack
  BY <1>3, EnvironmentKeeps DEF StepBack, Inv, TypeOK
<1>4. ASSUME NEW p \in Procs, Die(p) PROVE Inv'
  BY <1>4, EnvironmentKeeps DEF Die, Inv, TypeOK
<1>5. CASE UNCHANGED vars
  BY <1>5, EnvironmentKeeps DEF vars, Inv, TypeOK
<1>6. QED BY <1>1, <1>2, <1>3, <1>4, <1>5 DEF Next

\* Types, ownership of task ids and contents of the trails are invariant.
THEOREM Invariance == Spec => []Inv
BY InitInv, NextInv, PTL DEF Spec

\* One task id is executed by at most one call of a kernel: both calls would own it.
THEOREM ExecutesAtMostOnce == Spec => []AtMostOneExecution
<1>1. Inv => AtMostOneExecution
  BY DEF Inv, Ownership, AtMostOneExecution
<1>2. QED BY <1>1, Invariance, PTL

\* EXECUTED is only returned with the complete audit trail stored.
THEOREM ExecutionIsAudited == Spec => []ExecutedIsFullyAudited
<1>1. Inv => ExecutedIsFullyAudited
  BY DEF Inv, ExecutedIsFullyAudited
<1>2. QED BY <1>1, Invariance, PTL

\* A task id is only consumed after its request and ALLOW verdict are stored.
THEOREM ConsumptionIsAudited == Spec => []ConsumedWasAudited
<1>1. Inv => ConsumedWasAudited
  <2> SUFFICES ASSUME Inv, NEW p \in Procs, NEW t \in used[p]
               PROVE  /\ owner[<<p, t>>] # NoCall
                      /\ {OBSERVED, ALLOW} \subseteq trail[owner[<<p, t>>]]
    BY DEF ConsumedWasAudited
  <2>1. t \in Tasks
    BY DEF Inv, TypeOK
  <2>2. owner[<<p, t>>] \in Calls
    BY <2>1 DEF Inv, TypeOK, Ownership
  <2>3. QED BY <2>1, <2>2 DEF Inv, TypeOK, Ownership, Settled
<1>2. QED BY <1>1, Invariance, PTL

\* A call that was denied consumed nothing.
THEOREM DenialConsumesNothing == Spec => []DeniedConsumesNothing
<1>1. Inv => DeniedConsumesNothing
  <2> SUFFICES ASSUME Inv, NEW c \in Calls, receipt[c].status = "DENIED"
               PROVE  owner[Item(c)] # c /\ COMPLETED \notin trail[c]
    BY DEF DeniedConsumesNothing
  <2>1. pc[c] = "returned"
    BY DEF Inv, TrailOf
  <2>2. ~Settled(c) /\ COMPLETED \notin trail[c]
    BY <2>1 DEF Inv, TrailOf, Settled, Holding
  <2>3. Item(c) \in Procs \X Tasks
    BY RequestTyped DEF Inv
  <2>4. QED BY <2>2, <2>3 DEF Inv, Ownership
<1>2. QED BY <1>1, Invariance, PTL

-----------------------------------------------------------------------------
\* The kernel implements single use of its task ids.

\* The steps that leave ownership and the COMPLETED events alone stutter.
LEMMA Stutter ==
  ASSUME UNCHANGED <<owner, req>>,
         \A d \in Calls : COMPLETED \in trail'[d] <=> COMPLETED \in trail[d]
  PROVE  UNCHANGED Once!vars
BY DEF Once!vars, Item

\* A step of call c stutters, claims the item of c or acts on it.
LEMMA CallStepImplements ==
  ASSUME Inv, NEW c \in Calls, CallStep(c)
  PROVE  [Once!Next]_(Once!vars)
<1> USE EventsDiffer
<1>1. Item(c) \in Procs \X Tasks /\ req' = req /\ c # NoCall
  BY RequestTyped, KernelAssumption DEF Inv, CallStep
<1>2. CASE Reserve(c)
  <2>1. CASE req[c].task \in used[Home[c]]
    BY <1>1, <1>2, <2>1, Stutter DEF Reserve
  <2>2. CASE req[c].task \notin used[Home[c]]
    <3>1. owner[Item(c)] = NoCall
      BY <2>2, RequestTyped DEF Inv, Ownership, Item
    <3>2. Once!Claim(c, Item(c))
      BY <1>1, <1>2, <2>2, <3>1 DEF Reserve, Once!Claim, Item
    <3>3. QED BY <1>1, <3>2 DEF Once!Next
  <2>3. QED BY <2>1, <2>2
<1>3. CASE AuditExecution(c)
  <2>1. Performed(c) /\ COMPLETED \notin trail[c] /\ UNCHANGED owner
    BY <1>3 DEF Inv, TrailOf, AuditExecution, At, Performed, Holding, Audit
  <2>2. owner[Item(c)] = c
    BY <2>1 DEF Inv, Ownership
  <2>3. CASE trail' = trail
    BY <1>1, <2>1, <2>3, Stutter
  <2>4. CASE trail' = [trail EXCEPT ![c] = @ \cup {COMPLETED}]
    <3>1. {<<d, Item(d)'>> : d \in {e \in Calls : COMPLETED \in trail'[e]}}
          = {<<d, Item(d)>> : d \in {e \in Calls : COMPLETED \in trail[e]}} \cup {<<c, Item(c)>>}
      BY <1>1, <2>4 DEF Inv, TypeOK, Item
    <3>2. ASSUME NEW i \in Procs \X Tasks, i = Item(c) PROVE Once!Act(c, i)
      BY <2>1, <2>2, <3>1, <3>2 DEF Once!Act
    <3>3. \E i \in Procs \X Tasks : Once!Act(c, i)
      BY <1>1, <3>2
    <3>4. QED BY <3>3 DEF Once!Next
  <2>5. QED BY <1>3, <2>3, <2>4 DEF AuditExecution, Audit
<1>4. CASE ~Reserve(c) /\ ~AuditExecution(c)
  <2>1. UNCHANGED owner
    BY <1>4 DEF CallStep, Enter, AuditRequest, PolicyClock, PolicyReserved, AuditPolicy, Recheck,
       AuditExpired, AuditDuplicate, BuildEvidence, AuditEvidence, Audit
  <2>2. \/ trail' = trail
        \/ \E e \in Events \ {COMPLETED} : trail' = [trail EXCEPT ![c] = @ \cup {e}]
    BY <1>4 DEF CallStep, Enter, AuditRequest, PolicyClock, PolicyReserved, AuditPolicy, Recheck,
       AuditExpired, AuditDuplicate, BuildEvidence, AuditEvidence, Audit
  <2>3. \A d \in Calls : COMPLETED \in trail'[d] <=> COMPLETED \in trail[d]
    BY <2>2 DEF Inv, TypeOK
  <2>4. QED BY <1>1, <2>1, <2>3, Stutter
<1>5. QED BY <1>2, <1>3, <1>4

\* A task id is consumed for one call, after its authorisation is stored, and never by a
\* denied one.
THEOREM ConsumptionSound == Spec => []ConsumptionIsSound
BY ExecutesAtMostOnce, ConsumptionIsAudited, DenialConsumesNothing, PTL DEF ConsumptionIsSound

\* The Action Kernel's reservation implements the abstract single use of an item.
THEOREM KernelIsSingleUse == Spec => ImplementsSingleUse
<1>1. Init => Once!Init
  BY DEF Init, Once!Init
<1>2. Inv /\ [Next]_vars => [Once!Next]_(Once!vars)
  <2> SUFFICES ASSUME Inv, [Next]_vars PROVE [Once!Next]_(Once!vars)
    OBVIOUS
  <2>1. ASSUME NEW c \in Calls, CallStep(c) PROVE [Once!Next]_(Once!vars)
    BY <2>1, CallStepImplements
  <2>2. CASE Tick \/ StepBack \/ (\E p \in Procs : Die(p)) \/ UNCHANGED vars
    <3>1. UNCHANGED <<owner, req, trail>>
      BY <2>2 DEF Tick, StepBack, Die, vars, kernelVars
    <3>2. QED BY <3>1, Stutter
  <2>3. QED BY <2>1, <2>2 DEF Next
<1>3. QED BY <1>1, <1>2, Invariance, PTL DEF Spec, ImplementsSingleUse, Once!Spec

-----------------------------------------------------------------------------
-----------------------------------------------------------------------------
\* The broker.

Shapes ==
  /\ stepped \in BOOLEAN /\ phase \in [Calls -> {"entry", "kernel", "bridge", "denied"}]
  /\ claims \in [Procs -> [Keys -> 0..MaxTime]]
  /\ store \subseteq Keys /\ claimant \in [Keys -> Calls \cup {NoCall}]
  /\ at \in [Calls -> B!Points] /\ in \in [Calls -> B!Input]
  /\ dispatched \subseteq Calls

\* The bridge only works for a call whose EXECUTED receipt it was handed, with
\* the durable guard and a key of the very task that was executed.
Handed(c) ==
  /\ in[c].guard = "DURABLE" /\ in[c].proc = Home[c] /\ in[c].task.key \in Keys
  /\ phase[c] # "bridge" => at[c] = "idle" /\ c \notin dispatched
  /\ phase[c] = "bridge" => /\ pc[c] = "returned" /\ receipt[c].status = "EXECUTED"
                            /\ in[c].receipt.completed = receipt[c].completed

\* The lifetime of a call that passed the receipt checks is counted from a
\* reading of the wall clock, which was not set back since.
Timely(c) ==
  /\ at[c] \notin {"idle", "returned"} =>
       in[c].task.expires - in[c].receipt.completed <= MaxLifetime
  /\ ~stepped => receipt[c].completed <= utc

Each(c) == Handed(c) /\ Timely(c)

\* The invariant of the kernels, the part of the bridge's that links a dispatch to the
\* durable claim of its key, and what the broker adds.
IInv == Inv /\ Shapes /\ B!Ownership /\ ClaimsDrain /\ \A c \in Calls : Each(c)

LEMMA TimeTyped == 0..MaxTime \subseteq Nat /\ 0 \in 0..MaxTime /\ MaxLifetime \in Nat
  BY BrokerAssumption, KernelAssumption

\* The kernel's and the bridge's sets of times are the same.
LEMMA Times == Time = 0..MaxTime /\ B!Time = 0..MaxTime
  BY DEF Time, B!Time

\* What the kernels' invariant says of the clock and of a call.
LEMMA CallShaped ==
  ASSUME Inv, NEW c \in Calls
  PROVE  /\ utc \in 0..MaxTime /\ receipt[c].completed \in 0..MaxTime
         /\ req[c].task \in Tasks /\ req[c].expires \in 0..MaxTime
         /\ Home[c] \in Procs /\ RequestedAt[c] \in 0..MaxTime
<1>1. req[c] \in Request /\ receipt[c] \in Receipt /\ utc \in Time
  BY KernelAssumption DEF Inv, TypeOK
<1>2. QED BY <1>1, Times, KernelAssumption, BrokerAssumption DEF Request, Receipt

\* A step of execute() is of its own call, and what it writes as completed_at is the
\* time it reads.
LEMMA CallMoves ==
  ASSUME Inv, NEW c \in Calls, CallStep(c)
  PROVE  Others(c) /\ receipt'[c].completed \in {receipt[c].completed, utc}
<1>1. /\ pc \in [Calls -> PCs] /\ receipt \in [Calls -> Receipt] /\ trail \in [Calls -> SUBSET Events]
  BY DEF Inv, TypeOK
<1>2. ASSUME NEW s, NEW r, Return(c, s, r)
      PROVE  /\ receipt'[c].completed = receipt[c].completed
             /\ \A d \in Calls \ {c} : receipt'[d] = receipt[d] /\ pc'[d] = pc[d]
  BY <1>1, <1>2 DEF Return, Goto, Receipt
<1>3. ASSUME NEW l, Goto(c, l), UNCHANGED receipt
      PROVE  /\ receipt'[c].completed = receipt[c].completed
             /\ \A d \in Calls \ {c} : receipt'[d] = receipt[d] /\ pc'[d] = pc[d]
  BY <1>1, <1>3 DEF Goto
<1>4. CASE BuildEvidence(c) /\ receipt' = [receipt EXCEPT ![c].completed = utc] /\ Goto(c, "auditExecution")
  BY <1>1, <1>4 DEF BuildEvidence, Goto, Receipt, Others
<1>5. CASE ~(BuildEvidence(c) /\ receipt' = [receipt EXCEPT ![c].completed = utc] /\ Goto(c, "auditExecution"))
  <2>1. \A d \in Calls \ {c} : trail'[d] = trail[d]
    BY <1>1 DEF CallStep, Enter, AuditRequest, PolicyClock, PolicyReserved, AuditPolicy, Recheck,
       AuditExpired, Reserve, AuditDuplicate, BuildEvidence, AuditExecution, AuditEvidence, Audit
  <2>2. (\E s, r : Return(c, s, r)) \/ (UNCHANGED receipt /\ \E l : Goto(c, l))
    BY <1>5 DEF CallStep, Enter, AuditRequest, PolicyClock, PolicyReserved, AuditPolicy, Recheck,
       AuditExpired, Reserve, AuditDuplicate, BuildEvidence, AuditExecution, AuditEvidence, Audit, Decide
  <2>3. QED BY <1>2, <1>3, <2>1, <2>2 DEF Others
<1>6. QED BY <1>4, <1>5

-----------------------------------------------------------------------------
\* What holds for each call, when nothing of it changed.
LEMMA EachFrame ==
  ASSUME Inv, Shapes, NEW d \in Calls, Each(d), receipt'[d] = receipt[d], pc'[d] = pc[d], phase'[d] = phase[d],
         at'[d] = at[d], in'[d] = in[d], req'[d] = req[d], d \in dispatched' <=> d \in dispatched,
         utc' \in Nat, ~stepped' => ~stepped /\ utc' >= utc
  PROVE  Each(d)'
<1>1. Handed(d)'
  BY DEF Each, Handed
<1>2. utc \in Nat /\ receipt[d].completed \in Nat
  BY TimeTyped, CallShaped
<1>3. Timely(d)'
  BY <1>2 DEF Each, Timely
<1>4. QED BY <1>1, <1>3 DEF Each

\* The kernels' invariant speaks of none of what the bridge and the broker write.
LEMMA KernelsKept ==
  ASSUME Inv, UNCHANGED kernelVars, utc' \in 0..MaxTime, alive' \subseteq alive
  PROVE  Inv'
BY EnvironmentKeeps, Times DEF Inv, TypeOK

LEMMA AdmitKeeps ==
  ASSUME IInv, NEW c \in Calls, Admit(c)
  PROVE  IInv'
<1>1. /\ Inv /\ Shapes /\ B!Ownership /\ ClaimsDrain /\ \A d \in Calls : Each(d)
      /\ UNCHANGED <<utc, stepped, pc, req, verdict, receipt, trail, claims, store, claimant, at, in, dispatched>>
  BY DEF IInv, Admit, kernelVars, bridgeVars
<1>2. phase' \in [Calls -> {"entry", "kernel", "bridge", "denied"}]
      /\ phase'[c] # "bridge" /\ phase[c] # "bridge" /\ \A d \in Calls \ {c} : phase'[d] = phase[d]
  BY <1>1 DEF Admit, Move, Running, Shapes
<1>3. Shapes'
  BY <1>1, <1>2 DEF Shapes
<1>4. B!Ownership' /\ ClaimsDrain'
  BY <1>1 DEF B!Ownership, B!Owns, B!Key, ClaimsDrain
<1>5. utc \in 0..MaxTime /\ utc \in Nat
  BY <1>1, TimeTyped, CallShaped
<1>6. ASSUME NEW d \in Calls, d # c PROVE Each(d)'
  BY <1>1, <1>2, <1>5, <1>6, EachFrame
<1>7. Each(c)'
  BY <1>1, <1>2 DEF Each, Handed, Timely
<1>8. Inv'
  BY <1>1, <1>5, KernelsKept DEF Admit
<1>9. QED BY <1>3, <1>4, <1>6, <1>7, <1>8 DEF IInv

\* A step of the kernel's execute().
LEMMA KernelStepKeeps ==
  ASSUME IInv, NEW c \in Calls, KernelStep(c)
  PROVE  IInv'
<1>1. /\ Inv /\ Shapes /\ B!Ownership /\ ClaimsDrain /\ \A d \in Calls : Each(d)
      /\ UNCHANGED <<utc, stepped, req, claims, store, claimant, at, in, dispatched, phase>>
      /\ phase[c] # "bridge" /\ CallStep(c)
  BY DEF IInv, KernelStep, bridgeVars, CallStep, Running
<1>2. Others(c) /\ receipt'[c].completed \in {receipt[c].completed, utc} /\ Inv'
  BY <1>1, CallMoves, CallKeeps
<1>3. Shapes'
  BY <1>1 DEF Shapes
<1>4. B!Ownership' /\ ClaimsDrain'
  BY <1>1 DEF B!Ownership, B!Owns, B!Key, ClaimsDrain
<1>5. utc \in Nat
  BY <1>1, TimeTyped, CallShaped
<1>6. ASSUME NEW d \in Calls, d # c PROVE Each(d)'
  BY <1>1, <1>2, <1>5, <1>6, EachFrame DEF Others
<1>7. Each(c)'
  <2>1. Handed(c)'
    BY <1>1 DEF Each, Handed
  <2>2. Timely(c)'
    <3>1. at[c] = "idle" /\ (~stepped => receipt[c].completed <= utc)
      BY <1>1 DEF Each, Handed, Timely
    <3>2. QED BY <1>1, <1>2, <1>5, <3>1 DEF Timely
  <2>3. QED BY <2>1, <2>2 DEF Each
<1>8. QED BY <1>2, <1>3, <1>4, <1>6, <1>7 DEF IInv

\* What the bridge is given is an Input.
LEMMA InputShaped ==
  ASSUME Inv, NEW c \in Calls, NEW k \in Keys, NEW a \in BOOLEAN
  PROVE  /\ Input(c, k, a) \in B!Input
         /\ Input(c, k, a).guard = "DURABLE" /\ Input(c, k, a).proc = Home[c]
         /\ Input(c, k, a).task.key = k
         /\ Input(c, k, a).receipt.completed = receipt[c].completed
BY CallShaped, Times DEF Input, B!Input, B!Task, B!Receipt

LEMMA ExecutedShaped ==
  ASSUME Inv, NEW c \in Calls, Handed(c)
  PROVE  /\ Executed(c) \in B!Input
         /\ Executed(c).guard = "DURABLE" /\ Executed(c).proc = Home[c]
         /\ Executed(c).task.key \in Keys
         /\ Executed(c).receipt.completed = receipt[c].completed
BY InputShaped DEF Executed, Handed

LEMMA HandOverKeeps ==
  ASSUME IInv, NEW c \in Calls, HandOver(c)
  PROVE  IInv'
<1>1. /\ Inv /\ Shapes /\ B!Ownership /\ ClaimsDrain /\ \A d \in Calls : Each(d)
      /\ UNCHANGED <<utc, stepped, pc, req, verdict, receipt, trail, claims, store, claimant, at, dispatched>>
      /\ phase[c] = "kernel" /\ pc[c] = "returned"
  BY DEF IInv, HandOver, kernelVars, Running
<1>2. phase' \in [Calls -> {"entry", "kernel", "bridge", "denied"}]
      /\ \A d \in Calls \ {c} : phase'[d] = phase[d] /\ in'[d] = in[d]
  BY <1>1 DEF HandOver, Move, Shapes
<1>3. /\ phase'[c] = "bridge" => receipt[c].status = "EXECUTED" /\ in'[c] = Executed(c)
      /\ phase'[c] = "bridge" \/ (phase'[c] = "denied" /\ in'[c] = in[c])
      /\ in' \in [Calls -> B!Input]
  BY <1>1, ExecutedShaped DEF HandOver, Move, Shapes, Each
<1>4. Shapes'
  BY <1>1, <1>2, <1>3 DEF Shapes
<1>5. at[c] = "idle" /\ c \notin dispatched
  BY <1>1 DEF Each, Handed
<1>6. B!Ownership'
  BY <1>1, <1>2, <1>5 DEF B!Ownership, B!Owns, B!Key
<1>7. ClaimsDrain'
  BY <1>1 DEF ClaimsDrain
<1>8. utc \in 0..MaxTime /\ utc \in Nat
  BY <1>1, TimeTyped, CallShaped
<1>9. ASSUME NEW d \in Calls, d # c PROVE Each(d)'
  BY <1>1, <1>2, <1>8, <1>9, EachFrame
<1>10. Each(c)'
  <2>1. Handed(c)'
    <3>1. CASE phase'[c] = "bridge"
      <4>1. in'[c] = Executed(c) /\ Handed(c) /\ receipt[c].status = "EXECUTED"
        BY <1>1, <1>3, <3>1 DEF Each
      <4>2. QED BY <1>1, <3>1, <4>1, ExecutedShaped DEF Handed
    <3>2. CASE phase'[c] = "denied" /\ in'[c] = in[c]
      BY <1>1, <1>5, <3>2 DEF Each, Handed
    <3>3. QED BY <1>3, <3>1, <3>2
  <2>2. Timely(c)'
    BY <1>1, <1>5 DEF Each, Timely
  <2>3. QED BY <2>1, <2>2 DEF Each
<1>11. Inv'
  BY <1>1, <1>8, KernelsKept DEF HandOver
<1>12. QED BY <1>4, <1>6, <1>7, <1>9, <1>10, <1>11 DEF IInv

-----------------------------------------------------------------------------
\* A step of the bridge moves its own call on, or ends it.
LEMMA BridgeMoves ==
  ASSUME Shapes, NEW c \in Calls, B!CallStep(c)
  PROVE  /\ at' \in [Calls -> B!Points] /\ at'[c] # "idle" /\ \A d \in Calls \ {c} : at'[d] = at[d]
         /\ at[c] = "idle" /\ at'[c] # "returned" =>
              in[c].task.expires - in[c].receipt.completed <= MaxLifetime
<1>1. \A l \in B!Points \ {"idle"} : \A b : B!Goto(c, l, b) =>
        at' \in [Calls -> B!Points] /\ at'[c] = l /\ \A d \in Calls \ {c} : at'[d] = at[d]
  BY DEF Shapes, B!Goto
<1>2. \A o : B!Stop(c, o) =>
        at' \in [Calls -> B!Points] /\ at'[c] = "returned" /\ \A d \in Calls \ {c} : at'[d] = at[d]
  BY DEF Shapes, B!Stop, B!Points
<1>3. {"before", "anchor", "after", "recheck", "now", "process", "durable", "dispatch", "inFlight"}
        \subseteq B!Points \ {"idle"}
  BY DEF B!Points
<1>4. \/ \E o : B!Stop(c, o)
      \/ \E l \in B!Points \ {"idle"} : \E b : B!Goto(c, l, b)
  BY <1>3 DEF B!CallStep, B!Begin, B!SampleBefore, B!SampleAnchor, B!SampleAfter, B!Recheck, B!ReadNow,
     B!ProcessClaim, B!DurableClaim, B!Dispatch, B!Result
<1>5. ASSUME at[c] = "idle", at'[c] # "returned"
      PROVE  in[c].task.expires - in[c].receipt.completed <= MaxLifetime
  <2>1. B!Begin(c)
    BY <1>5 DEF B!CallStep, B!Begin, B!SampleBefore, B!SampleAnchor, B!SampleAfter, B!Recheck, B!ReadNow,
       B!ProcessClaim, B!DurableClaim, B!Dispatch, B!Result, B!At
  <2>2. B!Refusal(in[c]) = "NONE"
    BY <1>2, <1>5, <2>1 DEF B!Begin
  <2>3. in[c].task.expires \in Nat /\ in[c].receipt.completed \in Nat /\ MaxLifetime \in Nat
    BY TimeTyped, Times DEF Shapes, B!Input, B!Task, B!Receipt
  <2>4. ~(in[c].task.expires - in[c].receipt.completed > MaxLifetime)
    BY <2>2 DEF B!Refusal
  <2>5. QED BY <2>3, <2>4
<1>6. QED BY <1>1, <1>2, <1>4, <1>5

\* What the steps of the bridge do to the guards and to what was dispatched.
LEMMA BridgeGuards ==
  ASSUME IInv, NEW c \in Calls, phase[c] = "bridge", B!CallStep(c)
  PROVE  /\ claims' \in [Procs -> [Keys -> 0..MaxTime]] /\ store' \subseteq Keys
         /\ claimant' \in [Keys -> Calls \cup {NoCall}] /\ dispatched' \subseteq Calls
         /\ dispatched' = dispatched \/ dispatched' = dispatched \cup {c}
         /\ B!Ownership'
<1>1. /\ Inv /\ Shapes /\ B!Ownership /\ in' = in /\ in[c].guard = "DURABLE" /\ B!Key(c) \in Keys /\ in[c].proc \in Procs
      /\ 0 \in 0..MaxTime /\ in[c].task.expires \in 0..MaxTime /\ NoCall \notin Calls
  BY TimeTyped, Times, KernelAssumption
  DEF IInv, Each, Handed, B!Key, Shapes, B!Input, B!Task, B!CallStep, B!Begin, B!SampleBefore, B!SampleAnchor,
      B!SampleAfter, B!Recheck, B!ReadNow, B!ProcessClaim, B!DurableClaim, B!Dispatch, B!Result
<1>2. \A d \in Calls : B!Key(d)' = B!Key(d)
  BY <1>1 DEF B!Key
<1>3. at' \in [Calls -> B!Points] /\ \A d \in Calls \ {c} : at'[d] = at[d]
  BY <1>1, BridgeMoves
<1>4. ASSUME UNCHANGED <<store, claimant, dispatched>>, at'[c] \notin {"dispatch", "inFlight"}
      PROVE  B!Ownership'
  <2>1. ASSUME NEW d \in Calls PROVE B!Owns(d)'
    BY <1>1, <1>2, <1>3, <1>4 DEF B!Ownership, B!Owns
  <2>2. QED BY <1>1, <1>4, <2>1 DEF B!Ownership
<1>5. CASE B!Begin(c) \/ B!SampleBefore(c) \/ B!SampleAnchor(c) \/ B!SampleAfter(c) \/ B!Recheck(c) \/ B!ReadNow(c)
  <2>1. UNCHANGED <<claims, store, claimant, dispatched>>
    BY <1>5 DEF B!Begin, B!SampleBefore, B!SampleAnchor, B!SampleAfter, B!Recheck, B!ReadNow
  <2>2. at'[c] \notin {"dispatch", "inFlight"}
    BY <1>1, <1>5 DEF Shapes, B!Begin, B!SampleBefore, B!SampleAnchor, B!SampleAfter, B!Recheck, B!ReadNow,
       B!Goto, B!Stop
  <2>3. QED BY <1>1, <1>4, <2>1, <2>2 DEF Shapes
<1>6. CASE B!ProcessClaim(c)
  <2> DEFINE kept == B!Unexpired(claims[in[c].proc], budget[c].now)
  <2>1. UNCHANGED <<store, claimant, dispatched>>
    BY <1>6 DEF B!ProcessClaim
  <2>2. at'[c] \notin {"dispatch", "inFlight"}
    BY <1>1, <1>6 DEF Shapes, B!ProcessClaim, B!Goto, B!Stop
  <2>3. kept \in [Keys -> 0..MaxTime]
    BY <1>1 DEF Shapes, B!Unexpired
  <2>4. \/ claims' = [claims EXCEPT ![in[c].proc] = kept]
        \/ claims' = [claims EXCEPT ![in[c].proc] = [kept EXCEPT ![B!Key(c)] = in[c].task.expires]]
    BY <1>6 DEF B!ProcessClaim, B!ProcOf, B!Expires
  <2> HIDE DEF kept
  <2>5. claims' \in [Procs -> [Keys -> 0..MaxTime]]
    <3>1. [kept EXCEPT ![B!Key(c)] = in[c].task.expires] \in [Keys -> 0..MaxTime]
      BY <1>1, <2>3
    <3>2. claims \in [Procs -> [Keys -> 0..MaxTime]]
      BY <1>1 DEF Shapes
    <3>3. ASSUME NEW h \in [Keys -> 0..MaxTime] PROVE [claims EXCEPT ![in[c].proc] = h] \in [Procs -> [Keys -> 0..MaxTime]]
      BY <1>1, <3>2
    <3>4. QED BY <2>3, <2>4, <3>1, <3>3
  <2>6. QED BY <1>1, <1>4, <2>1, <2>2, <2>5 DEF Shapes
<1>7. CASE B!DurableClaim(c)
  <2>1. UNCHANGED <<claims, dispatched>>
    BY <1>7 DEF B!DurableClaim
  <2>2. CASE B!Key(c) \notin store /\ B!Insert(c)
    <3>1. /\ store' = store \cup {B!Key(c)} /\ claimant' = [claimant EXCEPT ![B!Key(c)] = c]
          /\ claimant[B!Key(c)] = NoCall
      BY <1>1, <2>2 DEF B!Insert, B!Ownership
    <3>2. claimant' \in [Keys -> Calls \cup {NoCall}] /\ store' \subseteq Keys
      BY <1>1, <3>1 DEF Shapes
    <3>3. store' = {k \in Keys : claimant'[k] # NoCall}
      BY <1>1, <3>1 DEF B!Ownership, Shapes
    <3>4. ASSUME NEW d \in Calls PROVE B!Owns(d)'
      <4>1. CASE d = c
        BY <1>1, <1>2, <3>1, <4>1 DEF B!Owns, Shapes
      <4>2. CASE d # c
        <5>1. B!Owns(d) /\ at'[d] = at[d]
          BY <1>1, <1>3, <4>2 DEF B!Ownership
        <5>2. B!Key(d) \in Keys
          BY <1>1 DEF B!Key, Shapes, B!Input, B!Task
        <5>3. claimant[B!Key(d)] = d => claimant'[B!Key(d)] = d
          BY <1>1, <3>1, <5>2 DEF Shapes
        <5>4. QED BY <1>1, <1>2, <2>1, <5>1, <5>3 DEF B!Owns
      <4>3. QED BY <4>1, <4>2
    <3>5. QED BY <1>1, <2>1, <3>2, <3>3, <3>4 DEF B!Ownership, Shapes
  <2>3. CASE UNCHANGED <<store, claimant>> /\ \E o : B!Stop(c, o)
    <3>1. at'[c] = "returned"
      BY <1>1, <2>3 DEF Shapes, B!Stop
    <3>2. QED BY <1>1, <1>4, <2>1, <2>3, <3>1 DEF Shapes
  <2>4. QED BY <1>1, <1>7, <2>2, <2>3 DEF B!DurableClaim
<1>8. CASE B!Dispatch(c) \/ B!Result(c)
  <2>1. UNCHANGED <<claims, store, claimant>>
    BY <1>8 DEF B!Dispatch, B!Result
  <2>2. at[c] \in {"dispatch", "inFlight"} /\ (dispatched' = dispatched \/ dispatched' = dispatched \cup {c})
    BY <1>8 DEF B!Dispatch, B!Result, B!At
  <2>3. claimant[B!Key(c)] = c
    BY <1>1, <2>2 DEF B!Ownership, B!Owns
  <2>4. ASSUME NEW d \in Calls PROVE B!Owns(d)'
    BY <1>1, <1>2, <1>3, <2>1, <2>2, <2>3 DEF B!Ownership, B!Owns
  <2>5. QED BY <1>1, <2>1, <2>2, <2>4 DEF B!Ownership, Shapes
<1>9. QED BY <1>5, <1>6, <1>7, <1>8 DEF B!CallStep

\* A claim that enters the process guard is of an authorization within policy.
LEMMA BridgeDrains ==
  ASSUME IInv, NEW c \in Calls, phase[c] = "bridge", B!CallStep(c)
  PROVE  ClaimsDrain'
<1>1. Inv /\ Shapes /\ ClaimsDrain /\ Each(c) /\ UNCHANGED <<utc, stepped>>
  BY DEF IInv, B!CallStep, B!clockVars
<1>2. CASE ~B!ProcessClaim(c)
  <2>1. claims' = claims
    BY <1>2 DEF B!CallStep, B!Begin, B!SampleBefore, B!SampleAnchor, B!SampleAfter, B!Recheck, B!ReadNow,
       B!DurableClaim, B!Dispatch, B!Result
  <2>2. QED BY <1>1, <2>1 DEF ClaimsDrain
<1>3. CASE B!ProcessClaim(c)
  <2> DEFINE x == in[c].task.expires
             p == in[c].proc
             kept == B!Unexpired(claims[p], budget[c].now)
  <2>1. /\ utc \in Nat /\ MaxLifetime \in Nat /\ x \in Nat /\ in[c].receipt.completed \in Nat
        /\ p \in Procs /\ B!Key(c) \in Keys
        /\ \A q \in Procs, k \in Keys : claims[q][k] \in Nat
    BY <1>1, TimeTyped, Times, CallShaped DEF Shapes, B!Input, B!Task, B!Receipt, B!Key
  <2> SUFFICES ASSUME ~stepped, NEW q \in Procs, NEW k \in Keys PROVE claims'[q][k] - utc <= MaxLifetime
    BY <1>1 DEF ClaimsDrain
  <2>2. x - utc <= MaxLifetime
    <3>1. in[c].receipt.completed <= utc
      BY <1>1 DEF Each, Handed, Timely
    <3>2. x - in[c].receipt.completed <= MaxLifetime
      BY <1>1, <1>3 DEF Each, Timely, B!ProcessClaim, B!At
    <3> HIDE DEF x
    <3>3. QED BY <2>1, <3>1, <3>2
  <2>3. \/ claims' = [claims EXCEPT ![p] = kept]
        \/ claims' = [claims EXCEPT ![p] = [kept EXCEPT ![B!Key(c)] = x]]
    BY <1>3 DEF B!ProcessClaim, B!ProcOf, B!Expires
  <2>4. kept = [j \in Keys |-> IF claims[p][j] <= budget[c].now THEN 0 ELSE claims[p][j]]
    BY DEF B!Unexpired
  <2> HIDE DEF x, p, kept
  <2>5. claims'[q][k] \in {0, claims[q][k], x}
    <3>1. claims \in [Procs -> [Keys -> 0..MaxTime]]
      BY <1>1 DEF Shapes
    <3>2. kept[k] \in {0, claims[p][k]} /\ DOMAIN kept = Keys
      BY <2>4
    <3>3. CASE q # p
      BY <2>3, <3>1, <3>3
    <3>4. CASE q = p /\ claims' = [claims EXCEPT ![p] = kept]
      BY <2>1, <3>1, <3>2, <3>4
    <3>5. CASE q = p /\ claims' = [claims EXCEPT ![p] = [kept EXCEPT ![B!Key(c)] = x]]
      <4>1. claims'[q] = [kept EXCEPT ![B!Key(c)] = x]
        BY <2>1, <3>1, <3>5
      <4>2. QED BY <3>2, <3>5, <4>1
    <3>6. QED BY <2>3, <3>3, <3>4, <3>5
  <2>6. claims[q][k] - utc <= MaxLifetime
    BY <1>1 DEF ClaimsDrain
  <2>7. QED BY <2>1, <2>2, <2>5, <2>6
<1>4. QED BY <1>2, <1>3

LEMMA BridgeStepKeeps ==
  ASSUME IInv, NEW c \in Calls, BridgeStep(c)
  PROVE  IInv'
<1>1. /\ Inv /\ Shapes /\ \A d \in Calls : Each(d)
      /\ UNCHANGED <<utc, alive, stepped, kernelVars, pc, req, receipt, phase, in>>
      /\ phase[c] = "bridge" /\ B!CallStep(c)
  BY DEF IInv, BridgeStep, kernelVars, Running, B!CallStep, B!clockVars, B!Begin, B!SampleBefore,
     B!SampleAnchor, B!SampleAfter, B!Recheck, B!ReadNow, B!ProcessClaim, B!DurableClaim, B!Dispatch, B!Result
<1>2. /\ claims' \in [Procs -> [Keys -> 0..MaxTime]] /\ store' \subseteq Keys
      /\ claimant' \in [Keys -> Calls \cup {NoCall}] /\ dispatched' \subseteq Calls
      /\ dispatched' = dispatched \/ dispatched' = dispatched \cup {c}
      /\ B!Ownership'
  BY <1>1, BridgeGuards
<1>3. /\ at' \in [Calls -> B!Points] /\ at'[c] # "idle" /\ \A d \in Calls \ {c} : at'[d] = at[d]
      /\ at[c] = "idle" /\ at'[c] # "returned" =>
           in[c].task.expires - in[c].receipt.completed <= MaxLifetime
  BY <1>1, BridgeMoves
<1>4. Shapes'
  BY <1>1, <1>2, <1>3 DEF Shapes
<1>5. utc \in 0..MaxTime /\ utc \in Nat
  BY <1>1, TimeTyped, CallShaped
<1>6. ASSUME NEW d \in Calls, d # c PROVE Each(d)'
  BY <1>1, <1>2, <1>3, <1>5, <1>6, EachFrame
<1>7. Each(c)'
  <2>1. Handed(c)'
    BY <1>1 DEF Each, Handed
  <2>2. at[c] # "returned"
    BY <1>1 DEF B!CallStep, B!At, B!Begin, B!SampleBefore, B!SampleAnchor, B!SampleAfter, B!Recheck,
       B!ReadNow, B!ProcessClaim, B!DurableClaim, B!Dispatch, B!Result
  <2>3. Timely(c)'
    BY <1>1, <1>3, <2>2 DEF Each, Timely
  <2>4. QED BY <2>1, <2>3 DEF Each
<1>8. Inv'
  BY <1>1, <1>5, KernelsKept
<1>9. QED BY <1>1, <1>2, <1>4, <1>6, <1>7, <1>8, BridgeDrains DEF IInv

-----------------------------------------------------------------------------
\* Time passes or is set, or a process dies.
LEMMA ClockKeeps ==
  ASSUME IInv, UNCHANGED <<kernelVars, bridgeVars, phase>>, utc' \in 0..MaxTime, stepped' \in BOOLEAN,
         alive' \subseteq alive, ~stepped' => ~stepped /\ utc' >= utc
  PROVE  IInv'
<1>1. /\ Inv /\ Shapes /\ B!Ownership /\ ClaimsDrain /\ \A d \in Calls : Each(d)
      /\ UNCHANGED <<pc, req, verdict, receipt, trail, claims, store, at, in, claimant, dispatched, phase>>
  BY DEF IInv, kernelVars, bridgeVars
<1>2. utc \in Nat /\ utc' \in Nat /\ MaxLifetime \in Nat /\ \A p \in Procs, k \in Keys : claims[p][k] \in Nat
  BY <1>1, TimeTyped, Times DEF Shapes, Inv, TypeOK
<1>3. Shapes'
  BY <1>1 DEF Shapes
<1>4. B!Ownership'
  BY <1>1 DEF B!Ownership, B!Owns, B!Key
<1>5. ClaimsDrain'
  BY <1>1, <1>2 DEF ClaimsDrain
<1>6. \A d \in Calls : Each(d)'
  BY <1>1, <1>2, EachFrame
<1>7. Inv'
  BY <1>1, KernelsKept
<1>8. QED BY <1>3, <1>4, <1>5, <1>6, <1>7 DEF IInv

LEMMA InitIInv == BrokerInit => IInv
<1> SUFFICES ASSUME BrokerInit PROVE IInv
  OBVIOUS
<1>0. Inv
  BY InitInv DEF BrokerInit
<1> PICK key \in Authorizations : in = [c \in Calls |-> Input(c, key[c], FALSE)]
  BY DEF BrokerInit
<1>a. \A c \in Calls : key[c] \in Keys
  BY BrokerAssumption
<1>1. Shapes
  <2>1. in \in [Calls -> B!Input]
    BY <1>0, <1>a, InputShaped
  <2>2. QED BY <2>1, TimeTyped DEF Shapes, BrokerInit, B!Points
<1>2. B!Ownership
  BY DEF BrokerInit, B!Ownership, B!Owns
<1>3. ClaimsDrain
  <2>1. utc = 0 /\ \A p \in Procs, k \in Keys : claims[p][k] = 0
    BY DEF BrokerInit, Init
  <2>2. QED BY <2>1, TimeTyped DEF ClaimsDrain
<1>4. ASSUME NEW c \in Calls PROVE Each(c)
  <2>1. Handed(c)
    BY <1>a DEF BrokerInit, Handed, Input
  <2>2. Timely(c)
    BY DEF BrokerInit, Init, Timely, NoReceipt
  <2>3. QED BY <2>1, <2>2 DEF Each
<1>5. QED BY <1>0, <1>1, <1>2, <1>3, <1>4 DEF IInv

LEMMA NextIInv == IInv /\ [BrokerNext]_brokerVars => IInv'
<1> SUFFICES ASSUME IInv, [BrokerNext]_brokerVars PROVE IInv'
  OBVIOUS
<1>1. utc \in 0..MaxTime /\ stepped \in BOOLEAN /\ MaxTime \in Nat
  BY KernelAssumption, Times DEF IInv, Shapes, Inv, TypeOK
<1>2. ASSUME NEW c \in Calls, Execute(c) PROVE IInv'
  BY <1>2, AdmitKeeps, KernelStepKeeps, HandOverKeeps, BridgeStepKeeps DEF Execute
<1>3. CASE BrokerTick
  <2>1. utc' \in {utc, utc + 1} /\ utc' \in 0..MaxTime /\ stepped' = stepped
    BY <1>1, <1>3 DEF BrokerTick, B!Tick
  <2>2. utc' >= utc
    BY <1>1, <2>1
  <2>3. QED BY <1>1, <1>3, <2>1, <2>2, ClockKeeps DEF BrokerTick, B!Tick, B!bridgeVars, bridgeVars
<1>4. CASE SetClock
  <2>1. PICK t \in B!Time \ {utc} : utc' = t /\ stepped' = (stepped \/ t < utc)
    BY <1>4 DEF SetClock, B!SetClock
  <2>2. t \in 0..MaxTime /\ utc' = t /\ stepped' \in BOOLEAN /\ (~stepped' => ~stepped /\ ~(t < utc))
    BY <1>1, <2>1, Times
  <2>3. ~stepped' => ~stepped /\ utc' >= utc
    BY <1>1, <2>2
  <2>4. QED BY <1>4, <2>2, <2>3, ClockKeeps DEF SetClock, B!SetClock, B!bridgeVars, bridgeVars
<1>5. ASSUME NEW p \in Procs, BrokerDie(p) PROVE IInv'
  BY <1>1, <1>5, ClockKeeps DEF BrokerDie, B!Die, B!clockVars, B!bridgeVars, bridgeVars
<1>6. CASE UNCHANGED brokerVars
  BY <1>1, <1>6, ClockKeeps DEF brokerVars, bridgeVars, kernelVars
<1>7. QED BY <1>2, <1>3, <1>4, <1>5, <1>6 DEF BrokerNext

LEMMA SpecIInv == BrokerSpec => []IInv
BY InitIInv, NextIInv, PTL DEF BrokerSpec

\* Under the broker's admission, with the clock of the bridge and beside its calls, the
\* kernels keep their invariant: what is proved of a kernel alone holds of the broker's.
THEOREM KernelsKeepTheirWord == BrokerSpec => []Inv
<1>1. IInv => Inv
  BY DEF IInv
<1>2. QED BY <1>1, SpecIInv, PTL

\* A call that dispatched owns the durable claim of its key and the reservation of its
\* task id, and its trail is complete.
LEMMA DispatchedOwns ==
  ASSUME IInv, NEW c \in dispatched
  PROVE  /\ c \in Calls /\ claimant[B!Key(c)] = c /\ owner[Item(c)] = c
         /\ trail[c] = {OBSERVED, ALLOW, COMPLETED, RECORDED}
<1>1. c \in Calls /\ Each(c) /\ B!Owns(c) /\ FullyAudited(c)
  BY DEF IInv, Inv, Shapes, B!Ownership
<1>2. receipt[c].status = "EXECUTED" /\ in[c].guard = "DURABLE"
  BY <1>1 DEF Each, Handed
<1>3. owner[Item(c)] = c
  BY <1>1, <1>2 DEF IInv, Inv, Ownership, Performed
<1>4. QED BY <1>1, <1>2, <1>3 DEF FullyAudited, B!Owns

\* What is dispatched was executed by the kernel with its whole audit trail
\* stored; and no authorization is dispatched by two calls, of whatever processes:
\* both would own the durable claim of its key.
THEOREM DispatchedOnceOnRecord == BrokerSpec => []OneAuditedDispatch
<1>1. IInv => OneAuditedDispatch
  <2> SUFFICES ASSUME IInv
               PROVE  DispatchIsAudited /\ OneDispatchPerKey
    BY DEF OneAuditedDispatch
  <2>1. DispatchIsAudited
    BY DispatchedOwns DEF DispatchIsAudited, OBSERVED, ALLOW, COMPLETED, RECORDED
  <2>2. OneDispatchPerKey
    BY DispatchedOwns DEF OneDispatchPerKey
  <2>3. QED BY <2>1, <2>2
<1>2. QED BY <1>1, SpecIInv, PTL

\* Nor is a task id dispatched by two calls of one process, under whatever correlation
\* ids they present it: both would own its reservation in the kernel.
THEOREM DispatchedOncePerProcess == BrokerSpec => []OneDispatchPerTaskAndProcess
<1>1. IInv => OneDispatchPerTaskAndProcess
  BY DispatchedOwns DEF OneDispatchPerTaskAndProcess
<1>2. QED BY <1>1, SpecIInv, PTL

\* A claim only enters the process guard for an authorization whose lifetime,
\* counted from the kernel's own timestamp, is within policy: while the clock
\* is not set back it is gone after that lifetime, whatever the caller wrote.
THEOREM GuardDrains == BrokerSpec => []ClaimsDrain
<1>1. IInv => ClaimsDrain
  BY DEF IInv
<1>2. QED BY <1>1, SpecIInv, PTL
=============================================================================
