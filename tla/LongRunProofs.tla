--------------------------- MODULE LongRunProofs ---------------------------
(***************************************************************************)
(* Proofs about LongRun for every set of workers, missions, proposals and  *)
(* scores, every limit and clock bound, as long as one worker at a time    *)
(* performs a run: the worker's copy is the row, the limits hold, an end   *)
(* is justified and final, and no step is executed twice.                  *)
(***************************************************************************)
EXTENDS LongRun, SequenceTheorems, TLAPS, WellFoundedInduction

EventType == [kind : Kinds, step : Nat, status : Terminal \cup {"RUNNING"},
              print : Prints \cup {None}, success : BOOLEAN]

StepType == [print : Prints \cup {None},
             effect : {"allowed", "prohibited", "unlisted"}, worth : BOOLEAN,
             success : BOOLEAN, evidence : {"empty", "some"},
             score : Scores \cup {-1}, verdict : {"NONE", "PASS", "FAIL"}]

InCall(w) == pc[w] \notin {"idle", "ended"}
InStep(w) == pc[w] \in {"watchdog", "plan", "admit", "execute", "evaluate", "finish"}
InFlight(w) == pc[w] \in {"execute", "evaluate", "finish"}

\* One worker at a time.
Alone == \A v, w \in Workers : InCall(v) /\ InCall(w) => v = w

\* The run has a mission, which is that of the worker that performs a step of
\* it, and the evidence that mission demands is in hand when it is judged.
Assigned ==
  \A w \in Workers :
    /\ InStep(w) => state[w].mission = Mission[w]
    /\ pc[w] \in {"evaluate", "finish"} /\ Mission[w] \in RequireEvidence => step[w].evidence = "some"
    /\ pc[w] = "loop" /\ state[w].status = "RUNNING" => state[w].mission = Mission[w]

\* The executor call of a worker, while its outcome is not known.
Call(w) == <<w, left[w], state[w].step>>

\* Executor calls that count are of earlier steps than the row's, but for the
\* one that is in flight.
Counted ==
  /\ \A w \in Workers : InFlight(w) => Call(w) \in ran
  /\ \A a \in ran \ lost : a[3] < run.step \/ \E w \in Workers : InFlight(w) /\ a = Call(w)
  /\ ExecutedOncePerStep

IInv == Inv /\ Alone /\ Assigned /\ Counted

-----------------------------------------------------------------------------
\* The types of what the operators of the model build.
LEMMA Typed ==
  ASSUME TypeOK, NEW w \in Workers
  PROVE  /\ state[w] \in Runs /\ step[w] \in StepType /\ Mission[w] \in Missions
         /\ left[w] \in Nat /\ NoRun \in Runs /\ NoStep \in StepType
         /\ (step[w].print \in Prints \cup {None})
<1>1. NoRun \in Runs
  BY LongRunAssumption DEF NoRun, Runs, Time
<1>2. NoStep \in StepType
  BY DEF NoStep, StepType
<1>3. QED BY <1>1, <1>2, LongRunAssumption DEF TypeOK, StepType

\* A transaction appends a well-typed event.
LEMMA RecordTyped ==
  ASSUME TypeOK, NEW w \in Workers, NEW s \in Runs, s.status # "NONE",
         NEW k \in Kinds, NEW b \in BOOLEAN, Record(w, s, k, b)
  PROVE  run' \in Runs /\ ledger' \in Seq(EventType)
<1>1. step[w].print \in Prints \cup {None}
  BY Typed
<1>2. Event(k, s, step[w].print, b) \in EventType
  BY <1>1 DEF Event, EventType, Runs
<1>3. ledger \in Seq(EventType)
  BY DEF TypeOK, EventType
<1>4. QED BY <1>2, <1>3 DEF Record

\* What a step of worker w keeps, by what it does to the row and to w.
\*
\* w leaves, and its call did not execute anything, or is recorded or lost.
LEMMA LeaveKeeps ==
  ASSUME IInv, NEW w \in Workers, Leave(w),
         UNCHANGED <<now, ran>>, run' \in Runs, ledger' \in Seq(EventType),
         \A v \in Workers : InCall(v) => v = w,
         run'.failures <= MaxFailures /\ run'.dup <= MaxDuplicates,
         run'.step >= run.step,
         \/ lost' = lost /\ (InFlight(w) => run'.step > run.step)
         \/ InFlight(w) /\ lost' = lost \cup {Call(w)}
  PROVE  IInv'
<1>1. TypeOK /\ WithinLimits /\ (\A v \in Workers : Holds(v)) /\ Assigned /\ Counted
  BY DEF IInv, Inv
<1>2. \A v \in Workers : pc'[v] \in {"idle", "ended"}
  BY <1>1 DEF Leave, To, TypeOK, InCall
<1>3. TypeOK'
  <2>1. NoRun \in Runs /\ NoStep \in StepType
    BY <1>1, Typed
  <2>2. left' \in [Workers -> Nat] /\ \A v \in Workers : left'[v] <= MaxSteps[v]
    BY <1>1, LongRunAssumption DEF Leave, TypeOK
  <2>3. state' \in [Workers -> Runs] /\ step' \in [Workers -> StepType]
    BY <1>1, <2>1 DEF Leave, TypeOK, StepType
  <2>4. pc' \in [Workers -> {"idle", "open", "load", "create", "loop", "watchdog", "plan", "admit",
                             "execute", "evaluate", "finish", "ended"}]
    BY <1>1 DEF Leave, To, TypeOK
  <2>5. ran' \subseteq Workers \X Nat \X Nat /\ lost' \subseteq ran'
    BY <1>1 DEF TypeOK, Counted
  <2>6. QED BY <1>1, <2>2, <2>3, <2>4, <2>5 DEF TypeOK, EventType, StepType
<1>4. WithinLimits' /\ (\A v \in Workers : Holds(v)')
  BY <1>1, <1>2 DEF WithinLimits, Holds
<1>5. Alone' /\ Assigned'
  BY <1>2 DEF Alone, Assigned, InCall, InStep
<1>6. Counted'
  <2>1. \A v \in Workers : ~InFlight(v)' /\ (InFlight(v) => v = w)
    BY <1>2 DEF InFlight, InCall
  <2>2. ran' \ lost' \subseteq ran \ lost
    OBVIOUS
  <2>3. \A a \in ran' \ lost' : a[3] < run'.step
    <3> SUFFICES ASSUME NEW a \in ran' \ lost' PROVE a[3] < run'.step
      OBVIOUS
    <3>1. a[3] \in Nat /\ run.step \in Nat /\ run'.step \in Nat /\ state[w].step \in Nat
      BY <1>1, <2>2 DEF TypeOK, Runs
    <3>2. CASE a[3] < run.step
      BY <3>1, <3>2
    <3>3. CASE InFlight(w) /\ a = Call(w)
      <4>1. state[w] = run /\ a[3] = run.step /\ lost' = lost
        BY <1>1, <3>3 DEF Holds, InFlight, Call
      <4>2. QED BY <3>1, <3>3, <4>1
    <3>4. QED BY <1>1, <2>1, <2>2, <3>2, <3>3 DEF Counted
  <2>4. ExecutedOncePerStep'
    BY <1>1, <2>2 DEF Counted, ExecutedOncePerStep
  <2>5. QED BY <2>1, <2>3, <2>4 DEF Counted
<1>7. QED BY <1>3, <1>4, <1>5, <1>6 DEF IInv, Inv

\* w goes on to l with the row s, which it holds.
LEMMA GoesOnKeeps ==
  ASSUME IInv, NEW w \in Workers, \A v \in Workers : InCall(v) => v = w, NEW l, To(w, l),
         l \in {"open", "create", "loop", "load", "watchdog", "plan", "admit", "execute", "evaluate", "finish"},
         now' = now, lost' = lost, run' \in Runs, ledger' \in Seq(EventType),
         left' \in [Workers -> Nat], \A v \in Workers : left'[v] <= left[v],
         state' \in [Workers -> Runs], \A v \in Workers : v # w => state'[v] = state[v],
         step' \in [Workers -> StepType], \A v \in Workers : v # w => step'[v] = step[v],
         run'.failures <= MaxFailures /\ run'.dup <= MaxDuplicates, run'.step >= run.step,
         Holds(w)',
         InStep(w)' => state'[w].mission = Mission[w],
         l = "loop" /\ state'[w].status = "RUNNING" => state'[w].mission = Mission[w],
         l \in {"evaluate", "finish"} /\ Mission[w] \in RequireEvidence => step'[w].evidence = "some",
         \/ ran' = ran /\ ~InFlight(w)' /\ (InFlight(w) => run'.step > run.step)
         \/ ran' = ran /\ InFlight(w) /\ InFlight(w)' /\ Call(w)' = Call(w) /\ run'.step = run.step
         \/ ~InFlight(w) /\ InFlight(w)' /\ ran' = ran \cup {Call(w)'} /\ run'.step = run.step
  PROVE  IInv'
<1>1. TypeOK /\ WithinLimits /\ (\A v \in Workers : Holds(v)) /\ Alone /\ Assigned /\ Counted
  BY DEF IInv, Inv
<1>2. /\ \A v \in Workers : pc'[v] = IF v = w THEN l ELSE pc[v]
      /\ \A v \in Workers \ {w} : ~InCall(v)
  BY <1>1 DEF To, TypeOK
<1>3. \A v \in Workers \ {w} : ~InCall(v)' /\ ~InFlight(v)' /\ ~InStep(v)' /\ pc'[v] \in {"idle", "ended"}
                             /\ ~InFlight(v)
  BY <1>2 DEF InCall, InFlight, InStep
<1>4. TypeOK'
  <2>1. pc' \in [Workers -> {"idle", "open", "load", "create", "loop", "watchdog", "plan", "admit",
                             "execute", "evaluate", "finish", "ended"}]
    BY <1>1 DEF To, TypeOK
  <2>2. ran' \subseteq Workers \X Nat \X Nat /\ lost' \subseteq ran'
    <3>1. left'[w] \in Nat /\ state'[w] \in Runs
      OBVIOUS
    <3>2. Call(w)' \in Workers \X Nat \X Nat
      BY <3>1 DEF Call, Runs
    <3>3. ran \subseteq Workers \X Nat \X Nat /\ lost \subseteq ran
      BY <1>1 DEF TypeOK
    <3>4. ran' = ran \/ ran' = ran \cup {Call(w)'}
      OBVIOUS
    <3> HIDE DEF Call
    <3>5. QED BY <3>2, <3>3, <3>4
  <2>3. \A v \in Workers : left'[v] <= MaxSteps[v]
    BY <1>1, LongRunAssumption DEF TypeOK
  <2>4. now' \in Time
    BY <1>1 DEF TypeOK
  <2>5. QED BY <2>1, <2>2, <2>3, <2>4 DEF TypeOK, EventType, StepType
<1>5. WithinLimits' /\ (\A v \in Workers : Holds(v)')
  BY <1>3 DEF WithinLimits, Holds
<1>6. Alone'
  BY <1>3 DEF Alone
<1>7. Assigned'
  BY <1>2, <1>3 DEF Assigned
<1>8. Counted'
  <2>1. run.step \in Nat /\ run'.step \in Nat /\ \A a \in ran : a[3] \in Nat
    BY <1>1 DEF TypeOK, Runs
  <2>2. \A a \in ran \ lost : a[3] < run.step \/ (InFlight(w) /\ a = Call(w))
    <3>1. \A v \in Workers : InFlight(v) => v = w
      BY <1>3
    <3>2. QED BY <1>1, <3>1 DEF Counted
  <2>3. InFlight(w) => Call(w) \in ran /\ state[w] = run
    BY <1>1 DEF Counted, InFlight, Holds
  <2>4. InFlight(w)' => state'[w] = run'
    BY DEF InFlight, Holds
  <2>5. CASE ran' = ran /\ ~InFlight(w)' /\ (InFlight(w) => run'.step > run.step)
    <3>1. \A a \in ran \ lost : a[3] < run'.step
      BY <2>1, <2>2, <2>3, <2>5 DEF Call
    <3>2. QED BY <1>1, <1>3, <2>5, <3>1 DEF Counted, ExecutedOncePerStep
  <2>6. CASE ran' = ran /\ InFlight(w) /\ InFlight(w)' /\ Call(w)' = Call(w) /\ run'.step = run.step
    BY <1>1, <1>3, <2>2, <2>3, <2>6 DEF Counted, ExecutedOncePerStep
  <2>7. CASE ~InFlight(w) /\ InFlight(w)' /\ ran' = ran \cup {Call(w)'} /\ run'.step = run.step
    <3>1. \A a \in ran \ lost : a[3] < run.step
      BY <2>2, <2>7
    <3>2. Call(w)'[3] = run.step
      BY <2>4, <2>7 DEF Call
    <3>3. ExecutedOncePerStep'
      BY <1>1, <2>1, <2>7, <3>1, <3>2 DEF Counted, ExecutedOncePerStep
    <3>4. \A a \in ran' \ lost' : a[3] < run'.step \/ a = Call(w)'
      BY <2>7, <3>1
    <3>5. \A v \in Workers : InFlight(v)' => v = w
      BY <1>3
    <3>6. QED BY <2>7, <3>3, <3>4, <3>5 DEF Counted
  <2>8. QED BY <2>5, <2>6, <2>7
<1>9. QED BY <1>4, <1>5, <1>6, <1>7, <1>8 DEF IInv, Inv

-----------------------------------------------------------------------------
\* Only w is in a call, and what it holds.
LEMMA Holder ==
  ASSUME IInv, NEW w \in Workers, InCall(w)
  PROVE  /\ \A v \in Workers : InCall(v) => v = w
         /\ TypeOK /\ run \in Runs /\ ledger \in Seq(EventType)
         /\ state[w] \in Runs /\ step[w] \in StepType /\ Mission[w] \in Missions /\ left[w] \in Nat
         /\ left \in [Workers -> Nat] /\ state \in [Workers -> Runs] /\ step \in [Workers -> StepType]
         /\ run.failures <= MaxFailures /\ run.dup <= MaxDuplicates
         /\ InStep(w) => state[w] = run /\ run.status = "RUNNING" /\ run.mission = Mission[w]
         /\ InStep(w) /\ pc[w] # "watchdog" => run.failures < MaxFailures /\ run.dup < MaxDuplicates
  BY Typed DEF IInv, Inv, Alone, Assigned, WithinLimits, Holds, InStep, TypeOK, EventType, StepType

\* The row after a step with this proposal.
LEMMA RowWith ==
  ASSUME NEW r \in Runs, NEW n \in Nat, NEW p \in Prints \cup {None}, NEW d \in Nat
  PROVE  [r EXCEPT !.step = n, !.print = p, !.dup = d] \in Runs
  BY DEF Runs

\* The row of a new run, and a step with this proposal.
LEMMA NewRow ==
  ASSUME NEW m \in Missions, NEW t \in Time
  PROVE  LET s == [NoRun EXCEPT !.status = "RUNNING", !.mission = m, !.started = t]
         IN s \in Runs /\ s.step = 0 /\ s.failures = 0 /\ s.dup = 0 /\ s.status = "RUNNING" /\ s.mission = m
<1> DEFINE s == [NoRun EXCEPT !.status = "RUNNING", !.mission = m, !.started = t]
<1>1. NoRun \in [status : {"NONE"}, mission : {None}, started : {0}, step : {0}, failures : {0},
                 print : {None}, dup : {0}, best : {0}]
  BY DEF NoRun
<1>2. s \in [status : {"RUNNING"}, mission : {m}, started : {t}, step : {0}, failures : {0},
             print : {None}, dup : {0}, best : {0}]
  BY <1>1
<1> HIDE DEF s
<1>3. s \in Runs /\ s.step = 0 /\ s.failures = 0 /\ s.dup = 0 /\ s.status = "RUNNING" /\ s.mission = m
  BY <1>2 DEF Runs
<1>4. QED BY <1>3 DEF s

LEMMA ProposedStep ==
  ASSUME NEW x \in StepType, NEW p \in Prints, NEW e \in {"allowed", "prohibited", "unlisted"}, NEW b \in BOOLEAN
  PROVE  [x EXCEPT !.print = p, !.effect = e, !.worth = b] \in StepType
BY DEF StepType

\* What an executed step makes of the row.
LEMMA ExecutedRow ==
  ASSUME IInv, NEW w \in Workers, InFlight(w), NEW s \in {FailedStep(w), BlockedStep(w)}
  PROVE  /\ s \in Runs /\ s.step > run.step /\ s.step >= run.step /\ s.status \in {"RUNNING", "BLOCKED"}
         /\ s.failures <= MaxFailures /\ s.dup <= MaxDuplicates
<1>1. /\ run \in Runs /\ step[w] \in StepType /\ state[w] = run /\ run.status = "RUNNING"
      /\ run.failures < MaxFailures /\ run.dup < MaxDuplicates
  BY Holder DEF InFlight, InCall, InStep
<1>2. MaxFailures \in Nat /\ MaxDuplicates \in Nat
  BY LongRunAssumption
<1>3. /\ run.step \in Nat /\ run.failures \in Nat /\ run.dup \in Nat
      /\ step[w].print \in Prints \cup {None}
  BY <1>1 DEF Runs, StepType
<1> DEFINE d == IF step[w].print = run.print THEN run.dup + 1 ELSE 0
           x == [run EXCEPT !.step = run.step + 1, !.print = step[w].print, !.dup = d]
<1>4. Executed(w) = x
  BY <1>1 DEF Executed
<1>5. d \in Nat /\ d <= MaxDuplicates
  BY <1>1, <1>2, <1>3
<1>6. x \in Runs /\ x.step = run.step + 1 /\ x.failures = run.failures /\ x.dup = d /\ x.status = "RUNNING"
  <2> HIDE DEF d
  <2>1. DOMAIN run = {"status", "mission", "started", "step", "failures", "print", "dup", "best"}
    BY <1>1 DEF Runs
  <2>2. x.step = run.step + 1 /\ x.print = step[w].print /\ x.dup = d /\ x.failures = run.failures
        /\ x.status = run.status /\ x.mission = run.mission /\ x.started = run.started /\ x.best = run.best
    BY <2>1
  <2>3. x \in Runs
    <3>1. run.step + 1 \in Nat
      BY <1>3
    <3> HIDE DEF Runs
    <3>2. QED BY <1>1, <1>3, <1>5, <3>1, RowWith
  <2> QED BY <1>1, <2>2, <2>3
<1> HIDE DEF d, x
<1>7. CASE s = FailedStep(w)
  <2>1. s = [x EXCEPT !.failures = x.failures + 1]
    BY <1>4, <1>7 DEF FailedStep
  <2>2. QED BY <1>1, <1>2, <1>3, <1>5, <1>6, <2>1 DEF Runs
<1>8. CASE s = BlockedStep(w)
  <2>1. s = [x EXCEPT !.status = "BLOCKED"]
    BY <1>4, <1>8 DEF BlockedStep
  <2>2. QED BY <1>1, <1>2, <1>3, <1>5, <1>6, <2>1 DEF Runs, Terminal
<1>9. QED BY <1>7, <1>8

\* A failure that is recorded ends the worker.
LEMMA RaiseKeeps ==
  ASSUME IInv, NEW w \in Workers, InCall(w), NEW s \in Runs, NEW k \in Kinds, Raise(w, s, k),
         UNCHANGED <<now, ran, lost>>, s.status # "NONE",
         s.failures <= MaxFailures, s.dup <= MaxDuplicates, s.step >= run.step,
         InFlight(w) => s.step > run.step
  PROVE  IInv'
<1>1. run' = s /\ Leave(w) /\ Record(w, s, k, FALSE)
  BY DEF Raise, Record
<1>2. run' \in Runs /\ ledger' \in Seq(EventType)
  BY <1>1, Holder, RecordTyped
<1>3. \A v \in Workers : InCall(v) => v = w
  BY Holder
<1>4. QED BY <1>1, <1>2, <1>3, LeaveKeeps

\* A transaction after which the worker goes on with what it saved.
LEMMA SaveKeeps ==
  ASSUME IInv, NEW w \in Workers, InCall(w), NEW s \in Runs, NEW k \in Kinds, NEW b \in BOOLEAN,
         Save(w, s, k, b), NEW l \in {"loop", "plan"}, To(w, l),
         UNCHANGED <<now, left, step, ran, lost>>, s.status # "NONE",
         s.failures <= MaxFailures, s.dup <= MaxDuplicates, s.step >= run.step,
         InFlight(w) => s.step > run.step,
         s.status = "RUNNING" => s.mission = Mission[w],
         l = "plan" => s.status = "RUNNING" /\ s.failures < MaxFailures /\ s.dup < MaxDuplicates
  PROVE  IInv'
<1>1. /\ run' = s /\ Record(w, s, k, b)
      /\ state' = [state EXCEPT ![w] = s]
  BY DEF Save, Record
<1>2. run' \in Runs /\ ledger' \in Seq(EventType)
  BY <1>1, Holder, RecordTyped
<1>3. /\ left \in [Workers -> Nat] /\ state \in [Workers -> Runs] /\ step \in [Workers -> StepType]
      /\ \A v \in Workers : InCall(v) => v = w
  BY Holder
<1>4. state' \in [Workers -> Runs] /\ state'[w] = s /\ \A v \in Workers : v # w => state'[v] = state[v]
  BY <1>1, <1>3
<1>5. pc'[w] = l
  BY DEF IInv, Inv, TypeOK, To
<1>6. Holds(w)' /\ ~InFlight(w)' /\ (InStep(w)' => l = "plan")
  BY <1>1, <1>4, <1>5 DEF Holds, InFlight, InStep
<1>7. QED BY <1>1, <1>2, <1>3, <1>4, <1>6, GoesOnKeeps, SMTT(30)

\* The worker goes on with the row as it is.
LEMMA ReadKeeps ==
  ASSUME IInv, NEW w \in Workers, \A v \in Workers : InCall(v) => v = w, NEW l, To(w, l),
         l \in {"open", "create", "loop", "load", "watchdog", "plan", "admit"}, ~InFlight(w), NoRecord,
         UNCHANGED <<now, ran, lost>>,
         left' \in [Workers -> Nat], \A v \in Workers : left'[v] <= left[v],
         state' \in [Workers -> Runs], \A v \in Workers : v # w => state'[v] = state[v],
         step' \in [Workers -> StepType], \A v \in Workers : v # w => step'[v] = step[v],
         l \in {"loop", "watchdog", "plan", "admit"} => state'[w] = run,
         l \in {"watchdog", "plan", "admit"} => run.status = "RUNNING",
         l \in {"loop", "watchdog", "plan", "admit"} /\ run.status = "RUNNING" => run.mission = Mission[w],
         l \in {"plan", "admit"} => run.failures < MaxFailures /\ run.dup < MaxDuplicates,
         l = "create" => run = NoRun
  PROVE  IInv'
<1>1. pc'[w] = l /\ UNCHANGED <<run, ledger>>
  BY DEF IInv, Inv, TypeOK, To, NoRecord
<1>2. /\ run' \in Runs /\ ledger' \in Seq(EventType) /\ run'.step >= run.step
      /\ run'.failures <= MaxFailures /\ run'.dup <= MaxDuplicates
  BY <1>1 DEF IInv, Inv, TypeOK, EventType, WithinLimits, Runs
<1>3. Holds(w)' /\ ~InFlight(w)' /\ (InStep(w)' => l \in {"watchdog", "plan", "admit"})
  BY <1>1 DEF Holds, InFlight, InStep
<1>4. QED BY <1>1, <1>2, <1>3, GoesOnKeeps

\* A worker leaves, and no transaction was made.
LEMMA LeaveUnrecorded ==
  ASSUME IInv, NEW w \in Workers, \A v \in Workers : InCall(v) => v = w, Leave(w), NoRecord,
         UNCHANGED <<now, ran>>,
         \/ lost' = lost /\ ~InFlight(w)
         \/ InFlight(w) /\ lost' = lost \cup {Call(w)}
  PROVE  IInv'
<1>1. /\ run' \in Runs /\ ledger' \in Seq(EventType) /\ run'.step >= run.step
      /\ run'.failures <= MaxFailures /\ run'.dup <= MaxDuplicates
  BY DEF NoRecord, IInv, Inv, TypeOK, EventType, WithinLimits, Runs
<1>2. QED BY <1>1, LeaveKeeps

-----------------------------------------------------------------------------
\* One lemma for each action.
LEMMA StartKeeps ==
  ASSUME IInv, Exclusive, NEW w \in Workers, Start(w)
  PROVE  IInv'
<1>1. (\A v \in Workers : ~InCall(v)) /\ ~InFlight(w) /\ TypeOK
  BY DEF Start, InCall, InFlight, IInv, Inv
<1>2. left \in [Workers -> Nat] /\ state \in [Workers -> Runs] /\ step \in [Workers -> StepType]
  BY <1>1 DEF TypeOK, StepType
<1>3. CASE To(w, "open") /\ UNCHANGED <<left, state, step>>
  BY <1>1, <1>2, <1>3, ReadKeeps DEF Start
<1>4. CASE Leave(w)
  BY <1>1, <1>4, LeaveUnrecorded DEF Start
<1>5. QED BY <1>3, <1>4 DEF Start

LEMMA LoadKeeps ==
  ASSUME IInv, NEW w \in Workers, Load(w)
  PROVE  IInv'
<1>1. InCall(w) /\ ~InFlight(w)
  BY DEF Load, InCall, InFlight
<1>2. /\ \A v \in Workers : InCall(v) => v = w
      /\ left \in [Workers -> Nat] /\ state \in [Workers -> Runs] /\ step \in [Workers -> StepType]
      /\ run \in Runs
  BY <1>1, Holder
<1>3. CASE run # NoRun /\ run.mission # Mission[w]
  BY <1>1, <1>2, <1>3, LeaveUnrecorded DEF Load
<1>4. CASE run = NoRun
  <2>1. To(w, "create") /\ UNCHANGED <<left, state, step>>
    BY <1>4 DEF Load
  <2>2. QED BY <1>1, <1>2, <1>4, <2>1, ReadKeeps DEF Load
<1>5. CASE run # NoRun /\ run.mission = Mission[w]
  <2> DEFINE l == IF pc[w] = "load" /\ run.status = "RUNNING" THEN "watchdog" ELSE "loop"
  <2>1. state' = [state EXCEPT ![w] = run] /\ To(w, l) /\ UNCHANGED <<left, step>>
    BY <1>5 DEF Load
  <2>2. state' \in [Workers -> Runs] /\ state'[w] = run /\ \A v \in Workers : v # w => state'[v] = state[v]
    BY <1>2, <2>1
  <2>3. l \in {"watchdog", "loop"} /\ (l = "watchdog" => run.status = "RUNNING")
    OBVIOUS
  <2> HIDE DEF l
  <2>4. \A v \in Workers : left'[v] <= left[v] /\ step'[v] = step[v]
    BY <1>2, <2>1
  <2>5. NoRecord /\ UNCHANGED <<now, ran, lost>>
    BY DEF Load
  <2>6. QED BY <1>1, <1>2, <1>5, <2>1, <2>2, <2>3, <2>4, <2>5, ReadKeeps
<1>6. QED BY <1>3, <1>4, <1>5

LEMMA CreateKeeps ==
  ASSUME IInv, NEW w \in Workers, Create(w)
  PROVE  IInv'
<1> DEFINE s == [NoRun EXCEPT !.status = "RUNNING", !.mission = Mission[w], !.started = now]
<1>1. InCall(w) /\ ~InFlight(w)
  BY DEF Create, InCall, InFlight
<1>2. (\A v \in Workers : InCall(v) => v = w) /\ TypeOK /\ Mission[w] \in Missions
  BY <1>1, Holder
<1>3. CASE run = NoRun
  <2>1. Save(w, s, "RUN_STARTED", FALSE) /\ To(w, "loop") /\ UNCHANGED <<left, step, now, ran, lost>>
    BY <1>3 DEF Create
  <2>2. now \in Time
    BY <1>2 DEF TypeOK
  <2>3. s \in Runs /\ s.step = 0 /\ s.failures = 0 /\ s.dup = 0 /\ s.status = "RUNNING" /\ s.mission = Mission[w]
    BY <1>2, <2>2, NewRow
  <2> HIDE DEF s
  <2>4. s.step >= run.step /\ s.failures <= MaxFailures /\ s.dup <= MaxDuplicates
    BY <1>3, <2>3, LongRunAssumption DEF NoRun
  <2>5. "RUN_STARTED" \in Kinds /\ FALSE \in BOOLEAN /\ "loop" \in {"loop", "plan"} /\ s.status # "NONE"
    BY <2>3 DEF Kinds
  <2>6. QED BY <1>1, <2>1, <2>3, <2>4, <2>5, SaveKeeps
<1>4. CASE run # NoRun
  BY <1>1, <1>2, <1>4, LeaveUnrecorded DEF Create
<1>5. QED BY <1>3, <1>4

LEMMA LoopKeeps ==
  ASSUME IInv, NEW w \in Workers, Loop(w)
  PROVE  IInv'
<1>1. InCall(w) /\ ~InFlight(w)
  BY DEF Loop, InCall, InFlight
<1>2. /\ \A v \in Workers : InCall(v) => v = w
      /\ left \in [Workers -> Nat] /\ state \in [Workers -> Runs] /\ step \in [Workers -> StepType]
  BY <1>1, Holder
<1>3. CASE state[w].status # "RUNNING" \/ left[w] = 0
  BY <1>1, <1>2, <1>3, LeaveUnrecorded DEF Loop
<1>4. CASE state[w].status = "RUNNING" /\ left[w] # 0
  <2>1. /\ To(w, "load") /\ UNCHANGED state
        /\ left' = [left EXCEPT ![w] = left[w] - 1] /\ step' = [step EXCEPT ![w] = NoStep]
        /\ NoRecord /\ UNCHANGED <<now, ran, lost>>
    BY <1>2, <1>4 DEF Loop
  <2>2. left' \in [Workers -> Nat] /\ \A v \in Workers : left'[v] <= left[v]
    BY <1>2, <1>4, <2>1
  <2>3. step' \in [Workers -> StepType] /\ \A v \in Workers : v # w => step'[v] = step[v]
    BY <1>2, <2>1 DEF NoStep, StepType
  <2>4. QED BY <1>1, <1>2, <2>1, <2>2, <2>3, ReadKeeps
<1>5. QED BY <1>3, <1>4

LEMMA WatchdogKeeps ==
  ASSUME IInv, NEW w \in Workers, Watchdog(w)
  PROVE  IInv'
<1>1. InCall(w) /\ ~InFlight(w) /\ InStep(w)
  BY DEF Watchdog, InCall, InFlight, InStep
<1>2. /\ \A v \in Workers : InCall(v) => v = w
      /\ left \in [Workers -> Nat] /\ state \in [Workers -> Runs] /\ step \in [Workers -> StepType]
      /\ run \in Runs /\ state[w] = run /\ run.status = "RUNNING" /\ run.mission = Mission[w]
      /\ run.failures <= MaxFailures /\ run.dup <= MaxDuplicates
  BY <1>1, Holder
<1>3. run.failures \in Nat /\ run.dup \in Nat /\ run.step \in Nat /\ MaxFailures \in Nat \ {0} /\ MaxDuplicates \in Nat \ {0}
  BY <1>2, LongRunAssumption DEF Runs
<1>4. CASE Elapsed(w) >= MaxWall
  <2> DEFINE s == [run EXCEPT !.status = "STOPPED"]
  <2>1. Save(w, s, "WATCHDOG_STOP", FALSE) /\ To(w, "loop") /\ UNCHANGED <<now, left, step, ran, lost>>
    BY <1>2, <1>4 DEF Watchdog
  <2>2. s \in Runs /\ s.status = "STOPPED" /\ s.failures = run.failures /\ s.dup = run.dup /\ s.step = run.step
    BY <1>2 DEF Runs, Terminal
  <2> HIDE DEF s
  <2>3. "WATCHDOG_STOP" \in Kinds /\ FALSE \in BOOLEAN /\ "loop" \in {"loop", "plan"} /\ s.status # "NONE"
        /\ s.failures <= MaxFailures /\ s.dup <= MaxDuplicates /\ s.step >= run.step
    BY <1>2, <1>3, <2>2 DEF Kinds
  <2>4. QED BY <1>1, <2>1, <2>2, <2>3, SaveKeeps
<1>5. CASE ~(Elapsed(w) >= MaxWall) /\ Replan(run)
  <2> DEFINE s == [run EXCEPT !.failures = 0, !.dup = 0, !.print = None]
  <2>1. Save(w, s, "WATCHDOG_REPLAN", FALSE) /\ To(w, "plan") /\ UNCHANGED <<now, left, step, ran, lost>>
    BY <1>2, <1>5 DEF Watchdog
  <2>2. s \in Runs /\ s.status = "RUNNING" /\ s.failures = 0 /\ s.dup = 0 /\ s.step = run.step /\ s.mission = Mission[w]
    BY <1>2 DEF Runs
  <2> HIDE DEF s
  <2>3. "WATCHDOG_REPLAN" \in Kinds /\ FALSE \in BOOLEAN /\ "plan" \in {"loop", "plan"} /\ s.status # "NONE"
        /\ s.failures <= MaxFailures /\ s.dup <= MaxDuplicates /\ s.step >= run.step
        /\ s.failures < MaxFailures /\ s.dup < MaxDuplicates
    BY <1>2, <1>3, <2>2 DEF Kinds
  <2>4. QED BY <1>1, <2>1, <2>2, <2>3, SaveKeeps
<1>6. CASE ~(Elapsed(w) >= MaxWall) /\ ~Replan(run)
  <2>1. NoRecord /\ UNCHANGED <<now, left, state, step, ran, lost>> /\ To(w, "plan")
    BY <1>2, <1>6 DEF Watchdog
  <2>2. run.failures < MaxFailures /\ run.dup < MaxDuplicates
    BY <1>3, <1>6 DEF Replan
  <2>3. QED BY <1>1, <1>2, <2>1, <2>2, ReadKeeps
<1>7. QED BY <1>4, <1>5, <1>6

LEMMA PlanKeeps ==
  ASSUME IInv, NEW w \in Workers, Plan(w)
  PROVE  IInv'
<1>1. InCall(w) /\ ~InFlight(w) /\ InStep(w) /\ pc[w] # "watchdog"
  BY DEF Plan, InCall, InFlight, InStep
<1>2. /\ \A v \in Workers : InCall(v) => v = w
      /\ left \in [Workers -> Nat] /\ state \in [Workers -> Runs] /\ step \in [Workers -> StepType]
      /\ run \in Runs /\ state[w] = run /\ run.status = "RUNNING" /\ run.mission = Mission[w]
      /\ run.failures < MaxFailures /\ run.dup < MaxDuplicates
  BY <1>1, Holder
<1>3. run.failures \in Nat /\ run.dup \in Nat /\ run.step \in Nat /\ MaxFailures \in Nat /\ MaxDuplicates \in Nat
  BY <1>2, LongRunAssumption DEF Runs
<1> DEFINE over == IF Elapsed(w) >= MaxWall THEN "STOPPED" ELSE run.status
           s == [run EXCEPT !.step = run.step + 1, !.failures = run.failures + 1, !.status = over]
<1>4. CASE Raise(w, s, "PLANNER_EXCEPTION")
  <2>1. over \in {"STOPPED", "RUNNING"}
    BY <1>2
  <2> HIDE DEF over
  <2>2. run.step + 1 \in Nat /\ run.failures + 1 \in Nat
    BY <1>3
  <2>3. s \in Runs /\ s.failures = run.failures + 1 /\ s.dup = run.dup /\ s.step = run.step + 1 /\ s.status = over
    BY <1>2, <2>1, <2>2 DEF Runs, Terminal
  <2> HIDE DEF s
  <2>4. "PLANNER_EXCEPTION" \in Kinds /\ UNCHANGED <<now, ran, lost>>
    BY DEF Plan, Kinds
  <2>5. s.status # "NONE" /\ s.failures <= MaxFailures /\ s.dup <= MaxDuplicates /\ s.step >= run.step
    BY <1>2, <1>3, <2>1, <2>3
  <2>6. QED BY <1>1, <1>4, <2>3, <2>4, <2>5, RaiseKeeps
<1>5. CASE /\ \E p \in Proposal :
                step' = [step EXCEPT ![w].print = p.print, ![w].effect = p.effect, ![w].worth = p.worth]
           /\ NoRecord /\ UNCHANGED <<left, state>> /\ To(w, "admit")
  <2>1. PICK p \in Proposal :
          step' = [step EXCEPT ![w].print = p.print, ![w].effect = p.effect, ![w].worth = p.worth]
    BY <1>5
  <2>2. step' = [step EXCEPT ![w] = [step[w] EXCEPT !.print = p.print, !.effect = p.effect, !.worth = p.worth]]
    BY <1>2, <2>1
  <2>3. [step[w] EXCEPT !.print = p.print, !.effect = p.effect, !.worth = p.worth] \in StepType
    <3>1. p.print \in Prints /\ p.effect \in {"allowed", "prohibited", "unlisted"} /\ p.worth \in BOOLEAN
      BY DEF Proposal
    <3>2. step[w] \in StepType
      BY <1>2
    <3>3. QED BY <3>1, <3>2, ProposedStep
  <2>4. step' \in [Workers -> StepType] /\ \A v \in Workers : v # w => step'[v] = step[v]
    BY <1>2, <2>2, <2>3
  <2>5. UNCHANGED <<now, ran, lost>>
    BY DEF Plan
  <2>6. QED BY <1>1, <1>2, <1>3, <1>5, <2>4, <2>5, ReadKeeps
<1>6. QED BY <1>2, <1>4, <1>5 DEF Plan

LEMMA AdmitKeeps ==
  ASSUME IInv, NEW w \in Workers, Admit(w)
  PROVE  IInv'
<1>1. InCall(w) /\ ~InFlight(w) /\ InStep(w) /\ pc[w] # "watchdog"
  BY DEF Admit, InCall, InFlight, InStep
<1>2. /\ \A v \in Workers : InCall(v) => v = w
      /\ left \in [Workers -> Nat] /\ state \in [Workers -> Runs] /\ step \in [Workers -> StepType]
      /\ run \in Runs /\ state[w] = run /\ run.status = "RUNNING" /\ run.mission = Mission[w]
      /\ run.failures < MaxFailures /\ run.dup < MaxDuplicates /\ ledger \in Seq(EventType)
  BY <1>1, Holder
<1>3. run.failures \in Nat /\ run.dup \in Nat /\ run.step \in Nat /\ MaxFailures \in Nat /\ MaxDuplicates \in Nat
  BY <1>2, LongRunAssumption DEF Runs
<1>4. ASSUME NEW v \in {"STOPPED", "BLOCKED"},
             NEW k \in {"WATCHDOG_STOP", "STEP_BLOCKED", "EVALUATION_BLOCKED"},
             Save(w, [run EXCEPT !.status = v], k, FALSE), To(w, "loop"), UNCHANGED ran
      PROVE  IInv'
  <2> DEFINE s == [run EXCEPT !.status = v]
  <2>1. s \in Runs /\ s.status = v /\ s.failures = run.failures /\ s.dup = run.dup /\ s.step = run.step
    BY <1>2 DEF Runs, Terminal
  <2>2. Save(w, s, k, FALSE) /\ UNCHANGED <<now, left, step, lost>>
    BY <1>4 DEF Admit
  <2> HIDE DEF s
  <2>3. k \in Kinds /\ FALSE \in BOOLEAN /\ "loop" \in {"loop", "plan"} /\ s.status # "NONE"
        /\ (s.status = "RUNNING" => s.mission = Mission[w])
        /\ s.failures <= MaxFailures /\ s.dup <= MaxDuplicates /\ s.step >= run.step
    BY <1>2, <1>3, <2>1 DEF Kinds
  <2>4. QED BY <1>1, <1>4, <2>1, <2>2, <2>3, SaveKeeps
<1>5. CASE ran' = ran \cup {<<w, left[w], state[w].step>>} /\ NoRecord /\ UNCHANGED state /\ To(w, "execute")
  <2>1. pc'[w] = "execute" /\ UNCHANGED <<now, left, step, lost, run, ledger, state>>
    BY <1>5 DEF Admit, IInv, Inv, TypeOK, To, NoRecord
  <2>2. Holds(w)' /\ InFlight(w)' /\ ran' = ran \cup {Call(w)'}
    BY <1>2, <1>5, <2>1 DEF Holds, InFlight, Call
  <2>3. state'[w].mission = Mission[w]
    BY <1>2, <2>1
  <2>4. /\ run' \in Runs /\ ledger' \in Seq(EventType) /\ run'.step >= run.step /\ run'.step = run.step
        /\ run'.failures <= MaxFailures /\ run'.dup <= MaxDuplicates
        /\ left' \in [Workers -> Nat] /\ \A v \in Workers : left'[v] <= left[v]
        /\ state' \in [Workers -> Runs] /\ \A v \in Workers : state'[v] = state[v]
        /\ step' \in [Workers -> StepType] /\ \A v \in Workers : step'[v] = step[v]
    BY <1>2, <1>3, <2>1
  <2>5. now' = now /\ lost' = lost /\ To(w, "execute")
    BY <1>5, <2>1
  <2> HIDE DEF Call, InFlight, InStep, InCall
  <2>6. QED BY <1>1, <1>2, <2>2, <2>3, <2>4, <2>5, GoesOnKeeps
<1>6. QED BY <1>2, <1>4, <1>5 DEF Admit

\* The executor, the evaluator and the end of the step leave the call in flight,
\* or record its outcome.
LEMMA FlightKeeps ==
  ASSUME IInv, NEW w \in Workers, InFlight(w), NEW l \in {"evaluate", "finish"}, To(w, l),
         NoRecord, UNCHANGED <<now, left, state, ran, lost>>, NEW x \in StepType,
         step' = [step EXCEPT ![w] = x],
         Mission[w] \in RequireEvidence => x.evidence = "some"
  PROVE  IInv'
<1>1. InCall(w) /\ InStep(w) /\ pc[w] # "watchdog"
  BY DEF InCall, InFlight, InStep
<1>2. /\ \A v \in Workers : InCall(v) => v = w
      /\ left \in [Workers -> Nat] /\ state \in [Workers -> Runs] /\ step \in [Workers -> StepType]
      /\ run \in Runs /\ state[w] = run /\ run.status = "RUNNING" /\ run.mission = Mission[w]
      /\ run.failures < MaxFailures /\ run.dup < MaxDuplicates /\ ledger \in Seq(EventType)
      /\ run.failures <= MaxFailures /\ run.dup <= MaxDuplicates
  BY <1>1, Holder
<1>3. pc'[w] = l /\ run' = run /\ ledger' = ledger
  BY DEF IInv, Inv, TypeOK, To, NoRecord
<1>4. step' \in [Workers -> StepType] /\ step'[w] = x /\ \A v \in Workers : v # w => step'[v] = step[v]
  BY <1>2
<1>5. Holds(w)' /\ InFlight(w)' /\ Call(w)' = Call(w) /\ state'[w].mission = Mission[w]
  BY <1>2, <1>3 DEF Holds, InFlight, Call
<1>6. run.step \in Nat
  BY <1>2 DEF Runs
<1>7. /\ now' = now /\ lost' = lost /\ ran' = ran /\ run' \in Runs /\ ledger' \in Seq(EventType)
      /\ run'.step >= run.step /\ run'.step = run.step
      /\ run'.failures <= MaxFailures /\ run'.dup <= MaxDuplicates
      /\ l # "loop" /\ l \in {"open", "create", "loop", "load", "watchdog", "plan", "admit", "execute", "evaluate", "finish"}
  BY <1>2, <1>3, <1>6
<1>8. /\ left' \in [Workers -> Nat] /\ \A v \in Workers : left'[v] <= left[v]
      /\ state' \in [Workers -> Runs] /\ \A v \in Workers : state'[v] = state[v]
  BY <1>2
<1>9. Mission[w] \in RequireEvidence => step'[w].evidence = "some"
  BY <1>4
<1> HIDE DEF Call, InFlight, InStep, InCall
<1>10. QED BY <1>2, <1>4, <1>5, <1>7, <1>8, <1>9, GoesOnKeeps

\* The outcome of an executed step that ends the worker, or blocks the run.
LEMMA OutcomeKeeps ==
  ASSUME IInv, NEW w \in Workers, InFlight(w), UNCHANGED <<now, ran, lost>>, NEW k \in Kinds,
         \/ Raise(w, FailedStep(w), k)
         \/ Save(w, BlockedStep(w), k, FALSE) /\ To(w, "loop") /\ UNCHANGED <<left, step>>
  PROVE  IInv'
<1>1. InCall(w)
  BY DEF InCall, InFlight
<1>2. CASE Raise(w, FailedStep(w), k)
  <2>1. /\ FailedStep(w) \in Runs /\ FailedStep(w).step > run.step /\ FailedStep(w).step >= run.step
        /\ FailedStep(w).status \in {"RUNNING", "BLOCKED"}
        /\ FailedStep(w).failures <= MaxFailures /\ FailedStep(w).dup <= MaxDuplicates
    BY ExecutedRow
  <2>2. QED BY <1>1, <1>2, <2>1, RaiseKeeps
<1>3. CASE Save(w, BlockedStep(w), k, FALSE) /\ To(w, "loop") /\ UNCHANGED <<left, step>>
  <2>1. /\ BlockedStep(w) \in Runs /\ BlockedStep(w).step > run.step /\ BlockedStep(w).step >= run.step
        /\ BlockedStep(w).failures <= MaxFailures /\ BlockedStep(w).dup <= MaxDuplicates
    BY ExecutedRow
  <2>2. BlockedStep(w).status = "BLOCKED"
    <3>1. state[w] \in Runs
      BY <1>1, Holder
    <3>2. Executed(w).status = state[w].status /\ DOMAIN Executed(w) = DOMAIN state[w] /\ "status" \in DOMAIN state[w]
      BY <3>1 DEF Executed, Runs
    <3>3. QED BY <3>2 DEF BlockedStep
  <2>3. QED BY <1>1, <1>3, <2>1, <2>2, SaveKeeps
<1>4. QED BY <1>2, <1>3

LEMMA ExecuteKeeps ==
  ASSUME IInv, NEW w \in Workers, Execute(w)
  PROVE  IInv'
<1>1. InFlight(w) /\ UNCHANGED <<now, ran, lost>>
  BY DEF Execute, InFlight
<1>2. step \in [Workers -> StepType] /\ step[w] \in StepType
  BY <1>1, Holder DEF InFlight, InCall
<1>3. ASSUME NEW b \in BOOLEAN, NEW e \in {"empty", "some"},
             Mission[w] \in RequireEvidence => e = "some",
             step' = [step EXCEPT ![w].success = b, ![w].evidence = e],
             To(w, IF w \in Evaluated THEN "evaluate" ELSE "finish"),
             NoRecord, UNCHANGED <<left, state>>
      PROVE  IInv'
  <2> DEFINE x == [step[w] EXCEPT !.success = b, !.evidence = e]
             l == IF w \in Evaluated THEN "evaluate" ELSE "finish"
  <2>1. x \in StepType /\ x.evidence = e
    BY <1>2 DEF StepType
  <2>2. step' = [step EXCEPT ![w] = x] /\ l \in {"evaluate", "finish"} /\ To(w, l)
    BY <1>2, <1>3
  <2> HIDE DEF x, l
  <2>3. QED BY <1>1, <1>3, <2>1, <2>2, FlightKeeps
<1>4. QED BY <1>1, <1>3, OutcomeKeeps DEF Execute, Kinds

LEMMA EvaluateKeeps ==
  ASSUME IInv, NEW w \in Workers, Evaluate(w)
  PROVE  IInv'
<1>1. InFlight(w) /\ UNCHANGED <<now, ran, lost>> /\ pc[w] = "evaluate"
  BY DEF Evaluate, InFlight
<1>2. step \in [Workers -> StepType] /\ step[w] \in StepType
  BY <1>1, Holder DEF InFlight, InCall
<1>3. ASSUME NEW q \in Scores, NEW v \in {"PASS", "FAIL"},
             step' = [step EXCEPT ![w].score = q, ![w].verdict = v],
             NoRecord, UNCHANGED <<left, state>>, To(w, "finish")
      PROVE  IInv'
  <2> DEFINE x == [step[w] EXCEPT !.score = q, !.verdict = v]
  <2>1. x \in StepType /\ x.evidence = step[w].evidence
    BY <1>2 DEF StepType
  <2>2. step' = [step EXCEPT ![w] = x]
    BY <1>2, <1>3
  <2>3. Mission[w] \in RequireEvidence => x.evidence = "some"
    BY <1>1, <2>1 DEF IInv, Assigned
  <2> HIDE DEF x
  <2>4. QED BY <1>1, <1>3, <2>1, <2>2, <2>3, FlightKeeps
<1>4. QED BY <1>1, <1>3, OutcomeKeeps DEF Evaluate, Kinds

\* The row that the end of a step saves.
Ended(w) ==
  [Executed(w) EXCEPT
     !.failures = IF step[w].success THEN 0 ELSE @ + 1,
     !.best = Best(w),
     !.status = IF Elapsed(w) >= MaxWall THEN "STOPPED" ELSE IF Accepted(w) THEN "COMPLETED" ELSE @]

LEMMA EndedRow ==
  ASSUME IInv, NEW w \in Workers, InFlight(w)
  PROVE  /\ Ended(w) \in Runs /\ Ended(w).step > run.step /\ Ended(w).step >= run.step
         /\ Ended(w).failures <= MaxFailures /\ Ended(w).dup <= MaxDuplicates
         /\ Ended(w).mission = Mission[w]
         /\ Ended(w).status = IF Elapsed(w) >= MaxWall THEN "STOPPED"
                              ELSE IF Accepted(w) THEN "COMPLETED" ELSE "RUNNING"
<1>1. /\ run \in Runs /\ step[w] \in StepType /\ state[w] = run /\ run.status = "RUNNING"
      /\ run.failures < MaxFailures /\ run.dup < MaxDuplicates /\ run.mission = Mission[w]
  BY Holder DEF InFlight, InCall, InStep
<1>2. MaxFailures \in Nat /\ MaxDuplicates \in Nat /\ Scores \subseteq Nat
  BY LongRunAssumption
<1>3. /\ run.step \in Nat /\ run.failures \in Nat /\ run.dup \in Nat /\ run.best \in Nat
      /\ step[w].print \in Prints \cup {None} /\ step[w].score \in Scores \cup {-1}
  BY <1>1 DEF Runs, StepType
<1> DEFINE d == IF step[w].print = run.print THEN run.dup + 1 ELSE 0
           x == [run EXCEPT !.step = run.step + 1, !.print = step[w].print, !.dup = d]
           f == IF step[w].success THEN 0 ELSE run.failures + 1
           v == IF Elapsed(w) >= MaxWall THEN "STOPPED" ELSE IF Accepted(w) THEN "COMPLETED" ELSE "RUNNING"
<1>4. Executed(w) = x
  BY <1>1 DEF Executed
<1>5. d \in Nat /\ d <= MaxDuplicates /\ f \in Nat /\ f <= MaxFailures /\ v \in Terminal \cup {"RUNNING"}
  BY <1>1, <1>2, <1>3 DEF Terminal
<1>6. Best(w) \in Nat
  <2>1. CASE step[w].score > run.best
    <3>1. step[w].score \in Scores
      BY <1>3, <2>1
    <3>2. QED BY <1>1, <1>2, <2>1, <3>1 DEF Best
  <2>2. CASE ~(step[w].score > run.best)
    BY <1>1, <1>3, <2>2 DEF Best
  <2>3. QED BY <2>1, <2>2
<1>7. x \in Runs /\ x.step = run.step + 1 /\ x.failures = run.failures /\ x.dup = d
      /\ x.status = "RUNNING" /\ x.mission = Mission[w]
  <2> HIDE DEF d, f, v
  <2>1. DOMAIN run = {"status", "mission", "started", "step", "failures", "print", "dup", "best"}
    BY <1>1 DEF Runs
  <2>2. x.step = run.step + 1 /\ x.dup = d /\ x.failures = run.failures
        /\ x.status = run.status /\ x.mission = run.mission
    BY <2>1
  <2>3. run.step + 1 \in Nat
    BY <1>3
  <2>4. x \in Runs
    <3> HIDE DEF Runs
    <3>1. QED BY <1>1, <1>3, <1>5, <2>3, RowWith
  <2>5. QED BY <1>1, <2>2, <2>4
<1>8. Ended(w) = [x EXCEPT !.failures = f, !.best = Best(w), !.status = v]
  BY <1>4, <1>7 DEF Ended
<1> HIDE DEF d, x, f, v
<1>9. Ended(w) \in Runs
  BY <1>5, <1>6, <1>7, <1>8 DEF Runs
<1>10. /\ Ended(w).step = x.step /\ Ended(w).failures = f /\ Ended(w).dup = x.dup
       /\ Ended(w).mission = x.mission /\ Ended(w).status = v
  <2>1. DOMAIN x = {"status", "mission", "started", "step", "failures", "print", "dup", "best"}
    BY <1>7 DEF Runs
  <2>2. QED BY <1>8, <2>1
<1>11. QED BY <1>3, <1>5, <1>7, <1>9, <1>10 DEF v

LEMMA FinishKeeps ==
  ASSUME IInv, NEW w \in Workers, Finish(w)
  PROVE  IInv'
<1>1. InFlight(w) /\ InCall(w) /\ UNCHANGED <<now, ran, lost>>
  BY DEF Finish, InFlight, InCall
<1>2. CASE Raise(w, FailedStep(w), "STEP_PERSISTENCE_FAILURE")
  BY <1>1, <1>2, OutcomeKeeps DEF Kinds
<1>3. CASE Save(w, Ended(w), "STEP_RESULT", step[w].success) /\ To(w, "loop") /\ UNCHANGED <<left, step>>
  <2>1. step[w].success \in BOOLEAN
    BY <1>1, Holder DEF StepType
  <2>2. "STEP_RESULT" \in Kinds /\ "loop" \in {"loop", "plan"}
    BY DEF Kinds
  <2>3. /\ Ended(w) \in Runs /\ Ended(w).step > run.step /\ Ended(w).step >= run.step
        /\ Ended(w).failures <= MaxFailures /\ Ended(w).dup <= MaxDuplicates
        /\ Ended(w).mission = Mission[w] /\ Ended(w).status # "NONE"
    BY <1>1, EndedRow
  <2>4. QED BY <1>1, <1>3, <2>1, <2>2, <2>3, SaveKeeps
<1>4. QED BY <1>2, <1>3 DEF Finish, Ended

LEMMA AbortKeeps ==
  ASSUME IInv, NEW w \in Workers, Abort(w)
  PROVE  IInv'
<1>1. (\A v \in Workers : InCall(v) => v = w) /\ Leave(w) /\ NoRecord /\ UNCHANGED <<now, ran>>
  BY Holder DEF Abort, InCall
<1>2. \/ lost' = lost /\ ~InFlight(w)
      \/ InFlight(w) /\ lost' = lost \cup {Call(w)}
  BY DEF Abort, InFlight, Call
<1>3. QED BY <1>1, <1>2, LeaveUnrecorded

LEMMA TickKeeps ==
  ASSUME IInv, Tick
  PROVE  IInv'
<1>1. UNCHANGED <<run, ledger, pc, left, state, step, ran, lost>> /\ now' \in Time
  BY LongRunAssumption DEF Tick, workerVars, Time, IInv, Inv, TypeOK
<1>2. TypeOK' /\ WithinLimits' /\ Alone' /\ Assigned' /\ \A w \in Workers : Holds(w)'
  BY <1>1 DEF IInv, Inv, TypeOK, WithinLimits, Alone, Assigned, Holds, InCall, InStep
<1>3. Counted'
  BY <1>1 DEF IInv, Counted, ExecutedOncePerStep, InFlight, Call
<1>4. QED BY <1>2, <1>3 DEF IInv, Inv

LEMMA InitIInv == Init => IInv
<1> SUFFICES ASSUME Init PROVE IInv
  OBVIOUS
<1>1. TypeOK
  <2>1. NoRun \in Runs /\ NoStep \in StepType
    BY LongRunAssumption DEF NoRun, Runs, Time, NoStep, StepType
  <2>2. 0 \in Time /\ left \in [Workers -> Nat] /\ \A w \in Workers : left[w] <= MaxSteps[w]
    BY LongRunAssumption DEF Init, Time
  <2>3. QED BY <2>1, <2>2 DEF Init, TypeOK, StepType
<1>2. WithinLimits /\ Alone /\ Assigned /\ Counted /\ \A w \in Workers : Holds(w)
  BY LongRunAssumption DEF Init, WithinLimits, NoRun, Alone, Assigned, Counted, ExecutedOncePerStep,
     Holds, InCall, InStep, InFlight
<1>3. QED BY <1>1, <1>2 DEF IInv, Inv

LEMMA NextIInv == Exclusive /\ IInv /\ [Next]_vars => IInv'
<1> SUFFICES ASSUME Exclusive, IInv, [Next]_vars PROVE IInv'
  OBVIOUS
<1>1. CASE UNCHANGED vars
  <2>1. UNCHANGED <<now, run, ledger, pc, left, state, step, ran, lost>>
    BY <1>1 DEF vars, workerVars
  <2>2. TypeOK' /\ WithinLimits' /\ Alone' /\ Assigned' /\ \A w \in Workers : Holds(w)'
    BY <2>1 DEF IInv, Inv, TypeOK, WithinLimits, Alone, Assigned, Holds, InCall, InStep
  <2>3. Counted'
    BY <2>1 DEF IInv, Counted, ExecutedOncePerStep, InFlight, Call
  <2>4. QED BY <2>2, <2>3 DEF IInv, Inv
<1>2. ASSUME NEW w \in Workers, WorkerStep(w) PROVE IInv'
  BY <1>2, StartKeeps, LoadKeeps, CreateKeeps, LoopKeeps, WatchdogKeeps, PlanKeeps, AdmitKeeps,
     ExecuteKeeps, EvaluateKeeps, FinishKeeps DEF WorkerStep
<1>3. QED BY <1>1, <1>2, TickKeeps, AbortKeeps DEF Next

LEMMA SpecIInv == Exclusive => (Spec => []IInv)
<1> SUFFICES ASSUME Exclusive PROVE Spec => []IInv
  OBVIOUS
<1>1. Init => IInv
  BY InitIInv
<1>2. IInv /\ [Next]_vars => IInv'
  BY NextIInv
<1>3. QED BY <1>1, <1>2, PTL DEF Spec

-----------------------------------------------------------------------------
\* While one worker at a time performs the run, its copy of the row is the row
\* as it is stored, and the counters of the watchdog never pass their limits.
THEOREM RunHolds == Exclusive => (Spec => []Inv)
<1> SUFFICES ASSUME Exclusive PROVE Spec => []Inv
  OBVIOUS
<1>1. IInv => Inv
  BY DEF IInv
<1>2. QED BY <1>1, SpecIInv, PTL

\* While one worker at a time performs the run, no step is executed by two
\* calls whose outcomes were both saved, across any deaths and resumptions.
THEOREM ExecutedOnce == Exclusive => (Spec => []ExecutedOncePerStep)
<1> SUFFICES ASSUME Exclusive PROVE Spec => []ExecutedOncePerStep
  OBVIOUS
<1>1. IInv => ExecutedOncePerStep
  BY DEF IInv, Counted
<1>2. QED BY <1>1, SpecIInv, PTL

\* A step that records something is of a worker that performs a step of the
\* running run, or creates it; only the end of a step completes the run.
LEMMA Recorded ==
  ASSUME IInv, NEW w \in Workers, WorkerStep(w)
  PROVE  \/ UNCHANGED <<run, ledger, ran>>
         \/ /\ run.status \notin Terminal
            /\ run'.status # "COMPLETED" \/ (pc[w] = "finish" /\ run' = Ended(w))
<1>1. CASE Start(w) \/ Load(w) \/ Loop(w)
  BY <1>1 DEF Start, Load, Loop, NoRecord
<1>2. CASE Create(w)
  <2>1. CASE run = NoRun
    <3>1. NoRun.status \notin Terminal
      BY DEF NoRun, Terminal
    <3>2. now \in Time /\ Mission[w] \in Missions
      BY LongRunAssumption DEF IInv, Inv, TypeOK
    <3>3. run' = [NoRun EXCEPT !.status = "RUNNING", !.mission = Mission[w], !.started = now]
      BY <1>2, <2>1 DEF Create, Save, Record
    <3>4. run'.status = "RUNNING"
      BY <3>2, <3>3, NewRow
    <3>5. QED BY <2>1, <3>1, <3>4
  <2>2. CASE run # NoRun
    BY <1>2, <2>2 DEF Create, NoRecord
  <2>3. QED BY <2>1, <2>2
<1>3. CASE InStep(w) /\ (Watchdog(w) \/ Plan(w) \/ Admit(w) \/ Execute(w) \/ Evaluate(w) \/ Finish(w))
  <2>1. InCall(w)
    BY <1>3 DEF InStep, InCall
  <2>2. run \in Runs /\ state[w] = run /\ run.status = "RUNNING" /\ run.status \notin Terminal
    BY <1>3, <2>1, Holder DEF Terminal
  <2>3. DOMAIN run = {"status", "mission", "started", "step", "failures", "print", "dup", "best"}
    BY <2>2 DEF Runs
  <2>4. CASE Watchdog(w)
    BY <2>2, <2>3, <2>4 DEF Watchdog, Save, Record, NoRecord
  <2>5. CASE Plan(w)
    BY <2>2, <2>3, <2>5 DEF Plan, Raise, Record, NoRecord
  <2>6. CASE Admit(w)
    BY <2>2, <2>3, <2>6 DEF Admit, Save, Record, NoRecord
  <2>7. CASE Execute(w) \/ Evaluate(w) \/ Finish(w)
    <3>1. InFlight(w)
      BY <2>7 DEF Execute, Evaluate, Finish, InFlight
    <3>2. FailedStep(w).status \in {"RUNNING", "BLOCKED"} /\ BlockedStep(w).status \in {"RUNNING", "BLOCKED"}
      BY <3>1, ExecutedRow
    <3>3. \/ UNCHANGED <<run, ledger, ran>>
          \/ run' \in {FailedStep(w), BlockedStep(w)}
          \/ pc[w] = "finish" /\ run' = Ended(w)
      BY <2>7 DEF Execute, Evaluate, Finish, Ended, Raise, Save, Record, NoRecord
    <3>4. QED BY <2>2, <3>2, <3>3
  <2>8. QED BY <1>3, <2>4, <2>5, <2>6, <2>7
<1>4. QED BY <1>1, <1>2, <1>3
  DEF WorkerStep, InStep, Watchdog, Plan, Admit, Execute, Evaluate, Finish

\* The completion boundary, for the end of a step that completes the run.
LEMMA EndOfStep ==
  ASSUME IInv, NEW w \in Workers, pc[w] = "finish", Ended(w).status = "COMPLETED"
  PROVE  /\ now - run.started \in MinWall..(MaxWall - 1)
         /\ <<w, left[w], run.step>> \in ran
         /\ step[w].success /\ step[w].verdict = "PASS" /\ step[w].score >= Threshold
         /\ run.mission \in RequireEvidence => step[w].evidence # "empty"
<1>1. InFlight(w) /\ InStep(w) /\ InCall(w)
  BY DEF InFlight, InStep, InCall
<1>2. state[w] = run /\ run \in Runs /\ run.mission = Mission[w] /\ now \in Time
  BY <1>1, Holder DEF TypeOK
<1>3. Ended(w).status = IF Elapsed(w) >= MaxWall THEN "STOPPED"
                        ELSE IF Accepted(w) THEN "COMPLETED" ELSE "RUNNING"
  BY <1>1, EndedRow
<1> HIDE DEF Ended
<1>4. ~(Elapsed(w) >= MaxWall) /\ Accepted(w)
  BY <1>3
<1>5. run.started \in Int /\ now \in Int /\ MinWall \in Nat /\ MaxWall \in Nat
  BY <1>2, LongRunAssumption DEF Runs, Time
<1>6. now - run.started \in MinWall..(MaxWall - 1)
  BY <1>2, <1>4, <1>5 DEF Accepted, Elapsed
<1>7. <<w, left[w], run.step>> \in ran
  BY <1>1, <1>2 DEF IInv, Counted, Call
<1>8. run.mission \in RequireEvidence => step[w].evidence # "empty"
  BY <1>2 DEF IInv, Assigned
<1>9. QED BY <1>4, <1>6, <1>7, <1>8 DEF Accepted

\* While one worker at a time performs the run: it completes only in a step that
\* was executed, succeeded and was itself evaluated to pass, within the wall
\* budget; and a run that ended stays as it is and executes nothing more.
THEOREM EndsJustified == Exclusive => (Spec => EndsAreJustified)
<1> DEFINE Justified ==
             run'.status = "COMPLETED" /\ run.status # "COMPLETED" =>
               /\ now - run.started \in MinWall..(MaxWall - 1)
               /\ \E w \in Workers :
                    /\ pc[w] = "finish" /\ <<w, left[w], run.step>> \in ran
                    /\ step[w].success /\ step[w].verdict = "PASS" /\ step[w].score >= Threshold
                    /\ run.mission \in RequireEvidence => step[w].evidence # "empty"
           Final == run.status \in Terminal => UNCHANGED <<run, ledger, ran>>
<1> SUFFICES ASSUME Exclusive PROVE Spec => EndsAreJustified
  OBVIOUS
<1>1. IInv /\ [Next]_vars => [Justified]_vars
  <2> SUFFICES ASSUME IInv, Next PROVE Justified
    OBVIOUS
  <2>1. CASE Tick \/ \E w \in Workers : Abort(w)
    BY <2>1 DEF Tick, Abort, NoRecord
  <2>2. ASSUME NEW w \in Workers, WorkerStep(w) PROVE Justified
    <3> SUFFICES ASSUME run'.status = "COMPLETED", run.status # "COMPLETED"
                 PROVE  /\ now - run.started \in MinWall..(MaxWall - 1)
                        /\ \E v \in Workers :
                             /\ pc[v] = "finish" /\ <<v, left[v], run.step>> \in ran
                             /\ step[v].success /\ step[v].verdict = "PASS" /\ step[v].score >= Threshold
                             /\ run.mission \in RequireEvidence => step[v].evidence # "empty"
      OBVIOUS
    <3> HIDE DEF Ended
    <3>1. pc[w] = "finish" /\ Ended(w).status = "COMPLETED"
      BY <2>2, Recorded
    <3>2. QED BY <3>1, EndOfStep
  <2>3. QED BY <2>1, <2>2 DEF Next
<1>2. IInv /\ [Next]_vars => [Final]_vars
  <2> SUFFICES ASSUME IInv, Next PROVE Final
    OBVIOUS
  <2>1. CASE Tick \/ \E w \in Workers : Abort(w)
    BY <2>1 DEF Tick, Abort, NoRecord
  <2>2. ASSUME NEW w \in Workers, WorkerStep(w) PROVE Final
    BY <2>2, Recorded
  <2>3. QED BY <2>1, <2>2 DEF Next
<1>3. QED BY <1>1, <1>2, SpecIInv, PTL DEF Spec, EndsAreJustified, CompletionJustified, TerminalIsFinal

-----------------------------------------------------------------------------
\* Replaying a ledger, one event after the other.
\*
\* A non-empty set of natural numbers has a least element.
LEMMA LeastNatural ==
  ASSUME NEW T \in SUBSET Nat, T # {}
  PROVE  \E n \in T : \A m \in T : n <= m
<1>1. PICK n \in T : \A m \in T : <<m, n>> \notin OpToRel(<, Nat)
  BY NatLessThanWellFounded, WFMin
<1>2. ASSUME NEW m \in T PROVE n <= m
  <2>1. <<m, n>> \notin OpToRel(<, Nat)
    BY <1>1
  <2>2. QED BY <2>1 DEF OpToRel
<1>3. QED BY <1>2

\* The progress after each of the first n of these events.
ReplaysTo(f, events, n) ==
  f = [k \in 0..n |-> IF k = 0 THEN Progress(NoRun) ELSE Replay(f[k - 1], events[k])]

\* There is one such function for any number of events.
LEMMA ReplayExists ==
  ASSUME NEW events, NEW n \in Nat
  PROVE  \E f : ReplaysTo(f, events, n)
<1> DEFINE Missing == {m \in Nat : ~ \E f : ReplaysTo(f, events, m)}
<1> SUFFICES ASSUME Missing # {} PROVE FALSE
  OBVIOUS
<1>1. PICK m \in Missing : \A k \in Missing : m <= k
  <2>1. Missing \in SUBSET Nat
    OBVIOUS
  <2> HIDE DEF Missing
  <2>2. QED BY <2>1, LeastNatural
<1>2. m \in Nat /\ ~ \E f : ReplaysTo(f, events, m)
  OBVIOUS
<1>3. m # 0
  <2> DEFINE f == [k \in 0..0 |-> Progress(NoRun)]
  <2>1. ReplaysTo(f, events, 0)
    BY DEF ReplaysTo
  <2>2. QED BY <1>2, <2>1
<1>4. PICK f : ReplaysTo(f, events, m - 1)
  BY <1>1, <1>2, <1>3
<1> DEFINE g == [k \in 0..m |-> IF k = m THEN Replay(f[m - 1], events[m]) ELSE f[k]]
<1>5. \A k \in 0..(m - 1) : f[k] = IF k = 0 THEN Progress(NoRun) ELSE Replay(f[k - 1], events[k])
  BY <1>4 DEF ReplaysTo
<1>6. \A k \in 0..m : g[k] = IF k = 0 THEN Progress(NoRun) ELSE Replay(g[k - 1], events[k])
  <2> TAKE k \in 0..m
  <2>1. CASE k = m
    <3>1. g[m] = Replay(f[m - 1], events[m]) /\ g[m - 1] = f[m - 1]
      BY <1>2, <1>3
    <3>2. QED BY <1>3, <2>1, <3>1
  <2>2. CASE k # m
    <3>1. g[k] = f[k] /\ (k # 0 => g[k - 1] = f[k - 1])
      BY <1>2, <2>2
    <3>2. k \in 0..(m - 1)
      BY <1>2, <2>2
    <3> HIDE DEF g
    <3>3. QED BY <1>5, <3>1, <3>2
  <2>3. QED BY <2>1, <2>2
<1>7. ReplaysTo(g, events, m)
  <2>1. g = [k \in 0..m |-> g[k]]
    OBVIOUS
  <2> HIDE DEF g
  <2>2. QED BY <1>6, <2>1 DEF ReplaysTo
<1>8. QED BY <1>2, <1>7

\* Two of them agree as far as their events do.
LEMMA ReplayUnique ==
  ASSUME NEW a, NEW b, NEW m \in Nat, NEW n \in Nat, m <= n,
         \A k \in 1..m : a[k] = b[k],
         NEW f, ReplaysTo(f, a, m), NEW g, ReplaysTo(g, b, n)
  PROVE  \A k \in 0..m : f[k] = g[k]
<1> DEFINE Differ == {k \in 0..m : f[k] # g[k]}
<1> SUFFICES ASSUME Differ # {} PROVE FALSE
  OBVIOUS
<1>1. PICK k \in Differ : \A i \in Differ : k <= i
  <2>1. Differ \in SUBSET Nat
    OBVIOUS
  <2> HIDE DEF Differ
  <2>2. QED BY <2>1, LeastNatural
<1>2. k \in 0..m /\ k \in 0..n /\ f[k] # g[k]
  OBVIOUS
<1>3. /\ f[k] = IF k = 0 THEN Progress(NoRun) ELSE Replay(f[k - 1], a[k])
      /\ g[k] = IF k = 0 THEN Progress(NoRun) ELSE Replay(g[k - 1], b[k])
  BY <1>2 DEF ReplaysTo
<1>4. CASE k = 0
  BY <1>2, <1>3, <1>4
<1>5. CASE k # 0
  <2>1. k - 1 \in 0..m /\ ~(k <= k - 1) /\ k \in 1..m
    BY <1>2, <1>5
  <2>2. f[k - 1] = g[k - 1]
    BY <1>1, <2>1
  <2>3. QED BY <1>2, <1>3, <1>5, <2>1, <2>2
<1>6. QED BY <1>4, <1>5

\* What Replayed is: the last value of the function for all events.
LEMMA ReplayedIs ==
  ASSUME NEW events, Len(events) \in Nat, NEW f, ReplaysTo(f, events, Len(events))
  PROVE  Replayed(events) = f[Len(events)]
<1> DEFINE g == CHOOSE h : h = [k \in 0..Len(events) |->
                             IF k = 0 THEN Progress(NoRun) ELSE Replay(h[k - 1], events[k])]
<1>1. Replayed(events) = g[Len(events)]
  BY DEF Replayed
<1>2. ReplaysTo(g, events, Len(events))
  BY DEF ReplaysTo
<1> HIDE DEF g
<1>3. g[Len(events)] = f[Len(events)]
  BY <1>2, ReplayUnique
<1>4. QED BY <1>1, <1>3

LEMMA ReplayEmpty == Replayed(<<>>) = Progress(NoRun)
<1>1. PICK f : ReplaysTo(f, <<>>, 0)
  BY ReplayExists
<1>2. f[0] = Progress(NoRun)
  BY <1>1 DEF ReplaysTo
<1>3. QED BY <1>1, <1>2, ReplayedIs

\* One more event is one more step of the replay.
LEMMA ReplayAppend ==
  ASSUME NEW S, NEW events \in Seq(S), NEW e \in S
  PROVE  Replayed(Append(events, e)) = Replay(Replayed(events), e)
<1> DEFINE n == Len(events)
           more == Append(events, e)
<1>1. n \in Nat /\ n + 1 \in Nat /\ Len(more) = n + 1 /\ more[n + 1] = e /\ \A k \in 1..n : events[k] = more[k]
  BY AppendProperties, LenProperties
<1> HIDE DEF n, more
<1>2. PICK f : ReplaysTo(f, events, n)
  BY <1>1, ReplayExists
<1>3. PICK g : ReplaysTo(g, more, n + 1)
  BY <1>1, ReplayExists
<1>4. Replayed(events) = f[n]
  BY <1>1, <1>2, ReplayedIs DEF n
<1>5. Replayed(more) = g[n + 1]
  BY <1>1, <1>3, ReplayedIs
<1>6. f[n] = g[n]
  BY <1>1, <1>2, <1>3, ReplayUnique
<1>7. g[n + 1] = Replay(g[n], more[n + 1])
  BY <1>1, <1>3 DEF ReplaysTo
<1>8. QED BY <1>1, <1>4, <1>5, <1>6, <1>7 DEF more

\* An event that does not tell of an executed step.
LEMMA ReplayIdle ==
  ASSUME NEW r \in Runs, NEW s \in Runs, NEW q,
         NEW k \in {"RUN_STARTED", "WATCHDOG_STOP", "STEP_BLOCKED", "EVALUATION_BLOCKED"},
         s.step = r.step, s.failures = r.failures, s.print = r.print, s.dup = r.dup
  PROVE  Replay(Progress(r), Event(k, s, q, FALSE)) = Progress(s)
<1>1. ~(s.step > r.step)
  BY DEF Runs
<1>2. QED BY <1>1 DEF Replay, Progress, Event

LEMMA ReplayReplan ==
  ASSUME NEW r \in Runs, NEW s \in Runs, NEW q,
         s.step = r.step, s.failures = 0, s.print = None, s.dup = 0
  PROVE  Replay(Progress(r), Event("WATCHDOG_REPLAN", s, q, FALSE)) = Progress(s)
BY DEF Replay, Progress, Event

LEMMA ReplayUnplanned ==
  ASSUME NEW r \in Runs, NEW s \in Runs, NEW q,
         s.step = r.step + 1, s.failures = r.failures + 1, s.print = r.print, s.dup = r.dup
  PROVE  Replay(Progress(r), Event("PLANNER_EXCEPTION", s, q, FALSE)) = Progress(s)
BY DEF Replay, Progress, Event

\* An event that tells of an executed step.
LEMMA ReplayExecuted ==
  ASSUME NEW r \in Runs, NEW s \in Runs, NEW k \in Kinds, NEW q, NEW b \in BOOLEAN,
         k \notin {"WATCHDOG_REPLAN", "PLANNER_EXCEPTION"}, b => k = "STEP_RESULT",
         s.step = r.step + 1, s.print = q, s.dup = IF q = r.print THEN r.dup + 1 ELSE 0,
         s.failures = IF b THEN 0
                      ELSE IF k \in {"STEP_EXCEPTION", "STEP_PERSISTENCE_FAILURE",
                                     "EVALUATION_EXCEPTION", "STEP_RESULT"}
                      THEN r.failures + 1 ELSE r.failures
  PROVE  Replay(Progress(r), Event(k, s, q, b)) = Progress(s)
<1>1. s.step > r.step
  BY DEF Runs
<1> DEFINE e == Event(k, s, q, b)
           p == Progress(r)
<1>2. e.step = s.step /\ e.kind = k /\ e.status = s.status /\ e.print = q /\ e.success = b
  BY DEF Event
<1>3. p.step = r.step /\ p.failures = r.failures /\ p.print = r.print /\ p.dup = r.dup
  BY DEF Progress
<1> HIDE DEF e, p
<1> DEFINE executed == e.step > p.step /\ e.kind # "PLANNER_EXCEPTION"
           failed == \/ e.kind \in {"PLANNER_EXCEPTION", "STEP_EXCEPTION", "STEP_PERSISTENCE_FAILURE",
                                    "EVALUATION_EXCEPTION"}
                     \/ e.kind = "STEP_RESULT" /\ ~e.success
           failures == IF e.kind = "WATCHDOG_REPLAN" \/ e.success THEN 0
                       ELSE IF failed THEN p.failures + 1 ELSE p.failures
           print == IF e.kind = "WATCHDOG_REPLAN" THEN None ELSE IF executed THEN e.print ELSE p.print
           dup == IF e.kind = "WATCHDOG_REPLAN" THEN 0
                  ELSE IF ~executed THEN p.dup
                  ELSE IF e.print = p.print THEN p.dup + 1 ELSE 0
<1>4. executed
  BY <1>1, <1>2, <1>3
<1>5. failures = s.failures
  <2>1. CASE b
    BY <1>2, <2>1
  <2>2. CASE ~b
    BY <1>2, <1>3, <2>2
  <2>3. QED BY <2>1, <2>2
<1>6. print = s.print /\ dup = s.dup
  <2> HIDE DEF executed
  <2>1. QED BY <1>2, <1>3, <1>4
<1>7. Replay(p, e) = [status |-> e.status, step |-> e.step, failures |-> failures, print |-> print, dup |-> dup]
  BY DEF Replay
<1> HIDE DEF failures, print, dup
<1>8. QED BY <1>2, <1>5, <1>6, <1>7 DEF Progress, e, p

\* A transaction that writes what its event tells keeps row and ledger together.
LEMMA RecordReplays ==
  ASSUME TypeOK, LedgerReplays, NEW w \in Workers, NEW s \in Runs, s.status # "NONE",
         NEW k \in Kinds, NEW b \in BOOLEAN, Record(w, s, k, b),
         Replay(Progress(run), Event(k, s, step[w].print, b)) = Progress(s)
  PROVE  LedgerReplays'
<1> DEFINE e == Event(k, s, step[w].print, b)
<1>1. step[w].print \in Prints \cup {None}
  BY Typed
<1>2. e \in EventType
  BY <1>1 DEF Event, EventType, Runs
<1>3. ledger \in Seq(EventType)
  BY DEF TypeOK, EventType
<1>4. ledger' = Append(ledger, e) /\ run' = s
  BY DEF Record
<1> HIDE DEF e
<1>5. Replayed(ledger') = Replay(Progress(run), e)
  BY <1>2, <1>3, <1>4, ReplayAppend DEF LedgerReplays
<1>6. QED BY <1>4, <1>5 DEF LedgerReplays, e

\* What an executed step writes of the progress.
LEMMA ExecutedProgress ==
  ASSUME IInv, NEW w \in Workers, InFlight(w)
  PROVE  LET x == Executed(w) IN
         /\ DOMAIN x = {"status", "mission", "started", "step", "failures", "print", "dup", "best"}
         /\ x.step = run.step + 1 /\ x.print = step[w].print /\ x.failures = run.failures
         /\ x.dup = IF step[w].print = run.print THEN run.dup + 1 ELSE 0
<1>1. run \in Runs /\ state[w] = run
  BY Holder DEF InFlight, InCall, InStep
<1>2. DOMAIN run = {"status", "mission", "started", "step", "failures", "print", "dup", "best"}
  BY <1>1 DEF Runs
<1> DEFINE d == IF step[w].print = run.print THEN run.dup + 1 ELSE 0
<1>3. Executed(w) = [run EXCEPT !.step = run.step + 1, !.print = step[w].print, !.dup = d]
  BY <1>1 DEF Executed
<1> HIDE DEF d
<1>4. QED BY <1>2, <1>3 DEF d

\* The outcomes of an executed step are told by their events.
LEMMA FailureReplays ==
  ASSUME IInv, LedgerReplays, NEW w \in Workers, InFlight(w),
         NEW k \in {"STEP_EXCEPTION", "STEP_PERSISTENCE_FAILURE", "EVALUATION_EXCEPTION"},
         Raise(w, FailedStep(w), k)
  PROVE  LedgerReplays'
<1> DEFINE s == FailedStep(w)
<1>1. TypeOK /\ run \in Runs /\ s \in Runs /\ s.status # "NONE" /\ k \in Kinds
  BY Holder, ExecutedRow DEF InFlight, InCall, Kinds
<1>2. /\ s.step = run.step + 1 /\ s.print = step[w].print /\ s.failures = run.failures + 1
      /\ s.dup = IF step[w].print = run.print THEN run.dup + 1 ELSE 0
  BY ExecutedProgress DEF FailedStep
<1>3. Record(w, s, k, FALSE)
  BY DEF Raise
<1> HIDE DEF s
<1>4. Replay(Progress(run), Event(k, s, step[w].print, FALSE)) = Progress(s)
  BY <1>1, <1>2, ReplayExecuted
<1>5. QED BY <1>1, <1>3, <1>4, RecordReplays

LEMMA BlockReplays ==
  ASSUME IInv, LedgerReplays, NEW w \in Workers, InFlight(w),
         NEW k \in {"EVALUATION_BLOCKED", "EVALUATION_INVALID"},
         Record(w, BlockedStep(w), k, FALSE)
  PROVE  LedgerReplays'
<1> DEFINE s == BlockedStep(w)
<1>1. TypeOK /\ run \in Runs /\ s \in Runs /\ s.status # "NONE" /\ k \in Kinds
  BY Holder, ExecutedRow DEF InFlight, InCall, Kinds
<1>2. /\ s.step = run.step + 1 /\ s.print = step[w].print /\ s.failures = run.failures
      /\ s.dup = IF step[w].print = run.print THEN run.dup + 1 ELSE 0
  BY ExecutedProgress DEF BlockedStep
<1> HIDE DEF s
<1>3. Replay(Progress(run), Event(k, s, step[w].print, FALSE)) = Progress(s)
  BY <1>1, <1>2, ReplayExecuted
<1>4. Record(w, s, k, FALSE)
  BY DEF s
<1>5. QED BY <1>1, <1>3, <1>4, RecordReplays

LEMMA EndReplays ==
  ASSUME IInv, LedgerReplays, NEW w \in Workers, InFlight(w),
         Record(w, Ended(w), "STEP_RESULT", step[w].success)
  PROVE  LedgerReplays'
<1> DEFINE s == Ended(w)
           b == step[w].success
<1>1. TypeOK /\ run \in Runs /\ step[w] \in StepType /\ state[w] = run
  BY Holder DEF InFlight, InCall, InStep
<1>2. s \in Runs /\ s.status # "NONE" /\ "STEP_RESULT" \in Kinds /\ b \in BOOLEAN
  BY <1>1, EndedRow DEF Kinds, StepType
<1>3. /\ s.step = run.step + 1 /\ s.print = step[w].print
      /\ s.failures = IF b THEN 0 ELSE run.failures + 1
      /\ s.dup = IF step[w].print = run.print THEN run.dup + 1 ELSE 0
  BY ExecutedProgress DEF Ended
<1>4. Record(w, s, "STEP_RESULT", b)
  OBVIOUS
<1> HIDE DEF s, b
<1>5. Replay(Progress(run), Event("STEP_RESULT", s, step[w].print, b)) = Progress(s)
  BY <1>1, <1>2, <1>3, ReplayExecuted
<1>6. QED BY <1>1, <1>2, <1>4, <1>5, RecordReplays

\* What is recorded without executing anything.
LEMMA IdleReplays ==
  ASSUME IInv, LedgerReplays, NEW w \in Workers, InStep(w), NEW v \in {"STOPPED", "BLOCKED"},
         NEW k \in {"WATCHDOG_STOP", "STEP_BLOCKED", "EVALUATION_BLOCKED"},
         Record(w, [run EXCEPT !.status = v], k, FALSE)
  PROVE  LedgerReplays'
<1> DEFINE s == [run EXCEPT !.status = v]
<1>1. /\ TypeOK /\ run \in Runs /\ k \in Kinds
      /\ k \in {"RUN_STARTED", "WATCHDOG_STOP", "STEP_BLOCKED", "EVALUATION_BLOCKED"}
  BY Holder DEF InStep, InCall, Kinds
<1>2. /\ s \in Runs /\ s.status = v /\ s.failures = run.failures /\ s.dup = run.dup
      /\ s.step = run.step /\ s.print = run.print
  BY <1>1 DEF Runs, Terminal
<1> HIDE DEF s
<1>3. Replay(Progress(run), Event(k, s, step[w].print, FALSE)) = Progress(s)
  BY <1>1, <1>2, ReplayIdle
<1>4. Record(w, s, k, FALSE)
  BY DEF s
<1>5. QED BY <1>1, <1>2, <1>3, <1>4, RecordReplays

LEMMA CreateReplays ==
  ASSUME IInv, LedgerReplays, NEW w \in Workers, Create(w)
  PROVE  LedgerReplays'
<1> DEFINE s == [NoRun EXCEPT !.status = "RUNNING", !.mission = Mission[w], !.started = now]
<1>1. TypeOK /\ run \in Runs /\ Mission[w] \in Missions /\ now \in Time
  BY Holder DEF Create, InCall, TypeOK
<1>2. CASE run # NoRun
  BY <1>2 DEF Create, NoRecord, LedgerReplays
<1>3. CASE run = NoRun
  <2>1. s \in Runs /\ s.status = "RUNNING"
    BY <1>1, NewRow
  <2>2. s.step = run.step /\ s.failures = run.failures /\ s.print = run.print /\ s.dup = run.dup
    BY <1>3 DEF NoRun
  <2>3. Record(w, s, "RUN_STARTED", FALSE)
    BY <1>3 DEF Create, Save
  <2> HIDE DEF s
  <2>4. Replay(Progress(run), Event("RUN_STARTED", s, step[w].print, FALSE)) = Progress(s)
    BY <1>1, <2>1, <2>2, ReplayIdle
  <2>5. QED BY <1>1, <2>1, <2>3, <2>4, RecordReplays DEF Kinds
<1>4. QED BY <1>2, <1>3

LEMMA WatchdogReplays ==
  ASSUME IInv, LedgerReplays, NEW w \in Workers, Watchdog(w)
  PROVE  LedgerReplays'
<1>1. InCall(w) /\ InStep(w)
  BY DEF Watchdog, InCall, InStep
<1>2. TypeOK /\ run \in Runs /\ state[w] = run /\ run.status = "RUNNING"
  BY <1>1, Holder
<1>3. CASE Elapsed(w) >= MaxWall
  BY <1>1, <1>2, <1>3, IdleReplays DEF Watchdog, Save
<1>4. CASE ~(Elapsed(w) >= MaxWall) /\ Replan(run)
  <2> DEFINE s == [run EXCEPT !.failures = 0, !.dup = 0, !.print = None]
  <2>1. Record(w, s, "WATCHDOG_REPLAN", FALSE)
    BY <1>2, <1>4 DEF Watchdog, Save
  <2>2. s \in Runs /\ s.status = "RUNNING" /\ s.failures = 0 /\ s.dup = 0 /\ s.step = run.step /\ s.print = None
    BY <1>2 DEF Runs
  <2> HIDE DEF s
  <2>3. Replay(Progress(run), Event("WATCHDOG_REPLAN", s, step[w].print, FALSE)) = Progress(s)
    BY <1>2, <2>2, ReplayReplan
  <2>4. QED BY <1>2, <2>1, <2>2, <2>3, RecordReplays DEF Kinds
<1>5. CASE ~(Elapsed(w) >= MaxWall) /\ ~Replan(run)
  BY <1>2, <1>5 DEF Watchdog, NoRecord, LedgerReplays
<1>6. QED BY <1>3, <1>4, <1>5

LEMMA PlanReplays ==
  ASSUME IInv, LedgerReplays, NEW w \in Workers, Plan(w)
  PROVE  LedgerReplays'
<1>1. InCall(w) /\ InStep(w)
  BY DEF Plan, InCall, InStep
<1>2. TypeOK /\ run \in Runs /\ state[w] = run /\ run.status = "RUNNING"
  BY <1>1, Holder
<1> DEFINE over == IF Elapsed(w) >= MaxWall THEN "STOPPED" ELSE run.status
           s == [run EXCEPT !.step = run.step + 1, !.failures = run.failures + 1, !.status = over]
<1>3. CASE Record(w, s, "PLANNER_EXCEPTION", FALSE)
  <2>1. over \in {"STOPPED", "RUNNING"}
    BY <1>2
  <2> HIDE DEF over
  <2>2. run.step + 1 \in Nat /\ run.failures + 1 \in Nat
    BY <1>2 DEF Runs
  <2>3. /\ s \in Runs /\ s.failures = run.failures + 1 /\ s.dup = run.dup /\ s.step = run.step + 1
        /\ s.status = over /\ s.print = run.print
    BY <1>2, <2>1, <2>2 DEF Runs, Terminal
  <2> HIDE DEF s
  <2>4. Replay(Progress(run), Event("PLANNER_EXCEPTION", s, step[w].print, FALSE)) = Progress(s)
    BY <1>2, <2>3, ReplayUnplanned
  <2>5. QED BY <1>2, <1>3, <2>1, <2>3, <2>4, RecordReplays DEF Kinds
<1>4. CASE NoRecord
  BY <1>4 DEF NoRecord, LedgerReplays
<1>5. QED BY <1>2, <1>3, <1>4 DEF Plan, Raise

LEMMA AdmitReplays ==
  ASSUME IInv, LedgerReplays, NEW w \in Workers, Admit(w)
  PROVE  LedgerReplays'
<1>1. InCall(w) /\ InStep(w)
  BY DEF Admit, InCall, InStep
<1>2. state[w] = run
  BY <1>1, Holder
<1>3. CASE NoRecord
  BY <1>3 DEF NoRecord, LedgerReplays
<1>4. QED BY <1>1, <1>2, <1>3, IdleReplays DEF Admit, Save

LEMMA FlightReplays ==
  ASSUME IInv, LedgerReplays, NEW w \in Workers, Execute(w) \/ Evaluate(w) \/ Finish(w)
  PROVE  LedgerReplays'
<1>1. InFlight(w)
  BY DEF Execute, Evaluate, Finish, InFlight
<1>2. CASE NoRecord
  BY <1>2 DEF NoRecord, LedgerReplays
<1>3. CASE Execute(w)
  BY <1>1, <1>2, <1>3, FailureReplays, BlockReplays DEF Execute, Save
<1>4. CASE Evaluate(w)
  BY <1>1, <1>2, <1>4, FailureReplays, BlockReplays DEF Evaluate, Save
<1>5. CASE Finish(w)
  BY <1>1, <1>5, FailureReplays, EndReplays DEF Finish, Save, Ended
<1>6. QED BY <1>3, <1>4, <1>5

\* While one worker at a time performs the run, its row is what replaying its
\* ledger yields, and no step is executed by two calls whose outcomes were both
\* saved, across any deaths and resumptions.
THEOREM LedgerFaithful == Exclusive => (Spec => []LedgerIsFaithful)
<1> SUFFICES ASSUME Exclusive PROVE Spec => []LedgerIsFaithful
  OBVIOUS
<1>1. Init => LedgerReplays
  BY ReplayEmpty DEF Init, LedgerReplays
<1>2. IInv /\ LedgerReplays /\ [Next]_vars => LedgerReplays'
  <2> SUFFICES ASSUME IInv, LedgerReplays, [Next]_vars PROVE LedgerReplays'
    OBVIOUS
  <2>1. CASE UNCHANGED <<run, ledger>>
    BY <2>1 DEF LedgerReplays
  <2>2. ASSUME NEW w \in Workers, WorkerStep(w) PROVE LedgerReplays'
    <3>1. CASE Start(w) \/ Load(w) \/ Loop(w)
      BY <2>1, <3>1 DEF Start, Load, Loop, NoRecord
    <3>2. QED BY <2>2, <3>1, CreateReplays, WatchdogReplays, PlanReplays, AdmitReplays, FlightReplays
          DEF WorkerStep
  <2>3. QED BY <2>1, <2>2 DEF Next, Tick, Abort, NoRecord, vars
<1>3. IInv /\ LedgerReplays => LedgerIsFaithful
  BY DEF IInv, Counted, LedgerIsFaithful
<1>4. QED BY <1>1, <1>2, <1>3, SpecIInv, PTL DEF Spec
=============================================================================
