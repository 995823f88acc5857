------------------------------ MODULE LongRun ------------------------------
(***************************************************************************)
(* cybercore.longrun: LongRunEngine on a LongRunStateStore, driven by the  *)
(* operator's start and resume.  A worker is one such call in one process; *)
(* it loads or creates the run and performs steps: watchdog, planner,      *)
(* watchdog again, authorization, executor, evaluator, and one transaction *)
(* that saves the run row and appends a ledger event.  Planner, executor   *)
(* and evaluator are callbacks that take time, raise, or return anything   *)
(* they can.  A worker may die, or fail to reach the database, between any *)
(* two steps; another worker then resumes from the row.                    *)
(***************************************************************************)
EXTENDS Integers, Sequences

CONSTANTS
  Workers,      \* calls of start_longrun or resume_longrun
  Missions,     \* manifest digests
  Mission,      \* Mission[w]: the manifest worker w loaded
  Evaluated,    \* the workers whose engine has an evaluator
  Prints,       \* fingerprints of proposals
  Scores,       \* evaluation scores
  Exclusive,    \* whether the operator runs one worker at a time
  MinWall, MaxWall, MaxFailures, MaxDuplicates, Threshold,       \* manifest
  RequireEvidence, RequireEvaluation,    \* the missions with evidence_required, and with
                                         \* independent_evaluation_required
  MaxSteps,     \* MaxSteps[w]: the max_steps of worker w
  MaxTime,      \* bound on the clock
  None          \* no fingerprint, no mission

Time == 0..MaxTime

ASSUME LongRunAssumption ==
  /\ Mission \in [Workers -> Missions]
  /\ Evaluated \subseteq Workers
  /\ Scores \subseteq Nat /\ 0 \in Scores /\ Threshold \in Nat
  /\ Exclusive \in BOOLEAN
  /\ MinWall \in Nat /\ MaxWall \in Nat \ {0} /\ MinWall <= MaxWall
  /\ MaxFailures \in Nat \ {0} /\ MaxDuplicates \in Nat \ {0}
  /\ RequireEvidence \subseteq Missions /\ RequireEvaluation \subseteq Missions
  /\ MaxSteps \in [Workers -> Nat \ {0}] /\ MaxTime \in Nat
  /\ None \notin Prints \cup Missions

VARIABLES
  now,     \* the clock
  run,     \* the row of the table runs, or NoRun
  ledger,  \* the events of the run, in the order of their id
  pc,      \* where each worker is
  left,    \* the steps it may still perform
  state,   \* its local copy of the run
  step,    \* its proposal, StepResult and EvaluationResult
  ran,     \* history: the executor calls, as <<worker, left, step_index>>
  lost     \* history: those whose outcome was not saved

workerVars == <<pc, left, state, step>>
vars == <<now, run, ledger, workerVars, ran, lost>>

Terminal == {"COMPLETED", "STOPPED", "BLOCKED"}

NoRun == [status |-> "NONE", mission |-> None, started |-> 0, step |-> 0, failures |-> 0,
          print |-> None, dup |-> 0, best |-> 0]

\* A StepProposal: "worth" says that its value is positive.
Proposal == [print : Prints, effect : {"allowed", "prohibited", "unlisted"}, worth : BOOLEAN]

NoStep == [print |-> None, effect |-> "unlisted", worth |-> FALSE,
           success |-> FALSE, evidence |-> "empty", score |-> -1, verdict |-> "NONE"]

Init ==
  /\ now = 0
  /\ run = NoRun /\ ledger = <<>>
  /\ pc = [w \in Workers |-> "idle"]
  /\ left = MaxSteps
  /\ state = [w \in Workers |-> NoRun]
  /\ step = [w \in Workers |-> NoStep]
  /\ ran = {} /\ lost = {}

-----------------------------------------------------------------------------
To(w, l) == pc' = [pc EXCEPT ![w] = l]

\* The wall time since the run was started.
Elapsed(w) == now - state[w].started

Event(kind, s, print, success) ==
  [kind |-> kind, step |-> s.step, status |-> s.status, print |-> print, success |-> success]

\* Mutant: row and event are saved in two transactions, and the second one can
\* be missed.
RecordThenAppend(w, s, kind, success) ==
  /\ run' = s
  /\ ledger' \in {ledger, Append(ledger, Event(kind, s, step[w].print, success))}

\* save_with_event: one transaction updates the row, whatever it holds by now,
\* and appends the event.
Record(w, s, kind, success) ==
  /\ run' = s
  /\ ledger' = Append(ledger, Event(kind, s, step[w].print, success))

\* Nothing of the database changes.
NoRecord == UNCHANGED <<run, ledger>>

\* The worker goes on with the state it saved.
Save(w, s, kind, success) ==
  Record(w, s, kind, success) /\ state' = [state EXCEPT ![w] = s]

\* The call is over, and its local variables with it.
Leave(w) ==
  /\ To(w, "ended")
  /\ left' = [left EXCEPT ![w] = 0]
  /\ state' = [state EXCEPT ![w] = NoRun]
  /\ step' = [step EXCEPT ![w] = NoStep]

\* A failure is saved and raised.
Raise(w, s, kind) == Record(w, s, kind, FALSE) /\ Leave(w)

\* start_longrun refuses an existing run, resume_longrun a missing one and one of
\* another mission.
Start(w) ==
  /\ pc[w] = "idle"
  /\ Exclusive => \A v \in Workers : pc[v] \in {"idle", "ended"}
  /\ \E found \in {run = NoRun, run.mission = Mission[w]} :
       IF found THEN To(w, "open") /\ UNCHANGED <<left, state, step>> ELSE Leave(w)
  /\ NoRecord /\ UNCHANGED <<now, ran, lost>>

\* Mutant: a worker takes every run it loads for a running one.
LoadUnchecked(w) ==
  /\ pc[w] \in {"open", "load"}
  /\ IF run # NoRun /\ run.mission # Mission[w] THEN Leave(w)
     ELSE /\ IF run = NoRun THEN To(w, "create") /\ UNCHANGED state
             ELSE /\ state' = [state EXCEPT ![w] = [run EXCEPT !.status = "RUNNING"]]
                  /\ To(w, IF pc[w] = "load" THEN "watchdog" ELSE "loop")
          /\ UNCHANGED <<left, step>>
  /\ NoRecord /\ UNCHANGED <<now, ran, lost>>

\* load_or_create, first for the loop of run_until_terminal, then for each step.
Load(w) ==
  /\ pc[w] \in {"open", "load"}
  /\ IF run # NoRun /\ run.mission # Mission[w] THEN Leave(w)
     ELSE /\ IF run = NoRun THEN To(w, "create") /\ UNCHANGED state
             ELSE /\ state' = [state EXCEPT ![w] = run]
                  /\ To(w, IF pc[w] = "load" /\ run.status = "RUNNING" THEN "watchdog" ELSE "loop")
          /\ UNCHANGED <<left, step>>
  /\ NoRecord /\ UNCHANGED <<now, ran, lost>>

\* create_with_event: the primary key refuses a run that exists by now.
Create(w) ==
  LET s == [NoRun EXCEPT !.status = "RUNNING", !.mission = Mission[w], !.started = now] IN
  /\ pc[w] = "create"
  /\ IF run = NoRun
     THEN Save(w, s, "RUN_STARTED", FALSE) /\ To(w, "loop") /\ UNCHANGED <<left, step>>
     ELSE NoRecord /\ Leave(w)
  /\ UNCHANGED <<now, ran, lost>>

\* The loop of run_until_terminal.
Loop(w) ==
  /\ pc[w] = "loop"
  /\ IF state[w].status # "RUNNING" \/ left[w] = 0
     THEN Leave(w)
     ELSE /\ To(w, "load") /\ UNCHANGED state
          /\ left' = [left EXCEPT ![w] = @ - 1] /\ step' = [step EXCEPT ![w] = NoStep]
  /\ NoRecord /\ UNCHANGED <<now, ran, lost>>

\* Mutant: the counters are compared after the limit was passed.
ReplanLate(s) == s.failures > MaxFailures \/ s.dup > MaxDuplicates

\* evaluate_watchdog: STOP takes precedence over REPLAN.
Replan(s) == s.failures >= MaxFailures \/ s.dup >= MaxDuplicates

Watchdog(w) ==
  LET s == state[w] IN
  /\ pc[w] = "watchdog"
  /\ IF Elapsed(w) >= MaxWall
     THEN Save(w, [s EXCEPT !.status = "STOPPED"], "WATCHDOG_STOP", FALSE) /\ To(w, "loop")
     ELSE IF Replan(s)
     THEN /\ Save(w, [s EXCEPT !.failures = 0, !.dup = 0, !.print = None], "WATCHDOG_REPLAN", FALSE)
          /\ To(w, "plan")
     ELSE NoRecord /\ UNCHANGED state /\ To(w, "plan")
  /\ UNCHANGED <<now, left, step, ran, lost>>

\* The planner raises, which is recorded and ends the worker, or proposes.
Plan(w) ==
  LET s == state[w] IN
  /\ pc[w] = "plan"
  /\ \/ Raise(w, [s EXCEPT !.step = @ + 1, !.failures = @ + 1,
                           !.status = IF Elapsed(w) >= MaxWall THEN "STOPPED" ELSE @],
              "PLANNER_EXCEPTION")
     \/ /\ \E p \in Proposal :
             step' = [step EXCEPT ![w].print = p.print, ![w].effect = p.effect, ![w].worth = p.worth]
        /\ NoRecord /\ UNCHANGED <<left, state>> /\ To(w, "admit")
  /\ UNCHANGED <<now, ran, lost>>

\* authorize_step: no effect is both allowed and prohibited.
Authorized(p) == p.effect = "allowed" /\ p.worth

\* The wall budget again, the governor, the demand for an evaluator; then the
\* executor is called.
Admit(w) ==
  LET s == state[w] IN
  /\ pc[w] = "admit"
  /\ IF Elapsed(w) >= MaxWall
     THEN /\ Save(w, [s EXCEPT !.status = "STOPPED"], "WATCHDOG_STOP", FALSE)
          /\ To(w, "loop") /\ UNCHANGED ran
     ELSE IF ~Authorized(step[w])
     THEN /\ Save(w, [s EXCEPT !.status = "BLOCKED"], "STEP_BLOCKED", FALSE)
          /\ To(w, "loop") /\ UNCHANGED ran
     ELSE IF Mission[w] \in RequireEvaluation /\ w \notin Evaluated
     THEN /\ Save(w, [s EXCEPT !.status = "BLOCKED"], "EVALUATION_BLOCKED", FALSE)
          /\ To(w, "loop") /\ UNCHANGED ran
     ELSE /\ ran' = ran \cup {<<w, left[w], s.step>>}
          /\ NoRecord /\ UNCHANGED state /\ To(w, "execute")
  /\ UNCHANGED <<now, left, step, lost>>

\* The state after a step was executed, whatever came of it.
Executed(w) ==
  LET s == state[w] IN
  [s EXCEPT !.step = @ + 1, !.print = step[w].print,
            !.dup = IF step[w].print = s.print THEN @ + 1 ELSE 0]

FailedStep(w) == [Executed(w) EXCEPT !.failures = @ + 1]
BlockedStep(w) == [Executed(w) EXCEPT !.status = "BLOCKED"]

\* Mutant: the exception of the executor is raised without being recorded.
ExecuteUnrecorded(w) ==
  /\ pc[w] = "execute"
  /\ \/ NoRecord /\ Leave(w)
     \/ \E b \in BOOLEAN :
          /\ step' = [step EXCEPT ![w].success = b, ![w].evidence = "some"]
          /\ To(w, IF w \in Evaluated THEN "evaluate" ELSE "finish")
          /\ NoRecord /\ UNCHANGED <<left, state>>
  /\ UNCHANGED <<now, ran, lost>>

\* The executor raises, or returns evidence that is not canonical JSON, or none
\* where some is required; or the result goes on to the evaluator.
Execute(w) ==
  /\ pc[w] = "execute"
  /\ \/ Raise(w, FailedStep(w), "STEP_EXCEPTION")
     \/ Raise(w, FailedStep(w), "STEP_PERSISTENCE_FAILURE")
     \/ /\ Mission[w] \in RequireEvidence
        /\ Save(w, BlockedStep(w), "EVALUATION_BLOCKED", FALSE)
        /\ To(w, "loop") /\ UNCHANGED <<left, step>>
     \/ \E b \in BOOLEAN, e \in {"empty", "some"} :
          /\ Mission[w] \in RequireEvidence => e = "some"
          /\ step' = [step EXCEPT ![w].success = b, ![w].evidence = e]
          /\ To(w, IF w \in Evaluated THEN "evaluate" ELSE "finish")
          /\ NoRecord /\ UNCHANGED <<left, state>>
  /\ UNCHANGED <<now, ran, lost>>

\* The evaluator raises, or hands back mutated evidence, no EvaluationResult or an
\* invalid one, or scores the step.
Evaluate(w) ==
  /\ pc[w] = "evaluate"
  /\ \/ Raise(w, FailedStep(w), "EVALUATION_EXCEPTION")
     \/ Save(w, BlockedStep(w), "EVALUATION_INVALID", FALSE) /\ To(w, "loop") /\ UNCHANGED <<left, step>>
     \/ \E q \in Scores, v \in {"PASS", "FAIL"} :
          /\ step' = [step EXCEPT ![w].score = q, ![w].verdict = v]
          /\ NoRecord /\ UNCHANGED <<left, state>> /\ To(w, "finish")
  /\ UNCHANGED <<now, ran, lost>>

Best(w) == IF step[w].score > state[w].best THEN step[w].score ELSE state[w].best

\* Mutant: the best score so far counts instead of the score of this step.
AcceptedByBest(w) ==
  /\ step[w].success /\ step[w].verdict = "PASS" /\ Best(w) >= Threshold
  /\ Elapsed(w) >= MinWall

\* The completion boundary.
Accepted(w) ==
  /\ step[w].success /\ step[w].verdict = "PASS" /\ step[w].score >= Threshold
  /\ Elapsed(w) >= MinWall

\* The STEP_RESULT is saved, or its payload turns out not to be serializable.
Finish(w) ==
  LET s == [Executed(w) EXCEPT
              !.failures = IF step[w].success THEN 0 ELSE @ + 1,
              !.best = Best(w),
              !.status = IF Elapsed(w) >= MaxWall THEN "STOPPED"
                         ELSE IF Accepted(w) THEN "COMPLETED" ELSE @]
  IN /\ pc[w] = "finish"
     /\ \/ Save(w, s, "STEP_RESULT", step[w].success) /\ To(w, "loop") /\ UNCHANGED <<left, step>>
        \/ Raise(w, FailedStep(w), "STEP_PERSISTENCE_FAILURE")
     /\ UNCHANGED <<now, ran, lost>>

\* One step of a worker.
WorkerStep(w) ==
  \/ Start(w) \/ Load(w) \/ Create(w) \/ Loop(w) \/ Watchdog(w) \/ Plan(w) \/ Admit(w)
  \/ Execute(w) \/ Evaluate(w) \/ Finish(w)

-----------------------------------------------------------------------------
\* Environment: the worker dies or loses the database; time passes.
Abort(w) ==
  /\ pc[w] \notin {"idle", "ended"}
  /\ lost' = IF pc[w] \in {"execute", "evaluate", "finish"}
             THEN lost \cup {<<w, left[w], state[w].step>>} ELSE lost
  /\ NoRecord /\ Leave(w)
  /\ UNCHANGED <<now, ran>>

Tick ==
  /\ now < MaxTime
  /\ now' = now + 1
  /\ UNCHANGED <<run, ledger, workerVars, ran, lost>>

Next == Tick \/ \E w \in Workers : WorkerStep(w) \/ Abort(w)

Spec == Init /\ [][Next]_vars

-----------------------------------------------------------------------------
Runs == [status : Terminal \cup {"NONE", "RUNNING"}, mission : Missions \cup {None}, started : Time,
         step : Nat, failures : Nat, print : Prints \cup {None}, dup : Nat, best : Nat]

Kinds == {"RUN_STARTED", "WATCHDOG_STOP", "WATCHDOG_REPLAN", "PLANNER_EXCEPTION", "STEP_BLOCKED",
          "EVALUATION_BLOCKED", "EVALUATION_INVALID", "EVALUATION_EXCEPTION", "STEP_EXCEPTION",
          "STEP_PERSISTENCE_FAILURE", "STEP_RESULT"}

TypeOK ==
  /\ now \in Time
  /\ run \in Runs
  /\ ledger \in Seq([kind : Kinds, step : Nat, status : Terminal \cup {"RUNNING"},
                     print : Prints \cup {None}, success : BOOLEAN])
  /\ pc \in [Workers -> {"idle", "open", "load", "create", "loop", "watchdog", "plan", "admit",
                         "execute", "evaluate", "finish", "ended"}]
  /\ left \in [Workers -> Nat] /\ \A w \in Workers : left[w] <= MaxSteps[w]
  /\ state \in [Workers -> Runs]
  /\ step \in [Workers -> [print : Prints \cup {None},
                           effect : {"allowed", "prohibited", "unlisted"}, worth : BOOLEAN,
                           success : BOOLEAN, evidence : {"empty", "some"},
                           score : Scores \cup {-1}, verdict : {"NONE", "PASS", "FAIL"}]]
  /\ ran \subseteq Workers \X Nat \X Nat /\ lost \subseteq ran

\* A worker past the load of its step holds the row as it is stored: a running
\* run, with counters that the watchdog has seen to be within the limits.
Holds(w) ==
  /\ pc[w] \in {"loop"} => state[w] = run
  /\ pc[w] \in {"watchdog", "plan", "admit", "execute", "evaluate", "finish"} =>
       state[w] = run /\ run.status = "RUNNING"
  /\ pc[w] \in {"plan", "admit", "execute", "evaluate", "finish"} =>
       run.failures < MaxFailures /\ run.dup < MaxDuplicates
  /\ pc[w] = "create" => run = NoRun

\* The limits of the watchdog are never passed, not even by one step, across
\* restarts.
WithinLimits == run.failures <= MaxFailures /\ run.dup <= MaxDuplicates

\* With one worker at a time: types, current local copies, counters in bounds.
Inv == TypeOK /\ WithinLimits /\ \A w \in Workers : Holds(w)

\* What a ledger event says of the run it was written for.
Consumes(kind) == kind \in {"STEP_EXCEPTION", "STEP_PERSISTENCE_FAILURE", "EVALUATION_EXCEPTION",
                            "EVALUATION_INVALID", "STEP_RESULT"}

Replay(s, e) ==
  LET executed == e.step > s.step /\ e.kind # "PLANNER_EXCEPTION"
      failed == \/ e.kind \in {"PLANNER_EXCEPTION", "STEP_EXCEPTION", "STEP_PERSISTENCE_FAILURE",
                               "EVALUATION_EXCEPTION"}
                \/ e.kind = "STEP_RESULT" /\ ~e.success
  IN [status |-> e.status, step |-> e.step,
      failures |-> IF e.kind = "WATCHDOG_REPLAN" \/ e.success THEN 0
                   ELSE IF failed THEN s.failures + 1 ELSE s.failures,
      print |-> IF e.kind = "WATCHDOG_REPLAN" THEN None ELSE IF executed THEN e.print ELSE s.print,
      dup |-> IF e.kind = "WATCHDOG_REPLAN" THEN 0
              ELSE IF ~executed THEN s.dup
              ELSE IF e.print = s.print THEN s.dup + 1 ELSE 0]

\* What a row says of the progress of its run.
Progress(r) == [status |-> r.status, step |-> r.step, failures |-> r.failures,
                print |-> r.print, dup |-> r.dup]

\* The progress that events tell, one after the other, of a run that was not there.
Replayed(events) ==
  LET after[n \in 0..Len(events)] ==
        IF n = 0 THEN Progress(NoRun) ELSE Replay(after[n - 1], events[n])
  IN after[Len(events)]

\* The row is what replaying the append-only ledger yields: no event is missing,
\* doubled or out of order, whenever the worker died.
LedgerReplays == Replayed(ledger) = Progress(run)

\* A run completes only in a step that succeeded and was itself evaluated PASS
\* at the threshold, within the wall budget and not before its minimum (ADR-0007,
\* completion boundary).
CompletionJustified ==
  [][run'.status = "COMPLETED" /\ run.status # "COMPLETED" =>
       /\ now - run.started \in MinWall..(MaxWall - 1)
       /\ \E w \in Workers :
            /\ pc[w] = "finish" /\ <<w, left[w], run.step>> \in ran
            /\ step[w].success /\ step[w].verdict = "PASS" /\ step[w].score >= Threshold
            /\ run.mission \in RequireEvidence => step[w].evidence # "empty"]_vars

\* A run that completed, stopped or was blocked stays as it is, and its executor
\* is not called again, whoever resumes it.
TerminalIsFinal ==
  [][run.status \in Terminal => UNCHANGED <<run, ledger, ran>>]_vars

\* No step is executed twice, unless the worker that executed it died before it
\* could save the outcome.
ExecutedOncePerStep ==
  \A a, b \in ran \ lost : a[3] = b[3] => a = b

\* The ledger and its row agree, and tell what was executed.
LedgerIsFaithful == LedgerReplays /\ ExecutedOncePerStep

\* A run ends as completed only when it is justified, and an end is an end.
EndsAreJustified == CompletionJustified /\ TerminalIsFinal

\* A run is a sequence of steps, each recorded once (ADR-0007:15).
LedgerIsSequence ==
  \A i, j \in DOMAIN ledger :
    i < j /\ Consumes(ledger[i].kind) /\ Consumes(ledger[j].kind) => ledger[i].step < ledger[j].step
=============================================================================
