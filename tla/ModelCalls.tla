------------------------------ MODULE ModelCalls ------------------------------
(***************************************************************************)
(* cybercore.longrun: ModelRuntime.call with its retries, and the planner, *)
(* worker and evaluator that are made of it for the engine of a long run.  *)
(* A provider may fail, write to the request it was given, or turn into    *)
(* another one during an invocation; a caller may have cancelled.          *)
(***************************************************************************)
EXTENDS Integers, Sequences

CONSTANTS
  Proposals,    \* what a planner may propose
  MaxAttempts,  \* max_attempts of the policy
  MaxSteps,     \* bound on the steps the engine asks for
  NoProvenance  \* no provider receipt

Roles == {"planner", "worker", "evaluator"}

VARIABLES
  models,    \* the registry: whether the provider of a role is the one it is bound to
  modelCall, \* the running call
  pipeline,  \* the step the engine is at, and what the components remember
  cancel     \* what cancelled() answers

modelVars == <<models, modelCall, pipeline, cancel>>

\* role and step: the identity of the request; text: what it holds now; sent: history, what
\* each invocation was given, and by which provider.
NoModelCall == [pc |-> "none", role |-> "none", step |-> 0, text |-> "built", attempts |-> 0, sent |-> <<>>]

ModelInit ==
  /\ models = [r \in Roles |-> TRUE] /\ cancel = FALSE
  /\ modelCall = NoModelCall
  /\ pipeline = [pc |-> "idle", step |-> 0, proposal |-> "none", pending |-> NoProvenance, evidence |-> <<>>]

-----------------------------------------------------------------------------
CallTo(l) == modelCall' = [modelCall EXCEPT !.pc = l] /\ UNCHANGED <<models, pipeline, cancel>>

\* The provider is resolved, and must be the one that is bound.
StartCall(role, step) ==
  modelCall' = [NoModelCall EXCEPT !.pc = IF models[role] THEN "look" ELSE "raised", !.role = role, !.step = step]

\* Before each attempt the caller may have cancelled.
BeginAttempt ==
  /\ modelCall.pc = "look"
  /\ IF cancel THEN CallTo("raised")
     ELSE /\ modelCall' = [modelCall EXCEPT !.pc = "invoke", !.attempts = @ + 1,
                           !.sent = Append(@, [text |-> modelCall.text, bound |-> models[modelCall.role]])]
          /\ UNCHANGED <<models, pipeline, cancel>>

\* The provider answers, fails, or fails in a way that may be retried; whatever it does
\* to the request or to itself.
Invoke ==
  /\ modelCall.pc = "invoke" /\ UNCHANGED <<pipeline, cancel>>
  /\ \E end \in {"response", "retryable", "error", "unexpected"}, text \in {"built", "mutated"}, bound \in BOOLEAN :
       /\ modelCall' = [modelCall EXCEPT !.pc = IF end = "unexpected" THEN "raised" ELSE end, !.text = text]
       /\ models' = [models EXCEPT ![modelCall.role] = bound]

\* The same provider, and the same request.
ValidateAttemptBoundary == models[modelCall.role] /\ modelCall.text = "built"

\* Mutant: the boundary is validated for responses only.
RetryUnvalidated ==
  \/ modelCall.pc = "error" /\ CallTo("raised")
  \/ modelCall.pc = "retryable" /\ CallTo(IF modelCall.attempts < MaxAttempts THEN "look" ELSE "raised")

\* A failed attempt is repeated when that may help and attempts are left.
Retry ==
  \/ modelCall.pc = "error" /\ CallTo("raised")
  \/ /\ modelCall.pc = "retryable"
     /\ CallTo(IF ValidateAttemptBoundary /\ modelCall.attempts < MaxAttempts THEN "look" ELSE "raised")

\* A response counts unless the call was cancelled; it must name the request.
AcceptResponse ==
  /\ modelCall.pc = "response"
  /\ \/ ValidateAttemptBoundary /\ ~cancel /\ CallTo("answered")
     \/ CallTo("raised")

Receipt == [role |-> modelCall.role, step |-> modelCall.step, attempts |-> modelCall.attempts, sent |-> modelCall.sent]

-----------------------------------------------------------------------------
PipelineTo(l) == pipeline' = [pipeline EXCEPT !.pc = l]

\* The engine asks the planner for the step after the last one.
Plan ==
  /\ pipeline.pc = "idle" /\ pipeline.step < MaxSteps
  /\ StartCall("planner", pipeline.step) /\ PipelineTo("planning") /\ UNCHANGED <<models, cancel>>

\* The engine records the step, failed or not, and goes on to the next one.
StepEnds == pipeline' = [pipeline EXCEPT !.pc = "idle", !.step = @ + 1, !.evidence = <<>>]

\* A call that raised, or whose answer does not parse, fails the step; what was pending stays.
ComponentFails ==
  /\ modelCall.pc \in {"raised", "answered"}
  /\ modelCall' = NoModelCall /\ StepEnds /\ UNCHANGED <<models, cancel>>

\* The proposal and the receipt of its call are pending.
Planned ==
  /\ pipeline.pc = "planning" /\ modelCall.pc = "answered"
  /\ \E p \in Proposals :
       pipeline' = [pipeline EXCEPT !.pc = "planned", !.proposal = p, !.pending = [proposal |-> p, call |-> Receipt]]
  /\ modelCall' = NoModelCall /\ UNCHANGED <<models, cancel>>

\* The watchdog or the governor of the engine may end the run instead.
RunEnds == pipeline.pc = "planned" /\ PipelineTo("ended") /\ UNCHANGED <<models, modelCall, cancel>>

\* The worker needs the receipt of the proposal it executes, which is used up.
Execute ==
  /\ pipeline.pc = "planned"
  /\ IF pipeline.pending # NoProvenance /\ pipeline.pending.proposal = pipeline.proposal
     THEN /\ StartCall("worker", pipeline.pending.call.step)
          /\ pipeline' = [pipeline EXCEPT !.pc = "executing", !.pending = NoProvenance, !.evidence = <<pipeline.pending.call>>]
     ELSE StepEnds /\ UNCHANGED modelCall
  /\ UNCHANGED <<models, cancel>>

\* The evidence of the step holds both receipts.
Executed ==
  /\ pipeline.pc = "executing" /\ modelCall.pc = "answered"
  /\ pipeline' = [pipeline EXCEPT !.pc = "executed", !.evidence = Append(@, Receipt)]
  /\ modelCall' = NoModelCall /\ UNCHANGED <<models, cancel>>

\* The evaluator is asked about the digest of that evidence.
Evaluate ==
  /\ pipeline.pc = "executed"
  /\ StartCall("evaluator", pipeline.step) /\ PipelineTo("evaluating") /\ UNCHANGED <<models, cancel>>

Evaluated ==
  /\ pipeline.pc = "evaluating" /\ modelCall.pc = "answered"
  /\ pipeline' = [pipeline EXCEPT !.pc = "evaluated", !.evidence = Append(@, Receipt)]
  /\ modelCall' = NoModelCall /\ UNCHANGED <<models, cancel>>

NextStep == pipeline.pc = "evaluated" /\ StepEnds /\ UNCHANGED <<models, modelCall, cancel>>

\* The process stops, and another one takes up the run at the step that was not recorded.
NewProcess ==
  /\ pipeline.pc \notin {"idle", "ended"}
  /\ pipeline' = [pipeline EXCEPT !.pc = "idle", !.pending = NoProvenance, !.evidence = <<>>]
  /\ modelCall' = NoModelCall /\ UNCHANGED <<models, cancel>>

Cancelled == ~cancel /\ cancel' = TRUE /\ UNCHANGED <<models, modelCall, pipeline>>

ModelNext ==
  \/ BeginAttempt \/ Invoke \/ Retry \/ AcceptResponse \/ Plan \/ ComponentFails \/ Planned \/ RunEnds
  \/ Execute \/ Executed \/ Evaluate \/ Evaluated \/ NextStep \/ NewProcess \/ Cancelled

-----------------------------------------------------------------------------
\* Every receipt in the evidence of a step is of a call for this step, by its own role, whose
\* every attempt gave the bound provider the request the receipt names, no more often than the
\* policy allows; and a receipt of the planner supports one execution only.
ReceiptsAreBound ==
  LET e == pipeline.evidence IN
  /\ \A i \in DOMAIN e :
       /\ e[i].role = <<"planner", "worker", "evaluator">>[i] /\ e[i].step = pipeline.step
       /\ e[i].attempts = Len(e[i].sent) /\ e[i].attempts \in 1 .. MaxAttempts
       /\ \A k \in DOMAIN e[i].sent : e[i].sent[k] = [text |-> "built", bound |-> TRUE]
  /\ pipeline.pc \in {"executing", "executed", "evaluating", "evaluated"} => pipeline.pending = NoProvenance
=============================================================================
