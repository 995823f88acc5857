--------------------------- MODULE MCActionKernel ---------------------------
(* An instance of ActionKernel for TLC. *)
EXTENDS ActionKernel, TLC

CONSTANTS c1, c2, c3, p1, p2, t1, t2

Plain(t) == [task |-> t, expires |-> 1, early |-> "NONE", late |-> "NONE",
             evidence |-> "FITS"]

\* c1 and c2 race on one kernel, c3 calls a kernel that was given no sink.
MCHome == (c1 :> p1) @@ (c2 :> p1) @@ (c3 :> p2)

\* Requests that are in order, that fail a check before and after the clock is
\* read, and whose evidence is too large.
MCRequests == {Plain(t1), Plain(t2),
               [Plain(t1) EXCEPT !.early = "ACTOR_MISMATCH"],
               [Plain(t1) EXCEPT !.late = "TARGET_DENIED"],
               [Plain(t1) EXCEPT !.evidence = "OVERSIZED"]}

MCWorkloads == {f @@ (c3 :> Plain(t1)) : f \in [{c1, c2} -> MCRequests]}
=============================================================================
