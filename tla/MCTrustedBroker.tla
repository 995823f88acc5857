--------------------------- MODULE MCTrustedBroker ---------------------------
(* An instance of TrustedBroker for TLC. *)
EXTENDS TrustedBroker, TLC

CONSTANTS c1, c2, p1, p2, t1, x, y

\* c2 runs in the process that was started after, or beside, that of c1.
MCHome == (c1 :> p1) @@ (c2 :> p2)

\* The task of c1 carries a requested_at that may still be in the future.
MCRequestedAt == (c1 :> 1) @@ (c2 :> 0)

\* Both calls present one authorization, or the same task id under two correlation ids.
KeyWith(id) == [actor |-> "a", task |-> t1, correlation |-> id]
MCAuthorizations ==
  {(c1 :> KeyWith(x)) @@ (c2 :> KeyWith(x)), (c1 :> KeyWith(x)) @@ (c2 :> KeyWith(y))}

Plain(e) == [task |-> t1, expires |-> e, early |-> "NONE", late |-> "NONE", evidence |-> "FITS"]

MCWorkloads ==
  {(c1 :> Plain(2)) @@ (c2 :> Plain(1)),
   (c1 :> Plain(2)) @@ (c2 :> [Plain(2) EXCEPT !.early = "ACTOR_MISMATCH"])}
=============================================================================
