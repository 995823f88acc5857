---------------------------- MODULE MCHiveBridge ----------------------------
(* An instance of HiveBridge for TLC. *)
EXTENDS HiveBridge, TLC

CONSTANTS c1, c2, c3, p1, p2

K(a, t) == [actor |-> a, task |-> t]
MCKeys == {K("a", "t"), K("a", "u")}

\* A task of lifetime x presented with its own receipt.
Ask(p, k, x, g) ==
  [proc    |-> p, guard |-> g,
   task    |-> [key |-> k, requested |-> 0, expires |-> x],
   receipt |-> [allowed |-> TRUE, key |-> k, expires |-> x, completed |-> 0]]

MCWorkloads ==
  LET t == K("a", "t")
      u == K("a", "u")
  IN { (c1 :> x) @@ (c2 :> y) :
         x \in {Ask(p1, t, 2, "DURABLE"), Ask(p1, t, 2, "FRESH")},
         y \in {Ask(p1, t, 2, "FRESH"), Ask(p2, t, 2, "DURABLE"), Ask(p1, u, 1, "DURABLE"),
                [Ask(p1, u, 1, "DURABLE") EXCEPT !.receipt.expires = 2],
                Ask(p1, u, 1, "NONE"), [Ask(p1, u, 1, "DURABLE") EXCEPT !.receipt.allowed = FALSE],
                [Ask(p1, u, 2, "DURABLE") EXCEPT !.task.requested = 1]} }
=============================================================================
