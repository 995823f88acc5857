----------------------------- MODULE SingleUse -----------------------------
(***************************************************************************)
(* What an at-most-once admission promises, whatever implements it: an     *)
(* item (a task id, a replay key) is given to at most one caller, is never *)
(* given back, and only the caller it was given to may perform the effect  *)
(* it stands for.  The Action Kernel's task reservation and the replay     *)
(* claim of the CyberHIVE bridge are both shown to implement it.           *)
(***************************************************************************)
CONSTANTS
  Items,   \* what is admitted at most once
  Actors,  \* the concurrent calls that ask for an item
  Nobody   \* the owner of an item nobody was given

VARIABLES
  owner,   \* owner[i]: the actor item i was given to, or Nobody
  acted    \* <<a, i>>: actor a performed the effect of item i

vars == <<owner, acted>>

Init ==
  /\ owner = [i \in Items |-> Nobody]
  /\ acted = {}

\* Admission: the item is free and becomes the actor's for ever.
Claim(a, i) ==
  /\ owner[i] = Nobody
  /\ owner' = [owner EXCEPT ![i] = a]
  /\ UNCHANGED acted

\* The effect: performed by the owner, once.
Act(a, i) ==
  /\ owner[i] = a
  /\ <<a, i>> \notin acted
  /\ acted' = acted \cup {<<a, i>>}
  /\ UNCHANGED owner

Next == \E a \in Actors, i \in Items : Claim(a, i) \/ Act(a, i)

Spec == Init /\ [][Next]_vars
=============================================================================
