----------------------------- MODULE MCRoomBroker -----------------------------
(* Instances of RoomBroker for TLC. *)
EXTENDS RoomBroker, TLC

CONSTANTS r1, r2, r3, eimy, mod, work

\* A broadcast that does not fit the queue beside another event, an event for one
\* participant, and one that wakes nobody.
MCDraft ==
  (r1 :> [actor |-> eimy, target |-> Star, wakes |-> TRUE]) @@
  (r2 :> [actor |-> eimy, target |-> mod, wakes |-> TRUE]) @@
  (r3 :> [actor |-> mod, target |-> Star, wakes |-> FALSE])
=============================================================================
