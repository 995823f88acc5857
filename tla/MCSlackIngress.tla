---------------------------- MODULE MCSlackIngress ----------------------------
(* Instances of SlackIngress for TLC. *)
EXTENDS SlackIngress, TLC
=============================================================================
