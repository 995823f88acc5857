---------------------------- MODULE MCFailoverSim ----------------------------
(* Instances of FailoverSim for TLC. *)
EXTENDS FailoverSim, TLC

CONSTANTS ruku, core, c1, c2, o1, o2

\* The actors of two requests.
MCActor == [o \in Ops |-> IF o = o1 THEN ruku ELSE core]

MCSymmetry == Permutations(Controllers)
=============================================================================
