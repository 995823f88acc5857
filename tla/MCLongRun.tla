------------------------------ MODULE MCLongRun ------------------------------
(* Instances of LongRun for TLC. *)
EXTENDS LongRun, TLC

CONSTANTS w1, w2, w3, w4, m1, m2

\* The third worker loads another mission, which requires neither evidence nor an
\* evaluator; the fourth one has no evaluator for the first mission.
MCMission == [w \in Workers |-> IF w = w3 THEN m2 ELSE m1]

MCMaxSteps == [w \in Workers |-> IF w \in {w1, w2} THEN 2 ELSE 1]
=============================================================================
