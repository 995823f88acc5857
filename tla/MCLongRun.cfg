SPECIFICATION Spec
CONSTANTS
  w1 = w1
  w2 = w2
  w3 = w3
  w4 = w4
  m1 = m1
  m2 = m2
  Workers = {w1, w2, w3, w4}
  Missions = {m1, m2}
  Mission <- MCMission
  Evaluated = {w1, w2}
  Prints = {"a"}
  Scores = {0, 1}
  Exclusive = TRUE
  MinWall = 1
  MaxWall = 2
  MaxFailures = 2
  MaxDuplicates = 1
  Threshold = 1
  RequireEvidence = {m1}
  RequireEvaluation = {m1}
  MaxSteps <- MCMaxSteps
  MaxTime = 2
  None = None
INVARIANTS
  Inv
  LedgerIsFaithful
PROPERTIES
  EndsAreJustified
CHECK_DEADLOCK FALSE
