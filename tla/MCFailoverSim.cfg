SPECIFICATION Spec
CONSTANTS
  c1 = c1
  c2 = c2
  o1 = o1
  o2 = o2
  ruku = ruku
  core = core
  Controllers = {c1, c2}
  Ops = {o1, o2}
  Actors = {ruku, core}
  Actor <- MCActor
  MaxEpoch = 3
  MaxEffects = 3
  Nobody = Nobody
SYMMETRY MCSymmetry
CHECK_DEADLOCK FALSE
INVARIANTS
  Inv
  RestartsAreTrue
PROPERTIES
  NoOverlap
  SuccessIsReal
