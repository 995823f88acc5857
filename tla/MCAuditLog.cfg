SPECIFICATION Spec
CONSTANTS
  e1 = e1
  e2 = e2
  e3 = e3
  e4 = e4
  a = a
  b = b
  Events = {e1, e2, e3, e4}
  Oversized = {e4}
  Publishers = {a, b}
  Identities = {"db", "other"}
  Identity <- MCIdentity
  Damaging = {"EDIT", "LOSS", "RESTORE"}
  Forged = Forged
  Free = Free
SYMMETRY MCSymmetry
INVARIANTS
  Inv
  TrailIsFaithful
PROPERTIES
  AnchorsAdvance
CHECK_DEADLOCK FALSE
