SPECIFICATION IngressSpec
CONSTANTS
  LastTs = 3
  Mapped = {1, 3}
  Window = 3
  MaxLapses = 2
  MaxEvents = 6
  Other = 99
INVARIANTS
  IngressInv
  SessionIsFaithful
CHECK_DEADLOCK FALSE
