SPECIFICATION IngressSpec
CONSTANTS
  LastTs = 3
  Mapped = {1, 3}
  Window = 3
  MaxLapses = 0
  MaxEvents = 6
  Other = 99
INVARIANTS
  IngestedOnce
CHECK_DEADLOCK FALSE
