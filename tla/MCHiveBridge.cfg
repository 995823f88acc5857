SPECIFICATION Spec
CONSTANTS
  c1 = c1
  c2 = c2
  c3 = c3
  p1 = p1
  p2 = p2
  Procs = {p1, p2}
  Calls = {c1, c2}
  Keys <- MCKeys
  Workloads <- MCWorkloads
  MaxEntries = 1
  MaxPerActor = 1
  MaxLifetime = 2
  MaxTime = 2
  ClockMayStep = TRUE
  NoCall = NoCall
INVARIANTS
  Inv
  GuardsAreFair
PROPERTIES
  AcceptedWithinAuthorization
  ImplementsSingleUse
CHECK_DEADLOCK FALSE
