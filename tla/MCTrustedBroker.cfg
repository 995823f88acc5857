SPECIFICATION BrokerSpec
CONSTANTS
  c1 = c1
  c2 = c2
  p1 = p1
  p2 = p2
  t1 = t1
  x = x
  y = y
  Procs = {p1, p2}
  Calls = {c1, c2}
  Home <- MCHome
  Audited = {p1, p2}
  Tasks = {t1}
  Workloads <- MCWorkloads
  RequestedAt <- MCRequestedAt
  Actors = {"a"}
  Correlations = {x, y}
  Authorizations <- MCAuthorizations
  MaxEntries = 1
  MaxPerActor = 1
  MaxLifetime = 1
  MaxTime = 2
  ClockMayStepBack = TRUE
  NoCall = NoCall
INVARIANTS
  OneAuditedDispatch
  ClaimsDrain
CHECK_DEADLOCK FALSE
