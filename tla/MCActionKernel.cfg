SPECIFICATION FairSpec
CONSTANTS
  c1 = c1
  c2 = c2
  c3 = c3
  p1 = p1
  p2 = p2
  t1 = t1
  t2 = t2
  Procs = {p1, p2}
  Calls = {c1, c2, c3}
  Home <- MCHome
  Audited = {p1}
  Tasks = {t1, t2}
  Workloads <- MCWorkloads
  MaxTime = 1
  ClockMayStepBack = TRUE
  NoCall = NoCall
INVARIANTS
  Inv
  ConsumptionIsSound
PROPERTIES
  EveryCallReturns
  ImplementsSingleUse
CHECK_DEADLOCK FALSE
