SPECIFICATION FairSpec
CONSTANTS
  r1 = r1
  r2 = r2
  r3 = r3
  eimy = eimy
  mod = mod
  work = work
  Requests = {r1, r2, r3}
  Draft <- MCDraft
  Actors = {eimy, mod, work}
  Sinks = {mod, work}
  QueueSize = 2
  MaxStarts = 2
  None = None
INVARIANTS
  Inv
PROPERTIES
  DrainedIsAttempted
  PostsComplete
  AcceptedIsAttempted
CHECK_DEADLOCK FALSE
