SPECIFICATION Spec
CONSTANTS
  uhf = uhf
  None = None
  c1 = c1
  c2 = c2
  Clients = {c1, c2}
  Requests <- MCRequests
  Cap <- MCCap
  Bucket = 2
  TTL = 4
  WarmTTL = 6
  LockTTL = 2
  Blocking = 1
  WarmEvery = 2
  MaxPerCycle = 1
  MaxCompute = 2
  MaxWarm = 2
  MaxTime = 6
  MaxEvents = 3
INVARIANTS
  SingleFlight
  KeptWarm
  FreshEnough
SYMMETRY Symmetry
CHECK_DEADLOCK FALSE
