SPECIFICATION FairSpec
CONSTANTS
  None = None
  Clients = {c1}
  Loops = {l1}
  Capacity = 1
INVARIANTS
  NoSendOnClosed
  StoreClosedLast
PROPERTIES
  BroadcastsEnd
  CloseReturns
  GoneForgotten
CHECK_DEADLOCK FALSE
