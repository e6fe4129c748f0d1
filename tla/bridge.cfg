SPECIFICATION Spec
CONSTANTS
  uhf = uhf
  vhf = vhf
  low = low
  high = high
  None = None
  Bands = {uhf, vhf}
  Layouts <- MCLayouts
  FirstLayout <- MCFirst
  Foreign = {vhf}
  Interval = 2
  MaxTime = 3
  MaxQueue = 3
  MaxEvents = 3
INVARIANTS
  StatusMirrored
  BandsMirrored
  EditsSurvive
  ScansPaced
CHECK_DEADLOCK FALSE
