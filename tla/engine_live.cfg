SPECIFICATION Spec
CONSTANTS
  None = None
  b1 = b1
  b2 = b2
  Api = {}
  Remote = r
  Bands <- MCBands
  Configs <- MCDroppedBand
  MaxLosses = 1
  MaxStarts = 1
PROPERTIES
  StoppedLoopEnds
  ScanningStatusShown
