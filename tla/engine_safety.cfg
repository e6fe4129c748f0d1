SPECIFICATION Safe
CONSTANTS
  None = None
  b1 = b1
  b2 = b2
  Api = {a1, a2}
  Remote = r
  Bands <- MCBands
  Configs <- MCDisabledBand
  MaxLosses = 0
  MaxStarts = 2
INVARIANTS
  OneLiveLoop
  IdleBandCleared
PROPERTY KeepsSessions
