SPECIFICATION StoreSpec
CONSTANTS
  Down = Down
  Bands = {uhf, vhf}
  Minute = 2
  Window = 3
  Retention = 4
  Period = 2
  MaxScans = 4
  MaxTime = 9
  Target = 200
  MaxLength = 800
INVARIANTS
  PreviewCovers
  OldGone
  SamplesKept
CHECK_DEADLOCK FALSE
