SPECIFICATION Spec
CONSTANTS
  rotate_bytes = 16
  rotate_interval = 2
  Lengths = {8, 12}
  MaxBatch = 2
  MaxFrames = 3
  MaxDrops = 1
  MaxTime = 3
  MaxRuns = 2
  MinDowntime = 1
  FlushFails = FALSE
INVARIANTS
  TypeOK
  EverythingRecorded
  RotationNeverTears
  FileSizeBound

  
CHECK_DEADLOCK FALSE
