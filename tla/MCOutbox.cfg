CONSTANTS
  JobIds = {1, 2}
  Slices = {1, 2}
  Batch = 2
  MaxPending = 2
  MaxAttempts = 3
  MaxStrands = 2
  MaxEvents = 3
  MaxFaults = 2
SPECIFICATION LiveSpec
INVARIANTS TypeOK InOrder NothingLost EveryEventOwned
PROPERTIES Delivered
CHECK_DEADLOCK FALSE
