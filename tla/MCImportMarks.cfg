SPECIFICATION Spec
CONSTANTS
  N = 6
  Size <- Sizes
  Sha <- Objects
  Base <- Bases
  Link <- Links
  NoSha = 0
  PART = 4
  RowBatch = 2
  TocFanout = 3
  MaxAttempts = 3
  MaxUploads = 2
  MaxFaults = 1
  MaxEpoch = 0
  TailFaults = {"order"}
INVARIANTS RowsPointHome
CHECK_DEADLOCK FALSE
