SPECIFICATION Spec
CONSTANTS
  N = 6
  Size <- Sizes
  Sha <- Objects
  Base <- Bases
  Link <- Links
  NoSha = 0
  PART = 4
  RowBatch = 2
  TocFanout = 3
  MaxAttempts = 3
  MaxUploads = 2
  MaxFaults = 2
  MaxEpoch = 1
  TailFaults = {}
INVARIANTS TypeOK  PackWhole RowsPointHome
PROPERTIES CheckedAtCommit OrphansIdentical
CHECK_DEADLOCK FALSE
