CONSTANTS
  Cands <- MCCands
  Size <- MCSize
  Commits <- MCCommits
  PART = 3
  SPAN = 2
  BATCH_N = 3
  ROWS = 2
  Slices = {1, 2}
  MaxBuilds = 3
  MaxUploads = 4
  MaxFaults = 2
SPECIFICATION FairSpec
INVARIANTS BuildTypeOK BuildExact RowsExact CursorTracksUpload
PROPERTIES KeepsPromise ReplayIdentical BuildEnds
CHECK_DEADLOCK FALSE
