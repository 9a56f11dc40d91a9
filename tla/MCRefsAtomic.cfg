CONSTANTS
  o1 = o1  o2 = o2  t1 = t1  p1 = p1  p2 = p2
  NoOid = NoOid
  Admin = Admin
  Names <- MCNames
  Heads <- MCHeads
  MainRef = 2
  Oids <- MCOids
  Parents <- MCParents
  Tokens = {t1}
  Scopes <- MCScopes
  Patterns <- MCPatterns
  Pushes = {p1, p2}
  PackSets <- MCPackSets
  Batches <- MCBatches
  RemoteHeads = {1}
  MaxRefs = 2
  MaxOpen = 2
  MaxTokens = 1
  MaxPending = 1
  MaxObjects = 3
  MaxEpoch = 1
SYMMETRY PushSymmetry
SPECIFICATION Spec
INVARIANT AtomicAllOrNothing
CHECK_DEADLOCK FALSE
