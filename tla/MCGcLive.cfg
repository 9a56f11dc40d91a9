CONSTANTS
    Null = Null
    c1 = c1
    t1 = t1
    c2 = c2
    x = x
    main = main
    Oid <- MCOid
    Links <- MCPushLinks
    Refs <- MCRefs
    Packs = {1, 2, 3}
    Pushes = {u1}
    PackContents = {}
    CommandSets <- MCMoveCommands
    SeedRows <- MCOneRows
    SeedRefs <- MCSeedRefs
    MaxOpenPushes = 1
    MaxVersion = 1
    JobIds = {1, 2, 3, 4}
    Slices = {s1, s2}
    Round = 2
    MaxResurrect = 1
    MaxChains = 1
    MaxFaults = 1
SPECIFICATION GcFairSpec
CHECK_DEADLOCK FALSE
PROPERTIES
    ChainEnds
