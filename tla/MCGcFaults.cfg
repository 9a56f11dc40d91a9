CONSTANTS
    Null = Null
    c1 = c1
    t1 = t1
    c2 = c2
    x = x
    main = main
    Oid <- MCOid
    Links <- MCLinks
    Refs <- MCRefs
    Packs = {1, 2, 3, 4}
    Pushes = {}
    PackContents <- MCPackContents
    CommandSets <- MCCommandSets
    SeedRows <- MCSeedRows
    SeedRefs <- MCSeedRefs
    MaxOpenPushes = 1
    MaxVersion = 1
    JobIds = {1, 2, 3, 4, 5}
    Slices = {s1, s2}
    Round = 2
    MaxResurrect = 1
    MaxChains = 1
    MaxFaults = 1
SPECIFICATION GcFairSpec
CHECK_DEADLOCK FALSE
INVARIANTS
    LiveClosed
    LiveBytes
    SurvivorsClosed
    OwnedPhase
    NoStrayBuild
PROPERTIES
    OnlySweepForgets
    ChainEnds
