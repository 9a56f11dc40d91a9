CONSTANTS
    Null = Null
    c1 = c1
    t1 = t1
    c2 = c2
    x = x
    main = main
    Oid <- MCOid
    Links <- MCLinks
    Refs <- MCRefs
    Packs = {1, 2}
    Pushes = {u1}
    PackContents <- MCLeafContents
    CommandSets <- MCLeafCommands
    SeedRows <- MCGarbageRows
    SeedRefs <- MCNoRefs
    MaxOpenPushes = 1
    MaxVersion = 1
    JobIds = {1, 2, 3, 4}
    Slices = {s1}
    Round = 2
    MaxResurrect = 1
    MaxChains = 1
    MaxFaults = 1
SPECIFICATION GcSpec
CHECK_DEADLOCK FALSE
INVARIANTS
    CleanSlate
