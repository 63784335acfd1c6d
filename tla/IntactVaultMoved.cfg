SPECIFICATION MCSpec
CONSTANTS
    p1 = p1
    p2 = p2
    f1 = f1
    f2 = f2
    Proc = {p1, p2}
    Full = {p1}
    MaxSaves = 3
    MaxKeys = 2
    MaxStarts = 4
    Id = {"s1", "s2", "s3"}
    Name = {"a", "A", "b"}
    Lower <- MCLower
    TreeDepth = 2
    Label = {"red"}
    NoLabel = "none"
    Batch <- MCBatch
    StartSites <- MCStartSites
    StartLayout <- MCStartLayout
    MaxBatches = 0
    MaxViews = 0
    MaxFails = 1
    MaxUndo = 2
    FileTask = {f1}
    Asked <- MCAsked
    FileName = {"x", "X", "x1", "x2", "zip"}
    Folded <- MCFolded
    Copies <- MCCopies
    Archive = "zip"
    Servers <- MCMachines
    Contents <- MCContents
    SyncFile = {"a", "b"}
    Nested = {"b"}
    Size = {1, 2}
    Budget = 2
    Largest = 2
    Chunk = 1
    Tolerance = 1
    MaxClock = 3
    MaxVersion = 2
    MaxComparisons = 0
PROPERTY IntactVaultStays
CHECK_DEADLOCK FALSE
