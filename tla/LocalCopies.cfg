SPECIFICATION MCSpec
CONSTANTS
    da = da
    dax = dax
    db = db
    dbx = dbx
    fa = fa
    fax = fax
    fb = fb
    t1 = t1
    t2 = t2
    s1 = s1
    s2 = s2
    k1 = k1
    k2 = k2
    k3 = k3
    Entry = {da, dax, db, dbx}
    Above <- MCAbove
    LastChange = 4
    MaxOutbox = 3
    DeleteRemote = TRUE
    CacheTask = {t1, t2}
    File = {fa, fax, fb}
    Below <- MCBelow
    SiteOf <- MCSite
    FileSize = {1, 4}
    Quotas = {4, 16}
    DefaultQuota = 4
    Calls <- MCCalls
    Open = {fax}
    ChunkKey = {k1, k2, k3}
    Lengths = {1, 3}
    MaxChunks = 2
    MaxBytes = 4
    LastData = 4
SYMMETRY MCSymmetry
INVARIANTS
    
    CacheIsAccounted
PROPERTY OnlyCleanIsGivenUp
CHECK_DEADLOCK FALSE
