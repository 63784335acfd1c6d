SPECIFICATION MCSpec
CONSTANTS
    r1 = r1
    r2 = r2
    a = a
    A = A
    b = b
    g1 = g1
    g2 = g2
    Request = {r1, r2}
    Path = {a, A, b}
    Lower <- MCLower
    Linked = {b}
    Servers <- MCServers
    Asks <- MCAsks
    Starts <- MCStarts
    Reader = {g1, g2}
    LastVersion = 3
    Size <- MCSize
    Small = 2
    Scripts <- MCScripts
    SmallBody = 1
SYMMETRY MCSymmetry
INVARIANTS
    UploadsAreClean
    
    RequestsKeepTheirBounds
PROPERTY LostOnlyToReplacement
CHECK_DEADLOCK FALSE
