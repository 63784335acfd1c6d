SPECIFICATION MCSpec
CONSTANTS
    t1 = t1
    t2 = t2
    a1 = a1
    q1 = q1
    q2 = q2
    q3 = q3
    w1 = w1
    c1 = c1
    l1 = l1
    Task = {t1, t2}
    Id = {a1}
    MaxCommands = 6
    Req = {q1, q2, q3}
    Permits = 1
    Capacity = 2
    MaxConnections = 2
    WriteCall = {w1}
    CommandCall = {c1}
    ReadCall = {l1}
    MaxChanges = 2
SYMMETRY MCSymmetry
INVARIANTS
    
    
    RunsOnlyIfAllowed
    PersonIsToldTheTruth
CHECK_DEADLOCK FALSE
