SPECIFICATION MCSpec
CONSTANTS
    r1 = r1
    r2 = r2
    o1 = o1
    o2 = o2
    c1 = c1
    c2 = c2
    c3 = c3
    k1 = k1
    k2 = k2
    Talker = {talker}
    Reader = {r1, r2}
    Lister = {lister}
    Writer = {writer}
    Conn = {f1, f2, f3}
    None = None
    MaxConns = 2
    Ranges = 2
    Op = {o1, o2}
    Up = Up
    NoChan = NoChan
    Chunks = 2
    MaxGen = 3
    MaxChan = 4
    Command = {c1, c2, c3}
    Probe = Probe
    Key = {k1, k2}
    Parts = 3
    ParallelUploads = 2
    ParallelDeletes = 2
    MaxPuts = 1
    Generations = 2
    MaxSeq = 2
    Redraws = 1
    t1 = t1
    t2 = t2
    t3 = t3
    d1 = d1
    w1 = w1
    FileReader = {d1}
    FileWriter = {w1}
    Asker = {t1, t2, t3}
    Teams <- MCTeams
    NoOne = NoOne
    Length = 3
    ReadChunk = 2
    MaxReadsInFlight = 2
    OutLen = 1
    WriteChunks = 2
    MaxWritesInFlight = 1
    ReplyBudget = 4
    Ids = 5
INVARIANTS
    AnswersAreOwn
    ConnectionsBounded
    OutcomeIsTrue
    
    StreamIsShared
    
PROPERTY ChannelIsSound
CHECK_DEADLOCK FALSE
