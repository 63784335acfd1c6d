SPECIFICATION FairSpec
CONSTANTS
    Sessions = {"A", "B"}
    Paths <- MCPaths
    Norm <- MCNorm
    Below <- MCBelow
    NoRequest = NoRequest
    Requests <- TwoRequests
    MaxConcurrent = 1
    MaxKept = 1
    MaxTasks = 2
PROPERTIES
    EveryTaskEnds
