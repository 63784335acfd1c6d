SPECIFICATION Spec
CONSTANTS
    Sessions = {"A", "B"}
    Paths <- MCPaths
    Norm <- MCNorm
    Below <- MCBelow
    NoRequest = NoRequest
    Requests <- MixedRequests
    MaxConcurrent = 2
    MaxKept = 1
    MaxTasks = 3
INVARIANTS
    QueueConsistent
    ConflictNeedsCancel
PROPERTIES
    ListIsKept
    
