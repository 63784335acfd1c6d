SPECIFICATION SystemFairSpec
CONSTANTS
    Sessions = {"A", "B"}
    Paths <- MCPaths
    Norm <- MCNorm
    Below = {}
    NoRequest = NoRequest
    Requests <- SharedDestination
    MaxConcurrent = 2
    MaxKept = 1
    MaxTasks = 2
    Absent = Absent
    Faults = {"read", "write", "shell"}
    Positional = {"B"}
    Shells = {"B"}
    FirstFiles <- Sources
PROPERTIES
    ResultsHold
    QueueIsImplemented
