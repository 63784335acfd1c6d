SPECIFICATION SystemSpec
CONSTANTS
    Sessions = {"A", "B"}
    Paths <- MCPaths
    Norm <- MCNorm
    Below = {}
    NoRequest = NoRequest
    Requests <- SharedDestination
    MaxConcurrent = 2
    MaxKept = 1
    MaxTasks = 2
    Absent = Absent
    Faults = {}
    Positional = {"B"}
    Shells = {}
    FirstFiles <- Sources
PROPERTIES
    ResultKept
