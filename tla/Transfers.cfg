SPECIFICATION MCFairSpec
CONSTANTS
    Jobs = {"j"}
    File <- MCFile
    Absent = Absent
    InitialFS <- MCInitialFS
    Plans <- AnyPlans
    Node <- MCNode
    Root = "root"
    Parent <- MCParent
    Kind <- MCKind
    Key <- MCKey
    FirstTrees <- MCFirstTrees
    Late <- MCLate
    MaxDepth = 2
    TreePlans <- MCPlans
    MaxEdits = 4
INVARIANTS
    CompletedIsCopied
    SourceSurvives
    
    CompletedIsWhole
    DeletesOnlyCopied
    EditsArrive
PROPERTIES
    
    TransfersEnd
