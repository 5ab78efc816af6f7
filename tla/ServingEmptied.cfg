SPECIFICATION Spec
CONSTANTS
    Plans <- MCPlans
    MaxRevision = 2
    ImpactLimit = 500
    MaxTokens = 10
    Inside <- MCInside
    Others <- MCOthers
    Graphs <- MCGraphs
    Docs <- MCDocs
    TopK = 3
    OutputN = 2
    ByteBudget = 8
INVARIANT PackedIsComplete
CHECK_DEADLOCK FALSE
