SPECIFICATION Spec
CONSTANTS
    Packages <- MCPackages
    Paths <- MCPaths
    Lines <- MCLines
    Nodes <- MCNodes
    HasCode = {"A"}
    Matching <- MCMatching
    ChunkLines = 4
    Sources <- MCSources
    Found <- MCFound
    Scopes <- MCScopes
    Settings <- MCSettings
    Variants <- MCVariants
    Unit = 60
    RrfK = 2
    FetchLimit = 3
    MinBucket = 2
    ExpansionShare = 5
    AnchorFloor = 5
    Pass1K = 1
    Scores = {0, 1, 2}
    Floor = 1
    SnippetLines = 3
    DocGap = 2
    CodeGap = 3
    ContentCap = 6
INVARIANTS PoolIsFair RankingIsComplete ResultsAreApart DocLinesOnce
PROPERTIES FusionConserves AnswerIsComplete
