SPECIFICATION Spec
CONSTANTS
    Absent = Absent
    NoRow = NoRow
    Files <- PyFiles
    Choices <- NameChoices
    Contents <- NameContents
    Empty = "empty"
    Source <- MCSource
    Lang <- Suffix
    Dir <- Parent
    Rank <- Order
    ModulePaths <- Modules
    IncludePath <- Includes
    SameBasename <- Basenames
    Procs = {p}
    EditsDuringSync = TRUE
    MaxEdits = 3
    MaxCrashes = 2
INVARIANTS NoEdgeEverStale
