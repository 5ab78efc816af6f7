SPECIFICATION Spec
CONSTANTS
    Absent = Absent
    NoRow = NoRow
    Files <- DirectedFiles
    Choices <- DirectedChoices
    Contents <- DirectedContents
    Empty = "empty"
    Source <- MCSource
    Lang <- Suffix
    Dir <- Parent
    Rank <- Order
    ModulePaths <- Modules
    IncludePath <- Includes
    SameBasename <- Basenames
    Procs = {p}
    EditsDuringSync = FALSE
    MaxEdits = 1
    MaxCrashes = 0
PROPERTIES DependencyDirectedExact
