SPECIFICATION Spec
CONSTANTS
    Absent = Absent
    NoRow = NoRow
    Files <- MixedFiles
    Choices <- MixedChoices
    Contents <- MixedContents
    Empty = "empty"
    Source <- MCSource
    Lang <- Suffix
    Dir <- Parent
    Rank <- Order
    ModulePaths <- Modules
    IncludePath <- Includes
    SameBasename <- Basenames
    Procs = {p}
    EditsDuringSync = FALSE
    MaxEdits = 2
    MaxCrashes = 1
INVARIANTS CallsStayInLanguage
