SPECIFICATION FairSpec
CONSTANTS
    x = x
    y = y
    x1 = x1
    x2 = x2
    x3 = x3
    y1 = y1
    t = t
    u = u
    None = None
    Procs = {p, q}
    Names = {x}
    Rank <- MCRank
    Versions = {1}
    Temps = {t, u}
    SlotRank <- MCSlotRank
    Bundles = {x1, x2}
    NameOf <- RaceNameOf
    VersionOf <- RaceVersionOf
    Assets = {x2}
    Deps <- RaceDeps
    Groups = {}
    Selections <- NoSelection
    Stores = {"workspace", "global"}
    Manifests <- RaceManifests
    Main = "dependencies"
    MaxCommands = 2
    MaxFaults = 1
INVARIANTS InstalledWhole ResolutionAgrees
PROPERTIES CommandsEnd
CHECK_DEADLOCK FALSE
