SPECIFICATION Spec
CONSTANTS
    x = x
    y = y
    x1 = x1
    x2 = x2
    x3 = x3
    y1 = y1
    t = t
    u = u
    None = None
    Procs = {p}
    Names = {x, y}
    Rank <- MCRank
    Versions = {1, 2}
    Temps = {t, u}
    SlotRank <- MCSlotRank
    Bundles = {x1, x2, x3, y1}
    NameOf <- MCNameOf
    VersionOf <- MCVersionOf
    Assets = {x2, y1}
    Deps <- MCDeps
    Groups = {"dev"}
    Selections <- MCSelections
    Stores = {"workspace"}
    Manifests <- MCManifests
    Main = "dependencies"
    MaxCommands = 1
    MaxFaults = 1
INVARIANTS ListedIsWhole
CHECK_DEADLOCK FALSE
