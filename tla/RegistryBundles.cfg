SPECIFICATION Spec
CONSTANTS
    v1 = v1
    v2 = v2
    b1 = b1
    b2 = b2
    c1 = c1
    None = None
    NoOne = NoOne
    Tokens = {t1}
    Admins = {a}
    Routes = {"server"}
    Ops = {"add"}
    MaxFaults = 2
    Publishers = {p, q}
    Clients = {c}
    Versions <- MCVersions
    Bundles <- MCBundles
    VersionOf <- MCVersionOf
    Malformed = {m}
    Tools = {"http"}
INVARIANTS StoredStaysListed ListedWithoutFaults HeaderMatchesBody InstalledIsStored
PROPERTIES KeepsContract
