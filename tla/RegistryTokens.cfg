SPECIFICATION Spec
CONSTANTS
    v1 = v1
    v2 = v2
    b1 = b1
    b2 = b2
    c1 = c1
    None = None
    NoOne = NoOne
    Tokens = {t1, t2, t3}
    Admins = {a, b}
    Routes = {"server", "cli"}
    Ops = {"add", "revoke"}
    MaxFaults = 2
    Publishers = {}
    Clients = {}
    Versions <- MCVersions
    Bundles <- MCBundles
    VersionOf <- MCVersionOf
    Malformed = {m}
    Tools = {"http"}
INVARIANTS TokensAsTold
CHECK_DEADLOCK FALSE
