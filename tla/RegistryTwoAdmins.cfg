SPECIFICATION Spec
CONSTANTS
    v1 = v1
    v2 = v2
    b1 = b1
    b2 = b2
    c1 = c1
    None = None
    NoOne = NoOne
    Tokens = {t1, t2}
    Admins = {a, b}
    Routes = {"server"}
    Ops = {"add", "revoke"}
    MaxFaults = 0
    Publishers = {}
    Clients = {}
    Versions <- MCVersions
    Bundles <- MCBundles
    VersionOf <- MCVersionOf
    Malformed = {m}
    Tools = {"http"}
INVARIANTS TokensStayAsTold
CHECK_DEADLOCK FALSE
