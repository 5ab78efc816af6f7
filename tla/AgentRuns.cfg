SPECIFICATION Spec
CONSTANTS
    r1 = r1  r2 = r2  s1 = s1  s2 = s2
    Runs = {r1, r2}
    Sessions = {s1, s2}
    Requests <- MCRequests
    Tools = {"query", "read"}
    Lines = {"a", "b", "c", "x", "y"}
    Told <- MCTold
    Citations <- MCCitations
    MaxRounds = 1
    Talks = {TRUE}
    Claims <- MCClaims
    DefaultCap = 1
    MaxRestarts = 1
INVARIANTS StreamIsWhole VerifiedIsGrounded GroundedIsVerified
PROPERTIES ConversationGrows EveryRunReplies
