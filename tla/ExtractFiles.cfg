SPECIFICATION Spec
CONSTANTS
    MaxDepth = 6
    Uppercase <- MCUppercase
    Sources <- MCSources
INVARIANTS Anchored ScopesFollowTree NamesFollowScopes CallsAreKept SingleBindingTyped
