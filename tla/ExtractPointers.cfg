SPECIFICATION Spec
CONSTANTS
    MaxDepth = 6
    Uppercase <- MCUppercase
    Sources <- GoFiles
INVARIANT GoMethodsReachTheirType
