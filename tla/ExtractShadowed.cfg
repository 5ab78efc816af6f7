SPECIFICATION Spec
CONSTANTS
    MaxDepth = 6
    Uppercase <- MCUppercase
    Sources <- ReboundFiles
INVARIANT TypedByLastBinding
