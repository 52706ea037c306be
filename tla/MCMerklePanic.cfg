CONSTANTS
    Keys <- MCKeys
    Vals = {v1}
    None = None
    NoPtr = NoPtr
    Missing = Missing
    MaxDirty = 5
    MaxNodes = 6

SPECIFICATION Spec

INVARIANT InsertCompletes
