CONSTANTS
    Keys <- MCKeysRefine
    Vals = {v1}
    None = None
    NoPtr = NoPtr
    Missing = Missing
    MaxDirty = 5
    MaxNodes = 4

SPECIFICATION Spec

\* The only state without a successor is the one after the insert panic
\* (merkle.rs 199): the process is gone.
CHECK_DEADLOCK FALSE

PROPERTY KVSpec
