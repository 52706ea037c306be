\* One value: the shape of the trie does not depend on values, and a
\* second one multiplies the states past what the run can afford with the
\* node file long enough (MaxNodes 6) for a second batch to add a third
\* entry to a committed branch and then delete one.
CONSTANTS
    Keys <- MCKeys
    Vals = {v1}
    None = None
    NoPtr = NoPtr
    Missing = Missing
    MaxDirty = 5
    MaxNodes = 6

SPECIFICATION Spec

\* The only state without a successor is the one after the insert panic
\* (merkle.rs 199): the process is gone.
CHECK_DEADLOCK FALSE

INVARIANT TypeOK
INVARIANT HashMatchesReference
INVARIANT DirtyTreeOK
