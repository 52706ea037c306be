CONSTANTS
    PageSize = 2
    CleanCap = 1
    Bytes = {1, 2}
    MaxLen = 4
SPECIFICATION FairSpec
INVARIANT TypeOK
INVARIANT ViewIsLogical
PROPERTY FlushedSurvives
PROPERTY FlushCompletes
