CONSTANTS
    h1 = h1  h2 = h2  c1 = c1  c2 = c2
    Hashes <- MCHashes
    Cptrs <- MCCptrs
    EmptyHash = EmptyHash
    ZeroHash = ZeroHash
    NullPtr = NullPtr
    None = None
    Panic = Panic
    RecSize = 40
    PageSize = 4096
    RootCap = 1
    MaxRecs = 3
SYMMETRY MCSymmetry
SPECIFICATION Spec
INVARIANT LookupComplete
