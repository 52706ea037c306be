CONSTANTS
    h1 = h1  h2 = h2  b1 = b1  b2 = b2
    AhaLens <- MCAhaLens
    Items <- MCItems
    Branches <- MCBranches
    MaxArr <- MCMaxArrOverflow
    MaxSlots = 2
    MaxRoots = 4
    EmptyItem = EmptyItem
    NoVer = NoVer
SYMMETRY MCSymmetry
SPECIFICATION Spec
INVARIANT AhaLenStored
