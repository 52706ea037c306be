CONSTANTS
    Addrs <- MCAddrs
    a1 = a1
    a2 = a2
    SKeys = {s1}
    s1 = s1
    Vals = {x1}
    x1 = x1
    Empty = Empty
    Missing = Missing
    NoObj = NoObj
    NoRec = NoRec
    NoneObj = NoneObj
    NotCached = NotCached
    MaxBal = 1
    Nonces = {0}
    MaxSnaps = 0
    MaxCommits = 2
SPECIFICATION Spec
SYMMETRY MCSymmetry
INVARIANT RootDurable
