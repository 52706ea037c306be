CONSTANTS
    k1 = k1  k2 = k2
    Keys = {k1, k2}
    Vals = {v1, v2}
    Missing = Missing
    NotCached = NotCached
    MaxCommits = 3
SYMMETRY MCSymmetry
SPECIFICATION Spec
INVARIANT TypeOK
INVARIANT CacheCoherent
INVARIANT RootDurable
