SPECIFICATION FairSpec
CONSTANTS
    Keys = {k1, k2, k3}
    Values <- MCMixed
    DataLen <- MCDataLen
    JunkLen <- MCJunkLen
    P = 3
    N = 2
    MaxSeq = 3
    MaxCrashes = 0
INVARIANTS
    TypeOK
    CountsExact
PROPERTIES
    ImplementsKvStore
    NoSpaceOnlyWhenFull
    EveryCallReturns
