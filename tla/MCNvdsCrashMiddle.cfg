SPECIFICATION Spec
SYMMETRY MCKeySymmetry
CONSTANTS
    Keys = {k1, k2}
    Values <- MCMixed
    DataLen <- MCDataLen
    JunkLen <- MCJunkLen
    P = 2
    N = 3
    MaxSeq = 2
    MaxCrashes = 1
INVARIANT
    TypeOK
PROPERTY
    PowerLossContained
