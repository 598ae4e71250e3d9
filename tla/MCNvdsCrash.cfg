SPECIFICATION Spec
SYMMETRY MCSymmetry
CONSTANTS
    Keys = {k1, k2}
    Values = {v1}
    DataLen <- MCDataLen
    JunkLen <- MCJunkLen
    P = 3
    N = 2
    MaxSeq = 3
    MaxCrashes = 3
INVARIANT
    OneLiveCopy
PROPERTIES
    OthersUndisturbed
    PowerLossContained
