SPECIFICATION Spec
CONSTANTS
    Keys = {k1, k2}
    Values = {v1, v2}
    DataLen <- MCDataLen
    JunkLen <- MCJunkLen
    P = 2
    N = 2
    MaxSeq = 3
    MaxCrashes = 1
PROPERTY
    PutOkStored
