SPECIFICATION Spec
CONSTANTS
    Versions <- MCVersions
    VerifyImages = TRUE
    StatusFaults = TRUE
PROPERTY
    JumpOnlyToAccepted
INVARIANT
    TypeOK
