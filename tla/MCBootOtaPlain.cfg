SPECIFICATION Spec
CONSTANTS
    Versions <- MCVersions
    VerifyImages = FALSE
    StatusFaults = FALSE
INVARIANTS
    StaleFlagsHarmless
    OnlyOneNewer
