SPECIFICATION FairSpec
CONSTANTS
    Versions <- MCVersions
    VerifyImages = TRUE
    StatusFaults = FALSE
INVARIANTS
    AlwaysBootable
    RunningIsCurrent
PROPERTIES
    RunningBankKept
    BackToApp
