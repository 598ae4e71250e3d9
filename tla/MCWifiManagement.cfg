SPECIFICATION Spec
SYMMETRY MCSymmetry
CONSTANTS
    Tasks = {t1, t2}
    Requests <- MCRequests
    QSize = 2
    WaitSize = 2
    RetryLimit = 2
    PollLimit = 2
    MaxOutside = 2
INVARIANTS
    TypeOK
    RetryBacked
    PollsEndWithState
    DownIsQuiet
    StrandedOnlyDelayed
    ConnectedMeansLink
PROPERTY
    OnlyCommandsConnect
CHECK_DEADLOCK FALSE
