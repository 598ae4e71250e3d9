SPECIFICATION Spec
CONSTANTS
    Tasks = {t1}
    Requests <- MCConnect
    QSize = 24
    WaitSize = 5
    RetryLimit = 3
    PollLimit = 2
    MaxOutside = 1
PROPERTY
    ConnectOkIsTrue
CHECK_DEADLOCK FALSE
