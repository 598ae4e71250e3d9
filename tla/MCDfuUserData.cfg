SPECIFICATION Spec
CONSTANTS
    Chunk = 2
    Sector = 4
    BankLen = 20
    Sizes <- MCFits
    MaxSessions = 2
    CallsFail = FALSE
    MaxFaults = 0
INVARIANT
    UserDataKept
CHECK_DEADLOCK FALSE
