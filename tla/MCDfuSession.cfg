SPECIFICATION FairSpec
CONSTANTS
    Chunk = 2
    Sector = 4
    BankLen = 8
    Sizes <- MCSizes
    MaxSessions = 2
    CallsFail = TRUE
    MaxFaults = 1
INVARIANTS
    TypeOK
    SwitchedImageIntact
PROPERTIES
    SuccessIsTrue
    ClientEnds
CHECK_DEADLOCK FALSE
