SPECIFICATION FairSpec
CONSTANTS
    HZ = 2
    Word = 16
INVARIANTS
    TypeOK
    UnloadWaits
PROPERTIES
    StopReturns
    CountsApart
    KeepsCounting
CHECK_DEADLOCK FALSE
