SPECIFICATION FairSpec
CONSTANTS
    User = {u1, u2}
    Free = free
    NoIo = no_io
    Stale = stale
    Blank = blank
    NSectors = 3
    Shapes <- EvenShapes
INVARIANTS
    TypeOK
    TimerIsSane
    NothingIsLeft
    TransfersEachSegment
PROPERTIES
    ImplementsDisk
    OpensReturn
