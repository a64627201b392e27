SPECIFICATION FairSpec
CONSTANTS
    Reader = {r1, r2}
    Writer = {w1, w2}
    Free = free
    MaxWrites = 2
INVARIANTS
    TypeOK
    NoLostWakeup
PROPERTIES
    WakesAll
    DeliversInOrder
\* A read that faults keeps the lock: the device may stop.
CHECK_DEADLOCK FALSE
