SPECIFICATION FairSpec
CONSTANTS
    Writer = {w1, w2}
    Worker = worker
    Free = free
    MaxWrites = 2
INVARIANTS
    TypeOK
    WorkComes
PROPERTIES
    ImplementsFifo
\* The worker waits for good once every bounded write has been handled.
CHECK_DEADLOCK FALSE
