SPECIFICATION FairSpec
CONSTANTS
    Writer = {w1, w2}
    MyThread = mythread
    Free = free
    ListHead = list_head
    Drains <- MCDrains
    MaxWrites = 2
INVARIANTS
    TypeOK
    NoLostWakeup
    LockDiscipline
    DrainsAwake
    UnlinksWhatItFrees
PROPERTIES
    ImplementsFifo
\* The thread sleeps for good once every bounded write has been handled.
CHECK_DEADLOCK FALSE
