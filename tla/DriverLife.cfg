SPECIFICATION LifeSpec
INVARIANTS
    LifeTypeOK
    LeavesNothing
    FindsItsData
    ListsTheTree
\* A module that is gone stays so, and the exit of completion waits for ever.
CHECK_DEADLOCK FALSE
