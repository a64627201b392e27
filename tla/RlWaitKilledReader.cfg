SPECIFICATION Spec
CONSTANTS
    Reader = {r1, r2}
    Writer = {w1}
    Signalled = {r1, r2}
    BUFFER_SIZE = 3
    Word = 16
    Size = {2}
    Offset = {0, 4}
    MaxCalls = 2
\* Once every bounded call has been made nothing is left to do, and a reader
\* may wait for a write that never comes.
CHECK_DEADLOCK FALSE
INVARIANTS
    KilledReaderIsHarmless
