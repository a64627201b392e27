SPECIFICATION FairSpec
CONSTANTS
    Reader = {r1}
    Writer = {w1}
PROPERTIES
    ReadReturnsOnceWritten
