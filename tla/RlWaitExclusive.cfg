SPECIFICATION FairSpec
CONSTANTS
    Reader = {r1, r2, r3}
    Writer = {w1}
INVARIANTS
    TypeOK
    WokenReaderReturns
PROPERTIES
    ReadsReturn
