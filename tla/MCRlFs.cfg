SPECIFICATION Spec
CONSTANTS
    Client = {c1, c2}
    Page = {g1, g2, g3}
    PageSize = 3
    Offset = {0, 2, 3}
    Count = {1, 3}
    None = none
SYMMETRY Symmetry
VIEW View
INVARIANTS
    TypeOK
    FileHoldsLastWrite
    ReadSeesFile
    OopsOnlyWhenStarved
CHECK_DEADLOCK FALSE
