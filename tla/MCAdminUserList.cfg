CONSTANTS
    MaxUsers = 3
    MaxTime = 1
    Pages <- MCPages
    Sizes <- MCSizes
    DefaultSize = 2
    MaxSize = 2
    MaxInt32 = 3
SPECIFICATION Spec
INVARIANTS
    OffsetExact
    PageAsCounted
    WalkCovers
