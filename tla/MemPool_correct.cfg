SPECIFICATION Spec
CONSTANTS
    PoolSize = 96
    Sizes = {21, 40}
    Bigs = {g1, g2}
    NULL = NULL
    MaxBlocks = 8
    MaxLarge = 1
    MaxCleanups = 1
    MaxFailures = 1
SYMMETRY Symmetry
INVARIANTS
    TypeOK
    InsideBlock
    NeverGivenTwice
    LargeListed
    SkippedHaveFailed
\* A destroyed pool is not used any more.
CHECK_DEADLOCK FALSE
