SPECIFICATION Spec
CONSTANTS
    PoolSize = 100
    Sizes = {35, 40}
    Bigs = {g1, g2}
    NULL = NULL
    MaxBlocks = 4
    MaxLarge = 2
    MaxCleanups = 1
    MaxFailures = 1
SYMMETRY Symmetry
INVARIANTS
    InsideBlock
\* A destroyed pool is not used any more.
CHECK_DEADLOCK FALSE
