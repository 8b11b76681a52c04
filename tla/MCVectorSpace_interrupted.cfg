SPECIFICATION Spec
CONSTANTS
    Proc = {p1}
    Backend <- All
    Stored <- PinnedOnly
    Setups <- Interrupted
    Row = {r1, r2, r3}
    Memory = {r1, r2}
    None = None
    BakedDim = 2
    BatchSize = 1
    DrainGiveUp = 2
INVARIANT ServingFits
SYMMETRY Symmetry
CHECK_DEADLOCK FALSE
