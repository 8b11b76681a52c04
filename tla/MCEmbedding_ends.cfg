SPECIFICATION EmbeddingSpec
CONSTANTS
    Proc = {p1}
    Backend <- All
    Stored <- FreshOrPinned
    Setups <- OneMoveOnly
    Row = {r1, r2, r3}
    Memory = {r1, r2}
    None = None
    BakedDim = 2
    BatchSize = 1
    DrainGiveUp = 2
    Caller = {c1, c2}
    Work <- Passages
    SliceLen = 3
    BatchTokens = 5
    MaxSequences = 2
    TruncateTo = 4
    Attempts = 3
    MaxFaults = 2
    MaxWorks = 3
INVARIANTS
    ServingFits
    VectorsInOrder
PROPERTIES
    DrainEnds
    EmbedReturns
CHECK_DEADLOCK FALSE
