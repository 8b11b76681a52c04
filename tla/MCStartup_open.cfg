SPECIFICATION StartupSpec
CONSTANTS
    Proc = {p1, p2}
    Backend <- All
    Stored <- FreshOrPinned
    Setups <- EmbeddedAndShared
    Row = {r1, r2, r3}
    Memory = {r1, r2}
    None = None
    BakedDim = 2
    BatchSize = 1
    DrainGiveUp = 2
    Process = {q1, q2}
    Binaries = {1, 2, 4, 9}
    Hash = {h1, h2}
    MaxRows = 2
    MaxKills = 1
SYMMETRY StartupSymmetry
INVARIANTS
    StartupTypeOK
    OneSpace
    NoticeHonest
    ServedRowsUpdate
    RerunIsSafe
PROPERTIES
    RecordStands
CHECK_DEADLOCK FALSE
