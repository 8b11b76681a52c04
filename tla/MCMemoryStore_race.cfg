SPECIFICATION Spec
CONSTANTS
  Session = {s1, s2}
  MemId = {m1, m2, m3}
  EpId = {}
  Space = {sp1}
  UserSpace = sp1
  Hash = {h1, h2}
  None = None
  h1 = h1
  h2 = h2
  sp1 = sp1
  sp2 = sp2
  Batches <- Correction
  Wipes <- OneForget
  MaxTime = 0
  MaxUses = 0
  MaxChain = 3
  MaxBatch = 1
  ReserveIds = FALSE
  ReadsValidated = FALSE
SYMMETRY Symmetry
INVARIANTS
    TypeOK
    OneLivePerContent
PROPERTIES
    CloseNeverRewritten
    ReportMatchesCloses
    LedgerSpec
CHECK_DEADLOCK FALSE
