SPECIFICATION Spec
CONSTANTS
  Session = {s1}
  MemId = {m1, m2, m3}
  EpId = {}
  Space = {sp1}
  UserSpace = sp1
  Hash = {h1, h2}
  None = None
  h1 = h1
  h2 = h2
  sp1 = sp1
  sp2 = sp2
  Batches <- OneClaim
  Wipes <- OneForget
  MaxTime = 0
  MaxUses = 0
  MaxChain = 3
  MaxBatch = 1
  ReserveIds = FALSE
  ReadsValidated = TRUE
SYMMETRY Symmetry
INVARIANTS PurgeTakesWholeChain
CHECK_DEADLOCK FALSE
