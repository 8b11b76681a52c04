SPECIFICATION Spec
CONSTANTS
  Session = {s1}
  MemId = {m1, m2}
  EpId = {e1, e2}
  Space = {sp1, sp2}
  UserSpace = sp2
  Hash = {h1, h2}
  None = None
  h1 = h1
  h2 = h2
  sp1 = sp1
  sp2 = sp2
  Batches <- AcrossSpaces
  Wipes <- PurgeAnywhere
  MaxTime = 0
  MaxUses = 0
  MaxChain = 2
  MaxBatch = 1
  ReserveIds = FALSE
  ReadsValidated = TRUE
SYMMETRY Symmetry
INVARIANTS NoLiveClaimCitesPurgedDocument
CHECK_DEADLOCK FALSE
