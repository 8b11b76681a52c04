SPECIFICATION MergingSpec
CONSTANTS
  Session = {s1, s2}
  MemId = {m1, m2, m3, m4}
  EpId = {}
  Space = {sp1}
  UserSpace = sp1
  Hash = {h1, h2}
  None = None
  h1 = h1
  h2 = h2
  sp1 = sp1
  sp2 = sp2
  Batches <- OneClaim
  Wipes <- ForgetOne
  MaxTime = 0
  MaxUses = 0
  MaxChain = 3
  MaxBatch = 1
  ReserveIds = TRUE
  ReadsValidated = TRUE
INVARIANTS SupersessionAcyclic
PROPERTIES CallsFinish ReportedRowsHold
CHECK_DEADLOCK FALSE
