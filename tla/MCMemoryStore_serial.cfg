SPECIFICATION Spec
CONSTANTS
  Session = {s1}
  MemId = {m1, m2, m3}
  EpId = {e1}
  Space = {sp1, sp2}
  UserSpace = sp2
  Hash = {h1, h2}
  None = None
  h1 = h1
  h2 = h2
  sp1 = sp1
  sp2 = sp2
  Batches <- ClaimsAndTexts
  Wipes <- ForgetOrPurgeText
  MaxTime = 1
  MaxUses = 1
  MaxChain = 3
  MaxBatch = 2
  ReserveIds = FALSE
  ReadsValidated = TRUE
CONSTRAINT OneWay
SYMMETRY Symmetry
INVARIANTS LinksStayInSpace NoLiveClaimCitesPurgedDocument
PROPERTIES ReportMatchesCloses
CHECK_DEADLOCK FALSE
