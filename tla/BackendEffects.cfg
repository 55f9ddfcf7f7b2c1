SPECIFICATION Spec
CONSTANTS
  NR_SB_ENTRIES = 4
  NrIssuePorts = 1
  NrCommitPorts = 2
  SpeculativeSb = FALSE
  DcacheFlushOnFence = TRUE
  WriteBackCache = TRUE
  OutOfRangeWraps = {FALSE}
  Offers <- EffectOffers
  SingleStep = FALSE
  LsuCapacity = 2
INVARIANTS
  RestartsAfterOne
  TrapsAreAlone
  StoreRetiresItsOwn
  CsrRetiresItsOwn
  NothingRetiresUnderAFlush
