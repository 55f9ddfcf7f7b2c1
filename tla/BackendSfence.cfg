SPECIFICATION Spec
CONSTANTS
  NR_SB_ENTRIES = 2
  NrIssuePorts = 1
  NrCommitPorts = 2
  SpeculativeSb = FALSE
  DcacheFlushOnFence = TRUE
  WriteBackCache = TRUE
  OutOfRangeWraps = {FALSE}
  Offers <- SfenceOffers
  SingleStep = FALSE
  LsuCapacity = 2
INVARIANT SfenceReadsItsParameters
