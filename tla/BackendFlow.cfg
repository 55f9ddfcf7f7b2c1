SPECIFICATION Spec
CONSTANTS
  NR_SB_ENTRIES = 4
  NrIssuePorts = 2
  NrCommitPorts = 2
  SpeculativeSb = TRUE
  DcacheFlushOnFence = FALSE
  WriteBackCache = FALSE
  OutOfRangeWraps = {FALSE}
  Offers <- FlowOffers
  SingleStep = FALSE
  LsuCapacity = 1
INVARIANTS
  RetiredReadRight
  UnitsAndEntriesAgree
  OneDriverOfTheFlu
  WrongPathIsCancelled
  
