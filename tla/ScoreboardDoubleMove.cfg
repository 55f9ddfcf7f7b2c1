CONSTANTS
  NR_SB_ENTRIES = 2
  NrIssuePorts = 1
  NrCommitPorts = 2
  SpeculativeSb = FALSE
  Instrs <- ZcmpInstrs
  OutOfRangeWraps = {FALSE}
SPECIFICATION FairMoves
PROPERTY DoubleMovesRetire
