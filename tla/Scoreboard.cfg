CONSTANTS
  NR_SB_ENTRIES = 4
  NrIssuePorts = 2
  NrCommitPorts = 2
  SpeculativeSb = TRUE
  Instrs <- SuperscalarInstrs
  OutOfRangeWraps = {FALSE}
SPECIFICATION FairSpec
INVARIANTS
  TypeOK
  IssuedIsARing
  FlagsOnlyIfIssued
PROPERTIES
  ImplementsReorderBuffer
  EveryInstructionLeaves
