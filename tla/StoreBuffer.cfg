CONSTANTS
  DEPTH_SPEC = 2
  DEPTH_COMMIT = 4
  Offsets = {0, 1}
  Payloads = {0}
SPECIFICATION FairSpec
INVARIANTS
  SpecRing
  CommitRing
  MatchesArePending
PROPERTIES
  ImplementsQueues
  CommittedStoresDrain
