SPECIFICATION FairSpec
CONSTANTS
  t1 = t1
  t2 = t2
  t3 = t3
  io = io
  NoTag = none
  Addrs <- FetchAddrs
  Cacheable = {t1, t2, t3}
  NonIdempotent = {io}
  NumSets = 2
  NumWays = 2
  NonIdemPotenceEn = TRUE
  Toggles = FALSE
  Invalidates = TRUE
INVARIANTS
  RightAndFresh
  OneCopyOfALine
  WayAsAnnounced
PROPERTY
  EveryFetchIsAnswered
