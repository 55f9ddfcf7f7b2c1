CONSTANTS
  Nothing = Nothing
  Words <- MCWords
  Workloads <- MCWorkloads
  Cacheable <- MCCacheable
  NonIdempotent <- MCNonIdempotent
  NumBytes = 2
  Depth = 2
  MaxTx = 2
  NumSets = 1
  Ways = {0, 1}
  NumRd = 2
  DrainCycles = 20
SPECIFICATION Spec
INVARIANT LoadsReadTheLatest
INVARIANT StaleCopiesAreCovered
INVARIANT TransactionsAreBacked
INVARIANT OneCopyOfALine
INVARIANT DrainsInTime
