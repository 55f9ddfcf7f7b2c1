CONSTANTS
  Nothing = Nothing
  Builds <- MCBuilds
  FETCH_FIFO_DEPTH = 2
  FETCH_ADDR_FIFO_DEPTH = 2
  DryCycles = 5
SPECIFICATION Spec
 
INVARIANT PredictionsAreOwn
INVARIANT NeverDryForLong
