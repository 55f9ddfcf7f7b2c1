SPECIFICATION FairSpec
CONSTANTS
  Ids = {a, b}
  NoId = zero
  Kinds <- EffectKinds
  NrLoadBufEntries = 2
  MmuPresent = TRUE
  NonIdemPotenceEn = TRUE
  RVH = FALSE
  Translation = FALSE
  StoresFault = TRUE
  DEPTH_SPEC = 1
  DEPTH_COMMIT = 1
INVARIANTS
  NonIdempotentOldest
  RoomWhenPosted
  LoadBufferMatchesCache
PROPERTY EverythingIsAnswered
