SPECIFICATION Spec
CONSTANTS
  Ids = {a, b, c}
  NoId = zero
  Kinds <- MisalignedKinds
  NrLoadBufEntries = 1
  MmuPresent = TRUE
  NonIdemPotenceEn = FALSE
  RVH = FALSE
  Translation = FALSE
  StoresFault = FALSE
  DEPTH_SPEC = 1
  DEPTH_COMMIT = 1
INVARIANT MisalignedIsReported
