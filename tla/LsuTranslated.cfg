SPECIFICATION Spec
CONSTANTS
  Ids = {a, b, c}
  NoId = zero
  Kinds <- TranslatedKinds
  NrLoadBufEntries = 1
  MmuPresent = TRUE
  NonIdemPotenceEn = FALSE
  RVH = FALSE
  Translation = TRUE
  StoresFault = TRUE
  DEPTH_SPEC = 1
  DEPTH_COMMIT = 1
SYMMETRY IdSymmetry
INVARIANTS
  AnswersAreOwed
  RequestsAreHeld
  TranslationIsOwn
  LoadsWaitForStores
