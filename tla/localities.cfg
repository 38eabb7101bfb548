SPECIFICATION Spec
CONSTANTS
  MAX_HANDLES = 3
  Localities = {0, 1}
  TciTypes = {0, 1}
  Measurements = {m}
  h1 = h1
  h2 = h2
  h3 = h3
  h4 = h4
  h5 = h5
  h6 = h6
  RandHandles = {h1, h2, h3, h4}
  StoredContexts = {}
  DEFAULT = DEFAULT
  INVALID = INVALID
  NO_HANDLE = NO_HANDLE
  Support <- LocalitySupport
  AutoInitLocality = 0
  DeriveFlagSets <- LocalityFlags
  MAX_CDI_HANDLES = 0
  MAX_TCI_EXTENDS = 1
  RNG_MAY_FAIL = TRUE
  RNG_MAY_REPEAT = FALSE
  BACKEND_MAY_FAIL = FALSE
  BUFFER_MAY_OVERFLOW = FALSE
  BUFFER_MAY_REFUSE = FALSE
VIEW StateView
SYMMETRY HandlesSym4
INVARIANTS DefaultIsAlone HandlesUnique
PROPERTIES ReturnedHandlesResolve OthersAreUntouched NormalRootOnlyOnce ImplementsForest
