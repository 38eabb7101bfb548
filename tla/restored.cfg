SPECIFICATION RestoredSpec
CONSTANTS
  MAX_HANDLES = 3
  Localities = {0}
  TciTypes = {0, 1}
  Measurements = {m}
  h1 = h1
  h2 = h2
  h3 = h3
  h4 = h4
  h5 = h5
  h6 = h6
  RandHandles = {h1, h2, h3, h4}
  StoredContexts <- KeptForest
  DEFAULT = DEFAULT
  INVALID = INVALID
  NO_HANDLE = NO_HANDLE
  Support <- SimulationSupport
  AutoInitLocality = 0
  DeriveFlagSets <- SimulationFlags
  MAX_CDI_HANDLES = 0
  MAX_TCI_EXTENDS = 1
  RNG_MAY_FAIL = FALSE
  RNG_MAY_REPEAT = FALSE
  BACKEND_MAY_FAIL = FALSE
  BUFFER_MAY_OVERFLOW = FALSE
  BUFFER_MAY_REFUSE = FALSE
VIEW StateView
SYMMETRY HandlesSymKept
INVARIANTS LinksAgree NoCycle OneNormalTree RejectedOnlyForMixing
