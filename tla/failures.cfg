SPECIFICATION Spec
CONSTANTS
  MAX_HANDLES = 3
  Localities = {0}
  TciTypes = {0}
  Measurements = {m}
  h1 = h1
  h2 = h2
  h3 = h3
  h4 = h4
  h5 = h5
  h6 = h6
  RandHandles = {h1, h2, h3, h4}
  StoredContexts = {}
  DEFAULT = DEFAULT
  INVALID = INVALID
  NO_HANDLE = NO_HANDLE
  Support <- FailureSupport
  AutoInitLocality = 0
  DeriveFlagSets <- FailureFlags
  MAX_CDI_HANDLES = 1
  MAX_TCI_EXTENDS = 2
  RNG_MAY_FAIL = TRUE
  RNG_MAY_REPEAT = FALSE
  BACKEND_MAY_FAIL = TRUE
  BUFFER_MAY_OVERFLOW = TRUE
  BUFFER_MAY_REFUSE = TRUE
VIEW StateView
SYMMETRY HandlesSym4
INVARIANTS PermissionsInherited
PROPERTIES ExportIsPermitted MeasurementsAreExtended OtherFailuresKeepContexts FailedUpdateOnlyRollsParent FailedKeyUseKeepsHandle HandleIsOneTimeUse
