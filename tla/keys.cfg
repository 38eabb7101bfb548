CONSTANTS
  Lineages <- MCLineages
  Labels = {"l1", "l2"}
  IsValidScalar <- MCIsValidScalar
  ChainLengths = {3}
  MAX_CHUNK_SIZE = 2
  MAX_CDI_HANDLES = 2
  MAX_COMMANDS = 3
  NONE = NONE
SPECIFICATION Spec
CHECK_DEADLOCK FALSE
INVARIANTS
  DigestIsOfTheLineage
  SignaturesMatchCertificates
  ExportHandleNamesItsKey
  ExportedOnce
PROPERTIES
  EveryCommandEnds
