CONSTANTS
  MAX_HANDLES = 64
  Clients = {c1, c2}
  Builds = {"Mldsa87"}
  Requests <- MCRequests
  Instances = {1, 2}
  MAX_DIALS = 2
  NONE = NONE
SPECIFICATION Spec
CHECK_DEADLOCK FALSE
INVARIANTS
  ToldHandleIsCurrent
  AnswersAreUnderstood
  SocketIsServed
PROPERTIES
  EveryRequestEnds
