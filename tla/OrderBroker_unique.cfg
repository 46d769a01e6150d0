SPECIFICATION Spec
CONSTANTS
  ClientIds = {c1}
  Sizes = {5, 8}
  PartFills = {3}
  Configs <- MCConfigs
  UniqueIds = TRUE
  MapRaces = FALSE
  SendFails = FALSE
  MaxRequests = 2
  MaxInt = 15
INVARIANTS
  TypeOK
  AtMostOneReply
  SharesFitResult
  NoForcedLeak
  NothingForgotten
PROPERTIES
  ServiceSpec
  
\* The bound on the requests stops the clients.
CHECK_DEADLOCK FALSE
