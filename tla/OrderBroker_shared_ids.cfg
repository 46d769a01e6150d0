SPECIFICATION Spec
CONSTANTS
  ClientIds = {c1}
  Sizes = {5, 8}
  PartFills = {3}
  Configs <- MCConfigs
  UniqueIds = FALSE
  MapRaces = FALSE
  SendFails = FALSE
  MaxRequests = 2
  MaxInt = 15
INVARIANTS
  EveryNthRejected
CHECK_DEADLOCK FALSE
