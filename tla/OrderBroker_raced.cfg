SPECIFICATION Spec
CONSTANTS
  ClientIds = {c1}
  Sizes = {5, 8}
  PartFills = {3}
  Configs <- MCConfigs
  UniqueIds = TRUE
  MapRaces = TRUE
  SendFails = TRUE
  MaxRequests = 2
  MaxInt = 15
INVARIANTS
  EveryNthRejected
  NeverOverReports
CHECK_DEADLOCK FALSE
