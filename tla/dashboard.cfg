SPECIFICATION RefreshSpec
CONSTANTS
  Items = 3
  Needed <- MCNeeded
  Modes = {TRUE, FALSE}
  MaxTests = 3
  Calls <- MCCalls
  Charts <- MCCharts
  Catalogs <- MCCatalogs
  Patience = 2
  MaxRefreshes = 3
INVARIANTS
  RefreshTypeOK
  AnsweredInOrder
  ConnectsOnce
  DrawnMeansLoaded
  OvertakenWithinTimeout
PROPERTIES
  ConnectedLoads
CHECK_DEADLOCK FALSE
