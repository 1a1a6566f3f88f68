SPECIFICATION Spec
CONSTANTS
  NoDate = NoDate
  Src <- TwoSrc
  Partition = {"p1", "p2"}
  PartitionOf <- OneEach
  Url = {"home", "shop"}
  AgentName = {"browser"}
  Clicks <- ThreePairs
  DestRows <- MCDestRows
  AgentRows <- MCAgentRows
  Models <- OneModel
  NoCluster = NoCluster
  TicksPerSecond = 2
  SessionSeconds = 1
  QuerySeconds = 2
  HistorySeconds = 3
  MaxRows = 0
  ChunkSize = 1
  MaxDelay = 1
  MaxTime = 7
  MaxEvents = 3
INVARIANTS
  DashboardExact
  SessionExact
  EverySessionExported
  AgedOutOnly
PROPERTIES
  BoundedOvershoot
