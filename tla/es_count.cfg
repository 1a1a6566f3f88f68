SPECIFICATION Spec
CONSTANTS
  NoDate = NoDate
  Src <- TwoSrc
  Partition = {"p1", "p2"}
  PartitionOf <- OneEach
  Url = {"home", "shop"}
  AgentName = {"browser"}
  Clicks <- TwoUsers
  DestRows <- HomeRow
  AgentRows <- MCAgentRows
  Models <- OneModel
  NoCluster = NoCluster
  TicksPerSecond = 1
  SessionSeconds = 1
  QuerySeconds = 1
  HistorySeconds = 0
  MaxRows = 2
  ChunkSize = 2
  MaxDelay = 1
  MaxTime = 2
  MaxEvents = 4
INVARIANTS
  TypeOK
  DeleteMakesProgress
PROPERTIES
  OldestFirst
  TrimTakesSurplusAndOne
