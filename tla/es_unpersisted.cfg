SPECIFICATION Spec
CONSTANTS
  NoDate = NoDate
  Src <- OneSrc
  Partition = {"p1", "p2"}
  PartitionOf <- AllTogether
  Url = {"home", "shop"}
  AgentName = {"browser"}
  Clicks <- OnePair
  DestRows <- HomeRow
  AgentRows <- MCAgentRows
  Models <- NoModels
  NoCluster = NoCluster
  TicksPerSecond = 1
  SessionSeconds = 1
  QuerySeconds = 1
  HistorySeconds = 2
  MaxRows = 0
  ChunkSize = 2
  MaxDelay = 1
  MaxTime = 4
  MaxEvents = 3
INVARIANTS
  PersistedBeforeAgedOut
