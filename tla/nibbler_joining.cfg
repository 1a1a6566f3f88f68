SPECIFICATION Spec
CONSTANTS
  NoDate = NoDate
  Partition = {p1,p2}
  FirstPartitions = {p1}
  Deleters = {d1}
  Configs <- ByDate
  LongMax = 9
  MaxTime = 1
  MaxInserts = 2
  MaxFaults = 1
INVARIANTS
  ReportsAddUp
PROPERTIES
  DeletersKeepRunning
  AgedRowsLeave
