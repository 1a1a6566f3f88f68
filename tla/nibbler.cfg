SPECIFICATION Spec
CONSTANTS
  NoDate = NoDate
  Partition = {p1,p2}
  FirstPartitions = {p1}
  Deleters = {d1}
  Configs <- ByDateOrCount
  LongMax = 9
  MaxTime = 1
  MaxInserts = 3
  MaxFaults = 1
INVARIANTS
  TypeOK
  RoundsDoNotOverlap
  PauseMeansDone
PROPERTIES
  ImplementsRetention
