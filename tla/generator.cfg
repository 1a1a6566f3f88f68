SPECIFICATION Spec
CONSTANTS
  Servers = {s1,s2}
  AgentIds = {a1,a2}
  UrlIds = {u1}
  NoUrl = NoUrl
  Duration = 1
  Millis = 2
  IntSize = 8
  FirstSleep = 1
  LastSleep = 4
  MaxTime = 1
  MaxRefusals = 3
  MaxFaults = 2
INVARIANTS
  TypeOK
  EventsFindTheirRows
PROPERTIES
  Finishes
CHECK_DEADLOCK FALSE
