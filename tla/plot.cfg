SPECIFICATION PlotSpec
CONSTANTS
  ZoneOffset <- MCZoneOffset
  Null = Null
  NoTimer = NoTimer
  FirstSeries <- MCFirstSeries
  LaterSeries <- MCLaterSeries
  Width = 300
  Height = 200
  MaxPlots = 2
  MaxCalls = 3
INVARIANTS
  PlotTypeOK
  TicksCoverTheData
  LabelsAreExact
  LabelsInsideCanvas
  OverlayRedrawn
PROPERTIES
  ImplementsOverlay
CHECK_DEADLOCK FALSE
