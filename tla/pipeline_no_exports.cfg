SPECIFICATION Spec
CONSTANTS
  Batch = {b1,b2}
  Centers = {0, 1}
  None = None
  MaxFaults = 0
PROPERTIES
  StoresComputedClusters
