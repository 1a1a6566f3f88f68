SPECIFICATION Spec
CONSTANTS
  Batch = {b1,b2,b3}
  Centers = {0, 1}
  None = None
  MaxFaults = 2
INVARIANTS
  TypeOK
  ModelNeverTorn
PROPERTIES
  CleanRunInstallsItsModel
  ExportsReachAModel
