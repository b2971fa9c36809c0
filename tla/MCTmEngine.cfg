SPECIFICATION Spec
CONSTANTS
  Models <- MCModels
  MainBufLen = 1464
  Pixels = 784
  Classes = 10
  MaxKSize = 9
  MaxKcSize = 144
  MaxCSize = 16
  MaxRuns = 2
  Bases = {0, 3, 4}
INVARIANTS
  TypeOK
  InputsFresh
  AccessesInside
