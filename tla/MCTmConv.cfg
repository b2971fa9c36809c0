SPECIFICATION Spec
CONSTANTS
  Layers <- MCLayers
  MaxKSize = 9
  MaxKcSize = 36
INVARIANTS
  OutputIsConvolution
CHECK_DEADLOCK FALSE
