SPECIFICATION Spec
CONSTANTS
  Addr = {0, 2, 4}
  MarkerStrict = TRUE
  MarkerTable = {0, 2}
  Gpr = {1}
  Forms <- ScalarForms
  Descs = {}
  Dims = {0}
  DimMod = 1
  VecLength = 1
  MaxRi = 0
  SeqMod = 2
INVARIANT NextTargetIsMarker
PROPERTIES TransfersLandOnMarkers RefinesBlockStream
