SPECIFICATION Spec
CONSTRAINT HeadersOrGroups
CONSTANTS
  Addr = {0}
  MarkerStrict = FALSE
  MarkerTable = {}
  Gpr = {1, 2}
  Forms <- HeaderForms
  Descs = {"dim", "text", "arg", "ior", "iot", "catr", "lc1"}
  Dims = {0, 1, 2, 3}
  DimMod = 3
  VecLength = 3
  MaxRi = 2
  SeqMod = 1
INVARIANT TypeOK
PROPERTIES HeaderVerdict MaskCoversGroup
