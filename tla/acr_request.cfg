SPECIFICATION HistSpec
CONSTANTS
  Addr = {0, 2}
  MarkerStrict = FALSE
  MarkerTable = {}
  Gpr = {}
  Forms <- CondForm
  Descs = {}
  Dims = {0}
  DimMod = 1
  VecLength = 1
  MaxRi = 0
  SeqMod = 1
  Rest = {0}
  CstateValues <- TwoRings
  RequestTypes = {0}
  ReturnTypes = {0, 2}
  ExtBase = {0}
  ExtLen = {}
  LenMod = 1
  BankFields = {}
  XbIds = {}
  CacTables = {}
  CacDefined <- NoCalls
  MaxServed = 3
PROPERTY ReturnResumesRequest
