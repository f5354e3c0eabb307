SPECIFICATION HistSpec
CONSTANTS
  Addr = {0, 2}
  MarkerStrict = FALSE
  MarkerTable = {}
  Gpr = {}
  Forms <- FallForm
  Descs = {}
  Dims = {0}
  DimMod = 1
  VecLength = 1
  MaxRi = 0
  SeqMod = 1
  Rest = {0}
  CstateValues <- TwoRings
  RequestTypes = {}
  ReturnTypes = {1}
  ExtBase = {0, 8}
  ExtLen = {0, 40}
  LenMod = 48
  BankFields = {}
  XbIds = {}
  CacTables = {}
  CacDefined <- NoCalls
  MaxServed = 3
PROPERTY ErcovRestoresSave
