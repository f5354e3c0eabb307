SPECIFICATION HistSpec
CONSTANTS
  Addr = {0}
  MarkerStrict = FALSE
  MarkerTable = {}
  Gpr = {}
  Forms <- FallForm
  Descs = {}
  Dims = {0}
  DimMod = 1
  VecLength = 1
  MaxRi = 0
  SeqMod = 1
  Rest = {0}
  CstateValues <- UnbankedRing
  RequestTypes = {0}
  ReturnTypes = {0, 2}
  ExtBase = {0, 8}
  ExtLen = {0, 48}
  LenMod = 48
  BankFields = {"ec", "cur", "ptr", "len"}
  XbIds = {0, 2, 3, 16}
  CacTables = {1}
  CacDefined <- OneEntry
  MaxServed = 1
INVARIANT AcrTypeOK
