SPECIFICATION LibcSpec
CONSTANTS
  HeapSize = 15
  Header = 2
  Align = 4
  SizeMod = 32
  Request = {0, 1, 3, 6, 30}
  Byte <- StoredBytes
  Handler = {f, g}
  Code <- ExitCodes
  ATEXIT_MAX = 2
  Half = 16
  MaxLog = 4
  MaxDepth = 7
  MB = 4
  EB = 3
  DMB = 6
  DEB = 4
  IB = 5
  LB = 8
  WB = 6
  ShiftCap = 8
  MemSize = 7
  TextSize = 5
  WordBytes = 2
  Image <- Images
  Char = {0, 1, 2}
  Item <- Items
  Format <- Formats
  Target <- Targets
  BufAddr <- Addresses
  IntBits = 5
  PtrDigits = 2
INVARIANT ProductIsNearest
CHECK_DEADLOCK FALSE
