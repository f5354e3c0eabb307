SPECIFICATION MemorySpec
CONSTANTS
  ring0 = ring0
  ring1 = ring1
  Queue = {ring0, ring1}
  Word = {0, 7}
  Prepared <- Rings
  VLEN = 2
  LB0 = {0, 1}
  RegBytes = 2
  ByteMod = 8
  NumRegs = 4
  Imm = {0, 4}
  StackTop = 32
  Value = {11, 62}
  RegRange <- Ranges
  MaxDepth = 2
  MaxWork = 3
  Cell = {"near", "far", "lock"}
  LineOf <- Lines
  Counter = {"near", "far"}
  Lock = {"lock"}
  MaxLevel = 2
  WordMod = 2
INVARIANTS MemoryTypeOK NoUpdateIsLost UndisturbedSucceeds LockHasOneHolder
PROPERTIES QueuesAreFifos FramesAreKept
CHECK_DEADLOCK FALSE
