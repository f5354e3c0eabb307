SPECIFICATION HistSpec
CONSTANTS
  Script <- OneRunEach
  GateList <- DevGates
  RenderGate = "render"
  Strict = FALSE
  AllowBlocked = TRUE
  PerfFloor = FALSE
  MaxRunning = 2
  KillPhases = {"write"}
  MaxStarts = 2
  MaxRepins = 1
PROPERTIES SuccessMeansOwnGatesPassed
CHECK_DEADLOCK FALSE
