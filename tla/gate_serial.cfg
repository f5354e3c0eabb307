SPECIFICATION HistSpec
CONSTANTS
  Script <- TwoLanes
  GateList <- TwoGates
  RenderGate = "render"
  Strict = TRUE
  AllowBlocked = FALSE
  PerfFloor = FALSE
  MaxRunning = 1
  KillPhases = {"load", "save"}
  MaxStarts = 3
  MaxRepins = 0
INVARIANTS RowsAreOfOneAttempt StatusFileLacksOneRow
PROPERTIES SuccessMeansBothLanesPassed BoardSpec
CHECK_DEADLOCK FALSE
