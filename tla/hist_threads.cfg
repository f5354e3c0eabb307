SPECIFICATION HistSpec
CONSTANTS
  Vcpu = {v1, v2}
  Code <- SmallCode
  FormTable <- SmallTable
  Illegal = 0
  TopArg = 257
  GuintMod = 256
  MaxExec = 3
INVARIANTS OneCounterPerMnemonic ReportIsExact TopIsMostFrequent TotalLagsByThreadsInBetween
CHECK_DEADLOCK FALSE
