SPECIFICATION BoundedSpec
CONSTANTS
  Word = 64
  Precision = 8
  Doubles <- MCDoubles
  Latencies = {0, 1, 2, 5, 9, 63}
  DoubleMax = 99
  MaxExecuted = 5
INVARIANTS
  StatsTypeOK
  ReportedLatenciesAgree
\* the bound on the number of executions ends every behaviour
CHECK_DEADLOCK FALSE
