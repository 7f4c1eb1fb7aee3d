SPECIFICATION TrafficSpec
CONSTANTS
  Ifaces = {i1, i2}
  None = None
  HistorySize = 2
  MaxBytes = 2
  MaxSamples = 3
  MaxAsks = 3
INVARIANTS TotalsAccount HistoryIsLatest
CHECK_DEADLOCK FALSE
