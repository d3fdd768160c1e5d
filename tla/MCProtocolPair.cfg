\* Two symbols in one job or two, one close, two faults.
CONSTANTS
  s1 = s1  s2 = s2  f5 = f5  d1 = d1
  Dates = {d1}
  NoDate = NoDate
  Symbols = {s1, s2}
  Universes <- EveryPool
  Freqs = {f5}
  Closes <- OneClose
  DailyFreqs = {}
  Period <- OnePeriod
  Rows = {r1}
  NoBar = NoBar
  MaxBatchRows = 2
  Confirmations = 3
  MaxCycles = 9
  SymbolsPerJob = 2
  Workers = 2
  MaxPushBars = 1
  MaxAttempts = 2
  MaxFailureAttempts = 2
  MaxFaults = 2
SPECIFICATION ProtocolSpec
SYMMETRY SymbolSymmetry
INVARIANTS CollectorTypeOK RequestsFitTheirPlan
