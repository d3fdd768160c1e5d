\* One event, a complete call that is sent twice.
CONSTANTS
  e1 = e1  e2 = e2  f1 = f1  f2 = f2  t1 = t1  t2 = t2
  Events = {e1}
  Focuses = {f1}
  NoFocus = NoFocus
  MaximumAttempts = 2
  MaximumSymbolsPerClaim = 2
  MaxBatches = 1
  MaxLeases = 2
  Threads = {t1, t2}
SPECIFICATION ReadSpec
PROPERTIES ScoreIsKept
