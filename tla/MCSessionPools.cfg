\* Two symbols and a pool that changes, two frequencies.
CONSTANTS
  s1 = s1  s2 = s2  f5 = f5  f1d = f1d  d1 = d1  d2 = d2
  Dates = {d1}
  NoDate = NoDate
  Symbols = {s1, s2}
  Universes <- TwoPools
  Freqs = {f5, f1d}
  Closes <- TwoFrequencies
  DailyFreqs = {f1d}
  Period <- TwoPeriods
  Rows = {r1}
  NoBar = NoBar
  MaxBatchRows = 1
  Confirmations = 3
  MaxCycles = 3
SPECIFICATION Spec
PROPERTIES WatermarkOnlyAfterProjection OnlyNewPoolEndsStall LedgerSpec
