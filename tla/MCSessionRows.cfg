\* One symbol, two contents per bar, three closes with a break: overlaps,
\* revisions, retractions and conflicting repeats.
CONSTANTS
  s1 = s1  s2 = s2  f5 = f5  f1d = f1d  d1 = d1  d2 = d2
  Dates = {d1, d2}
  NoDate = NoDate
  Symbols = {s1}
  Universes <- OneSymbolPools
  Freqs = {f5}
  Closes <- OneFrequency
  DailyFreqs = {f1d}
  Period <- OnePeriod
  Rows = {r1, r2}
  NoBar = NoBar
  MaxBatchRows = 2
  Confirmations = 3
  MaxCycles = 3
SPECIFICATION Spec
INVARIANTS TypeOK CompleteThroughWatermark NeverBothBarAndMissing
PROPERTIES ReceivedBarsAreStable FrozenWhileComputing WatermarkFallsOnlyWithSession
