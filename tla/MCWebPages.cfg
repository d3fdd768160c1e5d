\* One page per behaviour: two listing pages, two moves, one retry; four links; three
\* versions of an event; two PATCHes at a time; two processes; two events.
CONSTANTS
  NoData = NoData
  Retries = 1
  Filters = {f0}
  DefaultFilter = f0
  Pages = {1, 2}
  PageTexts = {0, 1, 2}
  FirstPage = 1
  Features = {{"history-data"}}
  MaxCached = 2
  MaxMoves = 2
  Links <- MCLinks
  Dates = {1, 2, 3}
  LastDay = 3
  MaxEdits = 1
  Frequencies = {"5m", "1d"}
  FirstFrequency = "5m"
  Step <- MCStep
  Reports <- MCReports
  NoWindow = 0
  RecentBars = 4
  MaxBars = 2
  MaxTurns = 1
  MaxChanges = 2
  ExpectedProcesses = 2
  Events = {e1, e2}
  NoEvent = NoEvent
SPECIFICATION FairSpec
INVARIANTS WebTypeOK RowsAnswerTheRoute FormShowsTheFilters MarkersFitTheBars SamplesAskForNoBars CardsAgreeWhenQuiet OverallIsExplained ReplayIsExplained LinksKeepTheEvent
PROPERTIES NoQueryWithoutTradingDay StockChoiceIsKept ListingSettles ChartSettles
CHECK_DEADLOCK FALSE
