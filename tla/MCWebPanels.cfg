\* Two stocks, two scopes, two pages of events, three requests at a time, under fairness.
CONSTANTS
  Scopes = {c1, c2}
  Symbols = {s1, s2}
  NoPanel = NoPanel
  MaxPages = 2
  MaxLoads = 3
SPECIFICATION FairSpec
INVARIANTS TypeOK RowsFitTheScope PagesInOrder LoadingMeansAsked ExpandedHasPanel RenderedIsCurrent
PROPERTIES LoadingEnds ListingSpec
