--------------------------- MODULE PairTrendsPage ----------------------------
(***************************************************************************)
(* The listing of the pair-trend page (PairTrendsPage.vue): the live       *)
(* context of today and the one of past days, past days as stocks or as    *)
(* events, with filters and pages in the URL.  The listing is asked for    *)
(* once the server's capabilities allow it and, in the live context, once  *)
(* the server says that today is a trading day.  The live context polls    *)
(* while the page is visible.                                              *)
(*                                                                         *)
(* vue-router uses one page for both contexts, so the queries outlive a    *)
(* change of context.  A handler with the navigation, the watchers and the *)
(* options it sets is one action; every answer is one of its own.  The     *)
(* lists below the stocks are in GroupPanels, the form in FilterForm.      *)
(***************************************************************************)
EXTENDS QueryEntry, FiniteSets

CONSTANTS
  Filters,        \* filters and date ranges (the ranges that are allowed)
  DefaultFilter,  \* nothing filtered, the last 60 days
  Pages,          \* pages of the listing
  PageTexts,      \* what the URL may say of the page
  FirstPage,
  Features,       \* what the server's capabilities may enable
  MaxCached,      \* bound of the model: listings cached at once
  MaxMoves        \* bound of the model: navigations

ASSUME FiltersAssumption ==
  DefaultFilter \in Filters /\ FirstPage \in Pages /\ Pages \subseteq PageTexts

ASSUME MovesAssumption == MaxMoves \in Nat

VARIABLES
  route,         \* the context and the query of the URL
  visible,       \* pageVisible
  capabilities,  \* the data of ['pair-trend-capabilities']
  day,           \* the entry of ['pair-trend-intraday-status']
  cache,         \* the entries of ['pair-stock-groups', ..] and ['pair-timeline-events', ..]
  previous,      \* the last data the two listing queries have had
  moves          \* navigations so far

pageVars == <<route, visible, capabilities, day, cache, previous, moves>>

Contexts == {"intraday", "history-data"}
Views == {"groups", "events"}

Routes == [context : Contexts, view : Views, filter : Filters, page : Pages]

\* The context, activeFilters and the view they are listed in.
Scope(r) == [r EXCEPT !.view = IF r.context = "intraday" THEN "groups" ELSE r.view]

Scopes == {Scope(r) : r \in Routes}

\* isTradingDay; without it the calendar is pending or the market is closed.
Days == {"TRADING_DAY", "NO_TRADING_DAY"}

-----------------------------------------------------------------------------
(***************************************************************************)
(* When the listing may be asked for.                                      *)
(***************************************************************************)
\* Mutant: the page of the listing is not part of the key.
KeyWithoutPage(sc) == [sc EXCEPT !.page = FirstPage]

Key(sc) == sc

\* Before the capabilities are known nothing is disabled.
FeatureEnabled(r, c) == c # NoData => r.context \in c

IntradayCanQuery(r, d) == r.context = "history-data" \/ d.data = "TRADING_DAY"

Enabled(r, c, d) == FeatureEnabled(r, c) /\ IntradayCanQuery(r, d)

Listing(r) == cache[Key(Scope(r))]

InUse == {k \in Scopes : cache[k] # NewEntry}

\* What the listing queries hold afterwards, for placeholderData.
Remember(r) ==
  LET held == cache'[Key(Scope(r))].data
      view == Scope(r).view
  IN  previous' = IF held = NoData THEN previous ELSE [previous EXCEPT ![view] = held]

PageInit ==
  /\ route \in {r \in Routes : r.view = "groups" /\ r.page = FirstPage /\ r.filter = DefaultFilter}
  /\ visible = TRUE
  /\ capabilities = NoData
  /\ day = [NewPlain EXCEPT !.asked = route.context = "intraday"]
  /\ cache = [k \in Scopes |->
       IF k = Key(Scope(route)) /\ route.context = "history-data"
       THEN Fetch(NewEntry, Scope(route)) ELSE NewEntry]
  /\ previous = [v \in Views |-> NoData]
  /\ moves = 0

-----------------------------------------------------------------------------
(***************************************************************************)
(* Navigation.                                                             *)
(***************************************************************************)
\* The page is at r: the queries take their new keys and what is missing is
\* asked for.
Move(r) ==
  /\ r # route /\ moves < MaxMoves
  /\ Cardinality(InUse \cup {Key(Scope(r))}) <= MaxCached
  /\ moves' = moves + 1
  /\ route' = r
  /\ IF r.context = "intraday" THEN day' \in AskedOrFresh(day) ELSE UNCHANGED day
  /\ IF Enabled(r, capabilities, day)
     THEN \E q \in Observe(cache[Key(Scope(r))], Scope(r)) :
            cache' = [cache EXCEPT ![Key(Scope(r))] = q]
     ELSE UNCHANGED cache
  /\ Remember(r)
  /\ UNCHANGED <<visible, capabilities>>

NavigateContext ==
  \E target \in Contexts \ {route.context} :
    Move([context |-> target, view |-> "groups", filter |-> DefaultFilter, page |-> FirstPage])

SetHistoryView ==
  /\ route.context = "history-data"
  /\ \E v \in Views : Move([route EXCEPT !.view = v, !.page = FirstPage])

\* The filters of the form; reset applies the default ones.
ApplyFilters ==
  \E f \in Filters :
    Move([route EXCEPT !.filter = f, !.page = FirstPage,
                       !.view = IF route.context = "intraday" THEN "groups" ELSE @])

Shown == Held(Listing(route), previous[Scope(route).view])

\* The pages are offered below rows.
SetPage ==
  /\ Shown # NoData
  /\ \E p \in Pages : Move([route EXCEPT !.page = p])

PositiveInt(text) == IF text \in Pages THEN text ELSE FirstPage

\* The browser's back and forward, and its address line.  A view in the live context
\* changes nothing.
Travel ==
  \E r \in [context : Contexts, view : Views, filter : Filters,
            page : {PositiveInt(text) : text \in PageTexts}] :
    (r.context = "intraday" => r.view = "groups") /\ Move(r)

(***************************************************************************)
(* Answers.                                                                *)
(***************************************************************************)
\* Mutant: the query that was disabled waits for the next poll.
EnableLater(r, entry) == {entry}

\* A query that has become enabled asks for what is missing.
Enable(r, entry) == Observe(entry, Scope(r))

\* The options of the listing once c and d are known.
Reconsider(c, d) ==
  IF Enabled(route, c, d) /\ ~Enabled(route, capabilities, day)
  THEN \E q \in Enable(route, Listing(route)) :
         cache' = [cache EXCEPT ![Key(Scope(route))] = q]
  ELSE UNCHANGED cache

\* The capabilities come once, or never.
AnswerCapabilities(data) ==
  /\ capabilities = NoData
  /\ capabilities' = data
  /\ Reconsider(data, day)
  /\ Remember(route)
  /\ UNCHANGED <<route, visible, day, moves>>

AnswerDay(data) ==
  /\ day.asked
  /\ day' = Answered(data)
  /\ Reconsider(capabilities, day')
  /\ Remember(route)
  /\ UNCHANGED <<route, visible, capabilities, moves>>

DayErr ==
  /\ day.asked
  /\ day' = Failed(day)
  /\ UNCHANGED <<route, visible, capabilities, cache, previous, moves>>

\* The page observes the entry.
Observed(k) == k = Key(Scope(route))

AnswerListing(k) ==
  /\ Asked(cache[k])
  /\ cache' = [cache EXCEPT ![k] = Succeed(@, @.sent)]
  /\ Remember(route)
  /\ UNCHANGED <<route, visible, capabilities, day, moves>>

ListingErr(k) ==
  /\ Asked(cache[k])
  /\ cache' = [cache EXCEPT ![k] = Err(@, Observed(k))]
  /\ UNCHANGED <<route, visible, capabilities, day, previous, moves>>

\* Retries wait for the page to be visible.  They ask for what the page is at.
ListingAgain(k) ==
  /\ cache[k].waiting /\ visible
  /\ cache' = [cache EXCEPT ![k] = Again(@, Observed(k), Scope(route))]
  /\ UNCHANGED <<route, visible, capabilities, day, previous, moves>>

(***************************************************************************)
(* Polling and refreshing.                                                 *)
(***************************************************************************)
PollDay ==
  /\ route.context = "intraday" /\ visible
  /\ day' = Ask(day)
  /\ UNCHANGED <<route, visible, capabilities, cache, previous, moves>>

PollListing ==
  /\ route.context = "intraday" /\ visible /\ Enabled(route, capabilities, day)
  /\ cache' = [cache EXCEPT ![Key(Scope(route))] = Poll(@, Scope(route))]
  /\ UNCHANGED <<route, visible, capabilities, day, previous, moves>>

\* Mutant: the button refreshes whatever the context shows.
RefreshesAlways == TRUE

\* The listing of a day that is not known to be a trading day is not refreshed.
RefreshesListing == IntradayCanQuery(route, day)

\* refetch() does not look at enabled.
RefreshVisibleData ==
  /\ day' = IF route.context = "intraday" THEN Ask(day) ELSE day
  /\ cache' = IF RefreshesListing
              THEN [cache EXCEPT ![Key(Scope(route))] = Refetch(@, Scope(route))] ELSE cache

Refresh ==
  /\ Cardinality(InUse \cup {Key(Scope(route))}) <= MaxCached
  /\ RefreshVisibleData
  /\ UNCHANGED <<route, visible, capabilities, previous, moves>>

Hide ==
  /\ visible /\ visible' = FALSE
  /\ UNCHANGED <<route, capabilities, day, cache, previous, moves>>

Show ==
  /\ ~visible /\ visible' = TRUE
  /\ Cardinality(InUse \cup {Key(Scope(route))}) <= MaxCached
  /\ IF route.context = "intraday" THEN RefreshVisibleData ELSE UNCHANGED <<day, cache>>
  /\ UNCHANGED <<route, capabilities, previous, moves>>

\* An entry nobody has looked at for a while is dropped (gcTime).
Collect(k) ==
  /\ ~Observed(k) /\ cache[k] # NewEntry /\ ~Fetching(cache[k])
  /\ cache' = [cache EXCEPT ![k] = NewEntry]
  /\ UNCHANGED <<route, visible, capabilities, day, previous, moves>>

-----------------------------------------------------------------------------
DayEnds == DayErr \/ \E data \in Days : AnswerDay(data)

ListingEnds(k) == ListingErr(k) \/ AnswerListing(k)

PageNext ==
  \/ NavigateContext \/ SetHistoryView \/ ApplyFilters \/ SetPage \/ Travel
  \/ \E data \in Features : AnswerCapabilities(data)
  \/ DayEnds
  \/ \E k \in Scopes : ListingEnds(k) \/ ListingAgain(k) \/ Collect(k)
  \/ PollDay \/ PollListing \/ Refresh \/ Hide \/ Show

\* What the page may count on (see WebPages).
ObservedEnds == ListingEnds(Key(Scope(route)))

ObservedAgain == ListingAgain(Key(Scope(route)))

-----------------------------------------------------------------------------
(***************************************************************************)
(* Properties.                                                             *)
(***************************************************************************)
\* Types.
PageTypeOK ==
  /\ route \in Routes /\ visible \in BOOLEAN /\ moves \in 0..MaxMoves
  /\ capabilities \in Features \cup {NoData}
  /\ day \in PlainEntries(Days)
  /\ cache \in [Scopes -> Entries(Scopes, Scopes)]
  /\ previous \in [Views -> Scopes \cup {NoData}]

\* Once the rows are no longer the ones kept from before, they are the answer to
\* exactly the context, view, filters and page of the URL: no answer, retry or
\* refresh begun under another URL is shown or cached as this one's.
RowsAnswerTheRoute ==
  Listing(route).data # NoData => Listing(route).data = Scope(route)

\* While the server has not said that today is a trading day, no live listing
\* is asked for: not by a poll, by coming back to the page, or by the button.
\* What had been asked for before is retried all the same.
NoQueryWithoutTradingDay ==
  [][\A k \in Scopes :
       k.context = "intraday" /\ ~Fetching(cache[k]) /\ Fetching(cache'[k])
         => day'.data = "TRADING_DAY"]_pageVars

ListingOpen == Enabled(route, capabilities, day) /\ ~Listing(route).failed

\* What the page shows is not yet about its URL.
Unsettled ==
  \/ route.context = "intraday" /\ Awaited(day)
  \/ ListingOpen /\ (Shown = NoData \/ Shown # Scope(route))
=============================================================================
