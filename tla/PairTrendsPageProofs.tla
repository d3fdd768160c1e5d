------------------------ MODULE PairTrendsPageProofs -------------------------
(***************************************************************************)
(* What the listing of the pair-trend page shows answers its URL, and no   *)
(* live listing is asked for before the server has said that today is a    *)
(* trading day: the lemmas from which WebPagesProofs concludes.            *)
(*                                                                         *)
(* RowsAnswerTheRoute speaks of the entry the page observes.  Navigation   *)
(* makes any entry that one, so the invariant says of every entry what it  *)
(* may hold and what its request asks for (EntryFits).                     *)
(***************************************************************************)
EXTENDS PairTrendsPage, TLAPS

\* Entry q is what the cache may have under key k: rows and request are k's own,
\* and only a failed attempt that is not the last one waits.
EntryFits(k, q) ==
  /\ q \in Entries(Scopes, Scopes)
  /\ q.data # NoData => q.data = k
  /\ Fetching(q) => q.sent = k
  /\ q.waiting => q.attempt \in 1..Retries

CacheFits ==
  /\ DOMAIN cache = Scopes
  /\ cache = [k \in Scopes |-> cache[k]]
  /\ \A k \in Scopes : EntryFits(k, cache[k])

PageInv ==
  /\ route \in Routes /\ visible \in BOOLEAN /\ moves \in 0..MaxMoves
  /\ capabilities \in Features \cup {NoData}
  /\ day \in PlainEntries(Days)
  /\ previous \in [Views -> Scopes \cup {NoData}]
  /\ CacheFits

-----------------------------------------------------------------------------
(***************************************************************************)
(* The entries of the cache.                                               *)
(***************************************************************************)
LEMMA ScopeType ==
  ASSUME NEW r \in Routes
  PROVE  /\ Scope(r) \in Scopes /\ Scope(r).context = r.context
         /\ Scope(r).view \in Views /\ Key(Scope(r)) = Scope(r)
BY DEF Scope, Scopes, Routes, Views, Key, Contexts

LEMMA NewEntryFits ==
  ASSUME NEW k \in Scopes
  PROVE  EntryFits(k, NewEntry)
BY RetriesAssumption DEF EntryFits, NewEntry, Entries, Fetching

LEMMA FetchFits ==
  ASSUME NEW k \in Scopes, NEW q, EntryFits(k, q)
  PROVE  EntryFits(k, Fetch(q, k)) /\ Fetch(q, k).data = q.data
<1> DEFINE failed == q.failed /\ q.data # NoData
           f == [q EXCEPT !.attempt = 1, !.waiting = FALSE, !.sent = k, !.failed = failed]
<1>1. q \in Entries(Scopes, Scopes)
  BY DEF EntryFits
<1>2. failed \in BOOLEAN
  OBVIOUS
<1>3. Fetch(q, k) = f
  BY DEF Fetch
<1> HIDE DEF failed
<1>4. 1 \in 0..(Retries + 1)
  BY RetriesAssumption
<1>5. f \in Entries(Scopes, Scopes)
  BY <1>1, <1>2, <1>4 DEF Entries
<1>6. f.data = q.data /\ f.sent = k /\ f.waiting = FALSE
  BY <1>1 DEF Entries
<1> QED
  BY <1>3, <1>5, <1>6 DEF EntryFits

LEMMA ObserveFits ==
  ASSUME NEW k \in Scopes, NEW q, EntryFits(k, q), NEW p \in Observe(q, k)
  PROVE  EntryFits(k, p)
BY FetchFits DEF Observe

LEMMA PollFits ==
  ASSUME NEW k \in Scopes, NEW q, EntryFits(k, q)
  PROVE  EntryFits(k, Poll(q, k)) /\ EntryFits(k, Refetch(q, k))
BY FetchFits DEF Poll, Refetch

LEMMA GiveUpFits ==
  ASSUME NEW k \in Scopes, NEW q, EntryFits(k, q)
  PROVE  EntryFits(k, GiveUp(q))
<1>1. q.data \in Scopes \cup {NoData}
  BY DEF EntryFits, Entries
<1>2. GiveUp(q) \in Entries(Scopes, Scopes)
  BY <1>1, NewEntryFits DEF GiveUp, EntryFits, Entries
<1>3. GiveUp(q).data = q.data /\ GiveUp(q).attempt = 0 /\ GiveUp(q).waiting = FALSE
  BY DEF GiveUp, NewEntry
<1> QED
  BY <1>2, <1>3 DEF EntryFits, Fetching

LEMMA SucceedFits ==
  ASSUME NEW k \in Scopes, NEW q, EntryFits(k, q), Asked(q)
  PROVE  EntryFits(k, Succeed(q, q.sent))
<1>1. q.sent = k
  BY DEF EntryFits, Asked
<1>2. Succeed(q, k) \in Entries(Scopes, Scopes)
  BY NewEntryFits DEF Succeed, EntryFits, Entries
<1>3. Succeed(q, k).data = k /\ Succeed(q, k).attempt = 0 /\ Succeed(q, k).waiting = FALSE
  BY DEF Succeed, NewEntry
<1> QED
  BY <1>1, <1>2, <1>3 DEF EntryFits, Fetching

LEMMA ErrFits ==
  ASSUME NEW k \in Scopes, NEW q, EntryFits(k, q), Asked(q), NEW observed \in BOOLEAN
  PROVE  EntryFits(k, Err(q, observed))
<1>1. CASE observed /\ q.attempt <= Retries
  <2> DEFINE e == [q EXCEPT !.waiting = TRUE]
  <2>1. q \in Entries(Scopes, Scopes)
    BY DEF EntryFits
  <2>2. q.attempt \in 1..Retries
    BY <1>1, <2>1, RetriesAssumption DEF Asked, Fetching, Entries
  <2>3. e \in Entries(Scopes, Scopes) /\ e.data = q.data /\ e.sent = q.sent /\ e.attempt = q.attempt
    BY <2>1 DEF Entries
  <2>4. EntryFits(k, e)
    BY <2>2, <2>3 DEF EntryFits, Fetching
  <2> QED
    BY <1>1, <2>4 DEF Err
<1>2. CASE ~(observed /\ q.attempt <= Retries)
  BY <1>2, GiveUpFits DEF Err
<1> QED
  BY <1>1, <1>2

LEMMA AgainFits ==
  ASSUME NEW k \in Scopes, NEW q, EntryFits(k, q), q.waiting,
         NEW observed \in BOOLEAN, NEW request, observed => request = k
  PROVE  EntryFits(k, Again(q, observed, request))
<1>1. CASE observed
  <2> DEFINE e == [q EXCEPT !.attempt = @ + 1, !.waiting = FALSE, !.sent = k]
  <2>1. q \in Entries(Scopes, Scopes) /\ q.attempt + 1 \in 0..(Retries + 1)
    BY RetriesAssumption DEF EntryFits
  <2>2. e \in Entries(Scopes, Scopes) /\ e.data = q.data /\ e.sent = k /\ e.waiting = FALSE
    BY <2>1 DEF Entries
  <2>3. EntryFits(k, e)
    BY <2>2 DEF EntryFits
  <2> QED
    BY <1>1, <2>3 DEF Again
<1>2. CASE ~observed
  BY <1>2, GiveUpFits DEF Again
<1> QED
  BY <1>1, <1>2

\* Replacing one entry by one that fits keeps the cache.
LEMMA ReplaceFits ==
  ASSUME CacheFits, NEW k \in Scopes, NEW q, EntryFits(k, q),
         cache' = [cache EXCEPT ![k] = q]
  PROVE  CacheFits'
<1>1. /\ DOMAIN cache' = Scopes
      /\ \A j \in Scopes : cache'[j] = IF j = k THEN q ELSE cache[j]
  BY DEF CacheFits
<1>2. cache' = [j \in Scopes |-> cache'[j]]
  BY <1>1 DEF CacheFits
<1>3. \A j \in Scopes : EntryFits(j, cache'[j])
  BY <1>1 DEF CacheFits
<1> QED
  BY <1>1, <1>2, <1>3 DEF CacheFits, EntryFits, Fetching

LEMMA SameFits ==
  ASSUME CacheFits, UNCHANGED cache
  PROVE  CacheFits'
BY DEF CacheFits, EntryFits, Fetching

-----------------------------------------------------------------------------
(***************************************************************************)
(* The day, and what is kept for the next listing.                         *)
(***************************************************************************)
LEMMA AskType ==
  ASSUME NEW D, NEW p \in PlainEntries(D)
  PROVE  Ask(p) \in PlainEntries(D) /\ Ask(p).data = p.data
<1> DEFINE failed == p.failed /\ p.data # NoData
           a == [p EXCEPT !.asked = TRUE, !.failed = failed]
<1>1. failed \in BOOLEAN
  OBVIOUS
<1>2. Ask(p) = a
  BY DEF Ask
<1> HIDE DEF failed
<1>3. a \in PlainEntries(D) /\ a.data = p.data
  BY <1>1 DEF PlainEntries
<1> QED
  BY <1>2, <1>3

LEMMA AskedOrFreshType ==
  ASSUME NEW D, NEW p \in PlainEntries(D), NEW q \in AskedOrFresh(p)
  PROVE  q \in PlainEntries(D) /\ q.data = p.data
BY AskType DEF AskedOrFresh

LEMMA AnsweredType ==
  ASSUME NEW D, NEW data \in D
  PROVE  Answered(data) \in PlainEntries(D)
BY DEF Answered, NewPlain, PlainEntries

LEMMA FailedType ==
  ASSUME NEW D, NEW p \in PlainEntries(D)
  PROVE  Failed(p) \in PlainEntries(D)
BY DEF Failed, PlainEntries

LEMMA RememberType ==
  ASSUME NEW r \in Routes, CacheFits', Remember(r),
         previous \in [Views -> Scopes \cup {NoData}]
  PROVE  previous' \in [Views -> Scopes \cup {NoData}]
<1> DEFINE held == cache'[Key(Scope(r))].data
<1>1. EntryFits(Scope(r), cache[Scope(r)])'
  BY ScopeType DEF CacheFits
<1>2. held \in Scopes \cup {NoData}
  BY <1>1, ScopeType DEF EntryFits, Entries
<1>3. previous' = previous \/ previous' = [previous EXCEPT ![Scope(r).view] = held]
  BY DEF Remember
<1> HIDE DEF held
<1> QED
  BY <1>2, <1>3

-----------------------------------------------------------------------------
(***************************************************************************)
(* Requests that begin.                                                    *)
(***************************************************************************)
\* The step of NoQueryWithoutTradingDay.
NoEarlyQuery ==
  \A k \in Scopes :
    k.context = "intraday" /\ ~Fetching(cache[k]) /\ Fetching(cache'[k])
      => day'.data = "TRADING_DAY"

LEMMA QuietStep ==
  ASSUME UNCHANGED cache
  PROVE  NoEarlyQuery
BY DEF NoEarlyQuery, Fetching

LEMMA OneEntryStep ==
  ASSUME CacheFits, NEW k \in Scopes, NEW q, cache' = [cache EXCEPT ![k] = q],
         k.context = "intraday" => Fetching(cache[k]) \/ ~Fetching(q) \/ day'.data = "TRADING_DAY"
  PROVE  NoEarlyQuery
<1>1. \A j \in Scopes : cache'[j] = IF j = k THEN q ELSE cache[j]
  BY DEF CacheFits
<1> QED
  BY <1>1 DEF NoEarlyQuery, Fetching

LEMMA EnabledMeans ==
  ASSUME NEW r \in Routes, NEW c, NEW d, Enabled(r, c, d)
  PROVE  Scope(r).context = "intraday" => d.data = "TRADING_DAY"
BY ScopeType DEF Enabled, IntradayCanQuery

LEMMA RouteEntry ==
  ASSUME PageInv, NEW r \in Routes
  PROVE  EntryFits(Scope(r), Listing(r)) /\ Listing(r) = cache[Scope(r)]
BY ScopeType DEF PageInv, CacheFits, Listing
-----------------------------------------------------------------------------
(***************************************************************************)
(* The steps of the page.                                                  *)
(***************************************************************************)
LEMMA PageInitInv ==
  ASSUME PageInit
  PROVE  PageInv
<1>1. route \in Routes
  BY DEF PageInit
<1>2. day \in PlainEntries(Days)
  BY DEF PageInit, NewPlain, PlainEntries
<1>3. \A k \in Scopes : EntryFits(k, cache[k])
  <2>1. TAKE k \in Scopes
  <2>2. CASE k = Key(Scope(route)) /\ route.context = "history-data"
    <3>1. cache[k] = Fetch(NewEntry, k) /\ k = Scope(route)
      BY <2>2, <1>1, ScopeType DEF PageInit
    <3> QED
      BY <3>1, NewEntryFits, FetchFits
  <2>3. CASE ~(k = Key(Scope(route)) /\ route.context = "history-data")
    BY <2>3, NewEntryFits DEF PageInit
  <2> QED
    BY <2>2, <2>3
<1>4. CacheFits
  BY <1>3 DEF CacheFits, PageInit
<1>5. visible \in BOOLEAN /\ moves \in 0..MaxMoves /\ capabilities \in Features \cup {NoData}
        /\ previous \in [Views -> Scopes \cup {NoData}]
  BY MovesAssumption DEF PageInit
<1> QED
  BY <1>1, <1>2, <1>4, <1>5 DEF PageInv

LEMMA MoveInv ==
  ASSUME PageInv, NEW r \in Routes, Move(r)
  PROVE  PageInv' /\ NoEarlyQuery
<1>1. day' \in PlainEntries(Days) /\ day'.data = day.data
  <2>1. CASE r.context = "intraday"
    BY <2>1, AskedOrFreshType DEF Move, PageInv
  <2>2. CASE r.context # "intraday"
    BY <2>2 DEF Move, PageInv
  <2> QED
    BY <2>1, <2>2
<1>2. CacheFits' /\ NoEarlyQuery
  <2>1. CASE Enabled(r, capabilities, day)
    <3>1. PICK q \in Observe(cache[Scope(r)], Scope(r)) : cache' = [cache EXCEPT ![Scope(r)] = q]
      BY <2>1, ScopeType DEF Move
    <3>2. EntryFits(Scope(r), q)
      BY <3>1, RouteEntry, ScopeType, ObserveFits
    <3>3. Scope(r).context = "intraday" => day'.data = "TRADING_DAY"
      BY <2>1, <1>1, EnabledMeans
    <3>4. Scope(r) \in Scopes /\ CacheFits
      BY ScopeType DEF PageInv
    <3> QED
      BY <3>1, <3>2, <3>3, <3>4, ReplaceFits, OneEntryStep
  <2>2. CASE ~Enabled(r, capabilities, day)
    BY <2>2, SameFits, QuietStep DEF Move, PageInv
  <2> QED
    BY <2>1, <2>2
<1>3. previous' \in [Views -> Scopes \cup {NoData}]
  BY <1>2, RememberType DEF Move, PageInv
<1>4. moves' \in 0..MaxMoves
  BY MovesAssumption DEF Move, PageInv
<1> QED
  BY <1>1, <1>2, <1>3, <1>4 DEF Move, PageInv

\* The navigations go to places the page understands.
LEMMA NavigationInv ==
  ASSUME PageInv, NavigateContext \/ SetHistoryView \/ ApplyFilters \/ SetPage \/ Travel
  PROVE  PageInv' /\ NoEarlyQuery
<1>1. route \in Routes
  BY DEF PageInv
<1>2. ASSUME NavigateContext
      PROVE  PageInv' /\ NoEarlyQuery
  <2>1. PICK c \in Contexts :
          Move([context |-> c, view |-> "groups", filter |-> DefaultFilter, page |-> FirstPage])
    BY <1>2 DEF NavigateContext
  <2>2. [context |-> c, view |-> "groups", filter |-> DefaultFilter, page |-> FirstPage] \in Routes
    BY FiltersAssumption DEF Routes, Views
  <2> QED
    BY <2>1, <2>2, MoveInv
<1>3. ASSUME SetHistoryView
      PROVE  PageInv' /\ NoEarlyQuery
  <2>1. PICK v \in Views : Move([route EXCEPT !.view = v, !.page = FirstPage])
    BY <1>3 DEF SetHistoryView
  <2>2. [route EXCEPT !.view = v, !.page = FirstPage] \in Routes
    BY <1>1, FiltersAssumption DEF Routes
  <2> QED
    BY <2>1, <2>2, MoveInv
<1>4. ASSUME ApplyFilters
      PROVE  PageInv' /\ NoEarlyQuery
  <2> DEFINE view == IF route.context = "intraday" THEN "groups" ELSE route.view
  <2>1. PICK f \in Filters :
          Move([route EXCEPT !.filter = f, !.page = FirstPage, !.view = view])
    BY <1>4 DEF ApplyFilters
  <2>2. view \in Views
    BY <1>1 DEF Routes, Views
  <2> HIDE DEF view
  <2>3. [route EXCEPT !.filter = f, !.page = FirstPage, !.view = view] \in Routes
    BY <2>2, <1>1, FiltersAssumption DEF Routes
  <2> QED
    BY <2>1, <2>3, MoveInv
<1>5. ASSUME SetPage
      PROVE  PageInv' /\ NoEarlyQuery
  <2>1. PICK p \in Pages : Move([route EXCEPT !.page = p])
    BY <1>5 DEF SetPage
  <2>2. [route EXCEPT !.page = p] \in Routes
    BY <1>1 DEF Routes
  <2> QED
    BY <2>1, <2>2, MoveInv
<1>6. ASSUME Travel
      PROVE  PageInv' /\ NoEarlyQuery
  <2>1. {PositiveInt(text) : text \in PageTexts} \subseteq Pages
    BY FiltersAssumption DEF PositiveInt
  <2>2. PICK r \in [context : Contexts, view : Views, filter : Filters,
                    page : {PositiveInt(text) : text \in PageTexts}] : Move(r)
    BY <1>6 DEF Travel
  <2>3. r \in Routes
    BY <2>1 DEF Routes
  <2> QED
    BY <2>2, <2>3, MoveInv
<1> QED
  BY <1>2, <1>3, <1>4, <1>5, <1>6

\* The options of the listing change with what is known of the server and the day.
LEMMA ReconsiderFits ==
  ASSUME PageInv, NEW c, NEW d, Reconsider(c, d), day'.data = d.data
  PROVE  CacheFits' /\ NoEarlyQuery
<1>1. route \in Routes /\ CacheFits
  BY DEF PageInv
<1>2. CASE Enabled(route, c, d) /\ ~Enabled(route, capabilities, day)
  <2>1. PICK q \in Observe(cache[Scope(route)], Scope(route)) :
          cache' = [cache EXCEPT ![Scope(route)] = q]
    BY <1>1, <1>2, RouteEntry, ScopeType DEF Reconsider, Enable
  <2>2. EntryFits(Scope(route), q)
    BY <1>1, <2>1, RouteEntry, ScopeType, ObserveFits
  <2>3. Scope(route).context = "intraday" => day'.data = "TRADING_DAY"
    BY <1>1, <1>2, EnabledMeans
  <2> QED
    BY <1>1, <2>1, <2>2, <2>3, ScopeType, ReplaceFits, OneEntryStep
<1>3. CASE ~(Enabled(route, c, d) /\ ~Enabled(route, capabilities, day))
  BY <1>1, <1>3, SameFits, QuietStep DEF Reconsider
<1> QED
  BY <1>2, <1>3

LEMMA CapabilitiesInv ==
  ASSUME PageInv, NEW data \in Features, AnswerCapabilities(data)
  PROVE  PageInv' /\ NoEarlyQuery
<1>1. CacheFits' /\ NoEarlyQuery
  BY ReconsiderFits DEF AnswerCapabilities
<1>2. previous' \in [Views -> Scopes \cup {NoData}]
  BY <1>1, RememberType DEF AnswerCapabilities, PageInv
<1> QED
  BY <1>1, <1>2 DEF AnswerCapabilities, PageInv

LEMMA DayInv ==
  ASSUME PageInv, DayEnds \/ PollDay
  PROVE  PageInv' /\ NoEarlyQuery
<1>1. ASSUME NEW data \in Days, AnswerDay(data)
      PROVE  PageInv' /\ NoEarlyQuery
  <2>1. CacheFits' /\ NoEarlyQuery
    BY <1>1, ReconsiderFits DEF AnswerDay
  <2>2. day' \in PlainEntries(Days)
    BY <1>1, AnsweredType DEF AnswerDay
  <2>3. previous' \in [Views -> Scopes \cup {NoData}]
    BY <1>1, <2>1, RememberType DEF AnswerDay, PageInv
  <2> QED
    BY <1>1, <2>1, <2>2, <2>3 DEF AnswerDay, PageInv
<1>2. ASSUME DayErr
      PROVE  PageInv' /\ NoEarlyQuery
  BY <1>2, FailedType, SameFits, QuietStep DEF DayErr, PageInv
<1>3. ASSUME PollDay
      PROVE  PageInv' /\ NoEarlyQuery
  BY <1>3, AskType, SameFits, QuietStep DEF PollDay, PageInv
<1> QED
  BY <1>1, <1>2, <1>3 DEF DayEnds
\* A request that ends, is repeated or is forgotten begins none.
LEMMA ListingInv ==
  ASSUME PageInv, NEW k \in Scopes, ListingEnds(k) \/ ListingAgain(k) \/ Collect(k)
  PROVE  PageInv' /\ NoEarlyQuery
<1>1. CacheFits /\ EntryFits(k, cache[k])
  BY DEF PageInv, CacheFits
<1>2. ASSUME NEW q, EntryFits(k, q), cache' = [cache EXCEPT ![k] = q],
             Fetching(cache[k]) \/ ~Fetching(q),
             UNCHANGED <<route, visible, capabilities, day, moves>>,
             previous' \in [Views -> Scopes \cup {NoData}]
      PROVE  PageInv' /\ NoEarlyQuery
  <2>1. CacheFits' /\ NoEarlyQuery
    BY <1>1, <1>2, ReplaceFits, OneEntryStep
  <2> QED
    BY <1>2, <2>1 DEF PageInv
<1>3. ASSUME AnswerListing(k)
      PROVE  PageInv' /\ NoEarlyQuery
  <2> DEFINE q == Succeed(cache[k], cache[k].sent)
  <2>1. EntryFits(k, q)
    BY <1>1, <1>3, SucceedFits DEF AnswerListing
  <2>2. cache' = [cache EXCEPT ![k] = q] /\ Fetching(cache[k])
    BY <1>3 DEF AnswerListing, Asked
  <2>3. CacheFits'
    BY <1>1, <2>1, <2>2, ReplaceFits
  <2>4. previous' \in [Views -> Scopes \cup {NoData}]
    BY <1>3, <2>3, RememberType DEF AnswerListing, PageInv
  <2> HIDE DEF q
  <2> QED
    BY <1>2, <1>3, <2>1, <2>2, <2>4 DEF AnswerListing
<1>4. ASSUME ListingErr(k)
      PROVE  PageInv' /\ NoEarlyQuery
  <2> DEFINE q == Err(cache[k], Observed(k))
  <2>1. Observed(k) \in BOOLEAN
    BY DEF Observed
  <2>2. EntryFits(k, q)
    BY <1>1, <1>4, <2>1, ErrFits DEF ListingErr
  <2>3. cache' = [cache EXCEPT ![k] = q] /\ Fetching(cache[k])
    BY <1>4 DEF ListingErr, Asked
  <2> HIDE DEF q
  <2> QED
    BY <1>2, <1>4, <2>2, <2>3 DEF ListingErr, PageInv
<1>5. ASSUME ListingAgain(k)
      PROVE  PageInv' /\ NoEarlyQuery
  <2> DEFINE q == Again(cache[k], Observed(k), Scope(route))
  <2>1. Observed(k) \in BOOLEAN /\ (Observed(k) => Scope(route) = k)
    BY ScopeType DEF Observed, PageInv
  <2>2. EntryFits(k, q)
    BY <1>1, <1>5, <2>1, AgainFits DEF ListingAgain
  <2>3. cache' = [cache EXCEPT ![k] = q]
    BY <1>5 DEF ListingAgain
  <2>4. Fetching(cache[k])
    BY <1>1, <1>5, RetriesAssumption DEF ListingAgain, EntryFits, Fetching
  <2> HIDE DEF q
  <2> QED
    BY <1>2, <1>5, <2>2, <2>3, <2>4 DEF ListingAgain, PageInv
<1>6. ASSUME Collect(k)
      PROVE  PageInv' /\ NoEarlyQuery
  <2>1. EntryFits(k, NewEntry)
    BY NewEntryFits
  <2>2. NewEntry.attempt = 0
    BY DEF NewEntry
  <2>3. ~Fetching(NewEntry)
    BY <2>2 DEF Fetching
  <2> QED
    BY <1>2, <1>6, <2>1, <2>3 DEF Collect, PageInv
<1> QED
  BY <1>3, <1>4, <1>5, <1>6 DEF ListingEnds

LEMMA RefreshFits ==
  ASSUME PageInv, RefreshVisibleData
  PROVE  CacheFits' /\ day' \in PlainEntries(Days) /\ NoEarlyQuery
<1>1. route \in Routes /\ CacheFits
  BY DEF PageInv
<1>2. day' \in PlainEntries(Days) /\ day'.data = day.data
  BY AskType DEF RefreshVisibleData, PageInv
<1>3. CASE RefreshesListing
  <2> DEFINE q == Refetch(cache[Scope(route)], Scope(route))
  <2>1. EntryFits(Scope(route), q)
    BY <1>1, RouteEntry, ScopeType, PollFits
  <2>2. cache' = [cache EXCEPT ![Scope(route)] = q]
    BY <1>1, <1>3, ScopeType DEF RefreshVisibleData
  <2>3. Scope(route).context = "intraday" => day'.data = "TRADING_DAY"
    BY <1>1, <1>2, <1>3, ScopeType DEF RefreshesListing, IntradayCanQuery
  <2> HIDE DEF q
  <2> QED
    BY <1>1, <1>2, <2>1, <2>2, <2>3, ScopeType, ReplaceFits, OneEntryStep
<1>4. CASE ~RefreshesListing
  BY <1>1, <1>2, <1>4, SameFits, QuietStep DEF RefreshVisibleData
<1> QED
  BY <1>3, <1>4

LEMMA RefreshInv ==
  ASSUME PageInv, Refresh \/ Show \/ Hide
  PROVE  PageInv' /\ NoEarlyQuery
<1>1. ASSUME Refresh
      PROVE  PageInv' /\ NoEarlyQuery
  BY <1>1, RefreshFits DEF Refresh, PageInv
<1>2. ASSUME Show
      PROVE  PageInv' /\ NoEarlyQuery
  <2>1. CASE route.context = "intraday"
    BY <1>2, <2>1, RefreshFits DEF Show, PageInv
  <2>2. CASE route.context # "intraday"
    BY <1>2, <2>2, SameFits, QuietStep DEF Show, PageInv
  <2> QED
    BY <2>1, <2>2
<1>3. ASSUME Hide
      PROVE  PageInv' /\ NoEarlyQuery
  BY <1>3, SameFits, QuietStep DEF Hide, PageInv
<1> QED
  BY <1>1, <1>2, <1>3

LEMMA PollListingInv ==
  ASSUME PageInv, PollListing
  PROVE  PageInv' /\ NoEarlyQuery
<1> DEFINE q == Poll(cache[Scope(route)], Scope(route))
<1>1. route \in Routes /\ CacheFits
  BY DEF PageInv
<1>2. EntryFits(Scope(route), q)
  BY <1>1, RouteEntry, ScopeType, PollFits
<1>3. cache' = [cache EXCEPT ![Scope(route)] = q]
  BY <1>1, ScopeType DEF PollListing
<1>4. Scope(route).context = "intraday" => day'.data = "TRADING_DAY"
  BY <1>1, EnabledMeans DEF PollListing
<1> HIDE DEF q
<1>5. CacheFits' /\ NoEarlyQuery
  BY <1>1, <1>2, <1>3, <1>4, ScopeType, ReplaceFits, OneEntryStep
<1> QED
  BY <1>5 DEF PollListing, PageInv

LEMMA PageNextInv ==
  ASSUME PageInv, PageNext
  PROVE  PageInv' /\ NoEarlyQuery
<1>1. CASE NavigateContext \/ SetHistoryView \/ ApplyFilters \/ SetPage \/ Travel
  BY <1>1, NavigationInv
<1>2. CASE \E data \in Features : AnswerCapabilities(data)
  BY <1>2, CapabilitiesInv
<1>3. CASE DayEnds \/ PollDay
  BY <1>3, DayInv
<1>4. CASE \E k \in Scopes : ListingEnds(k) \/ ListingAgain(k) \/ Collect(k)
  BY <1>4, ListingInv
<1>5. CASE PollListing
  BY <1>5, PollListingInv
<1>6. CASE Refresh \/ Hide \/ Show
  BY <1>6, RefreshInv
<1> QED
  BY <1>1, <1>2, <1>3, <1>4, <1>5, <1>6 DEF PageNext

\* Steps of the other pages.
LEMMA PageKept ==
  ASSUME PageInv, UNCHANGED pageVars
  PROVE  PageInv' /\ NoEarlyQuery
BY SameFits, QuietStep DEF PageInv, pageVars

-----------------------------------------------------------------------------
(***************************************************************************)
(* What the invariant says.                                                *)
(***************************************************************************)
LEMMA PageTypes ==
  ASSUME PageInv
  PROVE  PageTypeOK
<1>1. cache \in [Scopes -> Entries(Scopes, Scopes)]
  BY DEF PageInv, CacheFits, EntryFits
<1> QED
  BY <1>1 DEF PageInv, PageTypeOK

LEMMA RowsAreTheRoutes ==
  ASSUME PageInv
  PROVE  RowsAnswerTheRoute
BY RouteEntry DEF PageInv, RowsAnswerTheRoute, EntryFits
=============================================================================
