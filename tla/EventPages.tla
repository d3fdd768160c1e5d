----------------------------- MODULE EventPages ------------------------------
(***************************************************************************)
(* The two pages that show a pair event over its K-lines: the detail view  *)
(* (PairTrendDetailView.vue, in the drawer and as a page of its own) and   *)
(* the stock page (StockDetailPage.vue).  Both read the same cached detail *)
(* of the event, which recommends a frequency and a window of time, and    *)
(* ask for the bars of the frequency the chart is at.                      *)
(*                                                                         *)
(* The event may be an acceptance sample, which has no official bars.  A   *)
(* live event grows while it is shown: its versions differ in hits, window *)
(* and recommendation.  Time is counted in bars of the finest frequency.   *)
(***************************************************************************)
EXTENDS QueryEntry, FiniteSets

CONSTANTS
  Frequencies,
  FirstFrequency,  \* '5m'
  Step,            \* the length of a bar of each frequency
  Reports,         \* the versions of the event, a sequence
  NoWindow,        \* the window of a stock page that has no detail
  RecentBars,      \* the bars the stock page asks for then end at or before this
  MaxBars,         \* bound of the model: chart queries cached at once
  MaxTurns         \* bound of the model: changes of page

VARIABLES
  page,          \* the page that is open
  eventContext,  \* props.context and pairContext
  sample,        \* the event is an acceptance sample
  version,       \* the server's version of the event
  detail,        \* the entry of ['pair-detail', context, eventId]; the data is a version
  frequency,     \* the frequency of the chart
  bars,          \* the entries of ['bars', ..]
  turns          \* changes of page so far

eventVars == <<page, eventContext, sample, version, detail, frequency, bars, turns>>

EventPageNames == {"detail", "stock"}

Versions == DOMAIN Reports

ASSUME ReportsAssumption ==
  /\ 1 \in Versions /\ FirstFrequency \in Frequencies
  /\ \A v \in Versions : Reports[v].recommended \in Frequencies

ASSUME TurnsAssumption == MaxTurns \in Nat

Windows == {Reports[v].window : v \in Versions} \cup {NoWindow}

\* 'pair-detail' is part of the key on one page only; symbol is always the same.
BarsKeys == [page : EventPageNames, frequency : Frequencies, window : Windows]

Ends(f, w) == {n \in 1..(IF w = NoWindow THEN RecentBars ELSE w) : n % Step[f] = 0}

BarsData == [frequency : Frequencies, window : Windows, ends : SUBSET Nat]

-----------------------------------------------------------------------------
(***************************************************************************)
(* What a page derives from the detail d it sees.                          *)
(***************************************************************************)
\* Mutant: the frequency is not part of the key.
ChartKeyWithoutFrequency(pg, f, d) ==
  [page |-> pg, frequency |-> FirstFrequency,
   window |-> IF d.data = NoData THEN NoWindow ELSE Reports[d.data].window]

ChartKey(pg, f, d) ==
  [page |-> pg, frequency |-> f,
   window |-> IF d.data = NoData THEN NoWindow ELSE Reports[d.data].window]

\* Mutant: what is not known to be a sample is none.
BarsEnabledEarly(pg, d) == d.data = NoData \/ ~sample

\* The stock page does not wait for the detail.
BarsEnabled(pg, d) ==
  IF pg = "detail" THEN d.data # NoData /\ ~sample ELSE d.data # NoData => ~sample

\* Mutant: the stock page watches the detail as a whole.
FrequencyAfterAny(pg, old, new) ==
  IF new.data # NoData /\ new.data # old.data THEN Reports[new.data].recommended ELSE frequency

\* What the watchers do when the detail changes from old to new: the detail view
\* watches it as a whole, the stock page only what it recommends.
FrequencyAfter(pg, old, new) ==
  IF \/ new.data = NoData
     \/ new.data = old.data
     \/ /\ pg = "stock" /\ old.data # NoData
        /\ Reports[old.data].recommended = Reports[new.data].recommended
  THEN frequency ELSE Reports[new.data].recommended

Chart == bars[ChartKey(page, frequency, detail)]

HitsShown ==
  IF detail.data = NoData THEN {}
  ELSE {h \in Reports[detail.data].hits : h.frequency = frequency}

Distance(m, n) == IF m < n THEN n - m ELSE m - n

\* KlineChart puts a marker on the first of the bars that end nearest to it.
MarkerBar(ends, h) ==
  CHOOSE e \in ends : \A other \in ends :
    \/ Distance(e, h.eob) < Distance(other, h.eob)
    \/ Distance(e, h.eob) = Distance(other, h.eob) /\ e <= other

-----------------------------------------------------------------------------
ChartsCached == {k \in BarsKeys : bars[k] # NewPlain}

\* Mutant: only the choice of a frequency asks for bars.
ShowChartByFrequency(pg, f, d, mounted) ==
  LET k == ChartKey(pg, f, d)
  IN  IF BarsEnabled(pg, d) /\ (mounted \/ f # frequency)
      THEN /\ Cardinality(ChartsCached \cup {k}) <= MaxBars
           /\ \E entry \in AskedOrFresh(bars[k]) : bars' = [bars EXCEPT ![k] = entry]
      ELSE UNCHANGED bars

\* The bars query takes the key of page pg, frequency f and detail d: when the key
\* changes, or the query becomes enabled, missing or stale bars are asked for.
ShowChart(pg, f, d, mounted) ==
  LET k == ChartKey(pg, f, d)
  IN  IF /\ BarsEnabled(pg, d)
         /\ mounted \/ k # ChartKey(page, frequency, detail) \/ ~BarsEnabled(page, detail)
      THEN /\ Cardinality(ChartsCached \cup {k}) <= MaxBars
           /\ \E entry \in AskedOrFresh(bars[k]) : bars' = [bars EXCEPT ![k] = entry]
      ELSE UNCHANGED bars

\* The page is opened by its address: a stock page asks for recent bars at once.
EventInit ==
  /\ page \in EventPageNames
  /\ eventContext \in {"intraday", "history-data"}
  /\ sample \in BOOLEAN
  /\ version = 1
  /\ detail = Ask(NewPlain)
  /\ frequency = FirstFrequency
  /\ bars = [k \in BarsKeys |->
       IF BarsEnabled(page, detail) /\ k = ChartKey(page, frequency, detail)
       THEN Ask(NewPlain) ELSE NewPlain]
  /\ turns = 0

(***************************************************************************)
(* The detail.                                                             *)
(***************************************************************************)
\* The engine adds to the event.
EventGrows ==
  /\ ~sample /\ version + 1 \in Versions
  /\ version' = version + 1
  /\ UNCHANGED <<page, eventContext, sample, detail, frequency, bars, turns>>

AnswerDetail ==
  /\ detail.asked
  /\ detail' = Answered(version)
  /\ frequency' = FrequencyAfter(page, detail, detail')
  /\ ShowChart(page, frequency', detail', FALSE)
  /\ UNCHANGED <<page, eventContext, sample, version, turns>>

DetailFails ==
  /\ detail.asked
  /\ detail' = Failed(detail)
  /\ UNCHANGED <<page, eventContext, sample, version, frequency, bars, turns>>

\* The detail view shows nothing but the error once reading the detail has failed.
Usable == page = "detail" => detail.data # NoData /\ ~detail.failed

\* Every 30 seconds in the live context, and by a button of the detail view.
AskDetail ==
  /\ eventContext = "intraday" \/ (page = "detail" /\ Usable)
  /\ detail' = Ask(detail)
  /\ UNCHANGED <<page, eventContext, sample, version, frequency, bars, turns>>

(***************************************************************************)
(* The chart.                                                              *)
(***************************************************************************)
\* The detail view offers the frequencies that have hits, and takes the one of a
\* hit the reader picks; the stock page offers all.
ChooseFrequency(f) ==
  /\ f # frequency /\ Usable
  /\ page = "detail" => \E h \in Reports[detail.data].hits : h.frequency = f
  /\ frequency' = f
  /\ ShowChart(page, f, detail, FALSE)
  /\ UNCHANGED <<page, eventContext, sample, version, detail, turns>>

\* The last bar may not be official yet.
AnswerBars(k, missing) ==
  /\ bars[k].asked
  /\ bars' = [bars EXCEPT ![k] = Answered(
       [frequency |-> k.frequency, window |-> k.window,
        ends |-> {e \in Ends(k.frequency, k.window) :
                    missing => \E later \in Ends(k.frequency, k.window) : later > e}])]
  /\ UNCHANGED <<page, eventContext, sample, version, detail, frequency, turns>>

BarsFail(k) ==
  /\ bars[k].asked
  /\ bars' = [bars EXCEPT ![k] = Failed(@)]
  /\ UNCHANGED <<page, eventContext, sample, version, detail, frequency, turns>>

BarsEnd(k) == BarsFail(k) \/ \E missing \in BOOLEAN : AnswerBars(k, missing)

\* An entry nobody has looked at for a while is dropped (gcTime).
ForgetBars(k) ==
  /\ bars[k] # NewPlain /\ ~bars[k].asked
  /\ k # ChartKey(page, frequency, detail)
  /\ bars' = [bars EXCEPT ![k] = NewPlain]
  /\ UNCHANGED <<page, eventContext, sample, version, detail, frequency, turns>>

\* From the event to its stock and back: the other page starts with what the
\* cache has of the detail.
OpenOtherPage(pg) ==
  /\ pg # page /\ detail.data # NoData /\ Usable /\ turns < MaxTurns
  /\ turns' = turns + 1
  /\ page' = pg
  /\ detail' \in AskedOrFresh(detail)
  /\ frequency' = Reports[detail.data].recommended
  /\ ShowChart(pg, frequency', detail', TRUE)
  /\ UNCHANGED <<eventContext, sample, version>>

-----------------------------------------------------------------------------
EventNext ==
  \/ EventGrows \/ AnswerDetail \/ DetailFails \/ AskDetail
  \/ \E f \in Frequencies : ChooseFrequency(f)
  \/ \E k \in BarsKeys : BarsEnd(k) \/ ForgetBars(k)
  \/ \E pg \in EventPageNames : OpenOtherPage(pg)

\* What the chart may count on (see WebPages).
ChartEnds == \E k \in BarsKeys : k = ChartKey(page, frequency, detail) /\ BarsEnd(k)

-----------------------------------------------------------------------------
(***************************************************************************)
(* Properties.                                                             *)
(***************************************************************************)
\* Types.
EventTypeOK ==
  /\ page \in EventPageNames /\ eventContext \in {"intraday", "history-data"}
  /\ sample \in BOOLEAN /\ version \in Versions /\ frequency \in Frequencies
  /\ detail \in PlainEntries(Versions)
  /\ DOMAIN bars = BarsKeys
  /\ \A k \in BarsKeys :
       /\ bars[k].asked \in BOOLEAN /\ bars[k].failed \in BOOLEAN
       /\ bars[k].data # NoData => bars[k].data \in BarsData
  /\ turns \in 0..MaxTurns

\* The chart never shows markers over bars of another frequency or window, however
\* polls, choices and answers interleave: a marker is on the bar its hit ended,
\* unless that bar is not there yet.
MarkersFitTheBars ==
  (BarsEnabled(page, detail) /\ Chart.data # NoData /\ HitsShown # {}) =>
    /\ Chart.data.frequency = frequency
    /\ Chart.data.window = Reports[detail.data].window
    /\ \A h \in HitsShown :
         h.eob \in Chart.data.ends => MarkerBar(Chart.data.ends, h) = h.eob

\* The detail view asks for no official bars of an acceptance sample
\* (PairTrendDetailView.vue:102), not even before it knows that it is one.
SamplesAskForNoBars ==
  sample => \A k \in BarsKeys : k.page = "detail" => bars[k] = NewPlain

\* A poll that recommends what was recommended before leaves the frequency the
\* reader has chosen on the stock page.
StockChoiceIsKept ==
  [][(/\ page = "stock" /\ page' = "stock"
      /\ detail.data # NoData /\ detail'.data # NoData /\ detail'.data # detail.data
      /\ Reports[detail'.data].recommended = Reports[detail.data].recommended)
     => frequency' = frequency]_eventVars

ChartWaits == BarsEnabled(page, detail) /\ Awaited(Chart)
=============================================================================
