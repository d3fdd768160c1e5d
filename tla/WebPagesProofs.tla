--------------------------- MODULE WebPagesProofs ----------------------------
(***************************************************************************)
(* What the pages of the front end keep true, for every instance of the    *)
(* constants.  The parts share no variable and a step is a step of one of  *)
(* them, so the invariant is the conjunction of one invariant per part.    *)
(* Those of the listing and the form are in modules of their own; here are *)
(* the event pages, the notification, the operations page, the links, and  *)
(* the theorems about the whole.                                           *)
(***************************************************************************)
EXTENDS WebPages, PairTrendsPageProofs, FilterFormProofs, TLAPS

-----------------------------------------------------------------------------
(***************************************************************************)
(* The event pages.                                                        *)
(***************************************************************************)
\* What the cache has under a key are bars of that key's frequency and window.
BarsFit(k, b) ==
  /\ b \in PlainEntries(BarsData)
  /\ b.data # NoData => b.data.frequency = k.frequency /\ b.data.window = k.window
  /\ sample /\ k.page = "detail" => b = NewPlain

AllBarsFit ==
  /\ DOMAIN bars = BarsKeys /\ bars = [k \in BarsKeys |-> bars[k]]
  /\ \A k \in BarsKeys : BarsFit(k, bars[k])

EventInv ==
  /\ page \in EventPageNames /\ eventContext \in {"intraday", "history-data"}
  /\ sample \in BOOLEAN /\ version \in Versions /\ frequency \in Frequencies
  /\ detail \in PlainEntries(Versions)
  /\ turns \in 0..MaxTurns
  /\ AllBarsFit

\* The step of StockChoiceIsKept.
ChoiceKept ==
  (/\ page = "stock" /\ page' = "stock"
   /\ detail.data # NoData /\ detail'.data # NoData /\ detail'.data # detail.data
   /\ Reports[detail'.data].recommended = Reports[detail.data].recommended)
  => frequency' = frequency

LEMMA DetailType ==
  ASSUME NEW d \in PlainEntries(Versions)
  PROVE  d.data \in Versions \cup {NoData}
BY DEF PlainEntries

LEMMA ChartKeyType ==
  ASSUME NEW pg \in EventPageNames, NEW f \in Frequencies, NEW d \in PlainEntries(Versions)
  PROVE  /\ ChartKey(pg, f, d) \in BarsKeys
         /\ ChartKey(pg, f, d).page = pg /\ ChartKey(pg, f, d).frequency = f
         /\ d.data # NoData => ChartKey(pg, f, d).window = Reports[d.data].window
<1> DEFINE w == IF d.data = NoData THEN NoWindow ELSE Reports[d.data].window
<1>1. w \in Windows
  BY DetailType DEF Windows
<1>2. ChartKey(pg, f, d) = [page |-> pg, frequency |-> f, window |-> w]
  BY DEF ChartKey
<1>3. d.data # NoData => w = Reports[d.data].window
  OBVIOUS
<1> HIDE DEF w
<1> QED
  BY <1>1, <1>2, <1>3 DEF BarsKeys

LEMMA NewBarsFit ==
  ASSUME NEW k \in BarsKeys
  PROVE  BarsFit(k, NewPlain)
BY DEF BarsFit, NewPlain, PlainEntries

LEMMA ReplaceBars ==
  ASSUME AllBarsFit, UNCHANGED sample, NEW k \in BarsKeys, NEW b, BarsFit(k, b),
         bars' = [bars EXCEPT ![k] = b]
  PROVE  AllBarsFit'
<1>1. /\ DOMAIN bars' = BarsKeys
      /\ \A j \in BarsKeys : bars'[j] = IF j = k THEN b ELSE bars[j]
  BY DEF AllBarsFit
<1>2. bars' = [j \in BarsKeys |-> bars'[j]]
  BY <1>1 DEF AllBarsFit
<1>3. \A j \in BarsKeys : BarsFit(j, bars'[j])
  BY <1>1 DEF AllBarsFit
<1>4. \A j \in BarsKeys : BarsFit(j, bars[j])'
  BY <1>3 DEF BarsFit
<1> QED
  BY <1>1, <1>2, <1>4 DEF AllBarsFit

LEMMA SameBars ==
  ASSUME AllBarsFit, UNCHANGED <<sample, bars>>
  PROVE  AllBarsFit'
BY DEF AllBarsFit, BarsFit

\* The bars query takes its key: it is one of page pg, and not of a sample's
\* detail view.
LEMMA ShowChartFits ==
  ASSUME AllBarsFit, sample \in BOOLEAN, UNCHANGED sample,
         NEW pg \in EventPageNames, NEW f \in Frequencies, NEW d \in PlainEntries(Versions),
         NEW mounted \in BOOLEAN, ShowChart(pg, f, d, mounted)
  PROVE  AllBarsFit'
<1> DEFINE k == ChartKey(pg, f, d)
<1>1. k \in BarsKeys /\ k.page = pg
  BY ChartKeyType
<1>2. CASE UNCHANGED bars
  BY <1>2, SameBars
<1>3. CASE ~UNCHANGED bars
  <2>1. BarsEnabled(pg, d)
    BY <1>3 DEF ShowChart
  <2>2. PICK entry \in AskedOrFresh(bars[k]) : bars' = [bars EXCEPT ![k] = entry]
    BY <1>3 DEF ShowChart
  <2>3. BarsFit(k, bars[k])
    BY <1>1 DEF AllBarsFit
  <2>4. entry \in PlainEntries(BarsData) /\ entry.data = bars[k].data
    BY <2>2, <2>3, AskedOrFreshType DEF BarsFit
  <2>5. ~(sample /\ pg = "detail")
    BY <2>1 DEF BarsEnabled
  <2>6. BarsFit(k, entry)
    BY <1>1, <2>3, <2>4, <2>5 DEF BarsFit
  <2> HIDE DEF k
  <2> QED
    BY <1>1, <2>2, <2>6, ReplaceBars
<1> QED
  BY <1>2, <1>3
LEMMA EventInitInv ==
  ASSUME EventInit
  PROVE  EventInv
<1>1. detail \in PlainEntries(Versions) /\ detail.data = NoData
  <2>1. NewPlain \in PlainEntries(Versions) /\ NewPlain.data = NoData
    BY DEF NewPlain, PlainEntries
  <2> QED
    BY <2>1, AskType DEF EventInit
<1>2. \A k \in BarsKeys : BarsFit(k, bars[k])
  <2>1. TAKE k \in BarsKeys
  <2>2. CASE BarsEnabled(page, detail) /\ k = ChartKey(page, frequency, detail)
    <3>1. bars[k] = Ask(NewPlain)
      BY <2>2 DEF EventInit
    <3>2. Ask(NewPlain) \in PlainEntries(BarsData) /\ Ask(NewPlain).data = NoData
      <4>1. NewPlain \in PlainEntries(BarsData) /\ NewPlain.data = NoData
        BY DEF NewPlain, PlainEntries
      <4> QED
        BY <4>1, AskType
    <3>3. k.page = "stock"
      BY <1>1, <2>2 DEF BarsEnabled, ChartKey, EventInit, EventPageNames
    <3> QED
      BY <3>1, <3>2, <3>3 DEF BarsFit
  <2>3. CASE ~(BarsEnabled(page, detail) /\ k = ChartKey(page, frequency, detail))
    BY <2>3, NewBarsFit DEF EventInit
  <2> QED
    BY <2>2, <2>3
<1>3. AllBarsFit
  BY <1>2 DEF AllBarsFit, EventInit
<1> QED
  BY <1>1, <1>3, ReportsAssumption, TurnsAssumption DEF EventInit, EventInv

LEMMA FrequencyAfterType ==
  ASSUME NEW pg, NEW old, NEW new \in PlainEntries(Versions), frequency \in Frequencies
  PROVE  FrequencyAfter(pg, old, new) \in Frequencies
BY DetailType, ReportsAssumption DEF FrequencyAfter

LEMMA AnswerDetailInv ==
  ASSUME EventInv, AnswerDetail
  PROVE  EventInv' /\ ChoiceKept
<1>1. detail' \in PlainEntries(Versions)
  BY AnsweredType DEF AnswerDetail, EventInv
<1>2. frequency' \in Frequencies
  BY <1>1, FrequencyAfterType DEF AnswerDetail, EventInv
<1>3. AllBarsFit'
  BY <1>1, <1>2, ShowChartFits DEF AnswerDetail, EventInv
<1>4. ChoiceKept
  BY DEF AnswerDetail, ChoiceKept, FrequencyAfter
<1> QED
  BY <1>1, <1>2, <1>3, <1>4 DEF AnswerDetail, EventInv

\* Steps of the detail that change neither what it says nor the chart.
LEMMA DetailInv ==
  ASSUME EventInv, EventGrows \/ DetailFails \/ AskDetail
  PROVE  EventInv' /\ ChoiceKept
<1>1. AllBarsFit'
  BY SameBars DEF EventGrows, DetailFails, AskDetail, EventInv
<1>2. detail' \in PlainEntries(Versions) /\ detail'.data = detail.data
  <2>1. detail \in PlainEntries(Versions)
    BY DEF EventInv
  <2>2. CASE EventGrows
    BY <2>1, <2>2 DEF EventGrows
  <2>3. CASE DetailFails
    <3>1. Failed(detail) \in PlainEntries(Versions) /\ Failed(detail).data = detail.data
      BY <2>1 DEF Failed, PlainEntries
    <3> QED
      BY <2>3, <3>1 DEF DetailFails
  <2>4. CASE AskDetail
    BY <2>1, <2>4, AskType DEF AskDetail
  <2> QED
    BY <2>2, <2>3, <2>4
<1> QED
  BY <1>1, <1>2 DEF EventGrows, DetailFails, AskDetail, EventInv, ChoiceKept

LEMMA ChooseFrequencyInv ==
  ASSUME EventInv, NEW f \in Frequencies, ChooseFrequency(f)
  PROVE  EventInv' /\ ChoiceKept
<1>1. AllBarsFit'
  BY ShowChartFits DEF ChooseFrequency, EventInv
<1> QED
  BY <1>1 DEF ChooseFrequency, EventInv, ChoiceKept

LEMMA EndsAreNat ==
  ASSUME NEW f, NEW w
  PROVE  Ends(f, w) \subseteq Nat
BY DEF Ends

LEMMA BarsInv ==
  ASSUME EventInv, NEW k \in BarsKeys, BarsEnd(k) \/ ForgetBars(k)
  PROVE  EventInv' /\ ChoiceKept
<1>1. AllBarsFit /\ BarsFit(k, bars[k])
  BY DEF EventInv, AllBarsFit
<1>2. UNCHANGED <<page, eventContext, sample, version, detail, frequency, turns>>
  BY DEF BarsEnd, BarsFail, AnswerBars, ForgetBars
<1>3. CASE BarsFail(k)
  <2>1. Failed(bars[k]) \in PlainEntries(BarsData) /\ Failed(bars[k]).data = bars[k].data
    BY <1>1 DEF BarsFit, Failed, PlainEntries
  <2>2. ~(sample /\ k.page = "detail")
    BY <1>1, <1>3 DEF BarsFail, BarsFit, NewPlain
  <2>3. BarsFit(k, Failed(bars[k]))
    BY <1>1, <2>1, <2>2 DEF BarsFit
  <2> QED
    BY <1>1, <1>2, <1>3, <2>3, ReplaceBars DEF BarsFail, EventInv, ChoiceKept
<1>4. ASSUME NEW missing \in BOOLEAN, AnswerBars(k, missing)
      PROVE  EventInv' /\ ChoiceKept
  <2> DEFINE ends == {e \in Ends(k.frequency, k.window) :
                       missing => \E later \in Ends(k.frequency, k.window) : later > e}
             data == [frequency |-> k.frequency, window |-> k.window, ends |-> ends]
  <2>1. ends \in SUBSET Nat
    BY EndsAreNat
  <2>2. bars' = [bars EXCEPT ![k] = Answered(data)]
    BY <1>4 DEF AnswerBars
  <2> HIDE DEF ends
  <2>3. data \in BarsData /\ data.frequency = k.frequency /\ data.window = k.window
    BY <2>1 DEF BarsData, BarsKeys
  <2> HIDE DEF data
  <2>4. Answered(data) \in PlainEntries(BarsData)
    BY <2>3, AnsweredType
  <2>5. Answered(data).data = data
    BY DEF Answered, NewPlain
  <2>6. ~(sample /\ k.page = "detail")
    BY <1>1, <1>4 DEF AnswerBars, BarsFit, NewPlain
  <2>7. BarsFit(k, Answered(data))
    BY <2>3, <2>4, <2>5, <2>6 DEF BarsFit
  <2> QED
    BY <1>1, <1>2, <2>2, <2>7, ReplaceBars DEF EventInv, ChoiceKept
<1>5. CASE ForgetBars(k)
  BY <1>1, <1>2, <1>5, NewBarsFit, ReplaceBars DEF ForgetBars, EventInv, ChoiceKept
<1> QED
  BY <1>3, <1>4, <1>5 DEF BarsEnd

LEMMA OpenOtherPageInv ==
  ASSUME EventInv, NEW pg \in EventPageNames, OpenOtherPage(pg)
  PROVE  EventInv' /\ ChoiceKept
<1>1. detail' \in PlainEntries(Versions)
  BY AskedOrFreshType DEF OpenOtherPage, EventInv
<1>2. frequency' \in Frequencies
  BY DetailType, ReportsAssumption DEF OpenOtherPage, EventInv
<1>3. AllBarsFit'
  BY <1>1, <1>2, ShowChartFits DEF OpenOtherPage, EventInv
<1>4. turns' \in 0..MaxTurns
  BY TurnsAssumption DEF OpenOtherPage, EventInv
<1>5. ChoiceKept
  BY DEF OpenOtherPage, ChoiceKept
<1> QED
  BY <1>1, <1>2, <1>3, <1>4, <1>5 DEF OpenOtherPage, EventInv

LEMMA EventNextInv ==
  ASSUME EventInv, EventNext
  PROVE  EventInv' /\ ChoiceKept
BY AnswerDetailInv, DetailInv, ChooseFrequencyInv, BarsInv, OpenOtherPageInv DEF EventNext

LEMMA EventKept ==
  ASSUME EventInv, UNCHANGED eventVars
  PROVE  EventInv' /\ ChoiceKept
<1>1. AllBarsFit'
  BY SameBars DEF EventInv, eventVars
<1> QED
  BY <1>1 DEF EventInv, eventVars, ChoiceKept

LEMMA DistanceIs ==
  ASSUME NEW m \in Nat, NEW n \in Nat
  PROVE  Distance(m, n) \in Nat /\ (Distance(m, n) = 0 <=> m = n)
BY DEF Distance

\* The bar a hit ended is nearer to it than any other.
LEMMA MarkerIsOnItsBar ==
  ASSUME NEW ends \in SUBSET Nat, NEW h, h.eob \in ends
  PROVE  MarkerBar(ends, h) = h.eob
<1> DEFINE Nearest(e) == \A other \in ends :
             \/ Distance(e, h.eob) < Distance(other, h.eob)
             \/ Distance(e, h.eob) = Distance(other, h.eob) /\ e <= other
<1> h.eob \in Nat
  OBVIOUS
<1>1. Nearest(h.eob)
  <2>1. ASSUME NEW other \in ends
        PROVE  \/ Distance(h.eob, h.eob) < Distance(other, h.eob)
               \/ Distance(h.eob, h.eob) = Distance(other, h.eob) /\ h.eob <= other
    <3>1. other \in Nat
      OBVIOUS
    <3>2. Distance(h.eob, h.eob) = 0 /\ Distance(other, h.eob) \in Nat
      BY <3>1, DistanceIs
    <3>3. Distance(other, h.eob) = 0 <=> other = h.eob
      BY <3>1, DistanceIs
    <3> QED
      BY <3>1, <3>2, <3>3
  <2> QED
    BY <2>1
<1>2. \A e \in ends : Nearest(e) => e = h.eob
  <2>1. ASSUME NEW e \in ends, Nearest(e)
        PROVE  e = h.eob
    <3>1. \/ Distance(e, h.eob) < Distance(h.eob, h.eob)
          \/ Distance(e, h.eob) = Distance(h.eob, h.eob)
      BY <2>1
    <3>2. e \in Nat /\ Distance(h.eob, h.eob) = 0
      BY DistanceIs
    <3> QED
      BY <3>1, <3>2, DistanceIs
  <2> QED
    BY <2>1
<1>3. MarkerBar(ends, h) = CHOOSE e \in ends : Nearest(e)
  BY DEF MarkerBar
<1> HIDE DEF Nearest
<1> QED
  BY <1>1, <1>2, <1>3

LEMMA EventFacts ==
  ASSUME EventInv
  PROVE  EventTypeOK /\ MarkersFitTheBars /\ SamplesAskForNoBars
<1>1. \A k \in BarsKeys : BarsFit(k, bars[k])
  BY DEF EventInv, AllBarsFit
<1>2. EventTypeOK
  <2>1. \A k \in BarsKeys :
          /\ bars[k].asked \in BOOLEAN /\ bars[k].failed \in BOOLEAN
          /\ bars[k].data # NoData => bars[k].data \in BarsData
    BY <1>1 DEF BarsFit, PlainEntries
  <2> QED
    BY <2>1 DEF EventTypeOK, EventInv, AllBarsFit
<1>3. SamplesAskForNoBars
  BY <1>1 DEF SamplesAskForNoBars, BarsFit
<1>4. MarkersFitTheBars
  <2> DEFINE k == ChartKey(page, frequency, detail)
  <2>1. SUFFICES ASSUME Chart.data # NoData, HitsShown # {}
                 PROVE  /\ Chart.data.frequency = frequency
                        /\ Chart.data.window = Reports[detail.data].window
                        /\ \A h \in HitsShown : h.eob \in Chart.data.ends =>
                             MarkerBar(Chart.data.ends, h) = h.eob
    BY DEF MarkersFitTheBars
  <2>2. detail.data # NoData
    BY <2>1 DEF HitsShown
  <2>3. /\ k \in BarsKeys /\ k.frequency = frequency
        /\ k.window = Reports[detail.data].window
    BY <2>2, ChartKeyType DEF EventInv
  <2>4. Chart = bars[k]
    BY DEF Chart
  <2> HIDE DEF k
  <2>5. BarsFit(k, Chart)
    BY <1>1, <2>3, <2>4
  <2>6. Chart.data \in BarsData
    BY <2>1, <2>5 DEF BarsFit, PlainEntries
  <2>7. Chart.data.ends \in SUBSET Nat
    BY <2>6 DEF BarsData
  <2> QED
    BY <2>1, <2>3, <2>5, <2>7, MarkerIsOnItsBar DEF BarsFit
<1> QED
  BY <1>2, <1>3, <1>4

-----------------------------------------------------------------------------
(***************************************************************************)
(* The notification.  What the card shows, or what a reading has taken     *)
(* along, is the task of the server, or a PATCH that is done will have the *)
(* list read again.                                                        *)
(***************************************************************************)
Due == \E c \in changes : c.done

TaskInv ==
  /\ TaskTypeOK
  /\ ~missed /\ listing = Idle => cards = stored \/ Due
  /\ ~missed /\ listing.phase = "read" => listing.task = stored \/ Due

LEMMA ListingType ==
  ASSUME TaskTypeOK
  PROVE  \/ listing = Idle /\ listing.phase = "none"
         \/ listing = [phase |-> "asked"] /\ listing.phase = "asked" /\ listing # Idle
         \/ listing.phase = "read" /\ listing.task \in Tasks /\ listing # Idle
BY DEF TaskTypeOK, Idle

LEMMA TaskInitInv ==
  ASSUME TaskInit
  PROVE  TaskInv
BY DEF TaskInit, TaskInv, TaskTypeOK, Idle

LEMMA UpdateInv ==
  ASSUME TaskInv, NEW state \in Patches, UpdateNotification(state)
  PROVE  TaskInv'
<1> DEFINE slot == CHOOSE n \in FreeSlots : TRUE
           c == [slot |-> slot, to |-> state, done |-> FALSE]
<1>1. slot \in 1..MaxChanges
  BY DEF UpdateNotification, FreeSlots
<1>2. changes' = changes \cup {c}
  BY DEF UpdateNotification
<1> HIDE DEF slot
<1>3. c \in Change
  BY <1>1 DEF Change
<1> HIDE DEF c
<1>4. Due => Due'
  BY <1>2 DEF Due
<1> QED
  BY <1>2, <1>3, <1>4 DEF UpdateNotification, TaskInv, TaskTypeOK

LEMMA ClickInv ==
  ASSUME TaskInv, OpenCard \/ ToggleStar \/ HandleTask
  PROVE  TaskInv'
<1>1. cards.isStarred \in BOOLEAN
  BY DEF TaskInv, TaskTypeOK, Tasks
<1>2. [isStarred |-> ~cards.isStarred] \in Patches
  BY <1>1 DEF Patches
<1>3. [isRead |-> TRUE] \in Patches /\ [isRead |-> TRUE, handled |-> TRUE] \in Patches
  BY DEF Patches
<1> QED
  BY <1>2, <1>3, UpdateInv DEF OpenCard, ToggleStar, HandleTask

LEMMA PatchedType ==
  ASSUME NEW task \in Tasks, NEW state \in Patches
  PROVE  [f \in DOMAIN task |-> IF f \in DOMAIN state THEN state[f] ELSE task[f]] \in Tasks
<1>1. \A f \in DOMAIN state : state[f] \in BOOLEAN
  <2>1. CASE state = [isRead |-> TRUE]
    <3>1. DOMAIN state = {"isRead"}
      BY <2>1
    <3>2. state["isRead"] \in BOOLEAN
      BY <2>1
    <3> QED
      BY <3>1, <3>2
  <2>2. ASSUME NEW b \in BOOLEAN, state = [isStarred |-> b]
        PROVE  \A f \in DOMAIN state : state[f] \in BOOLEAN
    <3>1. DOMAIN state = {"isStarred"}
      BY <2>2
    <3>2. state["isStarred"] \in BOOLEAN
      BY <2>2
    <3> QED
      BY <3>1, <3>2
  <2>3. CASE state = [isRead |-> TRUE, handled |-> TRUE]
    <3>1. DOMAIN state = {"isRead", "handled"}
      BY <2>3
    <3>2. state["isRead"] \in BOOLEAN /\ state["handled"] \in BOOLEAN
      BY <2>3
    <3> QED
      BY <3>1, <3>2
  <2> QED
    BY <2>1, <2>2, <2>3 DEF Patches
<1> DEFINE fields == {"isRead", "isStarred", "handled"}
           new == [f \in fields |-> IF f \in DOMAIN state THEN state[f] ELSE task[f]]
<1>2. DOMAIN task = fields /\ \A f \in fields : task[f] \in BOOLEAN
  BY DEF Tasks
<1>3. \A f \in fields : new[f] \in BOOLEAN
  BY <1>1, <1>2
<1>4. new = [isRead |-> new["isRead"], isStarred |-> new["isStarred"],
             handled |-> new["handled"]]
  OBVIOUS
<1>5. new["isRead"] \in BOOLEAN /\ new["isStarred"] \in BOOLEAN /\ new["handled"] \in BOOLEAN
  BY <1>3
<1> HIDE DEF new
<1>6. new \in Tasks
  BY <1>4, <1>5 DEF Tasks
<1> QED
  BY <1>2, <1>6 DEF new

LEMMA ApplyChangeInv ==
  ASSUME TaskInv, NEW c \in changes, ApplyChange(c)
  PROVE  TaskInv'
<1> DEFINE d == [c EXCEPT !.done = TRUE]
<1>1. c \in Change
  BY DEF TaskInv, TaskTypeOK
<1>2. d \in Change /\ d.done
  BY <1>1 DEF Change
<1>3. changes' = (changes \ {c}) \cup {d}
  BY DEF ApplyChange
<1> HIDE DEF d
<1>4. Due'
  BY <1>2, <1>3 DEF Due
<1>5. stored' \in Tasks
  BY <1>1, PatchedType DEF ApplyChange, TaskInv, TaskTypeOK, Change
<1> QED
  BY <1>2, <1>3, <1>4, <1>5 DEF ApplyChange, TaskInv, TaskTypeOK

LEMMA ChangeEndsInv ==
  ASSUME TaskInv, NEW c \in changes, ChangeSucceeds(c) \/ ChangeFails(c)
  PROVE  TaskInv'
<1>1. CASE ChangeSucceeds(c)
  <2>1. listing' = [phase |-> "asked"]
    BY <1>1 DEF ChangeSucceeds, ListingAfterwards
  <2>2. listing' # Idle /\ listing'.phase # "read"
    BY <2>1 DEF Idle
  <2>3. TaskTypeOK'
    BY <1>1, <2>1 DEF ChangeSucceeds, TaskInv, TaskTypeOK
  <2> QED
    BY <2>2, <2>3 DEF TaskInv
<1>2. CASE ChangeFails(c)
  <2>1. c.done \in BOOLEAN
    BY DEF TaskInv, TaskTypeOK, Change
  <2>2. TaskTypeOK'
    BY <1>2, <2>1 DEF ChangeFails, TaskInv, TaskTypeOK
  <2>3. ~missed' => ~missed /\ (Due => Due')
    BY <1>2 DEF ChangeFails, Due
  <2> QED
    BY <1>2, <2>2, <2>3 DEF ChangeFails, TaskInv
<1> QED
  BY <1>1, <1>2

LEMMA ReadingInv ==
  ASSUME TaskInv, ReadTasks \/ ShowTasks \/ ListingFails
  PROVE  TaskInv'
<1> USE DEF TaskInv
<1>1. CASE ReadTasks
  <2> DEFINE l == [phase |-> "read", task |-> stored]
  <2>1. l.phase = "read" /\ l.task = stored /\ l # Idle
    BY DEF Idle
  <2>2. l \in [phase : {"read"}, task : Tasks]
    BY DEF TaskTypeOK
  <2>3. listing' = l
    BY <1>1 DEF ReadTasks
  <2> HIDE DEF l
  <2> QED
    BY <1>1, <2>1, <2>2, <2>3 DEF ReadTasks, TaskTypeOK
<1>2. CASE ShowTasks
  <2>1. listing.task \in Tasks /\ (~missed => listing.task = stored \/ Due)
    BY <1>2, ListingType DEF ShowTasks
  <2>2. listing'.phase # "read" /\ (Due => Due')
    BY <1>2 DEF ShowTasks, Idle, Due
  <2> QED
    BY <1>2, <2>1, <2>2 DEF ShowTasks, TaskTypeOK
<1>3. CASE ListingFails
  BY <1>3 DEF ListingFails, TaskTypeOK
<1> QED
  BY <1>1, <1>2, <1>3

LEMMA TaskNextInv ==
  ASSUME TaskInv, TaskNext
  PROVE  TaskInv'
BY ClickInv, ApplyChangeInv, ChangeEndsInv, ReadingInv DEF TaskNext

LEMMA TaskKept ==
  ASSUME TaskInv, UNCHANGED taskVars
  PROVE  TaskInv'
BY DEF TaskInv, TaskTypeOK, Due, taskVars

LEMMA TaskFacts ==
  ASSUME TaskInv
  PROVE  TaskTypeOK /\ CardsAgreeWhenQuiet
BY DEF TaskInv, CardsAgreeWhenQuiet, Due

-----------------------------------------------------------------------------
(***************************************************************************)
(* The operations page.  What it shows is a report of the server.          *)
(***************************************************************************)
Told == {Report(s) : s \in Situations}

StatusInv == status \in PlainEntries(Told)

LEMMA StatusInitInv ==
  ASSUME StatusInit
  PROVE  StatusInv
<1>1. NewPlain \in PlainEntries(Told)
  BY DEF NewPlain, PlainEntries
<1> QED
  BY <1>1, AskType DEF StatusInit, StatusInv

LEMMA StatusNextInv ==
  ASSUME StatusInv, StatusNext
  PROVE  StatusInv'
<1>1. CASE PollStatus
  BY <1>1, AskType DEF PollStatus, StatusInv
<1>2. CASE AnswerStatus
  <2>1. PICK s \in Situations : status' = Answered(Report(s))
    BY <1>2 DEF AnswerStatus
  <2>2. Report(s) \in Told
    BY DEF Told
  <2> QED
    BY <2>1, <2>2, AnsweredType DEF StatusInv
<1>3. CASE StatusFails
  BY <1>3, FailedType DEF StatusFails, StatusInv
<1> QED
  BY <1>1, <1>2, <1>3 DEF StatusNext

LEMMA StatusKept ==
  ASSUME StatusInv, UNCHANGED status
  PROVE  StatusInv'
BY DEF StatusInv

LEMMA CollectorType ==
  ASSUME NEW s \in Situations
  PROVE  /\ Collector(s).status \in {"healthy", "degraded", "offline"}
         /\ Collector(s).running \in Nat
         /\ Collector(s).status = "healthy" => Collector(s).running = ExpectedProcesses
<1>1. CASE ~s.snapshot \/ s.collectors = << >>
  BY <1>1 DEF Collector
<1>2. CASE ~(~s.snapshot \/ s.collectors = << >>)
  <2>1. PICK h \in Heartbeats : s.collectors = <<h>>
    BY <1>2 DEF Situations
  <2>2. s.collectors[1] = h
    BY <2>1
  <2>3. h.running \in Nat
    BY ExpectedProcessesAssumption DEF Heartbeats
  <2>4. Collector(s) = [status |-> CollectorHealth(h), running |-> h.running]
    BY <1>2, <2>2 DEF Collector
  <2> QED
    BY <2>3, <2>4 DEF CollectorHealth, Mismatch
<1> QED
  BY <1>1, <1>2

LEMMA FullCapacity ==
  ASSUME NEW d, d.collector.running = ExpectedProcesses
  PROVE  ProcessCapacity(d) = 100
<1> DEFINE E == ExpectedProcesses
           x == 200 * E + E
           y == 2 * E
           q == x \div y
<1>1. E \in Nat \ {0}
  BY ExpectedProcessesAssumption
<1>2. x \in Nat /\ y \in Nat /\ y > 0 /\ x >= y * 100
  BY <1>1
<1>3. ASSUME NEW a \in Nat, NEW b \in Nat, b > 0, a >= b * 100
      PROVE  a \div b \in Int /\ a \div b >= 100
  <2> DEFINE k == a \div b
  <2>1. k \in Int /\ a < b * (k + 1)
    BY <1>3
  <2> HIDE DEF k
  <2>2. ASSUME k < 100 PROVE FALSE
    <3>1. b * (k + 1) <= b * 100
      BY <1>3, <2>1, <2>2
    <3> QED
      BY <1>3, <2>1, <3>1
  <2>3. k >= 100
    BY <2>1, <2>2
  <2> QED
    BY <2>1, <2>3 DEF k
<1>4. q \in Int /\ q >= 100
  BY <1>2, <1>3
<1>5. ProcessCapacity(d) = IF q > 100 THEN 100 ELSE q
  BY DEF ProcessCapacity
<1> HIDE DEF q
<1> QED
  BY <1>4, <1>5

LEMMA PartsType ==
  ASSUME NEW s \in Situations
  PROVE  /\ Collector(s) \in [status : Statuses, running : Nat]
         /\ ActiveBlacklist(s) \in Nat
         /\ RecentErrors(s) \in BOOLEAN
<1>1. Collector(s) \in [status : Statuses, running : Nat]
  <2>1. CASE ~s.snapshot \/ s.collectors = << >>
    BY <2>1 DEF Collector, Statuses
  <2>2. CASE ~(~s.snapshot \/ s.collectors = << >>)
    <3>1. Collector(s) = [status |-> CollectorHealth(s.collectors[1]),
                          running |-> s.collectors[1].running]
      BY <2>2 DEF Collector
    <3>2. CollectorHealth(s.collectors[1]) \in Statuses
      BY DEF CollectorHealth, Statuses
    <3>3. s.collectors[1].running \in Nat
      BY <3>1, CollectorType
    <3> QED
      BY <3>1, <3>2, <3>3
  <2> QED
    BY <2>1, <2>2
<1>2. ActiveBlacklist(s) \in Nat
  BY DEF ActiveBlacklist, Situations
<1>3. RecentErrors(s) \in BOOLEAN
  BY DEF RecentErrors, CollectorErrors
<1> QED
  BY <1>1, <1>2, <1>3

\* What a report says of its parts.
LEMMA ReportSays ==
  ASSUME NEW s \in Situations
  PROVE  /\ Report(s) \in ReportsOfStatus
         /\ Report(s).collector = Collector(s)
         /\ Report(s).api = "healthy" <=> s.snapshot
         /\ Report(s).website = "healthy" <=> s.site
         /\ Report(s).database = "healthy" <=> s.snapshot
         /\ Report(s).blacklist = ActiveBlacklist(s)
         /\ Report(s).errors = RecentErrors(s)
         /\ Report(s).overall = ResolveOverallStatus(Report(s).api, Report(s).website,
              Collector(s).status, s.collection, ActiveBlacklist(s))
<1> DEFINE api == IF s.snapshot THEN "healthy" ELSE "degraded"
           website == IF s.site THEN "healthy" ELSE "unhealthy"
           database == IF s.snapshot THEN "healthy" ELSE "unhealthy"
           overall == ResolveOverallStatus(api, website, Collector(s).status, s.collection,
                                           ActiveBlacklist(s))
           r == [overall |-> overall, collector |-> Collector(s), api |-> api,
                 website |-> website, database |-> database,
                 blacklist |-> ActiveBlacklist(s), errors |-> RecentErrors(s)]
<1>1. Report(s) = r
  BY DEF Report
<1>2. /\ api \in Statuses /\ website \in Statuses /\ database \in Statuses
      /\ api = "healthy" <=> s.snapshot
      /\ website = "healthy" <=> s.site
      /\ database = "healthy" <=> s.snapshot
  BY DEF Statuses
<1>3. overall \in Statuses
  BY DEF ResolveOverallStatus, Statuses
<1>4. /\ r.collector = Collector(s) /\ r.api = api /\ r.website = website
      /\ r.database = database /\ r.blacklist = ActiveBlacklist(s)
      /\ r.errors = RecentErrors(s)
  OBVIOUS
<1>5. r.overall = overall
  OBVIOUS
<1>6. overall = ResolveOverallStatus(api, website, Collector(s).status, s.collection,
                                     ActiveBlacklist(s))
  OBVIOUS
<1> HIDE DEF api, website, database, overall
<1>7. r \in ReportsOfStatus
  BY <1>2, <1>3, PartsType DEF ReportsOfStatus
<1> HIDE DEF r
<1> QED
  BY <1>1, <1>2, <1>4, <1>5, <1>6, <1>7

LEMMA StatusFacts ==
  ASSUME StatusInv
  PROVE  StatusTypeOK /\ OverallIsExplained
<1>1. status.asked \in BOOLEAN /\ status.failed \in BOOLEAN
  BY DEF StatusInv, PlainEntries
<1>2. status.data # NoData => \E s \in Situations : status.data = Report(s)
  BY DEF StatusInv, PlainEntries, Told
<1>3. StatusTypeOK
  BY <1>1, <1>2, ReportSays DEF StatusTypeOK
<1>4. ASSUME NEW s \in Situations
      PROVE  LET d == Report(s)
             IN  /\ StatusLevel(d.overall) = "healthy" =>
                      CardsHealthy(d) /\ ProcessCapacity(d) = 100 /\ d.blacklist = 0
                 /\ StatusLevel(d.overall) # "healthy" =>
                      ~CardsHealthy(d) \/ d.blacklist > 0 \/ d.errors
  <2> DEFINE d == Report(s)
  <2>1. /\ d \in ReportsOfStatus /\ d.collector = Collector(s)
        /\ d.blacklist = ActiveBlacklist(s) /\ d.errors = RecentErrors(s)
        /\ d.overall = ResolveOverallStatus(d.api, d.website, d.collector.status,
             s.collection, d.blacklist)
    BY ReportSays
  <2>2. d.api = "healthy" <=> d.database = "healthy"
    BY ReportSays
  <2>3. d.collector.status = "healthy" => d.collector.running = ExpectedProcesses
    BY <2>1, CollectorType
  <2>4. s.collection = "failed" => d.errors
    BY <2>1 DEF RecentErrors
  <2> HIDE DEF d
  <2>5. \A v \in Statuses : StatusLevel(v) = "healthy" <=> v = "healthy"
    BY DEF StatusLevel, Statuses
  <2>6. Cards(d) \subseteq Statuses /\ d.overall \in Statuses /\ d.blacklist \in Nat
    BY <2>1 DEF Cards, ReportsOfStatus
  <2>7. CardsHealthy(d) <=> \A v \in Cards(d) : v = "healthy"
    BY <2>5, <2>6 DEF CardsHealthy
  <2>8. CASE d.overall = "healthy"
    <3>1. /\ d.api = "healthy" /\ d.website = "healthy" /\ d.collector.status = "healthy"
          /\ ~(d.blacklist > 0)
      BY <2>1, <2>8 DEF ResolveOverallStatus
    <3>2. CardsHealthy(d)
      BY <2>2, <2>7, <3>1 DEF Cards
    <3>3. ProcessCapacity(d) = 100
      BY <2>3, <3>1, FullCapacity
    <3>4. d.blacklist = 0
      BY <2>6, <3>1
    <3> QED
      BY <2>5, <2>6, <2>8, <3>2, <3>3, <3>4 DEF d
  <2>9. CASE d.overall # "healthy"
    <3>1. \/ d.api # "healthy" \/ d.website # "healthy"
          \/ d.collector.status # "healthy" \/ s.collection = "failed" \/ d.blacklist > 0
      BY <2>1, <2>9 DEF ResolveOverallStatus
    <3>2. d.api # "healthy" \/ d.website # "healthy" \/ d.collector.status # "healthy"
            => ~CardsHealthy(d)
      BY <2>7 DEF Cards
    <3>3. ~CardsHealthy(d) \/ d.blacklist > 0 \/ d.errors
      BY <2>4, <3>1, <3>2
    <3> QED
      BY <2>5, <2>6, <2>9, <3>3 DEF d
  <2> QED
    BY <2>8, <2>9
<1>5. OverallIsExplained
  BY <1>2, <1>4 DEF OverallIsExplained
<1> QED
  BY <1>3, <1>5

-----------------------------------------------------------------------------
(***************************************************************************)
(* The links.  An old address says whether it asked for the replay and     *)
(* which event it was about until the redirection has taken place.         *)
(***************************************************************************)
RouteInv ==
  /\ RouteTypeOK
  /\ ReplayIsExplained
  /\ LinksKeepTheEvent
  /\ location \in OldAddresses =>
       /\ replay => AsksForReplay(location)
       /\ location.at = "live-event" =>
            looking.context = "history-data" /\ looking.event = location.event

LEMMA OldType ==
  ASSUME NEW a \in OldAddresses
  PROVE  /\ a.at \in {"pair-trends", "replay", "replay-event", "history", "live", "unknown",
                     "history-event", "live-event"}
         /\ a.at = "live-event" => a.event \in Events
<1>1. CASE a \in [at : {"pair-trends"}, source : {"live", "history", ""}]
  BY <1>1
<1>2. CASE a \in [at : {"replay", "replay-event", "history", "live", "unknown"}]
  BY <1>2
<1>3. CASE a \in [at : {"history-event", "live-event"}, event : Events]
  BY <1>3
<1> QED
  BY <1>1, <1>2, <1>3 DEF OldAddresses

LEMMA PlaceType ==
  ASSUME NEW a \in Places
  PROVE  /\ a.at \in {"listing", "event", "stock", "operations"}
         /\ a.at # "operations" => a.context \in Tabs
         /\ a.at = "listing" => a \in Listings /\ a.event \in Events \cup {NoEvent}
         /\ a.at \in {"event", "stock"} => a.event \in Events
<1>1. CASE a \in Listings
  BY <1>1 DEF Listings
<1>2. CASE a \in EventPlaces
  BY <1>2 DEF EventPlaces
<1>3. CASE a = Operations
  BY <1>3 DEF Operations
<1> QED
  BY <1>1, <1>2, <1>3 DEF Places

LEMMA OldIsNoPlace ==
  ASSUME NEW a
  PROVE  ~(a \in Places /\ a \in OldAddresses)
BY OldType, PlaceType

LEMMA AtType ==
  ASSUME NEW c \in Tabs
  PROVE  /\ \A e \in Events, w \in {"event", "stock"} :
              At(w, c, e) \in Places /\ At(w, c, e).at = w /\ At(w, c, e).context = c
              /\ At(w, c, e).event = e
         /\ \A e \in Events \cup {NoEvent} :
              /\ At("event", c, e) \in [at : {"event"}, context : Tabs,
                                        event : Events \cup {NoEvent}]
              /\ At("event", c, e).context = c /\ At("event", c, e).event = e
         /\ ListingOf(c) \in Places /\ ListingOf(c).at = "listing"
         /\ ListingOf(c).context = c /\ ListingOf(c).event = NoEvent
BY DEF At, ListingOf, Places, Listings, EventPlaces

\* The reader arrives at a place without a question about the replay.
LEMMA ArriveInv ==
  ASSUME RouteInv, location' \in Places, warning' = FALSE, replay' = FALSE,
         looking' \in [at : {"event"}, context : Tabs, event : Events \cup {NoEvent}],
         EventOpen' => /\ location'.context = looking'.context
                       /\ location'.event = looking'.event
  PROVE  RouteInv'
BY OldIsNoPlace DEF RouteInv, RouteTypeOK, ReplayIsExplained, LinksKeepTheEvent

LEMMA RouteInitInv ==
  ASSUME RouteInit
  PROVE  RouteInv
<1>1. "intraday" \in Tabs
  BY DEF Tabs
<1>2. /\ location \in Places /\ ~EventOpen
      /\ looking \in [at : {"event"}, context : Tabs, event : Events \cup {NoEvent}]
  BY <1>1, AtType DEF RouteInit, EventOpen
<1> QED
  BY <1>2, OldIsNoPlace DEF RouteInit, RouteInv, RouteTypeOK, ReplayIsExplained,
     LinksKeepTheEvent

LEMMA LookingType ==
  ASSUME RouteInv
  PROVE  /\ looking \in [at : {"event"}, context : Tabs, event : Events \cup {NoEvent}]
         /\ looking.context \in Tabs /\ looking.event \in Events \cup {NoEvent}
BY DEF RouteInv, RouteTypeOK

LEMMA VisitInv ==
  ASSUME RouteInv, NEW place \in Places, Visit(place)
  PROVE  RouteInv'
<1>1. CASE place.at = "operations"
  <2>1. ~EventOpen'
    BY <1>1 DEF Visit, EventOpen
  <2> QED
    BY <1>1, <2>1, ArriveInv, LookingType DEF Visit
<1>2. CASE place.at # "operations"
  <2>1. place.context \in Tabs /\ place.event \in Events \cup {NoEvent}
    BY <1>2, PlaceType
  <2>2. looking' = At("event", place.context, place.event)
    BY <1>2 DEF Visit
  <2>3. /\ looking' \in [at : {"event"}, context : Tabs, event : Events \cup {NoEvent}]
        /\ looking'.context = place.context /\ looking'.event = place.event
    BY <2>1, <2>2, AtType
  <2> QED
    BY <2>3, ArriveInv DEF Visit
<1> QED
  BY <1>1, <1>2

LEMMA VisitOldInv ==
  ASSUME RouteInv, NEW address \in OldAddresses, VisitOld(address)
  PROVE  RouteInv'
<1>1. location' = address /\ warning' = FALSE /\ replay' = AsksForReplay(address)
  BY DEF VisitOld
<1>2. ~EventOpen'
  BY <1>1, OldType DEF EventOpen
<1>3. AsksForReplay(address) \in BOOLEAN
  BY DEF AsksForReplay
<1>4. "history-data" \in Tabs
  BY DEF Tabs
<1>5. looking' \in [at : {"event"}, context : Tabs, event : Events \cup {NoEvent}]
  BY <1>4, AtType, OldType, LookingType DEF VisitOld
<1>6. address.at = "live-event" =>
        looking'.context = "history-data" /\ looking'.event = address.event
  BY <1>4, AtType, OldType DEF VisitOld
<1> QED
  BY <1>1, <1>2, <1>3, <1>5, <1>6
     DEF RouteInv, RouteTypeOK, ReplayIsExplained, LinksKeepTheEvent

LEMMA RedirectInv ==
  ASSUME RouteInv, Redirect
  PROVE  RouteInv'
<1>1. /\ location \in OldAddresses /\ location' = Target(location)
      /\ warning' = AsksForReplay(location) /\ UNCHANGED <<looking, replay>>
  BY DEF Redirect, Warns
<1>2. "history-data" \in Tabs /\ "intraday" \in Tabs
  BY DEF Tabs
<1>3. AsksForReplay(location) \in BOOLEAN
  BY DEF AsksForReplay
<1>4. CASE location.at = "live-event"
  <2>1. /\ location' = At("event", "history-data", location.event)
        /\ location.event \in Events
    BY <1>1, <1>4, OldType DEF Target
  <2>2. /\ location' \in Places /\ location'.context = "history-data"
        /\ location'.event = location.event
    BY <1>2, <2>1, AtType
  <2>3. looking.context = "history-data" /\ looking.event = location.event
    BY <1>1, <1>4 DEF RouteInv
  <2>4. ~replay
    BY <1>1, <1>4 DEF RouteInv, AsksForReplay
  <2> QED
    BY <1>1, <1>3, <2>2, <2>3, <2>4, OldIsNoPlace
       DEF RouteInv, RouteTypeOK, ReplayIsExplained, LinksKeepTheEvent
<1>5. CASE location.at # "live-event"
  <2>1. PICK c \in Tabs : location' = ListingOf(c) /\ (c = "intraday" => location.at = "unknown")
    BY <1>1, <1>2, <1>5 DEF Target
  <2>2. /\ location' \in Places /\ location'.at = "listing" /\ location'.context = c
        /\ ~EventOpen'
    BY <2>1, AtType DEF EventOpen
  <2>3. AsksForReplay(location) => c = "history-data"
    BY <2>1 DEF AsksForReplay, Tabs
  <2>4. replay => AsksForReplay(location)
    BY <1>1 DEF RouteInv
  <2> QED
    BY <1>1, <1>3, <2>2, <2>3, <2>4, OldIsNoPlace
       DEF RouteInv, RouteTypeOK, ReplayIsExplained, LinksKeepTheEvent
<1> QED
  BY <1>4, <1>5

\* Links of the listing that leave its event or open another one.
LEMMA ListingLinkInv ==
  ASSUME RouteInv, CloseReplayWarning \/ CloseDetail \/ ApplyQuery \/ \E e \in Events : OpenDetail(e)
  PROVE  RouteInv'
<1>1. /\ location \in Places /\ location \in Listings /\ location.at = "listing"
      /\ location.context \in Tabs
  BY OldType, PlaceType
     DEF CloseReplayWarning, CloseDetail, ApplyQuery, OpenDetail, RouteInv, RouteTypeOK
<1>2. \A e \in Events \cup {NoEvent} :
        /\ [location EXCEPT !.event = e] \in Listings
        /\ [location EXCEPT !.event = e].at = "listing"
        /\ [location EXCEPT !.event = e].context = location.context
        /\ [location EXCEPT !.event = e].event = e
  BY <1>1 DEF Listings
<1>3. \A place \in Listings : place \in Places /\ place \notin OldAddresses
  BY OldIsNoPlace DEF Places
<1>4. CASE CloseReplayWarning
  BY <1>1, <1>3, <1>4 DEF CloseReplayWarning, RouteInv, RouteTypeOK, ReplayIsExplained,
     LinksKeepTheEvent, EventOpen
<1>5. CASE CloseDetail
  <2>1. /\ location' \in Listings /\ location'.at = "listing" /\ ~EventOpen'
        /\ location'.context = location.context
    BY <1>2, <1>5 DEF CloseDetail, EventOpen
  <2> QED
    BY <1>1, <1>3, <1>5, <2>1 DEF CloseDetail, RouteInv, RouteTypeOK, ReplayIsExplained,
       LinksKeepTheEvent
<1>6. CASE ApplyQuery
  <2>1. location' \in Places /\ ~EventOpen'
    BY <1>2, <1>3, <1>6 DEF ApplyQuery, EventOpen
  <2> QED
    BY <1>6, <2>1, ArriveInv, LookingType DEF ApplyQuery
<1>7. ASSUME NEW e \in Events, OpenDetail(e)
      PROVE  RouteInv'
  <2>1. /\ location' \in Listings /\ location'.at = "listing" /\ location'.event = e
        /\ location'.context = location.context
    BY <1>2, <1>7 DEF OpenDetail
  <2>2. looking' = At("event", location.context, e)
    BY <1>7 DEF OpenDetail
  <2>3. /\ looking' \in [at : {"event"}, context : Tabs, event : Events \cup {NoEvent}]
        /\ looking'.context = location.context /\ looking'.event = e
    BY <1>1, <2>2, AtType
  <2> QED
    BY <1>1, <1>3, <1>7, <2>1, <2>3 DEF OpenDetail, RouteInv, RouteTypeOK,
       ReplayIsExplained, LinksKeepTheEvent
<1> QED
  BY <1>4, <1>5, <1>6, <1>7

\* Links to another page.
LEMMA OtherPageInv ==
  ASSUME RouteInv, (\E c \in Tabs : ToListing(c)) \/ ToOperations \/ ToEvent \/ ToStock
  PROVE  RouteInv'
<1>1. ASSUME NEW c \in Tabs, ToListing(c)
      PROVE  RouteInv'
  <2>1. location' \in Places /\ ~EventOpen'
    BY <1>1, AtType DEF ToListing, EventOpen
  <2> QED
    BY <1>1, <2>1, ArriveInv, LookingType DEF ToListing
<1>2. CASE ToOperations
  <2>1. location' \in Places /\ ~EventOpen'
    BY <1>2 DEF ToOperations, EventOpen, Places, Operations
  <2> QED
    BY <1>2, <2>1, ArriveInv, LookingType DEF ToOperations
<1>3. ASSUME NEW w \in {"event", "stock"}, EventOpen,
             location' = At(w, location.context, location.event),
             warning' = FALSE, replay' = FALSE, UNCHANGED looking
      PROVE  RouteInv'
  <2>1. location.context = looking.context /\ location.event = looking.event
    BY <1>3 DEF RouteInv, LinksKeepTheEvent
  <2>2. location.event \in Events /\ location.context \in Tabs
    BY <1>3, OldType, PlaceType DEF EventOpen, RouteInv, RouteTypeOK
  <2>3. /\ location' \in Places /\ location'.context = location.context
        /\ location'.event = location.event
    BY <1>3, <2>2, AtType
  <2> QED
    BY <1>3, <2>1, <2>3, ArriveInv, LookingType
<1>4. CASE ToEvent
  BY <1>3, <1>4 DEF ToEvent
<1>5. CASE ToStock
  BY <1>3, <1>5 DEF ToStock, StockPlace
<1> QED
  BY <1>1, <1>2, <1>4, <1>5

LEMMA RouteNextInv ==
  ASSUME RouteInv, RouteNext
  PROVE  RouteInv'
BY VisitInv, VisitOldInv, RedirectInv, ListingLinkInv, OtherPageInv DEF RouteNext

LEMMA RouteKept ==
  ASSUME RouteInv, UNCHANGED routeVars
  PROVE  RouteInv'
BY DEF RouteInv, RouteTypeOK, ReplayIsExplained, LinksKeepTheEvent, EventOpen, routeVars

-----------------------------------------------------------------------------
(***************************************************************************)
(* The whole.                                                              *)
(***************************************************************************)
WebInv ==
  /\ tab \in TabNames
  /\ PageInv /\ FormInv /\ EventInv /\ TaskInv /\ StatusInv /\ RouteInv

LEMMA WebInitInv ==
  ASSUME WebInit
  PROVE  WebInv
BY PageInitInv, FormInitInv, EventInitInv, TaskInitInv, StatusInitInv, RouteInitInv
   DEF WebInit, WebInv

\* A step of one part leaves the others as they are.
LEMMA WebNextInv ==
  ASSUME WebInv, [WebNext]_webVars
  PROVE  WebInv' /\ [NoEarlyQuery]_pageVars /\ [ChoiceKept]_eventVars
<1>0. tab' \in TabNames
  BY DEF WebInv, WebNext, webVars, AtListing, AtForm, AtEvent, AtTask, AtOperations, AtRoutes
<1>1. PageInv' /\ [NoEarlyQuery]_pageVars
  <2>1. PageNext \/ UNCHANGED pageVars
    BY DEF WebNext, webVars, AtListing, AtForm, AtEvent, AtTask, AtOperations, AtRoutes
  <2> QED
    BY <2>1, PageNextInv, PageKept DEF WebInv
<1>2. FormInv'
  <2>1. FormNext \/ UNCHANGED formVars
    BY DEF WebNext, webVars, AtListing, AtForm, AtEvent, AtTask, AtOperations, AtRoutes
  <2> QED
    BY <2>1, FormNextInv, FormKept DEF WebInv
<1>3. EventInv' /\ [ChoiceKept]_eventVars
  <2>1. EventNext \/ UNCHANGED eventVars
    BY DEF WebNext, webVars, AtListing, AtForm, AtEvent, AtTask, AtOperations, AtRoutes
  <2> QED
    BY <2>1, EventNextInv, EventKept DEF WebInv
<1>4. TaskInv'
  <2>1. TaskNext \/ UNCHANGED taskVars
    BY DEF WebNext, webVars, AtListing, AtForm, AtEvent, AtTask, AtOperations, AtRoutes
  <2> QED
    BY <2>1, TaskNextInv, TaskKept DEF WebInv
<1>5. StatusInv'
  <2>1. StatusNext \/ UNCHANGED status
    BY DEF WebNext, webVars, AtListing, AtForm, AtEvent, AtTask, AtOperations, AtRoutes
  <2> QED
    BY <2>1, StatusNextInv, StatusKept DEF WebInv
<1>6. RouteInv'
  <2>1. RouteNext \/ UNCHANGED routeVars
    BY DEF WebNext, webVars, AtListing, AtForm, AtEvent, AtTask, AtOperations, AtRoutes
  <2> QED
    BY <2>1, RouteNextInv, RouteKept DEF WebInv
<1> QED
  BY <1>0, <1>1, <1>2, <1>3, <1>4, <1>5, <1>6 DEF WebInv

-----------------------------------------------------------------------------
(***************************************************************************)
(* Theorems.                                                               *)
(***************************************************************************)
\* The strengthening holds in every reachable state of the pages.
THEOREM WebInvariant == WebSpec => []WebInv
<1>1. WebInv /\ [WebNext]_webVars => WebInv'
  BY WebNextInv
<1> QED
  BY <1>1, WebInitInv, PTL DEF WebSpec

\* Every variable of every page keeps its type.
THEOREM WebTypes == WebSpec => []WebTypeOK
<1>1. WebInv => WebTypeOK
  BY PageTypes, UntouchedFormShows, EventFacts, TaskFacts, StatusFacts
     DEF WebInv, WebTypeOK, RouteInv
<1> QED
  BY <1>1, WebInvariant, PTL

\* What the listing caches and shows under a URL is the answer to that URL, however
\* navigation, polls, retries and answers overlap.
THEOREM RowsFollowTheRoute == WebSpec => []RowsAnswerTheRoute
<1>1. WebInv => RowsAnswerTheRoute
  BY RowsAreTheRoutes DEF WebInv
<1> QED
  BY <1>1, WebInvariant, PTL

\* Nothing asks for the live listing of a day that is not known to be a trading day.
THEOREM QueriesWaitForTheDay == WebSpec => NoQueryWithoutTradingDay
<1>1. WebInv /\ [WebNext]_webVars => [NoEarlyQuery]_pageVars
  BY WebNextInv
<1> QED
  BY <1>1, WebInvariant, PTL DEF WebSpec, NoQueryWithoutTradingDay, NoEarlyQuery

\* The form shows what is listed until the reader edits it, past midnight as well.
THEOREM FormFollowsTheRoute == WebSpec => []FormShowsTheFilters
<1>1. WebInv => FormShowsTheFilters
  BY UntouchedFormShows DEF WebInv
<1> QED
  BY <1>1, WebInvariant, PTL

\* The markers of an event are on bars of their own frequency and window.
THEOREM MarkersAreOnTheirBars == WebSpec => []MarkersFitTheBars
<1>1. WebInv => MarkersFitTheBars
  BY EventFacts DEF WebInv
<1> QED
  BY <1>1, WebInvariant, PTL

\* The detail view never asks for official bars of an acceptance sample.
THEOREM SamplesHaveNoBars == WebSpec => []SamplesAskForNoBars
<1>1. WebInv => SamplesAskForNoBars
  BY EventFacts DEF WebInv
<1> QED
  BY <1>1, WebInvariant, PTL

\* Polls leave the frequency the reader of a stock has chosen.
THEOREM PollsKeepTheChoice == WebSpec => StockChoiceIsKept
<1>1. WebInv /\ [WebNext]_webVars => [ChoiceKept]_eventVars
  BY WebNextInv
<1> QED
  BY <1>1, WebInvariant, PTL DEF WebSpec, StockChoiceIsKept, ChoiceKept

\* A quiet card shows the task the server has, for any number of PATCHes at once.
THEOREM QuietCardsAgree == WebSpec => []CardsAgreeWhenQuiet
<1>1. WebInv => CardsAgreeWhenQuiet
  BY TaskFacts DEF WebInv
<1> QED
  BY <1>1, WebInvariant, PTL

\* The state of the system and the cards below it agree, for any number of processes.
THEOREM OverallAgreesWithItsParts == WebSpec => []OverallIsExplained
<1>1. WebInv => OverallIsExplained
  BY StatusFacts DEF WebInv
<1> QED
  BY <1>1, WebInvariant, PTL

\* Links to the replay end with its warning.
THEOREM ReplayEndsWithAWarning == WebSpec => []ReplayIsExplained
<1>1. WebInv => ReplayIsExplained
  BY DEF WebInv, RouteInv
<1> QED
  BY <1>1, WebInvariant, PTL

\* The links between the pages keep the event and its context.
THEOREM EventsGoWithTheLinks == WebSpec => []LinksKeepTheEvent
<1>1. WebInv => LinksKeepTheEvent
  BY DEF WebInv, RouteInv
<1> QED
  BY <1>1, WebInvariant, PTL
=============================================================================
