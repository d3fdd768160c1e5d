----------------------------- MODULE FilterForm ------------------------------
(***************************************************************************)
(* The filter form of the pair-trend page (PairTrendsPage.vue) and the URL *)
(* it writes to.  The URL decides what is listed; the form is a draft of   *)
(* it that the reader edits and applies.  Any navigation fills the form    *)
(* from the URL again.  A link may say anything; the page makes filters    *)
(* of what it understands.                                                 *)
(*                                                                         *)
(* A handler, the navigation and the watchers it sets off are one action.  *)
(* pivotType stands for stageAtEnd and frequency as well, which are        *)
(* treated alike; days are numbers.                                        *)
(***************************************************************************)
EXTENDS Integers

CONSTANTS
  Links,     \* queries that come with an address
  Dates,     \* days a reader may pick
  LastDay,   \* bound of the model: the day the behaviour ends
  MaxEdits   \* bound of the model: edits between two navigations

ASSUME DaysAssumption == LastDay \in Nat /\ Dates = 1..LastDay
ASSUME EditsAssumption == MaxEdits \in Nat

VARIABLES
  query,         \* the query of the URL
  formContext,   \* context
  draft,         \* filterForm and dateRange
  edits,         \* edits since the form was filled
  today,
  initialRange   \* the default dates of the day the page was opened

formVars == <<query, formContext, draft, edits, today, initialRange>>

FormContexts == {"intraday", "history-data"}

\* A query says nothing ("", no date) or any text.
Queries == [keyword : {"", "word", " word "}, pivotType : {"", "TOP"},
            activeAtEnd : {"", "true", "maybe"}, waveSignal : {"", "STRONG", "strong", "weak"},
            sortBy : {"", "WAVE_SCORE", "PRICE"}, sortDirection : {"", "ASC", "DESC"},
            dates : (Dates \X Dates) \cup {<< >>}]

ASSUME LinksAssumption == Links \subseteq Queries

Forms == [keyword : {"", "word", " word "}, pivotType : {"", "TOP"},
          activeAtEnd : {"", "true", "maybe"}, waveSignal : {"", "STRONG", "strong", "weak"},
          sortMode : {"PIVOT_DESC", "WAVE_ASC", "WAVE_DESC"}, dates : Dates \X Dates]

\* The last 60 days.
DefaultDateRange(day) == <<day - 1, day>>

DatesOf(q, fallback) == IF q.dates = << >> THEN fallback ELSE q.dates

-----------------------------------------------------------------------------
(***************************************************************************)
(* What is listed, and what the form shows of it.                          *)
(***************************************************************************)
WaveSignalQuery(text) == IF text \in {"STRONG", "strong"} THEN "STRONG" ELSE ""

ActiveFilters(q, c) ==
  [keyword |-> q.keyword,
   pivotType |-> q.pivotType,
   activeAtEnd |-> IF q.activeAtEnd = "true" THEN "true" ELSE "",
   waveSignal |-> WaveSignalQuery(q.waveSignal),
   sortDirection |-> IF q.sortBy # "WAVE_SCORE" THEN ""
                     ELSE IF q.sortDirection = "ASC" THEN "ASC" ELSE "DESC",
   dates |-> IF c = "intraday" THEN << >> ELSE DatesOf(q, initialRange)]

\* Mutant: the form takes the order as the link has it.
SortModeAsWritten(q) == IF q.sortBy = "" THEN "PIVOT_DESC" ELSE q.sortBy

SortModeFromQuery(q) ==
  IF q.sortBy # "WAVE_SCORE" THEN "PIVOT_DESC"
  ELSE IF q.sortDirection = "ASC" THEN "WAVE_ASC" ELSE "WAVE_DESC"

\* Mutant: the form falls back on the default dates of the day it is filled.
SyncDraftWithToday(q, c, dates) ==
  [keyword |-> q.keyword, pivotType |-> q.pivotType, activeAtEnd |-> q.activeAtEnd,
   waveSignal |-> q.waveSignal, sortMode |-> SortModeFromQuery(q),
   dates |-> IF c = "intraday" THEN dates ELSE DatesOf(q, DefaultDateRange(today))]

\* The dates of the form stay while the context has none.
SyncDraftFromRoute(q, c, dates) ==
  [keyword |-> q.keyword, pivotType |-> q.pivotType, activeAtEnd |-> q.activeAtEnd,
   waveSignal |-> q.waveSignal, sortMode |-> SortModeFromQuery(q),
   dates |-> IF c = "intraday" THEN dates ELSE DatesOf(q, initialRange)]

Trim(keyword) == IF keyword = "" THEN "" ELSE "word"

\* The query the form writes.
Applied(form, c) ==
  [keyword |-> Trim(form.keyword), pivotType |-> form.pivotType,
   activeAtEnd |-> form.activeAtEnd, waveSignal |-> form.waveSignal,
   sortBy |-> IF form.sortMode = "PIVOT_DESC" THEN "" ELSE "WAVE_SCORE",
   sortDirection |-> IF form.sortMode = "WAVE_ASC" THEN "ASC"
                     ELSE IF form.sortMode = "WAVE_DESC" THEN "DESC" ELSE "",
   dates |-> IF c = "intraday" THEN << >> ELSE form.dates]

NoQuery == Applied([keyword |-> "", pivotType |-> "", activeAtEnd |-> "", waveSignal |-> "",
                    sortMode |-> "PIVOT_DESC", dates |-> << >>], "history-data")

\* Whoever comes to the past days without dates gets the default ones.
Dated(q, c) ==
  IF c = "history-data" /\ q.dates = << >> THEN [q EXCEPT !.dates = DefaultDateRange(today)]
  ELSE q

FormInit ==
  /\ today \in {d \in Dates : d > 1 /\ d < LastDay}
  /\ initialRange = DefaultDateRange(today)
  /\ formContext \in FormContexts
  /\ query \in {Dated(q, formContext) : q \in Links}
  /\ draft = SyncDraftFromRoute(query, formContext, DatesOf(query, initialRange))
  /\ edits = 0

-----------------------------------------------------------------------------
\* The router arrives at q in context c; it takes no step to where it is.
Arrive(q, c) ==
  /\ query' = IF c = formContext THEN q ELSE Dated(q, c)
  /\ formContext' = c
  /\ draft' = IF query' = query /\ c = formContext THEN draft
              ELSE SyncDraftFromRoute(query', c, draft.dates)
  /\ UNCHANGED <<today, initialRange>>

GoTo(q, c) ==
  /\ Arrive(q, c)
  /\ edits' = IF draft' = draft THEN edits ELSE 0

ChangeFormContext ==
  \E c \in FormContexts \ {formContext} : GoTo(NoQuery, c)

\* The browser's back and forward, and links.
FollowLink == \E q \in Links, c \in FormContexts : GoTo(q, c)

SubmitFilters ==
  /\ Arrive(Applied(draft, formContext), formContext)
  /\ edits' = 0

ResetFilters ==
  LET range == DefaultDateRange(today)
      form == [keyword |-> "", pivotType |-> "", activeAtEnd |-> "", waveSignal |-> "",
               sortMode |-> "PIVOT_DESC", dates |-> range]
  IN  /\ query' = Applied(form, formContext)
      /\ draft' = form
      /\ edits' = 0
      /\ UNCHANGED <<formContext, today, initialRange>>

\* A field of the form takes another of its options; the picker orders its two dates.
Edited(form) ==
  {[form EXCEPT !.keyword = t] : t \in {"", "word", " word "}}
    \cup {[form EXCEPT !.pivotType = t] : t \in {"", "TOP"}}
    \cup {[form EXCEPT !.activeAtEnd = t] : t \in {"", "true"}}
    \cup {[form EXCEPT !.waveSignal = t] : t \in {"", "STRONG"}}
    \cup {[form EXCEPT !.sortMode = m] : m \in {"PIVOT_DESC", "WAVE_DESC", "WAVE_ASC"}}
    \cup (IF formContext = "intraday" THEN {}
          ELSE {[form EXCEPT !.dates = r] : r \in {p \in Dates \X Dates : p[1] <= p[2]}})

EditForm ==
  /\ edits < MaxEdits
  /\ draft' \in Edited(draft)
  /\ edits' = edits + 1
  /\ UNCHANGED <<query, formContext, today, initialRange>>

Midnight ==
  /\ today < LastDay
  /\ today' = today + 1
  /\ UNCHANGED <<query, formContext, draft, edits, initialRange>>

FormNext ==
  ChangeFormContext \/ FollowLink \/ SubmitFilters \/ ResetFilters \/ EditForm \/ Midnight

-----------------------------------------------------------------------------
(***************************************************************************)
(* Properties.                                                             *)
(***************************************************************************)
\* Types.
FormTypeOK ==
  /\ query \in Queries /\ formContext \in FormContexts /\ draft \in Forms
  /\ edits \in 0..MaxEdits /\ today \in Dates /\ initialRange \in Dates \X Dates

\* A form the reader has not touched shows what is listed: pressing search once
\* more lists the same, whatever the link said, whichever way the reader came and
\* however long the page has been open.  (Spaces around the keyword are dropped.)
FormShowsTheFilters ==
  edits = 0 =>
    LET now == ActiveFilters(query, formContext)
    IN  ActiveFilters(Applied(draft, formContext), formContext)
          = [now EXCEPT !.keyword = Trim(@)]
=============================================================================
