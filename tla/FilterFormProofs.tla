-------------------------- MODULE FilterFormProofs ---------------------------
(***************************************************************************)
(* The filter form shows the filters of the URL until the reader edits it, *)
(* whatever links, navigation and midnight do: the lemmas from which       *)
(* WebPagesProofs concludes.                                               *)
(*                                                                         *)
(* Two facts carry the proof: a form filled from a query shows it          *)
(* (FilledShows), and so does a form whose own query is already the URL's, *)
(* which then is not filled again (AppliedShows).                          *)
(***************************************************************************)
EXTENDS FilterForm, Sequences, TLAPS

\* Pressing search with the form lists what query q lists.
Shows(form, q, c) ==
  LET now == ActiveFilters(q, c)
  IN  ActiveFilters(Applied(form, c), c) = [now EXCEPT !.keyword = Trim(@)]

FormInv ==
  /\ FormTypeOK
  /\ today > 1
  /\ edits = 0 => Shows(draft, query, formContext)

-----------------------------------------------------------------------------
(***************************************************************************)
(* Types.                                                                  *)
(***************************************************************************)
Keywords == {"", "word", " word "}
Ranges == Dates \X Dates

LEMMA DefaultDates ==
  ASSUME NEW day \in Dates, day > 1
  PROVE  DefaultDateRange(day) \in Ranges
BY DaysAssumption DEF DefaultDateRange, Ranges

LEMMA RangeIsSome ==
  ASSUME NEW r \in Ranges
  PROVE  r # << >>
<1>1. Len(r) = 2
  BY DEF Ranges
<1> QED
  BY <1>1
LEMMA DatesOfType ==
  ASSUME NEW q \in Queries, NEW fallback \in Ranges
  PROVE  DatesOf(q, fallback) \in Ranges
BY DEF DatesOf, Queries, Ranges

LEMMA FilledIsForm ==
  ASSUME NEW q \in Queries, NEW c \in FormContexts, NEW dates \in Ranges,
         initialRange \in Ranges
  PROVE  SyncDraftFromRoute(q, c, dates) \in Forms
<1> DEFINE range == IF c = "intraday" THEN dates ELSE DatesOf(q, initialRange)
<1>1. range \in Dates \X Dates
  BY DatesOfType DEF Ranges
<1>2. SortModeFromQuery(q) \in {"PIVOT_DESC", "WAVE_ASC", "WAVE_DESC"}
  BY DEF SortModeFromQuery
<1>3. /\ q.keyword \in Keywords /\ q.pivotType \in {"", "TOP"}
      /\ q.activeAtEnd \in {"", "true", "maybe"}
      /\ q.waveSignal \in {"", "STRONG", "strong", "weak"}
  BY DEF Queries, Keywords
<1> HIDE DEF range
<1>4. [keyword |-> q.keyword, pivotType |-> q.pivotType, activeAtEnd |-> q.activeAtEnd,
       waveSignal |-> q.waveSignal, sortMode |-> SortModeFromQuery(q), dates |-> range] \in Forms
  BY <1>1, <1>2, <1>3 DEF Forms, Keywords
<1> QED
  BY <1>4 DEF SyncDraftFromRoute, range

LEMMA AppliedIsQuery ==
  ASSUME NEW form \in Forms, NEW c \in FormContexts
  PROVE  Applied(form, c) \in Queries
<1> DEFINE by == IF form.sortMode = "PIVOT_DESC" THEN "" ELSE "WAVE_SCORE"
           direction == IF form.sortMode = "WAVE_ASC" THEN "ASC"
                        ELSE IF form.sortMode = "WAVE_DESC" THEN "DESC" ELSE ""
           range == IF c = "intraday" THEN << >> ELSE form.dates
<1>1. /\ by \in {"", "WAVE_SCORE", "PRICE"} /\ direction \in {"", "ASC", "DESC"}
      /\ range \in (Dates \X Dates) \cup {<< >>} /\ Trim(form.keyword) \in {"", "word", " word "}
  BY DEF Forms, Trim
<1>2. /\ form.pivotType \in {"", "TOP"} /\ form.activeAtEnd \in {"", "true", "maybe"}
      /\ form.waveSignal \in {"", "STRONG", "strong", "weak"}
  BY DEF Forms
<1> HIDE DEF by, direction, range
<1>3. [keyword |-> Trim(form.keyword), pivotType |-> form.pivotType,
       activeAtEnd |-> form.activeAtEnd, waveSignal |-> form.waveSignal,
       sortBy |-> by, sortDirection |-> direction, dates |-> range] \in Queries
  BY <1>1, <1>2 DEF Queries
<1> QED
  BY <1>3 DEF Applied, by, direction, range

LEMMA DatedIsQuery ==
  ASSUME NEW q \in Queries, NEW c, today \in Dates, today > 1
  PROVE  Dated(q, c) \in Queries
<1>1. DefaultDateRange(today) \in Dates \X Dates
  BY DefaultDates DEF Ranges
<1>2. [q EXCEPT !.dates = DefaultDateRange(today)] \in Queries
  BY <1>1 DEF Queries
<1> QED
  BY <1>2 DEF Dated

LEMMA EditedIsForm ==
  ASSUME NEW form \in Forms, NEW e \in Edited(form)
  PROVE  e \in Forms
<1>1. CASE \E t \in {"", "word", " word "} : e = [form EXCEPT !.keyword = t]
  BY <1>1 DEF Forms
<1>2. CASE \E t \in {"", "TOP"} : e = [form EXCEPT !.pivotType = t]
  BY <1>2 DEF Forms
<1>3. CASE \E t \in {"", "true"} : e = [form EXCEPT !.activeAtEnd = t]
  BY <1>3 DEF Forms
<1>4. CASE \E t \in {"", "STRONG"} : e = [form EXCEPT !.waveSignal = t]
  BY <1>4 DEF Forms
<1>5. CASE \E t \in {"PIVOT_DESC", "WAVE_DESC", "WAVE_ASC"} : e = [form EXCEPT !.sortMode = t]
  BY <1>5 DEF Forms
<1>6. CASE \E t \in Dates \X Dates : e = [form EXCEPT !.dates = t]
  BY <1>6 DEF Forms
<1> QED
  BY <1>1, <1>2, <1>3, <1>4, <1>5, <1>6 DEF Edited

-----------------------------------------------------------------------------
(***************************************************************************)
(* What a form shows.                                                      *)
(***************************************************************************)
\* Both lists of filters, field by field.
LEMMA ShowsByFields ==
  ASSUME NEW form, NEW q, NEW c, NEW again, again = Applied(form, c),
         again.keyword = Trim(q.keyword), again.pivotType = q.pivotType,
         (again.activeAtEnd = "true") = (q.activeAtEnd = "true"),
         WaveSignalQuery(again.waveSignal) = WaveSignalQuery(q.waveSignal),
         ActiveFilters(again, c).sortDirection = ActiveFilters(q, c).sortDirection,
         ActiveFilters(again, c).dates = ActiveFilters(q, c).dates
  PROVE  Shows(form, q, c)
<1> DEFINE now == ActiveFilters(q, c)
           then == ActiveFilters(again, c)
<1>1. then.activeAtEnd = now.activeAtEnd
  BY DEF ActiveFilters
<1>2. then.keyword = Trim(now.keyword) /\ then.pivotType = now.pivotType
        /\ then.waveSignal = now.waveSignal
  BY DEF ActiveFilters
<1>3. \A z : ActiveFilters(z, c) =
        [keyword |-> z.keyword, pivotType |-> z.pivotType,
         activeAtEnd |-> ActiveFilters(z, c).activeAtEnd,
         waveSignal |-> ActiveFilters(z, c).waveSignal,
         sortDirection |-> ActiveFilters(z, c).sortDirection,
         dates |-> ActiveFilters(z, c).dates]
  BY DEF ActiveFilters
<1>4. now = [keyword |-> q.keyword, pivotType |-> q.pivotType,
             activeAtEnd |-> now.activeAtEnd, waveSignal |-> now.waveSignal,
             sortDirection |-> now.sortDirection, dates |-> now.dates]
  BY <1>3
<1>5. then = [keyword |-> Trim(q.keyword), pivotType |-> q.pivotType,
              activeAtEnd |-> now.activeAtEnd, waveSignal |-> now.waveSignal,
              sortDirection |-> now.sortDirection, dates |-> now.dates]
  BY <1>1, <1>2, <1>3
<1> HIDE DEF now, then
<1>6. then = [now EXCEPT !.keyword = Trim(@)]
  BY <1>4, <1>5
<1> QED
  BY <1>6 DEF Shows, now, then
\* A form filled from a query shows it.
LEMMA FilledShows ==
  ASSUME NEW q \in Queries, NEW c \in FormContexts, NEW dates \in Ranges,
         initialRange \in Ranges
  PROVE  Shows(SyncDraftFromRoute(q, c, dates), q, c)
<1> DEFINE form == SyncDraftFromRoute(q, c, dates)
           again == Applied(form, c)
<1>1. /\ form.keyword = q.keyword /\ form.pivotType = q.pivotType
      /\ form.activeAtEnd = q.activeAtEnd /\ form.waveSignal = q.waveSignal
      /\ form.sortMode = SortModeFromQuery(q)
      /\ form.dates = IF c = "intraday" THEN dates ELSE DatesOf(q, initialRange)
  BY DEF SyncDraftFromRoute
<1> HIDE DEF form
<1>2. /\ again.keyword = Trim(q.keyword) /\ again.pivotType = q.pivotType
      /\ again.activeAtEnd = q.activeAtEnd /\ again.waveSignal = q.waveSignal
  BY <1>1 DEF Applied
<1>3. /\ again.sortBy = IF SortModeFromQuery(q) = "PIVOT_DESC" THEN "" ELSE "WAVE_SCORE"
      /\ again.sortDirection = IF SortModeFromQuery(q) = "WAVE_ASC" THEN "ASC"
                               ELSE IF SortModeFromQuery(q) = "WAVE_DESC" THEN "DESC" ELSE ""
      /\ again.dates = IF c = "intraday" THEN << >> ELSE form.dates
  BY <1>1 DEF Applied
<1> HIDE DEF again
<1>4. ActiveFilters(again, c).sortDirection = ActiveFilters(q, c).sortDirection
  BY <1>3 DEF ActiveFilters, SortModeFromQuery
<1>5. ActiveFilters(again, c).dates = ActiveFilters(q, c).dates
  <2>1. CASE c = "intraday"
    BY <2>1 DEF ActiveFilters
  <2>2. CASE c # "intraday"
    <3>1. again.dates = DatesOf(q, initialRange)
      BY <1>1, <1>3, <2>2
    <3>2. again.dates # << >>
      BY <3>1, DatesOfType, RangeIsSome
    <3> QED
      BY <2>2, <3>1, <3>2 DEF ActiveFilters, DatesOf
  <2> QED
    BY <2>1, <2>2
<1>6. again = Applied(form, c)
  BY DEF again
<1>7. Shows(form, q, c)
  BY <1>2, <1>4, <1>5, <1>6, ShowsByFields
<1> QED
  BY <1>7 DEF form

\* A form shows the query it writes.
LEMMA AppliedShows ==
  ASSUME NEW form \in Forms, NEW c \in FormContexts
  PROVE  Shows(form, Applied(form, c), c)
<1> DEFINE again == Applied(form, c)
<1>1. again.keyword = Trim(again.keyword)
  BY DEF Applied, Trim
<1> HIDE DEF again
<1>2. Shows(form, again, c)
  <2>1. again = Applied(form, c)
    BY DEF again
  <2> QED
    BY <1>1, <2>1, ShowsByFields
<1> QED
  BY <1>2 DEF again

-----------------------------------------------------------------------------
(***************************************************************************)
(* The steps of the form.                                                  *)
(***************************************************************************)
LEMMA NoQueryIsQuery == NoQuery \in Queries
BY DEF NoQuery, Applied, Trim, Queries

LEMMA FormInitInv ==
  ASSUME FormInit
  PROVE  FormInv
<1>1. today \in Dates /\ today > 1 /\ initialRange \in Ranges
  BY DefaultDates, DaysAssumption DEF FormInit
<1>2. query \in Queries /\ formContext \in FormContexts
  BY <1>1, DatedIsQuery, LinksAssumption DEF FormInit
<1>3. DatesOf(query, initialRange) \in Ranges
  BY <1>1, <1>2, DatesOfType
<1>4. draft \in Forms /\ Shows(draft, query, formContext)
  BY <1>1, <1>2, <1>3, FilledIsForm, FilledShows DEF FormInit
<1>5. edits = 0 /\ edits \in 0..MaxEdits
  BY EditsAssumption DEF FormInit
<1> QED
  BY <1>1, <1>2, <1>4, <1>5 DEF FormInv, FormTypeOK, Ranges

\* The filters of the next state are those of this one: they depend on the default
\* dates only, which no step changes.
LEMMA ShowsPrimed ==
  ASSUME UNCHANGED initialRange, Shows(draft', query', formContext')
  PROVE  Shows(draft, query, formContext)'
<1>1. ActiveFilters(query, formContext)' = ActiveFilters(query', formContext')
  BY DEF ActiveFilters, DatesOf
<1>2. ActiveFilters(Applied(draft, formContext), formContext)'
        = ActiveFilters(Applied(draft', formContext'), formContext')
  BY DEF ActiveFilters, DatesOf
<1> QED
  BY <1>1, <1>2 DEF Shows

\* Arriving somewhere fills the form, or the router was there.
LEMMA ArriveFills ==
  ASSUME FormInv, NEW q \in Queries, NEW c \in FormContexts, Arrive(q, c)
  PROVE  /\ query' \in Queries /\ formContext' = c /\ draft' \in Forms
         /\ UNCHANGED <<today, initialRange>>
         /\ \/ query' = query /\ c = formContext /\ draft' = draft
            \/ Shows(draft', query', formContext')
<1>1. query' \in Queries
  BY DatedIsQuery DEF Arrive, FormInv, FormTypeOK
<1>2. draft \in Forms /\ draft.dates \in Ranges /\ initialRange \in Ranges
  BY DEF FormInv, FormTypeOK, Forms, Ranges
<1>3. CASE query' = query /\ c = formContext
  BY <1>1, <1>2, <1>3 DEF Arrive
<1>4. CASE ~(query' = query /\ c = formContext)
  <2>1. draft' = SyncDraftFromRoute(query', c, draft.dates)
    BY <1>4 DEF Arrive
  <2>2. formContext' = c
    BY DEF Arrive
  <2>3. draft' \in Forms
    BY <1>1, <1>2, <2>1, FilledIsForm
  <2>4. Shows(draft', query', c)
    BY <1>1, <1>2, <2>1, FilledShows
  <2> QED
    BY <1>1, <2>2, <2>3, <2>4 DEF Arrive
<1> QED
  BY <1>3, <1>4

LEMMA GoToInv ==
  ASSUME FormInv, NEW q \in Queries, NEW c \in FormContexts, GoTo(q, c)
  PROVE  FormInv'
<1>1. Arrive(q, c) /\ edits' = IF draft' = draft THEN edits ELSE 0
  BY DEF GoTo
<1>2. /\ query' \in Queries /\ formContext' = c /\ draft' \in Forms
      /\ UNCHANGED <<today, initialRange>>
      /\ \/ query' = query /\ c = formContext /\ draft' = draft
         \/ Shows(draft', query', formContext')
  BY <1>1, ArriveFills
<1>3. FormTypeOK' /\ today' > 1
  BY <1>1, <1>2, EditsAssumption DEF FormInv, FormTypeOK
<1>4. edits' = 0 => Shows(draft', query', formContext')
  BY <1>1, <1>2 DEF FormInv
<1> QED
  BY <1>2, <1>3, <1>4, ShowsPrimed DEF FormInv

LEMMA SubmitInv ==
  ASSUME FormInv, SubmitFilters
  PROVE  FormInv'
<1> DEFINE q == Applied(draft, formContext)
<1>1. draft \in Forms /\ formContext \in FormContexts
  BY DEF FormInv, FormTypeOK
<1>2. q \in Queries /\ Shows(draft, q, formContext)
  BY <1>1, AppliedIsQuery, AppliedShows
<1>3. Arrive(q, formContext) /\ edits' = 0
  BY DEF SubmitFilters
<1>4. query' = q
  BY <1>3 DEF Arrive
<1> HIDE DEF q
<1>5. /\ query' \in Queries /\ formContext' = formContext /\ draft' \in Forms
      /\ UNCHANGED <<today, initialRange>>
      /\ draft' = draft \/ Shows(draft', query', formContext')
  BY <1>1, <1>2, <1>3, ArriveFills
<1>6. Shows(draft', query', formContext')
  BY <1>2, <1>4, <1>5
<1>7. FormTypeOK' /\ today' > 1
  BY <1>3, <1>5, EditsAssumption DEF FormInv, FormTypeOK
<1> QED
  BY <1>5, <1>6, <1>7, ShowsPrimed DEF FormInv

LEMMA ResetInv ==
  ASSUME FormInv, ResetFilters
  PROVE  FormInv'
<1> DEFINE range == DefaultDateRange(today)
           form == [keyword |-> "", pivotType |-> "", activeAtEnd |-> "", waveSignal |-> "",
                    sortMode |-> "PIVOT_DESC", dates |-> range]
<1>1. range \in Dates \X Dates
  BY DefaultDates DEF FormInv, FormTypeOK, Ranges
<1>2. query' = Applied(form, formContext) /\ draft' = form /\ edits' = 0
        /\ UNCHANGED <<formContext, today, initialRange>>
  BY DEF ResetFilters
<1> HIDE DEF range
<1>3. form \in Forms
  BY <1>1 DEF Forms
<1> HIDE DEF form
<1>4. formContext \in FormContexts
  BY DEF FormInv, FormTypeOK
<1>5. query' \in Queries /\ Shows(draft', query', formContext')
  BY <1>2, <1>3, <1>4, AppliedIsQuery, AppliedShows
<1>6. FormTypeOK' /\ today' > 1
  BY <1>2, <1>3, <1>5, EditsAssumption DEF FormInv, FormTypeOK
<1> QED
  BY <1>2, <1>5, <1>6, ShowsPrimed DEF FormInv

LEMMA FormNextInv ==
  ASSUME FormInv, FormNext
  PROVE  FormInv'
<1>1. CASE ChangeFormContext
  BY <1>1, NoQueryIsQuery, GoToInv DEF ChangeFormContext
<1>2. CASE FollowLink
  BY <1>2, LinksAssumption, GoToInv DEF FollowLink
<1>3. CASE SubmitFilters
  BY <1>3, SubmitInv
<1>4. CASE ResetFilters
  BY <1>4, ResetInv
<1>5. CASE EditForm
  <2>1. draft' \in Forms
    BY <1>5, EditedIsForm DEF EditForm, FormInv, FormTypeOK
  <2>2. edits' \in 0..MaxEdits /\ edits' # 0
    BY <1>5, EditsAssumption DEF EditForm, FormInv, FormTypeOK
  <2> QED
    BY <1>5, <2>1, <2>2 DEF EditForm, FormInv, FormTypeOK
<1>6. CASE Midnight
  <2>1. today' \in Dates /\ today' > 1
    BY <1>6, DaysAssumption DEF Midnight, FormInv, FormTypeOK
  <2>2. edits' = 0 => Shows(draft', query', formContext')
    BY <1>6 DEF Midnight, FormInv
  <2>3. FormTypeOK'
    BY <1>6, <2>1 DEF Midnight, FormInv, FormTypeOK
  <2>4. UNCHANGED initialRange
    BY <1>6 DEF Midnight
  <2> QED
    BY <2>1, <2>2, <2>3, <2>4, ShowsPrimed DEF FormInv
<1> QED
  BY <1>1, <1>2, <1>3, <1>4, <1>5, <1>6 DEF FormNext

\* Steps of the other pages.
LEMMA FormKept ==
  ASSUME FormInv, UNCHANGED formVars
  PROVE  FormInv'
<1>1. FormTypeOK' /\ today' > 1 /\ UNCHANGED initialRange
  BY DEF FormInv, FormTypeOK, formVars
<1>2. edits' = 0 => Shows(draft', query', formContext')
  BY DEF FormInv, formVars
<1> QED
  BY <1>1, <1>2, ShowsPrimed DEF FormInv

LEMMA UntouchedFormShows ==
  ASSUME FormInv
  PROVE  FormTypeOK /\ FormShowsTheFilters
BY DEF FormInv, FormShowsTheFilters, Shows
=============================================================================
