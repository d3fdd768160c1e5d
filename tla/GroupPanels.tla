----------------------------- MODULE GroupPanels -----------------------------
(***************************************************************************)
(* The event lists below the stock groups of the pair-trend page           *)
(* (PairTrendsPage.vue, groupEventState.ts).  Expanding a stock asks for   *)
(* the first page of its events, "load more" for the next one, "retry" for *)
(* the first again.  Answers come in any order; meanwhile the reader may   *)
(* expand another stock or change the context, the filters or the page of  *)
(* the listing, which drops every list.                                    *)
(*                                                                         *)
(* A handler, the watchers it sets off and the rendering that follows are  *)
(* one action; the answer to a request is another.  The scope stands for   *)
(* the context and the active filters.  Events are counted in pages: an    *)
(* answered page is one row, and total is the number of pages there are.   *)
(***************************************************************************)
EXTENDS Integers, Sequences

CONSTANTS
  Scopes,    \* contexts with their filters and page
  Symbols,   \* the stocks listed
  NoPanel,   \* no entry in groupEvents
  MaxPages,  \* bound of the model: pages of events of a stock
  MaxLoads   \* bound of the model: requests under way at once

ASSUME BoundsAssumption == MaxPages \in Nat \ {0} /\ MaxLoads \in Nat

VARIABLES
  scope,        \* context and activeFilters
  expanded,     \* expandedSymbols
  groupEvents,  \* groupEvents
  loads,        \* the calls of loadGroupEvents that await an answer
  rendered      \* groupEvents as the page last rendered it

vars == <<scope, expanded, groupEvents, loads, rendered>>

Row == [scope : Scopes, symbol : Symbols, page : 1..MaxPages]

Panel == [items : Seq(Row), page : 0..MaxPages, total : 0..MaxPages,
          loading : BOOLEAN, error : BOOLEAN]

ASSUME NoPanelAssumption == NoPanel \notin Panel

EmptyPanel == [items |-> << >>, page |-> 0, total |-> 0, loading |-> FALSE, error |-> FALSE]

\* attached: the panel the call writes to is still in groupEvents.  handle:
\* whether it writes through the reactive proxy or to the object behind it.
Load == [call : 1..MaxLoads, symbol : Symbols, scope : Scopes, page : 1..MaxPages,
         attached : BOOLEAN, handle : {"proxy", "raw"}]

Init ==
  /\ scope \in Scopes
  /\ expanded = {}
  /\ groupEvents = [s \in Symbols |-> NoPanel]
  /\ loads = {}
  /\ rendered = groupEvents

-----------------------------------------------------------------------------
(***************************************************************************)
(* Asking for a page.                                                      *)
(***************************************************************************)
Ensured(s) == IF groupEvents[s] = NoPanel THEN EmptyPanel ELSE groupEvents[s]

\* Mutant: the object just created is used as it is.
HandleCreated(s) == IF groupEvents[s] = NoPanel THEN "raw" ELSE "proxy"

\* The panel is read back from the store, which returns the proxy.
Handle(s) == "proxy"

\* Mutant: a call does not look whether one is under way.
MayLoadAgain(s) == TRUE

MayLoad(s) == ~Ensured(s).loading

Free == {c \in 1..MaxLoads : \A l \in loads : l.call # c}

Ask(s, page) ==
  /\ groupEvents' = [groupEvents EXCEPT ![s] =
       [Ensured(s) EXCEPT !.loading = TRUE, !.error = FALSE]]
  /\ loads' = loads \cup
       {[call |-> CHOOSE c \in Free : TRUE, symbol |-> s, scope |-> scope, page |-> page,
         attached |-> TRUE, handle |-> Handle(s)]}

LoadGroupEvents(s, page) ==
  IF MayLoad(s) THEN Ask(s, page) ELSE UNCHANGED <<groupEvents, loads>>

HasItems(s) == groupEvents[s] # NoPanel /\ groupEvents[s].items # << >>

Rerender == rendered' = groupEvents'

Expand(s) ==
  /\ s \notin expanded /\ Free # {}
  /\ expanded' = {s}
  /\ IF HasItems(s) THEN UNCHANGED <<groupEvents, loads>> ELSE LoadGroupEvents(s, 1)
  /\ Rerender
  /\ UNCHANGED scope

Collapse ==
  /\ expanded # {}
  /\ expanded' = {}
  /\ UNCHANGED <<scope, groupEvents, loads>>
  /\ Rerender

\* The error of an expanded stock is shown with a button.
Retry(s) ==
  /\ s \in expanded /\ Free # {} /\ rendered[s] # NoPanel /\ rendered[s].error
  /\ LoadGroupEvents(s, 1)
  /\ Rerender
  /\ UNCHANGED <<scope, expanded>>

\* Mutant: the button stays when everything is there.
HasMoreOrAll(p) == p.total > 0 /\ Len(p.items) <= p.total

HasMore(p) == Len(p.items) < p.total

\* The button is there while there is more; it takes no click while loading.
LoadMore(s) ==
  /\ s \in expanded /\ Free # {} /\ rendered[s] # NoPanel
  /\ HasMore(rendered[s]) /\ ~rendered[s].loading
  /\ LoadGroupEvents(s, rendered[s].page + 1)
  /\ Rerender
  /\ UNCHANGED <<scope, expanded>>

(***************************************************************************)
(* Answers.                                                                *)
(***************************************************************************)
\* Mutant: the answer looks its panel up by the symbol.
ReachesBySymbol(l) == groupEvents[l.symbol] # NoPanel

\* The call writes to the panel it found when it began.
Reaches(l) == l.attached

\* The events of the page asked for; a page past the end is empty.
Answered(l, total) ==
  IF l.page <= total THEN <<[scope |-> l.scope, symbol |-> l.symbol, page |-> l.page]>>
  ELSE << >>

\* Mutant: the first page is appended as well.
ItemsAppended(l, items, answer) == items \o answer

Items(l, items, answer) == IF l.page = 1 THEN answer ELSE items \o answer

Finish(l, panel) ==
  /\ l \in loads
  /\ loads' = loads \ {l}
  /\ groupEvents' = IF Reaches(l) THEN [groupEvents EXCEPT ![l.symbol] = panel]
                    ELSE groupEvents
  /\ rendered' = IF l.handle = "proxy" THEN groupEvents' ELSE rendered
  /\ UNCHANGED <<scope, expanded>>

Answer(l, total) ==
  Finish(l, [items |-> Items(l, Ensured(l.symbol).items, Answered(l, total)), page |-> l.page,
             total |-> total, loading |-> FALSE, error |-> FALSE])

\* Mutant: a failed call leaves the panel loading.
FailedStuck(l) == [Ensured(l.symbol) EXCEPT !.error = TRUE]

Failed(l) == [Ensured(l.symbol) EXCEPT !.loading = FALSE, !.error = TRUE]

Fail(l) == Finish(l, Failed(l))

\* The request of call c ends.
Ended(c) ==
  \E l \in loads :
    l.call = c /\ (Fail(l) \/ \E total \in 0..MaxPages : Answer(l, total))

(***************************************************************************)
(* Another context, other filters or another page of the listing.          *)
(***************************************************************************)
\* Mutant: the expanded stock stays expanded.
StillExpanded == expanded

ExpandedAfterwards == {}

\* Mutant: the lists are kept.
ListsKept == groupEvents

ListsAfterwards == [s \in Symbols |-> NoPanel]

ChangeScope(sc) ==
  /\ sc # scope
  /\ scope' = sc
  /\ expanded' = ExpandedAfterwards
  /\ groupEvents' = ListsAfterwards
  /\ loads' = {[l EXCEPT !.attached = FALSE] : l \in loads}
  /\ Rerender

-----------------------------------------------------------------------------
Next ==
  \/ \E s \in Symbols : Expand(s) \/ Retry(s) \/ LoadMore(s)
  \/ Collapse
  \/ \E c \in 1..MaxLoads : Ended(c)
  \/ \E sc \in Scopes : ChangeScope(sc)

Spec == Init /\ [][Next]_vars

\* The browser ends every request, with an answer or an error.
Fairness == \A c \in 1..MaxLoads : WF_vars(Ended(c))

FairSpec == Spec /\ Fairness

-----------------------------------------------------------------------------
(***************************************************************************)
(* Properties.                                                             *)
(***************************************************************************)
\* Types.
TypeOK ==
  /\ scope \in Scopes
  /\ expanded \subseteq Symbols
  /\ groupEvents \in [Symbols -> Panel \cup {NoPanel}]
  /\ loads \subseteq Load
  /\ rendered \in [Symbols -> Panel \cup {NoPanel}]

Panels == {s \in Symbols : groupEvents[s] # NoPanel}

\* An answer that is late for a change of scope shows nowhere: every event in a
\* list is of the list's stock and of the scope the page is at.
RowsFitTheScope ==
  \A s \in Panels : \A i \in DOMAIN groupEvents[s].items :
    groupEvents[s].items[i].scope = scope /\ groupEvents[s].items[i].symbol = s

\* However expansions, retries and "load more" alternate with their answers, a
\* list holds the leading pages, each once and in order, and asks for the page
\* after them.
PagesInOrder ==
  \A s \in Panels :
    LET p == groupEvents[s]
    IN  /\ \A i \in DOMAIN p.items : p.items[i].page = i
        /\ HasMore(p) => p.page = Len(p.items)

\* A list says it is loading exactly while one request will answer to it.
LoadingMeansAsked ==
  /\ \A l \in loads : l.attached => groupEvents[l.symbol] # NoPanel
  /\ \A l, m \in loads : l.attached /\ m.attached /\ l.symbol = m.symbol => l = m
  /\ \A s \in Panels :
       groupEvents[s].loading <=> \E l \in loads : l.attached /\ l.symbol = s

\* An expanded stock has a list, which was asked for or is there: without one
\* the row shows that it is loading and nothing ends that.
ExpandedHasPanel ==
  \A s \in expanded : groupEvents[s] # NoPanel

\* The page shows the lists as they are: an answer that arrives after the list
\* was created is rendered (groupEventState.ts:19).
RenderedIsCurrent == rendered = groupEvents

\* A list that shows that it is loading stops doing so, with events or an error.
LoadingEnds ==
  \A s \in Symbols :
    (rendered[s] # NoPanel /\ rendered[s].loading)
      ~> (rendered[s] = NoPanel \/ ~rendered[s].loading)

View == [s \in Symbols |-> IF rendered[s] = NoPanel THEN << >> ELSE rendered[s].items]

\* The lists the page shows behave as ScopedListing promises.
Contract == INSTANCE ScopedListing WITH view <- View

ListingSpec == Contract!Spec
=============================================================================
