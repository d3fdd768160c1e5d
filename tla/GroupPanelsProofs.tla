-------------------------- MODULE GroupPanelsProofs --------------------------
(***************************************************************************)
(* Proofs about GroupPanels: types, the lists fit the scope and are in     *)
(* order, and what the page renders behaves as ScopedListing promises.     *)
(***************************************************************************)
EXTENDS GroupPanels, TLAPS

(***************************************************************************)
(* The inductive invariant.                                                *)
(***************************************************************************)
RowOf(s, i) == [scope |-> scope, symbol |-> s, page |-> i]

\* The list of s holds the leading pages of s in the scope.
PanelFits(s, p) ==
  /\ \A i \in 1..Len(p.items) : p.items[i] = RowOf(s, i)
  /\ HasMore(p) => p.page = Len(p.items)

PanelsFit == \A s \in Panels : PanelFits(s, groupEvents[s])

\* A request that will answer to a list asks for its first page or for the one
\* after its last, in the scope the page is at.
LoadFits(l) ==
  /\ l.scope = scope
  /\ l.symbol \in Panels
  /\ groupEvents[l.symbol].loading
  /\ l.page = 1 \/ l.page = Len(groupEvents[l.symbol].items) + 1

LoadsFit == \A l \in loads : l.handle = "proxy" /\ (l.attached => LoadFits(l))

OneLoadEach ==
  \A l, m \in loads : l.attached /\ m.attached /\ l.symbol = m.symbol => l = m

LoadingIsAsked ==
  \A s \in Panels : groupEvents[s].loading => \E l \in loads : l.attached /\ l.symbol = s

IInv ==
  /\ TypeOK /\ PanelsFit /\ LoadsFit /\ OneLoadEach /\ LoadingIsAsked
  /\ ExpandedHasPanel /\ RenderedIsCurrent

-----------------------------------------------------------------------------
(***************************************************************************)
(* Panels.                                                                 *)
(***************************************************************************)
\* A panel is never mistaken for none.
LEMMA PanelIsThere == \A p \in Panel : p # NoPanel
BY NoPanelAssumption

LEMMA EmptyIsPanel == EmptyPanel \in Panel
BY BoundsAssumption DEF EmptyPanel, Panel

\* What a call that finds no panel creates, or finds.
LEMMA EnsuredIsPanel ==
  ASSUME TypeOK, NEW s \in Symbols
  PROVE  Ensured(s) \in Panel
BY EmptyIsPanel DEF TypeOK, Ensured

LEMMA EnsuredFits ==
  ASSUME TypeOK, PanelsFit, NEW s \in Symbols
  PROVE  PanelFits(s, Ensured(s))
<1>1. CASE groupEvents[s] = NoPanel
  <2>1. Ensured(s) = EmptyPanel
    BY <1>1 DEF Ensured
  <2>2. EmptyPanel.items = << >> /\ EmptyPanel.total = 0
    BY DEF EmptyPanel
  <2> QED
    BY <2>1, <2>2 DEF PanelFits, HasMore
<1>2. CASE groupEvents[s] # NoPanel
  BY <1>2 DEF Ensured, PanelsFit, Panels
<1> QED
  BY <1>1, <1>2

\* The page after the last one of a list that has more.
LEMMA NextPage ==
  ASSUME NEW s \in Symbols, NEW p \in Panel, PanelFits(s, p), HasMore(p)
  PROVE  p.page + 1 \in 1..MaxPages /\ p.page + 1 = Len(p.items) + 1
<1>1. Len(p.items) \in Nat /\ p.total \in 0..MaxPages /\ MaxPages \in Nat
  BY BoundsAssumption DEF Panel
<1>2. p.page = Len(p.items) /\ Len(p.items) < p.total
  BY DEF PanelFits, HasMore
<1> QED
  BY <1>1, <1>2

-----------------------------------------------------------------------------
(***************************************************************************)
(* Steps that ask for nothing, or for a page.                              *)
(***************************************************************************)
LEMMA QuietInv ==
  ASSUME IInv, UNCHANGED <<scope, groupEvents, loads>>, Rerender,
         expanded' \subseteq Panels
  PROVE  IInv'
<1>1. TypeOK'
  BY DEF IInv, TypeOK, Rerender, Panels
<1>2. PanelsFit' /\ LoadsFit' /\ OneLoadEach' /\ LoadingIsAsked'
  BY DEF IInv, PanelsFit, PanelFits, RowOf, Panels, LoadsFit, LoadFits, OneLoadEach, LoadingIsAsked
<1>3. ExpandedHasPanel' /\ RenderedIsCurrent'
  BY DEF ExpandedHasPanel, RenderedIsCurrent, Rerender, Panels
<1> QED
  BY <1>1, <1>2, <1>3 DEF IInv

LEMMA AskInv ==
  ASSUME IInv, NEW s \in Symbols, NEW page \in 1..MaxPages, Free # {},
         page = 1 \/ page = Len(Ensured(s).items) + 1,
         MayLoad(s), Ask(s, page), UNCHANGED scope, Rerender,
         expanded' \subseteq expanded \cup {s}
  PROVE  IInv'
<1> DEFINE panel == [Ensured(s) EXCEPT !.loading = TRUE, !.error = FALSE]
           load == [call |-> CHOOSE c \in Free : TRUE, symbol |-> s, scope |-> scope,
                    page |-> page, attached |-> TRUE, handle |-> "proxy"]
<1>1. Ensured(s) \in Panel /\ PanelFits(s, Ensured(s)) /\ ~Ensured(s).loading
  BY EnsuredIsPanel, EnsuredFits DEF IInv, MayLoad
<1>2. panel \in Panel /\ panel # NoPanel
  BY <1>1, PanelIsThere DEF Panel
<1>3. panel.loading /\ panel.items = Ensured(s).items /\ panel.page = Ensured(s).page
        /\ panel.total = Ensured(s).total
  BY <1>1 DEF Panel
<1>4. load \in Load
  <2>1. (CHOOSE c \in Free : TRUE) \in 1..MaxLoads
    BY DEF Free
  <2> QED
    BY <2>1 DEF Load, IInv, TypeOK
<1>5. groupEvents' = [groupEvents EXCEPT ![s] = panel] /\ loads' = loads \cup {load}
  BY DEF Ask, Handle
<1>6. groupEvents \in [Symbols -> Panel \cup {NoPanel}] /\ loads \subseteq Load
  BY DEF IInv, TypeOK
<1>7. groupEvents'[s] = panel /\ \A t \in Symbols : t # s => groupEvents'[t] = groupEvents[t]
  BY <1>5, <1>6
<1>8. load.attached /\ load.symbol = s /\ load.scope = scope /\ load.page = page
        /\ load.handle = "proxy"
  OBVIOUS
<1> HIDE DEF panel, load
<1>9. Panels' = Panels \cup {s}
  BY <1>7, <1>2 DEF Panels
<1>10. TypeOK'
  BY <1>2, <1>4, <1>5, <1>6 DEF IInv, TypeOK, Rerender
<1>11. PanelsFit'
  <2>1. ASSUME NEW t \in Panels' PROVE PanelFits(t, groupEvents[t])'
    <3>1. CASE t = s
      BY <3>1, <1>1, <1>3, <1>7 DEF PanelFits, HasMore, RowOf
    <3>2. CASE t # s
      BY <3>2, <2>1, <1>7, <1>9 DEF IInv, PanelsFit, PanelFits, RowOf, Panels
    <3> QED
      BY <3>1, <3>2
  <2> QED
    BY <2>1 DEF PanelsFit
\* No request was to answer to the list: it was not loading.
<1>12. \A l \in loads : l.attached => l.symbol # s
  <2>1. SUFFICES ASSUME NEW l \in loads, l.attached, l.symbol = s PROVE FALSE
    OBVIOUS
  <2>2. s \in Panels /\ groupEvents[s].loading
    BY <2>1 DEF IInv, LoadsFit, LoadFits
  <2> QED
    BY <2>2, <1>1 DEF Ensured, Panels
<1>13. LoadsFit'
  <2>1. ASSUME NEW l \in loads' PROVE l.handle = "proxy" /\ (l.attached => LoadFits(l)')
    <3>1. CASE l = load
      BY <3>1, <1>3, <1>7, <1>8, <1>9 DEF LoadFits
    <3>2. CASE l \in loads
      <4>1. l.symbol \in Symbols
        BY <3>2, <1>6 DEF Load
      <4> QED
        BY <3>2, <4>1, <1>7, <1>9, <1>12 DEF IInv, LoadsFit, LoadFits
    <3> QED
      BY <3>1, <3>2, <1>5
  <2> QED
    BY <2>1 DEF LoadsFit
<1>14. OneLoadEach'
  BY <1>5, <1>8, <1>12 DEF IInv, OneLoadEach
<1>15. LoadingIsAsked'
  BY <1>5, <1>7, <1>8, <1>9 DEF IInv, LoadingIsAsked, Panels
<1>16. ExpandedHasPanel' /\ RenderedIsCurrent'
  BY <1>2, <1>7 DEF IInv, TypeOK, ExpandedHasPanel, RenderedIsCurrent, Rerender
<1> QED
  BY <1>10, <1>11, <1>13, <1>14, <1>15, <1>16 DEF IInv

-----------------------------------------------------------------------------
(***************************************************************************)
(* Answers.                                                                *)
(***************************************************************************)
\* A request that answers to a list it fits ends with another list that does.
LEMMA FinishInv ==
  ASSUME IInv, NEW l \in loads, NEW panel \in Panel, Finish(l, panel),
         ~panel.loading, l.attached => PanelFits(l.symbol, panel)
  PROVE  IInv'
<1>1. loads' = loads \ {l} /\ UNCHANGED <<scope, expanded>>
  BY DEF Finish
<1>2. groupEvents \in [Symbols -> Panel \cup {NoPanel}] /\ loads \subseteq Load
        /\ l.symbol \in Symbols
  BY DEF IInv, TypeOK, Load
<1>3. groupEvents' = IF l.attached THEN [groupEvents EXCEPT ![l.symbol] = panel] ELSE groupEvents
  BY DEF Finish, Reaches
<1>4. rendered' = groupEvents'
  BY DEF Finish, IInv, LoadsFit
<1>5. panel # NoPanel
  BY PanelIsThere
<1>6. l.attached => l.symbol \in Panels
  BY DEF IInv, LoadsFit, LoadFits
<1>7. /\ l.attached => groupEvents'[l.symbol] = panel
      /\ \A t \in Symbols : t # l.symbol \/ ~l.attached => groupEvents'[t] = groupEvents[t]
  BY <1>2, <1>3
<1>8. Panels' = Panels
  BY <1>5, <1>6, <1>7 DEF Panels
<1>9. TypeOK'
  BY <1>1, <1>2, <1>3, <1>4 DEF IInv, TypeOK
<1>10. PanelsFit'
  <2>1. ASSUME NEW t \in Panels' PROVE PanelFits(t, groupEvents[t])'
    <3>1. CASE t = l.symbol /\ l.attached
      BY <3>1, <1>1, <1>7 DEF PanelFits, RowOf
    <3>2. CASE t # l.symbol \/ ~l.attached
      BY <3>2, <2>1, <1>1, <1>7, <1>8 DEF IInv, PanelsFit, PanelFits, RowOf, Panels
    <3> QED
      BY <3>1, <3>2
  <2> QED
    BY <2>1 DEF PanelsFit
<1>11. LoadsFit'
  <2>1. ASSUME NEW m \in loads', m.attached PROVE LoadFits(m)'
    <3>1. m \in loads /\ m # l /\ m.symbol \in Symbols
      BY <1>1, <1>2 DEF Load
    <3>2. m.symbol # l.symbol \/ ~l.attached
      BY <2>1, <3>1 DEF IInv, OneLoadEach
    <3>3. LoadFits(m) /\ groupEvents'[m.symbol] = groupEvents[m.symbol]
      BY <2>1, <3>1, <3>2, <1>7 DEF IInv, LoadsFit
    <3> QED
      BY <3>3, <1>1, <1>8 DEF LoadFits
  <2> QED
    BY <2>1, <1>1 DEF IInv, LoadsFit
<1>12. OneLoadEach'
  BY <1>1 DEF IInv, OneLoadEach
<1>13. LoadingIsAsked'
  <2>1. SUFFICES ASSUME NEW t \in Panels', groupEvents'[t].loading
                 PROVE  \E m \in loads' : m.attached /\ m.symbol = t
    BY DEF LoadingIsAsked
  <2>2. t # l.symbol \/ ~l.attached
    BY <2>1, <1>7
  <2>3. t \in Panels /\ groupEvents[t].loading
    BY <2>1, <2>2, <1>7, <1>8 DEF Panels
  <2>4. PICK m \in loads : m.attached /\ m.symbol = t
    BY <2>3 DEF IInv, LoadingIsAsked
  <2> QED
    BY <2>2, <2>4, <1>1
<1>14. ExpandedHasPanel' /\ RenderedIsCurrent'
  BY <1>1, <1>4, <1>8 DEF IInv, TypeOK, ExpandedHasPanel, RenderedIsCurrent, Panels
<1> QED
  BY <1>9, <1>10, <1>11, <1>12, <1>13, <1>14 DEF IInv

\* The list after an answer: the leading page, or one more.
AnsweredPanel(l, total) ==
  [items |-> Items(l, Ensured(l.symbol).items, Answered(l, total)), page |-> l.page,
   total |-> total, loading |-> FALSE, error |-> FALSE]

LEMMA AnsweredFits ==
  ASSUME IInv, NEW l \in loads, NEW total \in 0..MaxPages
  PROVE  /\ AnsweredPanel(l, total) \in Panel
         /\ l.attached => PanelFits(l.symbol, AnsweredPanel(l, total))
<1> DEFINE old == Ensured(l.symbol).items
           row == [scope |-> l.scope, symbol |-> l.symbol, page |-> l.page]
           new == Items(l, old, Answered(l, total))
<1>1. /\ l.symbol \in Symbols /\ l.scope \in Scopes /\ l.page \in 1..MaxPages
      /\ MaxPages \in Nat
  BY BoundsAssumption DEF IInv, TypeOK, Load
<1>2. Ensured(l.symbol) \in Panel
  BY <1>1, EnsuredIsPanel DEF IInv
<1>3. old \in Seq(Row) /\ row \in Row
  BY <1>1, <1>2 DEF Panel, Row
<1>4. l.page <= total => Answered(l, total) = <<row>>
  BY DEF Answered
<1>5. ~(l.page <= total) => Answered(l, total) = << >>
  BY DEF Answered
<1> HIDE DEF old, row
<1>6. Answered(l, total) \in Seq(Row)
  <2>1. <<row>> \in Seq(Row) /\ << >> \in Seq(Row)
    BY <1>3
  <2> QED
    BY <2>1, <1>4, <1>5
<1>7. new \in Seq(Row)
  BY <1>3, <1>6 DEF Items
<1>8. AnsweredPanel(l, total) \in Panel
  BY <1>1, <1>7 DEF AnsweredPanel, Panel, old
<1>9. AnsweredPanel(l, total).items = new /\ AnsweredPanel(l, total).page = l.page
        /\ AnsweredPanel(l, total).total = total
  BY DEF AnsweredPanel, old
<1>10. ASSUME l.attached PROVE PanelFits(l.symbol, AnsweredPanel(l, total))
  <2>1. LoadFits(l) /\ PanelFits(l.symbol, Ensured(l.symbol))
    BY <1>10, <1>1, EnsuredFits DEF IInv, LoadsFit
  <2>2. l.page = 1 \/ l.page = Len(old) + 1
    BY <2>1 DEF LoadFits, Ensured, Panels, old
  <2>3. row = RowOf(l.symbol, l.page) /\ \A i \in 1..Len(old) : old[i] = RowOf(l.symbol, i)
    BY <2>1 DEF LoadFits, PanelFits, RowOf, row, old
  <2>4. CASE l.page = 1 /\ l.page <= total
    <3>1. new = <<row>>
      BY <2>4, <1>4 DEF Items
    <3> HIDE DEF new
    <3>2. Len(new) = 1 /\ new[1] = row
      BY <3>1
    <3>3. \A i \in 1..Len(new) : new[i] = RowOf(l.symbol, i)
      BY <3>2, <2>3, <2>4
    <3> DEFINE panel == AnsweredPanel(l, total)
    <3>4. panel.items = new /\ panel.page = l.page
      BY <1>9
    <3> HIDE DEF panel
    <3>5. panel.page = Len(panel.items)
      BY <3>2, <3>4, <2>4
    <3>6. \A i \in 1..Len(panel.items) : panel.items[i] = RowOf(l.symbol, i)
      BY <3>3, <3>4
    <3>7. PanelFits(l.symbol, panel)
      BY <3>5, <3>6 DEF PanelFits
    <3> QED
      BY <3>7 DEF panel
  <2>5. CASE l.page = 1 /\ ~(l.page <= total)
    <3>1. new = << >>
      BY <2>5, <1>5 DEF Items
    <3> HIDE DEF new
    <3>2. Len(new) = 0 /\ total = 0
      BY <3>1, <2>5
    <3> QED
      BY <3>2, <1>9 DEF PanelFits, HasMore
  <2>6. CASE l.page # 1 /\ l.page <= total
    <3>1. new = old \o <<row>>
      BY <2>6, <1>4 DEF Items
    <3> HIDE DEF new
    <3>2. Len(new) = Len(old) + 1 /\ new[Len(old) + 1] = row
            /\ \A i \in 1..Len(old) : new[i] = old[i]
      BY <3>1, <1>3
    <3>3. Len(old) \in Nat
      BY <1>3
    <3>4. \A i \in 1..Len(new) : new[i] = RowOf(l.symbol, i)
      BY <3>2, <3>3, <2>2, <2>3, <2>6
    <3> DEFINE panel == AnsweredPanel(l, total)
    <3>5. panel.items = new /\ panel.page = l.page
      BY <1>9
    <3> HIDE DEF panel
    <3>6. panel.page = Len(panel.items)
      BY <3>2, <3>5, <2>2, <2>6
    <3>7. \A i \in 1..Len(panel.items) : panel.items[i] = RowOf(l.symbol, i)
      BY <3>4, <3>5
    <3>8. PanelFits(l.symbol, panel)
      BY <3>6, <3>7 DEF PanelFits
    <3> QED
      BY <3>8 DEF panel
  <2>7. CASE l.page # 1 /\ ~(l.page <= total)
    <3>1. new = old
      <4>1. new = old \o << >>
        BY <2>7, <1>5 DEF Items
      <4> QED
        BY <4>1, <1>3
    <3> HIDE DEF new
    <3>2. Len(old) \in Nat /\ ~(Len(old) < total)
      BY <1>1, <1>3, <2>2, <2>7
    <3> QED
      BY <3>1, <3>2, <2>3, <1>9 DEF PanelFits, HasMore
  <2> QED
    BY <2>4, <2>5, <2>6, <2>7
<1> QED
  BY <1>8, <1>10

LEMMA FailedFits ==
  ASSUME IInv, NEW l \in loads
  PROVE  /\ Failed(l) \in Panel /\ ~Failed(l).loading
         /\ PanelFits(l.symbol, Failed(l))
<1>1. l.symbol \in Symbols
  BY DEF IInv, TypeOK, Load
<1>2. Ensured(l.symbol) \in Panel /\ PanelFits(l.symbol, Ensured(l.symbol))
  BY <1>1, EnsuredIsPanel, EnsuredFits DEF IInv
<1>3. Failed(l) \in Panel /\ ~Failed(l).loading
  BY <1>2 DEF Failed, Panel
<1>4. Failed(l).items = Ensured(l.symbol).items /\ Failed(l).page = Ensured(l.symbol).page
        /\ Failed(l).total = Ensured(l.symbol).total
  BY <1>2 DEF Failed, Panel
<1> QED
  BY <1>2, <1>3, <1>4 DEF PanelFits, HasMore

LEMMA EndedInv ==
  ASSUME IInv, NEW c \in 1..MaxLoads, Ended(c)
  PROVE  IInv'
<1>1. PICK l \in loads : Fail(l) \/ \E total \in 0..MaxPages : Answer(l, total)
  BY DEF Ended
<1>2. CASE Fail(l)
  BY <1>2, FailedFits, FinishInv DEF Fail
<1>3. ASSUME NEW total \in 0..MaxPages, Answer(l, total) PROVE IInv'
  <2>1. Finish(l, AnsweredPanel(l, total)) /\ ~AnsweredPanel(l, total).loading
    BY <1>3 DEF Answer, AnsweredPanel
  <2> QED
    BY <2>1, AnsweredFits, FinishInv
<1> QED
  BY <1>1, <1>2, <1>3

-----------------------------------------------------------------------------
(***************************************************************************)
(* The invariant is inductive.                                             *)
(***************************************************************************)
LEMMA InitInv == Init => IInv
BY DEF Init, IInv, TypeOK, PanelsFit, Panels, LoadsFit, OneLoadEach, LoadingIsAsked,
       ExpandedHasPanel, RenderedIsCurrent

\* The stock that is expanded has a list, or gets one that is asked for.
LEMMA ExpandInv ==
  ASSUME IInv, NEW s \in Symbols, Expand(s)
  PROVE  IInv'
<1>1. 1 \in 1..MaxPages
  BY BoundsAssumption
<1>2. expanded' = {s} /\ UNCHANGED scope /\ Rerender /\ Free # {}
  BY DEF Expand
<1>3. CASE Ask(s, 1) /\ MayLoad(s)
  BY <1>1, <1>2, <1>3, AskInv
<1>4. CASE UNCHANGED <<groupEvents, loads>> /\ (HasItems(s) \/ ~MayLoad(s))
  <2>1. s \in Panels
    BY <1>4 DEF HasItems, MayLoad, Ensured, EmptyPanel, Panels
  <2> QED
    BY <2>1, <1>2, <1>4, QuietInv
<1> QED
  BY <1>3, <1>4 DEF Expand, LoadGroupEvents

LEMMA RetryInv ==
  ASSUME IInv, NEW s \in Symbols, Retry(s)
  PROVE  IInv'
<1>1. 1 \in 1..MaxPages
  BY BoundsAssumption
<1>2. UNCHANGED <<scope, expanded>> /\ Rerender /\ Free # {}
  BY DEF Retry
<1>3. CASE Ask(s, 1) /\ MayLoad(s)
  BY <1>1, <1>2, <1>3, AskInv
<1>4. CASE UNCHANGED <<groupEvents, loads>>
  <2>1. expanded \subseteq Panels
    BY DEF IInv, TypeOK, ExpandedHasPanel, Panels
  <2> QED
    BY <2>1, <1>2, <1>4, QuietInv
<1> QED
  BY <1>3, <1>4 DEF Retry, LoadGroupEvents

\* The page is up to date, so the button asks for the page after the last one.
LEMMA LoadMoreInv ==
  ASSUME IInv, NEW s \in Symbols, LoadMore(s)
  PROVE  IInv'
<1>1. UNCHANGED <<scope, expanded>> /\ Rerender /\ Free # {}
  BY DEF LoadMore
<1>2. s \in Panels /\ HasMore(groupEvents[s]) /\ rendered = groupEvents
  BY DEF LoadMore, IInv, RenderedIsCurrent, Panels
<1>3. groupEvents[s] \in Panel /\ PanelFits(s, groupEvents[s]) /\ Ensured(s) = groupEvents[s]
  BY <1>2 DEF IInv, TypeOK, PanelsFit, Panels, Ensured
<1> DEFINE page == groupEvents[s].page + 1
<1>4. page \in 1..MaxPages /\ page = Len(Ensured(s).items) + 1
  BY <1>2, <1>3, NextPage
<1>5. LoadGroupEvents(s, page)
  BY <1>2 DEF LoadMore
<1> HIDE DEF page
<1>6. CASE Ask(s, page) /\ MayLoad(s)
  BY <1>1, <1>4, <1>6, AskInv
<1>7. CASE UNCHANGED <<groupEvents, loads>>
  <2>1. expanded \subseteq Panels
    BY DEF IInv, TypeOK, ExpandedHasPanel, Panels
  <2> QED
    BY <2>1, <1>1, <1>7, QuietInv
<1> QED
  BY <1>5, <1>6, <1>7 DEF LoadGroupEvents

\* No request is left that would answer to a list.
LEMMA ChangeScopeInv ==
  ASSUME IInv, NEW sc \in Scopes, ChangeScope(sc)
  PROVE  IInv'
<1>1. /\ scope' = sc /\ expanded' = {} /\ groupEvents' = [s \in Symbols |-> NoPanel]
      /\ rendered' = groupEvents'
  BY DEF ChangeScope, ExpandedAfterwards, ListsAfterwards, Rerender
<1>2. loads' = {[l EXCEPT !.attached = FALSE] : l \in loads}
  BY DEF ChangeScope
<1>3. \A m \in loads' : m \in Load /\ ~m.attached /\ m.handle = "proxy"
  <2>1. SUFFICES ASSUME NEW l \in loads
                 PROVE  LET m == [l EXCEPT !.attached = FALSE]
                        IN  m \in Load /\ ~m.attached /\ m.handle = "proxy"
    BY <1>2
  <2>2. l \in Load /\ l.handle = "proxy"
    BY DEF IInv, TypeOK, LoadsFit
  <2> QED
    BY <2>2 DEF Load
<1>4. Panels' = {}
  BY <1>1 DEF Panels
<1>5. TypeOK'
  BY <1>1, <1>3 DEF TypeOK
<1>6. PanelsFit' /\ LoadsFit' /\ OneLoadEach' /\ LoadingIsAsked'
  BY <1>3, <1>4 DEF PanelsFit, LoadsFit, OneLoadEach, LoadingIsAsked
<1>7. ExpandedHasPanel' /\ RenderedIsCurrent'
  BY <1>1 DEF ExpandedHasPanel, RenderedIsCurrent
<1> QED
  BY <1>5, <1>6, <1>7 DEF IInv

LEMMA NextInv == IInv /\ [Next]_vars => IInv'
<1> SUFFICES ASSUME IInv, [Next]_vars PROVE IInv'
  OBVIOUS
<1>1. ASSUME NEW s \in Symbols, Expand(s) \/ Retry(s) \/ LoadMore(s) PROVE IInv'
  BY <1>1, ExpandInv, RetryInv, LoadMoreInv
<1>2. CASE Collapse
  BY <1>2, QuietInv DEF Collapse
<1>3. ASSUME NEW c \in 1..MaxLoads, Ended(c) PROVE IInv'
  BY <1>3, EndedInv
<1>4. ASSUME NEW sc \in Scopes, ChangeScope(sc) PROVE IInv'
  BY <1>4, ChangeScopeInv
<1>5. CASE UNCHANGED vars
  <2>1. expanded' \subseteq Panels /\ Rerender
    BY <1>5 DEF vars, IInv, TypeOK, ExpandedHasPanel, RenderedIsCurrent, Rerender, Panels
  <2> QED
    BY <2>1, <1>5, QuietInv DEF vars
<1> QED
  BY <1>1, <1>2, <1>3, <1>4, <1>5 DEF Next

-----------------------------------------------------------------------------
(***************************************************************************)
(* What is rendered behaves as ScopedListing promises.                     *)
(***************************************************************************)
LEMMA ViewIsItems ==
  ASSUME IInv
  PROVE  View = [s \in Symbols |-> Ensured(s).items]
<1>1. EmptyPanel.items = << >> /\ rendered = groupEvents
  BY DEF EmptyPanel, IInv, RenderedIsCurrent
<1> QED
  BY <1>1 DEF View, Ensured

LEMMA ViewInit == Init => Contract!Init
BY DEF Init, Contract!Init, View

\* A list that fits is a leading part of what ScopedListing has of its stock.
LEMMA FitsIsListing ==
  ASSUME NEW s \in Symbols, NEW p \in Panel, PanelFits(s, p)
  PROVE  p.items = Contract!Listing(scope, s, Len(p.items))
<1>1. p.items \in Seq(Row)
  BY DEF Panel
<1>2. p.items = [i \in 1..Len(p.items) |-> p.items[i]]
  BY <1>1
<1>3. \A i \in 1..Len(p.items) : p.items[i] = [scope |-> scope, symbol |-> s, page |-> i]
  BY DEF PanelFits, RowOf
<1> QED
  BY <1>2, <1>3 DEF Contract!Listing

\* Asking changes no list.
LEMMA AskView ==
  ASSUME IInv, IInv', NEW s \in Symbols, NEW page, LoadGroupEvents(s, page)
  PROVE  View' = View
<1>1. CASE UNCHANGED groupEvents
  BY <1>1 DEF View, IInv, RenderedIsCurrent
<1>2. CASE Ask(s, page)
  <2> DEFINE panel == [Ensured(s) EXCEPT !.loading = TRUE, !.error = FALSE]
  <2>1. Ensured(s) \in Panel
    BY EnsuredIsPanel DEF IInv
  <2>2. panel \in Panel /\ panel.items = Ensured(s).items
    BY <2>1 DEF Panel
  <2>3. groupEvents' = [groupEvents EXCEPT ![s] = panel]
    BY <1>2 DEF Ask
  <2>4. panel # NoPanel
    BY <2>2, PanelIsThere
  <2> HIDE DEF panel
  <2>5. groupEvents \in [Symbols -> Panel \cup {NoPanel}]
    BY DEF IInv, TypeOK
  <2>6. \A t \in Symbols : Ensured(t)'.items = Ensured(t).items
    BY <2>2, <2>3, <2>4, <2>5 DEF Ensured
  <2>7. View' = [t \in Symbols |-> Ensured(t)'.items]
    <3>1. EmptyPanel.items = << >> /\ rendered' = groupEvents'
      BY DEF EmptyPanel, IInv, RenderedIsCurrent
    <3> QED
      BY <3>1 DEF View, Ensured
  <2> QED
    BY <2>6, <2>7, ViewIsItems
<1> QED
  BY <1>1, <1>2 DEF LoadGroupEvents

\* An answer starts a list over, or adds the next page to it, if it is there.
LEMMA EndedView ==
  ASSUME IInv, IInv', NEW c \in 1..MaxLoads, Ended(c)
  PROVE  [Contract!Next]_<<scope, View>>
<1>1. PICK l \in loads : Fail(l) \/ \E total \in 0..MaxPages : Answer(l, total)
  BY DEF Ended
<1>2. /\ groupEvents \in [Symbols -> Panel \cup {NoPanel}] /\ l.symbol \in Symbols
      /\ rendered = groupEvents /\ rendered' = groupEvents'
      /\ l.page \in 1..MaxPages
  BY DEF IInv, TypeOK, Load, RenderedIsCurrent
<1> DEFINE s == l.symbol
<1>3. ASSUME NEW panel \in Panel, Finish(l, panel)
      PROVE  /\ UNCHANGED scope
             /\ ~l.attached => View' = View
             /\ l.attached => View' = [View EXCEPT ![s] = panel.items]
  <2>1. groupEvents' = IF l.attached THEN [groupEvents EXCEPT ![s] = panel] ELSE groupEvents
    BY <1>3 DEF Finish, Reaches
  <2>2. UNCHANGED scope
    BY <1>3 DEF Finish
  <2>3. panel # NoPanel
    BY PanelIsThere
  <2> QED
    BY <1>2, <2>1, <2>2, <2>3 DEF View
<1>4. CASE ~l.attached
  <2>1. CASE Fail(l)
    BY <1>3, <1>4, <2>1, FailedFits DEF Fail
  <2>2. ASSUME NEW total \in 0..MaxPages, Answer(l, total) PROVE View' = View /\ UNCHANGED scope
    <3>1. AnsweredPanel(l, total) \in Panel /\ Finish(l, AnsweredPanel(l, total))
      BY <2>2, AnsweredFits DEF Answer, AnsweredPanel
    <3> QED
      BY <1>3, <1>4, <3>1
  <2> QED
    BY <1>1, <2>1, <2>2
<1>5. CASE l.attached
  <2>1. LoadFits(l) /\ s \in Panels /\ Ensured(s) = groupEvents[s]
          /\ PanelFits(s, groupEvents[s]) /\ groupEvents[s] \in Panel
    BY <1>2, <1>5 DEF IInv, LoadsFit, LoadFits, PanelsFit, Panels, Ensured
  <2>2. View[s] = groupEvents[s].items /\ View = [View EXCEPT ![s] = View[s]]
    BY <1>2, <2>1 DEF View, Panels
  <2>3. CASE Fail(l)
    <3>1. Failed(l) \in Panel /\ Failed(l).items = View[s]
      BY <2>1, <2>2, FailedFits DEF Failed, Panel
    <3> QED
      BY <1>3, <1>5, <2>2, <2>3, <3>1 DEF Fail
  <2>4. ASSUME NEW total \in 0..MaxPages, Answer(l, total)
        PROVE  [Contract!Next]_<<scope, View>>
    <3> DEFINE panel == AnsweredPanel(l, total)
               new == panel.items
    <3>1. panel \in Panel /\ Finish(l, panel) /\ PanelFits(s, panel)
      BY <1>5, <2>4, AnsweredFits DEF Answer, AnsweredPanel
    <3>2. UNCHANGED scope /\ View' = [View EXCEPT ![s] = new]
      BY <1>3, <1>5, <3>1
    <3>3. new = Contract!Listing(scope, s, Len(new))
      BY <1>2, <3>1, FitsIsListing
    <3>4. Len(new) \in 0..1 \/ Len(new) = Len(View[s]) + 1 \/ new = View[s]
      <4> DEFINE row == [scope |-> l.scope, symbol |-> l.symbol, page |-> l.page]
      <4>1. Answered(l, total) \in {<<row>>, << >>}
        BY DEF Answered
      <4>2. new = Items(l, View[s], Answered(l, total))
        BY <2>1, <2>2 DEF AnsweredPanel
      <4>3. View[s] \in Seq(Row) /\ row \in Row
        BY <1>2, <2>1, <2>2 DEF Panel, Row, IInv, TypeOK, Load
      <4> HIDE DEF row, new
      <4>4. CASE l.page = 1
        <5>1. new = <<row>> \/ new = << >>
          BY <4>1, <4>2, <4>4 DEF Items
        <5> QED
          BY <5>1
      <4>5. CASE l.page # 1
        <5>1. new = View[s] \o <<row>> \/ new = View[s] \o << >>
          BY <4>1, <4>2, <4>5 DEF Items
        <5> QED
          BY <5>1, <4>3
      <4> QED
        BY <4>4, <4>5
    <3> HIDE DEF new, panel
    <3>5. CASE Len(new) \in 0..1
      <4>1. Contract!Restart(s)
        BY <3>2, <3>3, <3>5 DEF Contract!Restart
      <4> QED
        BY <1>2, <4>1 DEF Contract!Next
    <3>6. CASE Len(new) = Len(View[s]) + 1
      <4>1. Contract!Grow(s)
        BY <3>2, <3>3, <3>6 DEF Contract!Grow
      <4> QED
        BY <1>2, <4>1 DEF Contract!Next
    <3>7. CASE new = View[s]
      BY <3>2, <3>7, <2>2
    <3> QED
      BY <3>4, <3>5, <3>6, <3>7
  <2> QED
    BY <1>1, <2>3, <2>4
<1> QED
  BY <1>4, <1>5

LEMMA NextView == IInv /\ IInv' /\ [Next]_vars => [Contract!Next]_<<scope, View>>
<1> SUFFICES ASSUME IInv, IInv', [Next]_vars PROVE [Contract!Next]_<<scope, View>>
  OBVIOUS
<1>1. ASSUME NEW s \in Symbols, Expand(s) \/ Retry(s) \/ LoadMore(s)
      PROVE  UNCHANGED <<scope, View>>
  <2>1. UNCHANGED scope
    BY <1>1 DEF Expand, Retry, LoadMore
  <2>2. CASE \E page : LoadGroupEvents(s, page)
    BY <2>1, <2>2, AskView
  <2>3. CASE UNCHANGED groupEvents
    BY <2>1, <2>3 DEF View, IInv, RenderedIsCurrent
  <2> QED
    BY <1>1, <2>2, <2>3 DEF Expand, Retry, LoadMore
<1>2. CASE Collapse \/ UNCHANGED vars
  <2>1. UNCHANGED <<scope, groupEvents>>
    BY <1>2 DEF Collapse, vars
  <2> QED
    BY <2>1 DEF View, IInv, RenderedIsCurrent
<1>3. ASSUME NEW c \in 1..MaxLoads, Ended(c) PROVE [Contract!Next]_<<scope, View>>
  BY <1>3, EndedView
<1>4. ASSUME NEW sc \in Scopes, ChangeScope(sc) PROVE Contract!NewScope
  <2>1. /\ scope' = sc /\ sc # scope
        /\ rendered' = [s \in Symbols |-> NoPanel]
    BY <1>4 DEF ChangeScope, ListsAfterwards, Rerender
  <2>2. View' = [s \in Symbols |-> << >>]
    BY <2>1 DEF View
  <2> QED
    BY <2>1, <2>2 DEF Contract!NewScope
<1> QED
  BY <1>1, <1>2, <1>3, <1>4 DEF Next, Contract!Next

-----------------------------------------------------------------------------
(***************************************************************************)
(* Theorems.                                                               *)
(***************************************************************************)
\* The strengthening holds in every reachable state.
THEOREM PanelsInvariant == Spec => []IInv
BY InitInv, NextInv, PTL DEF Spec

\* Every variable keeps its type: in particular no page is asked for beyond the
\* pages there are.
THEOREM PanelTypes == Spec => []TypeOK
<1>1. IInv => TypeOK
  BY DEF IInv
<1> QED
  BY <1>1, PanelsInvariant, PTL

LEMMA ListIsListing ==
  ASSUME IInv, NEW s \in Panels
  PROVE  /\ groupEvents[s] \in Panel /\ PanelFits(s, groupEvents[s])
         /\ DOMAIN groupEvents[s].items = 1..Len(groupEvents[s].items)
         /\ \A i \in DOMAIN groupEvents[s].items : groupEvents[s].items[i] = RowOf(s, i)
<1>1. groupEvents[s] \in Panel /\ PanelFits(s, groupEvents[s])
  BY DEF IInv, TypeOK, PanelsFit, Panels
<1>2. DOMAIN groupEvents[s].items = 1..Len(groupEvents[s].items)
  BY <1>1 DEF Panel
<1> QED
  BY <1>1, <1>2 DEF PanelFits

\* No event of another scope or stock shows in a list, however late its answer is.
THEOREM ListsFitTheScope == Spec => []RowsFitTheScope
<1>1. ASSUME IInv PROVE RowsFitTheScope
  <2>1. ASSUME NEW s \in Panels, NEW i \in DOMAIN groupEvents[s].items
        PROVE  groupEvents[s].items[i].scope = scope /\ groupEvents[s].items[i].symbol = s
    <3>1. groupEvents[s].items[i] = RowOf(s, i)
      BY <1>1, ListIsListing
    <3> QED
      BY <3>1 DEF RowOf
  <2> QED
    BY <2>1 DEF RowsFitTheScope
<1> QED
  BY <1>1, PanelsInvariant, PTL

\* A list holds its leading pages, each once and in order, and asks for the next.
THEOREM ListsAreInOrder == Spec => []PagesInOrder
<1>1. ASSUME IInv PROVE PagesInOrder
  <2>1. ASSUME NEW s \in Panels, NEW i \in DOMAIN groupEvents[s].items
        PROVE  groupEvents[s].items[i].page = i
    <3>1. groupEvents[s].items[i] = RowOf(s, i)
      BY <1>1, ListIsListing
    <3> QED
      BY <3>1 DEF RowOf
  <2>2. ASSUME NEW s \in Panels, HasMore(groupEvents[s])
        PROVE  groupEvents[s].page = Len(groupEvents[s].items)
    BY <1>1, <2>2, ListIsListing DEF PanelFits
  <2> QED
    BY <2>1, <2>2 DEF PagesInOrder
<1> QED
  BY <1>1, PanelsInvariant, PTL

\* A list says that it is loading exactly while one request will answer to it.
THEOREM LoadingIsOneRequest == Spec => []LoadingMeansAsked
<1>1. IInv => LoadingMeansAsked
  BY DEF IInv, LoadsFit, LoadFits, OneLoadEach, LoadingIsAsked, LoadingMeansAsked, Panels
<1> QED
  BY <1>1, PanelsInvariant, PTL

\* An expanded stock has a list.
THEOREM ExpandedIsListed == Spec => []ExpandedHasPanel
<1>1. IInv => ExpandedHasPanel
  BY DEF IInv
<1> QED
  BY <1>1, PanelsInvariant, PTL

\* The page shows the lists as they are.
THEOREM ListsAreRendered == Spec => []RenderedIsCurrent
<1>1. IInv => RenderedIsCurrent
  BY DEF IInv
<1> QED
  BY <1>1, PanelsInvariant, PTL

\* GroupPanels implements ScopedListing.
THEOREM PanelsAreListings == Spec => ListingSpec
<1>1. Spec => Contract!Init /\ [][Contract!Next]_<<scope, View>>
  BY ViewInit, NextView, PanelsInvariant, PTL DEF Spec
<1> QED
  BY <1>1 DEF ListingSpec, Contract!Spec

\* ScopedListing promises enough: what the page shows below a stock are the
\* leading pages of that stock in the scope the page is at, each once.
LeadingPages == \A s \in Symbols : \E n \in Nat : View[s] = Contract!Listing(scope, s, n)

THEOREM ListingIsLeadingPages == ListingSpec => []LeadingPages
<1>1. ASSUME NEW sc, NEW s
      PROVE  /\ Contract!Listing(sc, s, 0) = << >>
             /\ \A n \in Nat : Len(Contract!Listing(sc, s, n)) = n
  BY DEF Contract!Listing
<1>2. Contract!Init => LeadingPages
  BY <1>1 DEF Contract!Init, LeadingPages
<1>3. ASSUME LeadingPages, Contract!Next
      PROVE  LeadingPages'
  <2>1. CASE Contract!NewScope
    BY <1>1, <2>1 DEF Contract!NewScope, LeadingPages
  <2>2. ASSUME NEW s \in Symbols, NEW n \in Nat, scope' = scope,
               View' = [View EXCEPT ![s] = Contract!Listing(scope, s, n)]
        PROVE  LeadingPages'
    <3> SUFFICES ASSUME NEW t \in Symbols
                 PROVE  \E m \in Nat : View'[t] = Contract!Listing(scope, t, m)
      BY <2>2 DEF LeadingPages
    <3>1. DOMAIN View = Symbols
      BY DEF View
    <3>2. CASE t = s
      BY <2>2, <3>1, <3>2
    <3>3. CASE t # s
      <4>1. View'[t] = View[t]
        BY <2>2, <3>1, <3>3
      <4> QED
        BY <1>3, <4>1 DEF LeadingPages
    <3> QED
      BY <3>2, <3>3
  <2>3. CASE \E s \in Symbols : Contract!Restart(s)
    <3>1. PICK s \in Symbols, n \in 0..1 :
            View' = [View EXCEPT ![s] = Contract!Listing(scope, s, n)] /\ scope' = scope
      BY <2>3 DEF Contract!Restart
    <3>2. n \in Nat
      OBVIOUS
    <3> QED
      BY <2>2, <3>1, <3>2, Zenon
  <2>4. CASE \E s \in Symbols : Contract!Grow(s)
    <3>1. PICK s \in Symbols : Contract!Grow(s)
      BY <2>4
    <3>2. PICK n \in Nat : View[s] = Contract!Listing(scope, s, n)
      BY <1>3 DEF LeadingPages
    <3>3. Len(View[s]) = n
      BY <1>1, <3>2
    <3>4. View' = [View EXCEPT ![s] = Contract!Listing(scope, s, n + 1)] /\ scope' = scope
      BY <3>1, <3>3 DEF Contract!Grow
    <3>5. n + 1 \in Nat
      OBVIOUS
    <3> QED
      BY <2>2, <3>4, <3>5, Zenon
  <2> QED
    BY <1>3, <2>1, <2>3, <2>4 DEF Contract!Next
<1>4. LeadingPages /\ UNCHANGED <<scope, View>> => LeadingPages'
  BY DEF LeadingPages
<1>5. LeadingPages /\ [Contract!Next]_<<scope, View>> => LeadingPages'
  BY <1>3, <1>4
<1>6. Contract!Spec => []LeadingPages
  BY <1>2, <1>5, PTL DEF Contract!Spec
<1> QED
  BY <1>6 DEF ListingSpec
=============================================================================
