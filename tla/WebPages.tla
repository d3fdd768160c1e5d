------------------------------ MODULE WebPages -------------------------------
(***************************************************************************)
(* The pages of the front end, one of which a tab of the browser is at:    *)
(* the listing of the pair-trend page, its filter form, the event and      *)
(* stock pages, a notification on the stock page, the operations page, and *)
(* the links between the pages.  A behaviour stays with the part it starts *)
(* with; the other parts keep one state of their own.                      *)
(***************************************************************************)
EXTENDS PairTrendsPage, FilterForm, EventPages, TaskCards, OperationsPage, WebRoutes

VARIABLE tab  \* the part the behaviour is about

TabNames == {"listing", "form", "event", "task", "operations", "routes"}

webVars == <<tab, pageVars, formVars, eventVars, taskVars, status, routeVars>>

WebInit ==
  /\ tab \in TabNames
  /\ PageInit /\ (tab # "listing" => route.context = "intraday")
  /\ FormInit
  /\ tab # "form" =>
       /\ formContext = "intraday" /\ query = NoQuery /\ \A d \in Dates : d > 1 => today <= d
  /\ EventInit
  /\ tab # "event" => page = "detail" /\ eventContext = "intraday" /\ ~sample
  /\ TaskInit /\ (tab # "task" => ~stored.isRead /\ ~stored.isStarred)
  /\ StatusInit
  /\ RouteInit

AtListing ==
  /\ tab = "listing" /\ PageNext
  /\ UNCHANGED <<tab, formVars, eventVars, taskVars, status, routeVars>>

AtForm ==
  /\ tab = "form" /\ FormNext
  /\ UNCHANGED <<tab, pageVars, eventVars, taskVars, status, routeVars>>

AtEvent ==
  /\ tab = "event" /\ EventNext
  /\ UNCHANGED <<tab, pageVars, formVars, taskVars, status, routeVars>>

AtTask ==
  /\ tab = "task" /\ TaskNext
  /\ UNCHANGED <<tab, pageVars, formVars, eventVars, status, routeVars>>

AtOperations ==
  /\ tab = "operations" /\ StatusNext
  /\ UNCHANGED <<tab, pageVars, formVars, eventVars, taskVars, routeVars>>

AtRoutes ==
  /\ tab = "routes" /\ RouteNext
  /\ UNCHANGED <<tab, pageVars, formVars, eventVars, taskVars, status>>

WebNext == AtListing \/ AtForm \/ AtEvent \/ AtTask \/ AtOperations \/ AtRoutes

WebSpec == WebInit /\ [][WebNext]_webVars

\* The browser ends every request a page waits for, and the library's timers run
\* while the page is visible.
WebFairness ==
  /\ WF_pageVars(tab = "listing" /\ visible /\ DayEnds)
  /\ WF_pageVars(tab = "listing" /\ ObservedEnds)
  /\ WF_pageVars(tab = "listing" /\ ObservedAgain)
  /\ WF_eventVars(tab = "event" /\ ChartEnds)

FairSpec == WebSpec /\ WebFairness

-----------------------------------------------------------------------------
(***************************************************************************)
(* Properties.                                                             *)
(***************************************************************************)
\* Types, of every part.
WebTypeOK ==
  /\ tab \in TabNames
  /\ PageTypeOK /\ FormTypeOK /\ EventTypeOK /\ TaskTypeOK /\ StatusTypeOK /\ RouteTypeOK

\* A listing that stays visible does not wait for ever, nor keep the rows of
\* another URL: it comes to show its own, an error, or why there are none.
ListingSettles == (tab = "listing" /\ Unsettled) ~> (~Unsettled \/ ~visible)

\* A chart that is loading stops loading, with bars or an error.
ChartSettles == (tab = "event" /\ ChartWaits) ~> ~ChartWaits
=============================================================================
