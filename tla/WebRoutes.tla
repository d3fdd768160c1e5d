------------------------------ MODULE WebRoutes ------------------------------
(***************************************************************************)
(* The addresses of the front end (router/index.ts), the redirections of   *)
(* old ones, and the links between its pages (App.vue and the pages).      *)
(* What an address says of an event (its number and the context it is read *)
(* in) goes from page to page with the links.  Links to the retired replay *)
(* end at the past days with a warning.                                    *)
(***************************************************************************)
EXTENDS Integers

CONSTANTS
  Events,   \* events a reader may look at
  NoEvent

VARIABLES
  location,  \* where the router is, or an old address it is asked for
  warning,   \* query.replayDisabled = '1'
  looking,   \* the event the reader has opened and the context it was opened in
  replay     \* the reader came by a link to the replay and has not gone on

routeVars == <<location, warning, looking, replay>>

Tabs == {"intraday", "history-data"}

\* The listings have a drawer for an event; source is the query of old addresses.
Listings == [at : {"listing"}, context : Tabs, event : Events \cup {NoEvent}]
EventPlaces == [at : {"event", "stock"}, context : Tabs, event : Events]
Operations == [at |-> "operations"]
Places == Listings \cup EventPlaces \cup {Operations}

\* '/pair-trends?source=', '/pair-trends/replay', its events, '/pair-trends/history',
\* its events, '/pair-trends/live', its events, and anything else ('/' as well).
\* Their other queries are left aside.
OldAddresses ==
  [at : {"pair-trends"}, source : {"live", "history", ""}]
    \cup [at : {"replay", "replay-event", "history", "live", "unknown"}]
    \cup [at : {"history-event", "live-event"}, event : Events]

AsksForReplay(address) ==
  \/ address.at \in {"replay", "replay-event", "history", "history-event"}
  \/ address.at = "pair-trends" /\ address.source = "history"

ListingOf(c) == [at |-> "listing", context |-> c, event |-> NoEvent]
At(where, c, e) == [at |-> where, context |-> c, event |-> e]

RouteInit ==
  /\ location = ListingOf("intraday") /\ warning = FALSE
  /\ looking = At("event", "intraday", NoEvent) /\ replay = FALSE

-----------------------------------------------------------------------------
\* A place the reader types in, or follows a link to, and what it is about.
Visit(place) ==
  /\ location.at \in {"listing", "event", "stock", "operations"}
  /\ location' = place
  /\ warning' = FALSE
  /\ looking' = IF place.at = "operations" THEN looking
                ELSE At("event", place.context, place.event)
  /\ replay' = FALSE

VisitOld(address) ==
  /\ location.at \in {"listing", "event", "stock", "operations"}
  /\ location' = address
  /\ warning' = FALSE
  /\ looking' = IF address.at = "live-event" THEN At("event", "history-data", address.event)
                ELSE looking
  /\ replay' = AsksForReplay(address)

\* Mutant: replayDisabled is only set for the addresses of the replay itself.
WarnsOfReplay(address) == address.at \in {"replay", "replay-event"}

Warns(address) == AsksForReplay(address)

Target(address) ==
  IF address.at = "unknown" THEN ListingOf("intraday")
  ELSE IF address.at = "live-event" THEN At("event", "history-data", address.event)
  ELSE ListingOf("history-data")

Redirect ==
  /\ location \in OldAddresses
  /\ location' = Target(location)
  /\ warning' = Warns(location)
  /\ UNCHANGED <<looking, replay>>

-----------------------------------------------------------------------------
(***************************************************************************)
(* The links of the pages.                                                 *)
(***************************************************************************)
\* The tabs of the listing, and the menu, which leads to the live one, carry
\* nothing over.
ToListing(c) ==
  /\ location \in Places /\ location # ListingOf(c)
  /\ c = "history-data" => location.at = "listing" /\ location.context = "intraday"
  /\ location' = ListingOf(c)
  /\ warning' = FALSE /\ replay' = FALSE
  /\ UNCHANGED looking

ToOperations ==
  /\ location \in Places /\ location # Operations
  /\ location' = Operations
  /\ warning' = FALSE /\ replay' = FALSE
  /\ UNCHANGED looking

OpenDetail(e) ==
  /\ location.at = "listing"
  /\ location' = [location EXCEPT !.event = e]
  /\ looking' = At("event", location.context, e)
  /\ UNCHANGED <<warning, replay>>

\* Closing the drawer keeps the rest of the query.
CloseDetail ==
  /\ location.at = "listing" /\ location.event # NoEvent
  /\ location' = [location EXCEPT !.event = NoEvent]
  /\ UNCHANGED <<warning, looking, replay>>

\* The filters that are applied are all of the query: drawer and warning go.
ApplyQuery ==
  /\ location.at = "listing"
  /\ location' = [location EXCEPT !.event = NoEvent]
  /\ warning' = FALSE /\ replay' = FALSE
  /\ UNCHANGED looking

CloseReplayWarning ==
  /\ location.at = "listing" /\ warning
  /\ warning' = FALSE /\ replay' = FALSE
  /\ UNCHANGED <<location, looking>>

\* From the drawer or the page of an event, and from its stock.
EventOpen ==
  location.at \in {"event", "stock"} \/ (location.at = "listing" /\ location.event # NoEvent)

ToEvent ==
  /\ EventOpen /\ location.at # "event"
  /\ location' = At("event", location.context, location.event)
  /\ warning' = FALSE /\ replay' = FALSE
  /\ UNCHANGED looking

\* Mutant: the link to the stock does not say in which context.
StockPlaceOf(loc) == At("stock", "intraday", loc.event)

\* pairContext and pairEventId are in the query of the stock's address.
StockPlace(loc) == At("stock", loc.context, loc.event)

ToStock ==
  /\ EventOpen /\ location.at # "stock"
  /\ location' = StockPlace(location)
  /\ warning' = FALSE /\ replay' = FALSE
  /\ UNCHANGED looking

RouteNext ==
  \/ \E place \in Places : Visit(place)
  \/ \E address \in OldAddresses : VisitOld(address)
  \/ Redirect
  \/ \E c \in Tabs : ToListing(c)
  \/ ToOperations
  \/ \E e \in Events : OpenDetail(e)
  \/ CloseDetail \/ ApplyQuery \/ CloseReplayWarning \/ ToEvent \/ ToStock

-----------------------------------------------------------------------------
(***************************************************************************)
(* Properties.                                                             *)
(***************************************************************************)
\* Types.
RouteTypeOK ==
  /\ location \in Places \cup OldAddresses /\ warning \in BOOLEAN /\ replay \in BOOLEAN
  /\ looking \in [at : {"event"}, context : Tabs, event : Events \cup {NoEvent}]

\* Every link to the replay ends at the listing of the past days, which says that
\* there is no replay until the reader goes on.
ReplayIsExplained ==
  replay /\ location \notin OldAddresses =>
    /\ location.at = "listing" /\ location.context = "history-data"
    /\ warning

\* Wherever the links have taken the reader, an event is shown in the context it
\* was opened in: the stock page goes back to the event it was reached from.
LinksKeepTheEvent ==
  EventOpen => /\ location.context = looking.context
               /\ location.event = looking.event
=============================================================================
