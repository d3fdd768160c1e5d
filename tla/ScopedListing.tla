---------------------------- MODULE ScopedListing ----------------------------
(***************************************************************************)
(* What the event lists below the stock groups promise the reader.  The    *)
(* page shows one scope at a time (a context with its filters and page);   *)
(* a list holds the leading pages of one symbol in that scope, in order    *)
(* and without a gap, and a new scope starts with empty lists.             *)
(***************************************************************************)
EXTENDS Integers, Sequences

CONSTANTS
  Scopes,   \* the page's context and filters
  Symbols   \* the stocks that have a list

VARIABLES
  scope,    \* the scope the page is at
  view      \* the list of each symbol

\* The leading n pages of a symbol's events in a scope.
Listing(sc, s, n) == [i \in 1..n |-> [scope |-> sc, symbol |-> s, page |-> i]]

Init ==
  /\ scope \in Scopes
  /\ view = [s \in Symbols |-> << >>]

NewScope ==
  /\ scope' \in Scopes \ {scope}
  /\ view' = [s \in Symbols |-> << >>]

\* The next page is added.
Grow(s) ==
  /\ view' = [view EXCEPT ![s] = Listing(scope, s, Len(@) + 1)]
  /\ UNCHANGED scope

\* The list is started over; it may turn out to be empty by now.
Restart(s) ==
  /\ \E n \in 0..1 : view' = [view EXCEPT ![s] = Listing(scope, s, n)]
  /\ UNCHANGED scope

Next == NewScope \/ \E s \in Symbols : Grow(s) \/ Restart(s)

Spec == Init /\ [][Next]_<<scope, view>>
=============================================================================
