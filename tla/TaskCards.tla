------------------------------ MODULE TaskCards ------------------------------
(***************************************************************************)
(* A notification on the stock page (StockDetailPage.vue, TaskCard.vue):   *)
(* opening its card marks it as read, the star and the check mark change   *)
(* it as well.  Each click sends a PATCH of its own; a PATCH that succeeds *)
(* makes the page read the list again and give up a reading under way.     *)
(* PATCHes and readings overtake one another, fail before or after the     *)
(* server has done its part, and are not repeated (a reading's retries are *)
(* part of it).                                                            *)
(***************************************************************************)
EXTENDS Integers

CONSTANT MaxChanges  \* bound of the model: PATCHes under way at once

VARIABLES
  stored,    \* the task as the server has it
  cards,     \* the task as the page shows it
  changes,   \* the PATCHes under way
  listing,   \* the reading of the list: none, asked for, or read at the server
  missed     \* something failed that the list does not show yet

taskVars == <<stored, cards, changes, listing, missed>>

Tasks == [isRead : BOOLEAN, isStarred : BOOLEAN, handled : BOOLEAN]

\* to: the fields the PATCH names.  done: the server has changed them.
Patches == {[isRead |-> TRUE], [isStarred |-> TRUE], [isStarred |-> FALSE],
            [isRead |-> TRUE, handled |-> TRUE]}

Change == [slot : 1..MaxChanges, to : Patches, done : BOOLEAN]

Idle == [phase |-> "none"]

TaskInit ==
  /\ stored \in Tasks /\ ~stored.handled
  /\ cards = stored
  /\ changes = {}
  /\ listing = Idle
  /\ missed = FALSE

-----------------------------------------------------------------------------
FreeSlots == {n \in 1..MaxChanges : \A c \in changes : c.slot # n}

UpdateNotification(state) ==
  /\ FreeSlots # {}
  /\ changes' = changes \cup
       {[slot |-> CHOOSE n \in FreeSlots : TRUE, to |-> state, done |-> FALSE]}
  /\ UNCHANGED <<stored, cards, listing, missed>>

\* A handled task is not among the active ones the page lists.
OnPage == ~cards.handled

OpenCard ==
  /\ OnPage /\ ~cards.isRead
  /\ UpdateNotification([isRead |-> TRUE])

ToggleStar ==
  /\ OnPage
  /\ UpdateNotification([isStarred |-> ~cards.isStarred])

HandleTask ==
  /\ OnPage
  /\ UpdateNotification([isRead |-> TRUE, handled |-> TRUE])

\* The server changes the fields the PATCH names.
ApplyChange(c) ==
  /\ ~c.done
  /\ stored' = [f \in DOMAIN stored |->
       IF f \in DOMAIN c.to THEN c.to[f] ELSE stored[f]]
  /\ changes' = (changes \ {c}) \cup {[c EXCEPT !.done = TRUE]}
  /\ UNCHANGED <<cards, listing, missed>>

\* Mutant: a reading under way is left to end.
ListingKept == IF listing = Idle THEN [phase |-> "asked"] ELSE listing

\* invalidateQueries starts the reading over.
ListingAfterwards == [phase |-> "asked"]

ChangeSucceeds(c) ==
  /\ c.done
  /\ changes' = changes \ {c}
  /\ listing' = ListingAfterwards
  /\ UNCHANGED <<stored, cards, missed>>

\* The request or its answer is lost.
ChangeFails(c) ==
  /\ changes' = changes \ {c}
  /\ missed' = (missed \/ c.done)
  /\ UNCHANGED <<stored, cards, listing>>

(***************************************************************************)
(* Reading the list.                                                       *)
(***************************************************************************)
ReadTasks ==
  /\ listing.phase = "asked"
  /\ listing' = [phase |-> "read", task |-> stored]
  /\ missed' = FALSE
  /\ UNCHANGED <<stored, cards, changes>>

ShowTasks ==
  /\ listing.phase = "read"
  /\ cards' = listing.task
  /\ listing' = Idle
  /\ UNCHANGED <<stored, changes, missed>>

ListingFails ==
  /\ listing # Idle
  /\ listing' = Idle
  /\ missed' = TRUE
  /\ UNCHANGED <<stored, cards, changes>>

TaskNext ==
  \/ OpenCard \/ ToggleStar \/ HandleTask
  \/ \E c \in changes : ApplyChange(c) \/ ChangeSucceeds(c) \/ ChangeFails(c)
  \/ ReadTasks \/ ShowTasks \/ ListingFails

-----------------------------------------------------------------------------
(***************************************************************************)
(* Properties.                                                             *)
(***************************************************************************)
\* Types.
TaskTypeOK ==
  /\ stored \in Tasks /\ cards \in Tasks /\ changes \subseteq Change
  /\ listing \in {Idle, [phase |-> "asked"]} \cup [phase : {"read"}, task : Tasks] /\ missed \in BOOLEAN

\* Once nothing is under way and nothing has failed, the card shows the task as
\* the server has it, in whatever order clicks, PATCHes and readings overlapped.
CardsAgreeWhenQuiet ==
  changes = {} /\ listing = Idle /\ ~missed => cards = stored
=============================================================================
