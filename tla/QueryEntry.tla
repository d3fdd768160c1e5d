----------------------------- MODULE QueryEntry ------------------------------
(***************************************************************************)
(* One entry of the query cache of @tanstack/vue-query, as the pages of    *)
(* src/web use it (main.ts:14): a request, its retries, what it last       *)
(* answered, and the observers' right to ask again.  The library is not    *)
(* part of the repository; only what the pages rely on is here.            *)
(***************************************************************************)
EXTENDS Integers

CONSTANTS
  NoData,   \* data is undefined
  Retries   \* retry (2)

ASSUME RetriesAssumption == Retries \in Nat

\* attempt: 0 while idle, else the number of the attempt; waiting: the attempt
\* failed and the pause before the next one runs; sent: what it asked for.
\* failed: status = "error".
Entries(Data, Requests) ==
  [data : Data \cup {NoData}, failed : BOOLEAN,
   attempt : 0..(Retries + 1), waiting : BOOLEAN, sent : Requests \cup {NoData}]

NewEntry == [data |-> NoData, failed |-> FALSE,
             attempt |-> 0, waiting |-> FALSE, sent |-> NoData]

Fetching(q) == q.attempt > 0

\* A failed entry without data is pending again once it is fetched.
Fetch(q, request) ==
  [q EXCEPT !.attempt = 1, !.waiting = FALSE, !.sent = request,
            !.failed = @ /\ q.data # NoData]

\* An observer comes to the entry, or is enabled: what is missing is fetched,
\* what is there once it is stale.
Observe(q, request) ==
  IF Fetching(q) THEN {q}
  ELSE {Fetch(q, request)} \cup (IF q.data = NoData THEN {} ELSE {q})

\* The refetch interval leaves a request that is under way alone.
Poll(q, request) == IF Fetching(q) THEN q ELSE Fetch(q, request)

\* refetch() gives up a request under way, unless it is the first one.
Refetch(q, request) ==
  IF Fetching(q) /\ q.data = NoData THEN q ELSE Fetch(q, request)

Asked(q) == Fetching(q) /\ ~q.waiting

Succeed(q, data) == [NewEntry EXCEPT !.data = data]

GiveUp(q) == [NewEntry EXCEPT !.data = q.data, !.failed = TRUE]

\* An attempt fails: it is repeated while there are retries left and somebody
\* still observes the entry.
Err(q, observed) ==
  IF observed /\ q.attempt <= Retries THEN [q EXCEPT !.waiting = TRUE] ELSE GiveUp(q)

\* The pause is over.
Again(q, observed, request) ==
  IF observed THEN [q EXCEPT !.attempt = @ + 1, !.waiting = FALSE, !.sent = request]
  ELSE GiveUp(q)

\* What an observer sees while there is no data yet (placeholderData).
Held(q, placeholder) ==
  IF q.data # NoData THEN q.data ELSE IF q.failed THEN NoData ELSE placeholder

-----------------------------------------------------------------------------
(***************************************************************************)
(* An entry whose key says all that its request asks for: it does not      *)
(* matter which attempt is under way.                                      *)
(***************************************************************************)
\* asked: a request, or the pause before its retry, is under way.
PlainEntries(Data) == [data : Data \cup {NoData}, failed : BOOLEAN, asked : BOOLEAN]

NewPlain == [data |-> NoData, failed |-> FALSE, asked |-> FALSE]

Ask(p) == [p EXCEPT !.asked = TRUE, !.failed = @ /\ p.data # NoData]

\* An observer comes to the entry.
AskedOrFresh(p) == IF p.asked THEN {p} ELSE {Ask(p)} \cup (IF p.data = NoData THEN {} ELSE {p})

Answered(data) == [NewPlain EXCEPT !.data = data]

\* The last retry has failed; what was known stays.
Failed(p) == [p EXCEPT !.failed = TRUE, !.asked = FALSE]

\* Neither known nor given up.
Awaited(p) == p.data = NoData /\ ~p.failed
=============================================================================
