--------------------------- MODULE OperationsPage ----------------------------
(***************************************************************************)
(* The operations page (OperationsPage.vue) and the report it polls every  *)
(* five seconds (OperationsStatusService.cs, OperationsHealthPolicy.cs).   *)
(* The server puts a report together from the collectors' heartbeats and   *)
(* the blacklist in the database, the collection session in memory and the *)
(* files of the site; any of them may be anything at any moment.           *)
(***************************************************************************)
EXTENDS QueryEntry

CONSTANT ExpectedProcesses  \* of the server's configuration

ASSUME ExpectedProcessesAssumption == ExpectedProcesses \in Nat \ {0}

VARIABLE status  \* the entry of ['operations-status']

\* The heartbeat of the first collector.  late: older than the limit; failed: it
\* reports failed, stopped or offline; errors: of it or of one of its processes.
Heartbeats == [late : BOOLEAN, failed : BOOLEAN, errors : BOOLEAN,
               expected : {ExpectedProcesses, ExpectedProcesses + 1},
               running : 0..(ExpectedProcesses + 1)]

\* snapshot: the database answers; collectors: the heartbeats it has, the first
\* one only; blacklist: ActiveBlacklistCount, of which only the first counts.
Situations == [snapshot : BOOLEAN, collectors : {<< >>} \cup {<<h>> : h \in Heartbeats},
               blacklist : 0..1, collection : {"idle", "failed"}, site : BOOLEAN]

-----------------------------------------------------------------------------
(***************************************************************************)
(* The report.                                                             *)
(***************************************************************************)
Mismatch(h) == h.expected # ExpectedProcesses \/ h.running # ExpectedProcesses

CollectorHealth(h) ==
  IF h.late THEN "offline" ELSE IF h.failed \/ Mismatch(h) THEN "degraded" ELSE "healthy"

Collector(s) ==
  IF ~s.snapshot \/ s.collectors = << >> THEN [status |-> "offline", running |-> 0]
  ELSE [status |-> CollectorHealth(s.collectors[1]), running |-> s.collectors[1].running]

ActiveBlacklist(s) == IF s.snapshot THEN s.blacklist ELSE 0

ResolveOverallStatus(api, website, collector, collection, blacklist) ==
  IF api # "healthy" \/ website # "healthy" THEN "unhealthy"
  ELSE IF collector = "offline" \/ collection = "failed" THEN "unhealthy"
  ELSE IF collector # "healthy" \/ blacklist > 0 THEN "degraded"
  ELSE "healthy"

CollectorErrors(s) ==
  s.snapshot /\ \E i \in DOMAIN s.collectors : s.collectors[i].errors

\* Mutant: only the collectors' errors are reported.
RecentErrorsOfCollectors(s) == CollectorErrors(s)

\* A collection that failed has said why.
RecentErrors(s) == CollectorErrors(s) \/ s.collection = "failed"

Report(s) ==
  LET api == IF s.snapshot THEN "healthy" ELSE "degraded"
      website == IF s.site THEN "healthy" ELSE "unhealthy"
  IN  [overall |-> ResolveOverallStatus(api, website, Collector(s).status, s.collection,
                                        ActiveBlacklist(s)),
       collector |-> Collector(s),
       api |-> api,
       website |-> website,
       database |-> IF s.snapshot THEN "healthy" ELSE "unhealthy",
       blacklist |-> ActiveBlacklist(s),
       errors |-> RecentErrors(s)]

Statuses == {"healthy", "degraded", "unhealthy", "offline"}

ReportsOfStatus ==
  [overall : Statuses, collector : [status : Statuses, running : Nat], api : Statuses,
   website : Statuses, database : Statuses, blacklist : Nat, errors : BOOLEAN]

-----------------------------------------------------------------------------
(***************************************************************************)
(* The page.                                                               *)
(***************************************************************************)
StatusInit == status = Ask(NewPlain)

PollStatus ==
  /\ ~status.asked
  /\ status' = Ask(status)

AnswerStatus ==
  /\ status.asked
  /\ \E s \in Situations : status' = Answered(Report(s))

StatusFails ==
  /\ status.asked
  /\ status' = Failed(status)

StatusNext == PollStatus \/ AnswerStatus \/ StatusFails

StatusLevel(value) ==
  CASE value = "healthy" -> "healthy"
    [] value = "degraded" -> "degraded"
    [] value \in {"unhealthy", "offline"} -> "unhealthy"

\* processCapacity, in whole percents.
ProcessCapacity(d) ==
  LET percent == (200 * d.collector.running + ExpectedProcesses) \div (2 * ExpectedProcesses)
  IN  IF percent > 100 THEN 100 ELSE percent

\* The four cards.
Cards(d) == {d.collector.status, d.api, d.website, d.database}

CardsHealthy(d) == \A value \in Cards(d) : StatusLevel(value) = "healthy"

-----------------------------------------------------------------------------
(***************************************************************************)
(* Properties.                                                             *)
(***************************************************************************)
\* Types.
StatusTypeOK ==
  /\ status.asked \in BOOLEAN /\ status.failed \in BOOLEAN
  /\ status.data # NoData => status.data \in ReportsOfStatus

\* The state of the whole and its parts agree on the page: a system that is called
\* healthy has four healthy cards, all processes and no blacklist, and one that is
\* not shows a card, a blacklist or an error that tells why.
OverallIsExplained ==
  status.data # NoData =>
    LET d == status.data
    IN  /\ StatusLevel(d.overall) = "healthy" =>
             CardsHealthy(d) /\ ProcessCapacity(d) = 100 /\ d.blacklist = 0
        /\ StatusLevel(d.overall) # "healthy" =>
             ~CardsHealthy(d) \/ d.blacklist > 0 \/ d.errors
=============================================================================
