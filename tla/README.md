# Apoint in TLA+

Apoint watches Chinese A shares. A Python collector on a Windows desktop reads
official K-lines from a vendor SDK and pushes them to an ASP.NET Web API. The
API keeps the trading day's K-lines in memory, replays its "pair trend"
algorithm over them whenever a collection cycle is complete, and writes the
resulting live events to MySQL, from where they are queried, broadcast and
handed to further collectors. A Vue front end lists the events, shows them over
their K-lines, and polls all of it while its readers click and navigate.

This directory holds the TLA+ model of that program: modules translated from the
source, TLC configurations that model-check them on small instances, and
theorems that TLAPS proves for every instance. `PROJECT.json` maps every
definition to the source lines it stands for.

| File | What it is |
| --- | --- |
| `DayLedger.tla` | what the session store and its worker promise the readers of their rows (abstract) |
| `CollectionSession.tla` | the session store, the compute queue and worker; callers left open; implements `DayLedger` |
| `CollectorProtocol.tla` | the Python collector and the wire, driving `CollectionSession` |
| `WaveBottomQueue.tla` | the leases of the on-demand daily-bar jobs |
| `ScopedListing.tla` | what the event lists of the web page promise (abstract) |
| `GroupPanels.tla` | those lists as the page keeps them; implements `ScopedListing` |
| `QueryEntry.tla` | one entry of the page's query cache, as the pages use it |
| `PairTrendsPage.tla`, `FilterForm.tla` | the listing of the pair-trend page, and its filter form |
| `EventPages.tla`, `TaskCards.tla` | an event with its chart, on two pages; a notification's card |
| `OperationsPage.tla`, `WebRoutes.tla` | the operations page and its report; addresses and links |
| `WebPages.tla` | the pages together |
| `MC*.tla`, `MC*.cfg` | instances for TLC |
| `*Proofs.tla` | theorems and their proofs |

Run a check with `tlc -config MCSessionRows.cfg MCCollectionSession`, a proof
with `tlapm CollectionSessionProofs.tla`.

## 1. Inventory

Paths are relative to the repository; `Api`, `Infrastructure`, `Application`
stand for the projects under `src/`.

| Component | State it keeps | Operations | Talks to |
| --- | --- | --- | --- |
| **Session store** `Api/Services/PairTrendCollectionSessionStore.cs` | one `Session`: trading date, universe, bars, verified-missing closes, watermarks, plans, `InFlight`, status; in memory only | `BeginPlan`, `AcceptBatch`, `Complete`, `Abort`, `TryTakeSnapshot`, `FinishProcessing`, each under one lock | controller, compute worker |
| **Compute queue and worker** `Api/Services/PairTrendCollectionComputeWorker.cs` | an unbounded channel of cycle ids; the snapshot in hand | dequeue, replay and write symbol after symbol, report back | store, engine, snapshot writer |
| **Plan provider, window planner** `Api/Services/PairTrendCollection{PlanProvider,WindowPlanner}.cs` | none | choose windows by the clock and the universe from MySQL, then `BeginPlan` | MySQL, store |
| **Internal controller** `Api/Controllers/InternalPairTrendCollectionController.cs` | none | plan, batches, complete (store, then queue), abort | store, queue |
| **Python collector** `collector/pair_kline_collector/main.py` | per round: plan, pending symbols, succeeded, sparse manifest; on disk: failure counts, blacklist | `run_once`: poll, dispatch jobs to worker processes, apply results, complete or abort | HTTP to the API, vendor SDK |
| **Wave-bottom queue** `Api/Services/WaveBottomCollectionService.cs`, `wave_history_worker.py` | MySQL jobs with leases and attempts; in-memory lease sessions with uploaded daily bars | claim, accept batch, complete, fail | snapshot writer (creates jobs), events |
| **Live snapshot writer** `Infrastructure/Analytics/PairTrendLiveSnapshotWriter.cs` | MySQL events, hits, lifecycles | upsert a symbol's evaluation, invalidate the events that vanished, create wave jobs | wave queue |
| **Pair-trend engine** `Application/Analytics/PairTrendV3Engine.cs` | none | replay a symbol's bars into events with stages | worker, realtime service |
| **Realtime service, tick invalidation** `Infrastructure/Analytics/PairTrend{Realtime,TickInvalidation}Service.cs` | active levels | evaluate a symbol after a bar, invalidate a level by a tick | MySQL, Redis |
| **Next-day validation** `Api/Services/PairTrendNextDayValidationService.cs` | MySQL jobs with leases, validations | sync, claim, complete, fail, evaluate | compute worker calls it before writing |
| **Official bar batches** `Infrastructure/Persistence/{OfficialBarBatch,CanonicalBar}Writer.cs` | staging, canonical bars, batch status | receive, apply, mark failed | recovery items, commands |
| **Gap recovery** `Infrastructure/Recovery`, `Application/Recovery` | runs and items with statuses | detect gaps, dispatch, finish | collector commands |
| **Collector commands** `Infrastructure/Collection/MySqlCollectorCommandRepository.cs` | commands with leases | create, claim, progress, complete | collector gateway |
| **Authoritative universe** `Api/Services/AuthoritativeUniverseSyncService.cs` | versions of the symbol list | sync in one transaction | plan provider reads it |
| **Tick ingest** `Api/Services/MarketIngestGrpcService.cs` | sequence numbers, channels | stream, acknowledge | Redis, market state |
| **Notification projection** `Api/Services/NotificationProjectionWorker.cs` | cursor, notifications | project, retry | MySQL |
| **History partitions** `Api/Controllers/HistoryPartitionsController.cs` | partitions and retry commands | retry, list | MySQL |
| **Pair-trend page** `web/src/pages/PairTrendsPage.vue`, `composables/groupEventState.ts` | context, view, filters and page in the URL; the form; three cached queries; expanded rows and their event lists | navigate, apply and reset filters, page, expand, load more, retry, refresh, poll while visible | query cache, router |
| **Event and stock page** `web/src/components/PairTrendDetailView.vue`, `pages/StockDetailPage.vue`, `components/KlineChart.vue` | the polled detail, the chosen frequency, the bars | choose a frequency, poll, go from one page to the other | query cache |
| **Notification cards** `web/src/components/TaskCard.vue`, `Api/Controllers/NotificationsController.cs` | the listed tasks | open, star, handle: a PATCH each, then the list is read again | API |
| **Operations page, status report** `web/src/pages/OperationsPage.vue`, `Api/Services/Operations{StatusService,HealthPolicy}.cs` | the last report | poll; put a report together | heartbeats, blacklist, store |
| **Router** `web/src/router/index.ts`, `App.vue` | the address | redirect old addresses, follow links | every page |
| **Query cache** `web/src/main.ts`, `api/` | an entry per key: data, error, request under way | fetch, retry twice, poll, refetch, keep the previous rows | API |
| Strategies, backtest, queries, broadcasters, observability, SQL, deployment | mostly read-only or batch computations | | |

### What is hard here

- The store is consistent call by call, but a cycle is a *sequence* of calls by a
  client that can be retried, late, duplicated, restarted or gone. The collector
  and the API each keep part of the truth (what was read, what was received).
- Two pieces of state protect the computation: `InFlight` and the plan itself.
  They are set and cleared in different calls, and some calls remove only one.
- `Complete` and `EnqueueAsync` are two steps; between them the request can be
  cancelled.
- The overlap of one period makes each cycle rewrite part of what an earlier
  cycle stored; a cycle may be aborted half way, and its rows stay.
- Symbols are written to MySQL one by one, after the lock is released, while the
  session may be replaced by a new trading date, a new pool or a restart.
- Leases live twice, in MySQL and in memory, with different clocks and lifetimes.
- The web pages derive what they show from a URL, a form, several cached queries
  with conditions of their own and the answers to requests that were sent for an
  older state of all of these. A key says less than its request, retries read
  the state anew, a manual refresh does not look at the condition of a query.
- A list that is created inside a function that awaits is written later through a
  reference; what is rendered depends on which reference it was.

`PROJECT.json` lists the hazards one by one under "hazards", each at its line
with the properties that guard it.

## 2. The model

### CollectionSession

One action per method of the store, because each runs under `lock (_sync)`.
`BeginPlan` is three actions (refused, new session, same session) which all start
by expiring abandoned plans, as the method does. What is *not* under the lock is
split: `Complete` is followed by `Enqueue` or `EnqueueCancelled` (the controller
awaits the channel with the request's cancellation token), and the worker takes
a snapshot (`WorkerTake`), writes one symbol per step (`WorkerWrite`), then
reports (`WorkerFinish`, `WorkerFail`). `Restart` loses everything except what is
in MySQL. Callers are open: any request may come at any time.

| Variable | Code |
| --- | --- |
| `date`, `universe`, `bars`, `missing`, `watermark`, `plans`, `inFlight`, `status` | the fields of `Session` |
| `lastCycle` | stands for the GUID of `CycleId`: ids are fresh |
| `accepted` | cycles between `store.Complete` and `EnqueueAsync` in the controller |
| `queue` | the channel of `PairTrendCollectionComputeQueue` |
| `worker` | the snapshot in the hands of the worker and the symbols it has yet to write |
| `projected` | for every symbol the cycle that last rewrote its rows in MySQL |

Abstractions: a close is a number counted from the open, with a legal set of
closes and a period per frequency; a bar's contents are one value of `Rows`
(the code compares OHLCV and hash field by field); the clock is abstracted to the set
of availabilities it can produce, where the intraday frequencies close together
and the daily bar has its own grace; the age of a plan is a flag raised at any
moment. `BeginPlan` refuses a plan with an empty window list; the provider
already refuses before the first close, hence the guard in the new session.

### DayLedger

What is left of the store and its worker when one forgets how they work: no plans,
batches, retractions, queue or snapshot, only the day they keep the books of.
A close is *settled* when its bar is known or proved absent, and stays settled while
the ledger is open; the mark of a frequency moves up, over closes settled for the whole
pool, and only when the rows of every eligible symbol are of one cycle, the youngest;
the rows of a symbol are never rewritten from an older cycle; the ledger is started
over for another day or pool, never for the same, unless the process that keeps it
ends.

| `DayLedger` | `CollectionSession` |
| --- | --- |
| `Open` | `BeginPlan` with another date or pool (`BeginPlanNewSession`) |
| `Settle` | `AcceptBatch` (bars), `Complete` (verified absences) |
| `Rewrite` | `WorkerWrite` |
| `Advance` | `WorkerFinish` of a plan that is still the session's |
| `Lose` | `Restart` |
| no step | every other action: refusals, plans issued and aborted, the queue, failures |

`LedgerSpec` is `DayLedger` with `universe` for the pool, the keys that are
`Covered` for the settled closes, `watermark` for the marks and `projected`
for the rewritten rows. A bar that is retracted becomes a verified absence in the same
step, so its close stays settled. That an advance finds every eligible symbol rewritten by
the *youngest* cycle is the hard part: cycles of dropped sessions may still be
in the channel.

### CollectorProtocol

Extends `CollectionSession` with the client it was written for. `phase` is the
place in `run_once`; a job is a record that is read, pushes its batches one at a
time and returns; `wire` is the set of requests the API has not served. A caller
that hears nothing spends a fault: batches are sent again up to `MaxAttempts`
times while the earlier copy may still arrive, `complete` and `abort` are not
retried. Provider outages, lost reports, lost calls, restarts of the collector
and of the API, and a computation that throws each spend one of `MaxFaults`.
The collector's state file (`failures`, `blacklist`) survives its restart.
The API's actions are those of `CollectionSession`, conjoined with what happens to
the request and its answer, so the composition implements the open module:
`SessionSpec` says so, TLC checks it and `CollectorUsesSession` proves it.

Left out of the protocol: waiting for the result of a backfill's computation,
the heartbeat and the operations report, the SDK login, the upload of the
universe, and the expiry of a blacklist entry at the next day's start (the model
covers one trading date of the collector). A plan request reads the blacklist and begins
its plan in one step (`AskForPlan`). A request that timed out for the caller, was sent
again, and reaches `BeginPlan` with an older pool after the later one is only in the
open `CollectionSession`, where any pool may be offered at any time.

### WaveBottomQueue

The queue of daily-bar jobs for wave scoring, one row per bottom event. MySQL
holds `event` and `job`, the API's memory holds `sessions` and the requests being
worked on (`calls`). Every transaction is an action:

| Action | Code |
| --- | --- |
| `Snapshot` | the snapshot writer's upsert of an event and its job, or its invalidation |
| `Claim`, `ClaimNothing` | `ClaimAsync` |
| `AcceptBatch`, `ExtendLease` | `AcceptBatchAsync`: first the session, then the lease |
| `StartComplete`, `StartFail`, `RefuseExpired` | the beginning of `CompleteAsync` and `FailLeaseAsync`: the session found, restored or refused |
| `FailJob`, `EvaluateJob`, `RefuseJob`, `SupersedeJob` | what they do to one job; `MarkFailure`, `Commit` and `Supersede` are the transactions |
| `Return` | the `finally` that removes the session, after the last job or a database error |
| `LapseLease`, `ExpireSession`, `BecomeReady` | the two clocks |
| `Restart` | a new API process |

A refused commit is two steps because it is two transactions: the rollback, then
`MarkFailure`. `focused_at=job.focused_at` is NULL for a NULL focus, and so is its
negation: `FocusMoved` keeps that. `Claim` includes the removal of expired
sessions at its start and the storing of the new session at its end; nothing can
name that session before the claim is answered, and a crash between is a
`Restart` right after the claim.

Abstractions: the ends of a lease, of a session and of a retry's pause are flags
raised at any moment, so every order of the two clocks is covered; the batches
are counted, not looked into; a complete call scores the bars that were there when
it began, and without any the score is `INSUFFICIENT_DATA`; jobs of a lease are
taken in any order; each event is on a symbol of its own. Collectors are left
open: whoever was given a token may send anything with it, at any time and twice.
The `CASE` on `COLLECTING` in the last statement of `MarkFailureAsync` is never
taken, because the statement before it has already replaced that status.

### ScopedListing and GroupPanels

The lists below the rows of the pair-trend page. `ScopedListing` is the promise: a
list holds the leading pages of its stock's events in the scope the page is at;
it grows by one page, is started over, or is dropped with its scope. `GroupPanels`
is the code: a request is asked for by expanding a row, "load more" or "retry",
unless one is under way, and is answered in any order and after anything else.

| Variable | Code |
| --- | --- |
| `scope` | `context` and `activeFilters`, whose change the watcher reacts to |
| `expanded` | `expandedSymbols` (one row at most) |
| `groupEvents` | `groupEvents`: a panel per symbol, or none |
| `loads` | the calls of `loadGroupEvents` suspended at their `await`; `attached`: the panel a call writes to is still the one in the map; `handle`: whether that reference is the reactive proxy |
| `rendered` | the panels as Vue rendered them last |

Rows are counted in pages, so "each once, in order" is a statement about pages; the
number of pages may be another one in every answer.

### WebPages: the pages and their queries

`QueryEntry` is what the pages rely on of one entry of the query library, which is
not part of the repository: a request with its retries, polls that leave a request
alone, refetches that do not, observers that may ask for what is stale. It has two
forms: one in which it matters what each attempt asked for, and a plain one
for queries whose key says everything.

| Module | State | Code |
| --- | --- | --- |
| `PairTrendsPage` | `route`, `visible`, `capabilities`, `day`, `cache`, `previous` | the URL, `pageVisible`, the capabilities and calendar queries, the entries of the two listing queries, the rows kept by `placeholderData` |
| `FilterForm` | `query`, `formContext`, `draft`, `edits`, `today`, `initialRange` | the query of the URL, the form and its date range, the clock, the default dates taken when the page was opened |
| `EventPages` | `page`, `sample`, `version`, `detail`, `frequency`, `bars`, ... | the polled detail of an event that grows, the chart's frequency, the entries of `['bars', ..]` |
| `TaskCards` | `stored`, `cards`, `changes`, `listing`, `missed` | the server's row, the card, PATCHes under way, the reading of the list |
| `OperationsPage` | `status` | the entry of `['operations-status']`; the server's side is the operator `Report` |
| `WebRoutes` | `location`, `warning`, `looking`, `replay` | the router's address, `replayDisabled`; `looking` and `replay` record what the reader came for |

A handler is one action together with the navigation, the watchers and the query
options it sets off, since Vue runs them before the next event of the browser; an
answer is an action of its own. `WebPages` puts the parts side by side: the
variable `tab` says which one a behaviour is about, and the other parts keep one
state of theirs. They are separate pages, or parts of one that share nothing but the
URL, so nothing is lost by not interleaving them, and TLC visits the sum
of their states and not the product. The filters that `FilterForm` writes are the
opaque `Filters` of `PairTrendsPage`.

Abstractions: three fields of the form that are treated alike are one; days are
numbers and "sixty days" is one day before; a page's rows are identified with the scope
they answer; time on a chart is counted in bars of the finest frequency;
`MaxMoves`, `MaxCached`, `MaxEdits`, `MaxTurns`, `MaxBars` and `MaxChanges` bound what a reader
does. A PATCH that failed for the client is not applied by the server later on; the list of processes a
heartbeat carries is not modelled: one of the wrong length degrades the report just as
a failed state does (`CollectorHealth`); the fairness of a chart assumes that its page is
visible. `ForgetBars` and `Collect` are the library dropping entries nobody has
looked at for a while.

## 3. Runs

| Run | Instance | Question | Expected |
| --- | --- | --- | --- |
| `session_rows` | 1 symbol, 2 contents, 3 closes with a gap, 2 dates, 3 cycles | do bars, absences and watermarks stay consistent through overlaps, revisions, repeats, retractions | pass |
| `session_pools` | 2 symbols, 2 pools, intraday and daily frequency, 3 cycles | do store and worker keep the ledger when the pool changes, a cycle is aborted or the API restarts; is a watermark backed by a complete projection of its own cycle; what releases a store whose computation was lost | pass |
| `session_overlap` | as `session_pools`, 2 cycles | does the promise "no plan while computing" survive a changed pool | violation |
| `protocol_pair` | 2 symbols in one or two jobs side by side, 2 faults | does what the collector sends fit the plan it names | pass |
| `protocol_faults` | 1 symbol, 3 faults, fairness | is a cycle ever completed with a blacklisted symbol; is every step a step of the session; is an orphaned plan released | pass |
| `protocol_stuck` | 1 symbol, 1 fault, fairness | does a computation that blocks everything end | violation |
| `wave_calls` | 1 event, 2 focus times, 2 leases, 2 attempts, 2 requests at a time | do lease and session agree, are statuses right, is a job given up too early | pass |
| `wave_ends` | 1 event, 3 leases, fairness | does an abandoned lease let go of its job | pass |
| `wave_superseded` | 1 event, 2 focus times, 2 leases | is the job of an event in focus ever superseded | violation |
| `wave_kept` | 1 event, 2 focus times, a complete call sent twice | is a score kept while its focus time stands | violation |
| `web_panels` | 2 stocks, 2 scopes, 2 pages, 3 requests at a time, fairness | do the lists hold what they promise, and stop loading | pass |
| `web_pages` | one part per behaviour; 3 versions of an event, 2 PATCHes at a time, 3 days, 2 events | does every page show what its URL, choice or server says, and settle | pass |

### Bounds

- *Closes.* A window has a start, an interior and an end; with three closes (one
  after a break, `{1, 2, 4}`) and one period of overlap, a second cycle both
  overlaps and extends the first, and a third overlaps a revised one.
- *Cycles.* Three in `CollectionSession`: one that leaves something behind
  (aborted, expired, failed, queued), one that meets it, one after that. In
  `CollectorProtocol` `MaxCycles` is 9 and is never reached: the number of cycles is
  limited by the faults, because a cycle only ends early through one.
- *Faults.* Three with one symbol: it fails twice and is blacklisted, and its
  report or a call is lost; or an answer and the abort after it are both lost. Two
  with two symbols.
- *Symbols.* Two are enough to have one in a job that succeeds and one that
  fails, and one written when the other is not. They are interchangeable in
  `MCCollectorProtocol`, which the safety run uses as symmetry; the liveness runs
  use none.
- *Leases.* Two let one lease be taken over by another; three let that happen
  to the second as well. Two requests are enough for one acting between two
  transactions of another. `MaximumAttempts` is 2, so that the limit is reached;
  `MaxBatches` is 1. Leases with several jobs are beyond these bounds; the
  theorems below cover them. Events, focus times and threads are interchangeable:
  the safety runs use them as symmetry where nothing temporal is checked.
- *Web pages.* Two requests for one list, and one for another, are what a late
  answer needs to meet a new list. Two navigations lead away and back, with one
  retry in between. The three versions of the event grow without and then with a
  new recommendation. Two PATCHes overlap a reading. Two events are enough to
  show the wrong one.
- *Rows.* Two contents make a repeat and a conflict.
- `MaxBatchRows`, `MaxPushBars`, `SymbolsPerJob`, `MaxAttempts` and
  `MaxFailureAttempts` are the code's constants scaled down; `Confirmations` is the
  code's 3.

### Fairness

`FairProtocolSpec` assumes weak fairness of five processes: the supervisor's
loop (it polls for ever), the worker processes, the web server serving what it
has received, the compute worker (`ExecuteAsync` loops until shutdown) and the
clock that ages a plan. Faults are never fair; they may stop. No strong fairness
is needed: each process has its own loop and no action of another one can keep
disabling it for ever once faults are spent. `PlanIsReleased` excuses the case in
which every symbol is blacklisted: the plan provider then answers before it asks
the store, so nothing expires the plan until a symbol comes back on offer.

`FairSpec` of `WaveBottomQueue` assumes that the clocks run (a lease lapses, a pause
ends) and that collectors keep polling: weak fairness of `Take`, the claim of some
jobs. The last conjunct says that batches stop coming: a batch renews the
lease, so one uploaded for ever would keep it for ever, and a collector sends
each batch a bounded number of times. Nothing is assumed of `complete`, `fail` or of
the snapshot writer. `AbandonedLeaseEnds` speaks of every lease but the
last one the bound `MaxLeases` allows, since its end may be another claim. It
excuses an event that has left the job's focus time: such a job is not claimable, and stays
leased until the event comes back or changes focus.

`GroupPanels` and `WebPages` assume that the browser ends every request a page waits
for, with an answer or an error, and that the library's pause before a retry ends
while the page is visible. Nothing is assumed of the reader. `ListingSettles`
excuses a page that is hidden, because polls and retries wait then.

## 4. What the runs found

- `protocol_stuck` / `ComputationEnds`: `Abort` removes a plan even when it has
  been completed, and leaves `InFlight` set. `TryTakeSnapshot` and
  `FinishProcessing` then return early because the plan is gone, so on this
  trading date nothing clears the flag and no plan is issued. One
  lost answer to `complete` is enough, since the collector then calls `abort`.
  What does release the store is `OnlyNewPoolEndsStall`: another pool of the same date or
  a restart, and nothing else.
- `session_overlap` / `NoPlanWhileComputing`: `BeginPlan` drops a session whose
  universe has changed before it looks at `InFlight`, so a new plan is issued
  while the old cycle is still computed. The properties that pass show this
  does no lasting harm to the data: the worker's report finds no plan, and the
  ledger is kept, so that no symbol's rows go back to an older cycle.
- `wave_superseded` / `FocusIsNotSuperseded`: a completion that finds the event at
  another focus time supersedes the job by its id, although the snapshot writer
  has already reset that job for the new time. Nothing brings it back.
- `wave_kept` / `ScoreIsKept`: a complete call sent again beside its first copy
  finds the job completed, refuses, and then marks the completed job as failed;
  the next snapshot withdraws the score from the event.

## 5. Proofs

`CollectionSessionProofs` proves for every instance of the constants (under the
assumptions `CollectionSession` names):

- `TypeCorrect`: `Spec => []TypeOK`.
- `WatermarkIsComplete`: `Spec => []CompleteThroughWatermark`. The property is not
  inductive: nothing in it says that a plan about to be finished has been
  covered. `IInv` strengthens it: a plan starts at or before the watermark
  (`PlanWindows`), what it has received stays in memory until it ends
  (`ReceivedInMemory`), a completed plan has accounted for its whole window
  (`CompletedCovered`) and is the only one whose computation can succeed
  (`WorkerCompleted`), and at most one plan lives (`OnePlan`). One lemma for
  each kind of step shows that it is kept.
- `BarsAndMissingAgree`: `Spec => []NeverBothBarAndMissing`.
- `ReceivedStable`, `ComputationIsFrozen`: the action properties
  `ReceivedBarsAreStable` and `FrozenWhileComputing`, from the same invariant.
- `WatermarkFollowsProjection`, `WatermarkNeverSinks`, `ProjectionMovesOn`: the action
  properties `WatermarkOnlyAfterProjection`, `WatermarkFallsOnlyWithSession` and
  `ProjectionNeverGoesBack` (which the runs check as part of `LedgerSpec`). They need to know the order of cycles (`MoveInv`): the
  plan is younger than all that is at work or projected, its windows end after the
  watermark, and what the worker no longer has to write for it, it has written.
  So a cycle that reaches the queue late is dropped and never goes backwards.
- `SessionKeepsTheLedger`: `Spec => LedgerSpec`, the refinement of `DayLedger`, with one
  lemma for every row of the table in section 2. It rests on all of the above: a step that
  settles, because what a completed plan has not received it lists; a step that advances,
  because `IInv` makes the window covered, its start no later than the mark, and
  `MoveInv` makes the plan's cycle the youngest in every eligible symbol's rows.
- `LedgerIsComplete`: the abstract specification is enough. From `DayLedger` alone
  follows `CompleteThroughWatermark`, across settling, advancing and starting over, so a
  reader who trusts the refinement need not read `CollectionSession` for it.
- `StallsLast`: `Spec => OnlyNewPoolEndsStall`. `FlightInv` adds that a completed
  plan means `inFlight` and that either means an open session. `AtWorkShrinks` is the
  argument: a lost cycle is neither in the hands of the controller nor in the queue nor
  with the worker, and only completing a plan, which `inFlight` rules out, could put one there.
- `OverlapNeedsNewPool`: `Spec /\ PoolStaysWhileComputing => []NoPlanWhileComputing`.
  `session_overlap` violates the conclusion; the theorem says that the pool is the whole
  reason. A repair that looks at `InFlight` before it compares pools, or a provider that
  keeps the pool, is therefore complete.

`CollectorProtocolProofs` proves `CollectorUsesSession` (the closed system
implements the open one: initial states map to initial states, every step is a
step of the session or leaves its variables alone) and, from it, that
`CollectedDayIsComplete`: the watermark's promise holds for the whole system.
`CollectorKeepsTheLedger` chains the two refinements: the whole system implements
`DayLedger`.

`CollectorRequestsProofs` proves what the collector never does wrong:
`RequestsFitTheirPlan` (`RequestsFit`), `NoBlacklistedCompletion`
(`BlacklistIsRespected`) and `CollectorTypeOK` (`CollectorTypeCorrect`). Its
invariant has a part for the supervisor and one for the requests:

- *Supervisor* (`SupInv`). The store never has a plan of another cycle than the last
  one issued, and while the supervisor is in a cycle it is that one; nobody has asked
  for the end of a cycle that is still collected; a symbol of it waits, is in one job,
  or is done (`GroupApart`, `GroupsApart`).
- *Requests* (`ReqInv`, for a plan that is not completed). The store, the jobs and the
  requests on their way agree about every bar (`Agreed`); a close that is received or
  on its way belongs to the one job that read it (`Pushed`), or to a symbol that is done
  and then it is received (`Returned`); the manifest is the gap of the symbols that
  are done (`ManifestIsGap`); after a completion no batch says anything new
  (`EndIsLast`).

A batch sent again, an answer nobody hears, a supervisor that leaves its jobs behind
and a symbol that is read again are harmless for one reason: a symbol is only read again
after a job that pushed none of its rows.

The same module closes the two questions the open session leaves. Is the premise of
`OverlapNeedsNewPool` true of the collector? Its blacklist changes the pool that is
offered, and a report of it may be lost, so the two blacklists differ. `PoolInv` says that while
a computation is in flight the supervisor is past collecting and the store's pool is the
one on offer (`FlightPool`), because a symbol is blacklisted and reported only while its
cycle still collects and a completion with a blacklisted symbol is never sent.
Hence `BlacklistKeepsThePool` (`ProtocolSpec => PoolStaysWhileComputing`) and
`BlacklistNeverOverlaps` (`ProtocolSpec => []NoPlanWhileComputing`). This says
nothing against the finding of `session_overlap`: in `CollectorProtocol` blacklisting is the
only thing that changes the pool on offer within a day, and plan requests do not
overtake each other. Left to the open model, where the run shows what they do, are an older plan
request that comes late, the symbols watched for next-day validation
(`PairTrendCollectionPlanProvider.cs:106`), which come and go as the computation itself
writes events, and the expiry of blacklist entries. The same holds for the third theorem:
`OnlyRestartEndsStall` combines `StallsLast` with `BlacklistKeepsThePool`: in that system a
lost computation blocks collection until the API restarts.

`WaveBottomQueueProofs` proves `TypeOK` (`QueueTypes`), `SessionsMatchLeases`
(`LeaseHalvesAgree`), `CollectingMeansLeased` (`CollectingIsLeased`) and
`FailedOnlyAfterAttempts` (`FailureTakesAttempts`). Only `SessionsMatchLeases` needs
strengthening: a token that is handed out is fresh (`TokensIssued`), and only a
job with a focus time is leased (`LeasedInFocus`). Two lemmas carry the steps:
`ReplaceRow` for those that replace one job and its event, `FlagsInv` for those that
only change flags or drop sessions. Only `Claim` and `StartFail` need an argument
of their own.

Two further theorems delimit the findings of section 4. `SupersededByLateFocus`
(`Spec /\ FocusStays => []FocusIsNotSuperseded`): if the snapshot writer does not move
the focus time of an event while a lease, a session or a request for it is outstanding,
nothing is superseded wrongly. `AgreeInv` carries it: a row that is leased, and all work
given out for it, then agree with the event's focus time. `ScoreLostByLateWork` adds
`CompletedStays`, that a finished job is not taken back for the same focus time, and
concludes `ScoreIsKept`; the first premise alone does not suffice. Both premises can
be met and are what a repair has to establish (a condition on `focused_at` in the update at
`WaveBottomCollectionService.cs:357`, and one on status or token in `MarkFailureAsync`); the
code establishes neither, which is what `wave_superseded` and `wave_kept` show.

`GroupPanelsProofs` proves all six invariants of `GroupPanels` from one inductive
invariant: a panel's rows are the leading pages of its own listing (`PanelsFit`),
and a request that still reaches a panel asked for the first page or for the one
after its rows, and is the only one to do so (`LoadsFit`). From it also
`PanelsAreListings`: `GroupPanels` implements `ScopedListing` under the mapping that
takes the rendered rows for the list. Answers without rows, and all that does not
touch a list, are stutters. `ListingIsLeadingPages` is the other half: from
`ScopedListing` alone it follows that what is shown below a stock is an initial part
of its events in the scope the page is at (`LeadingPages`).

`WebPagesProofs` proves every safety property of `web_pages`, among them the action properties
`NoQueryWithoutTradingDay` and `StockChoiceIsKept`. The parts share no variable, so
the invariant is a conjunction of theirs:

- *Listing* (`PairTrendsPageProofs`). `RowsAnswerTheRoute` speaks of the entry the page
  is at, and navigation makes any entry that one. `EntryFits` says of every entry
  that its rows and its request are its key's own. A retry, which reads the
  state anew, keeps that because only an observed entry retries.
- *Form* (`FilterFormProofs`). A form filled from a query lists what the query
  lists, and so does one whose query is the URL's already. The order `WAVE_SCORE` with no
  direction and the values the page does not understand are where this could fail.
- *Event pages.* What the cache has under a key are bars of that frequency and
  window, and none of the detail view for a sample (`BarsFit`); a bar that ends
  where a hit does is nearest to it (`MarkerIsOnItsBar`).
- *Cards.* A card that is not the server's task, or a reading that has taken an
  older one along, means a PATCH that is done and will have the list read again, or
  that something failed (`TaskInv`).
- *Report.* What the page shows is a report of some situation of the server; the rest is
  about the operators, with `FullCapacity` for the rounding of any number of
  processes.
- *Links.* An old address knows whether it asked for the replay, and for which
  event, until the redirection (`RouteInv`).

Every safety property of a passing run is proved. Only model-checked is what holds
under fairness (`PlanIsReleased`, `AbandonedLeaseEnds`, `LoadingEnds`, `ListingSettles`,
`ChartSettles`): liveness and `ENABLED` are outside what the prover supports. The fairness
conjuncts of the refined specifications are therefore not part of the refinements: `DayLedger`
and `ScopedListing` promise nothing about when.

No theorem assumes more of the constants than the modules' named assumptions, which TLC
evaluates on every run. The conditional theorems (`OverlapNeedsNewPool`,
`SupersededByLateFocus`, `ScoreLostByLateWork`) name their premise as a formula about
the environment's steps.

## 6. Not modelled

Backend parts that have state worth a module of their own, in the order in which
they are worth modelling:

1. The backfill's wait, the blacklist's expiry and the symbols watched for next-day
   validation in `CollectorProtocol`. The last two change the pool on offer during a
   day; the provider also adds a watched symbol again after the blacklist has been taken out
   (`PairTrendCollectionPlanProvider.cs:122`), and the collector aborts a plan with a symbol it has
   blacklisted (`main.py:1756`).
2. The collector of the wave queue (`wave_history_worker.py`) as a client of
   `WaveBottomQueue`, and the snapshot writer's reconciliation of a symbol's stored
   events with the jobs it creates.
3. The pair-trend engine: the stages of a price level over a day's bars as an
   operator, compared with a declarative definition.
4. Next-day validation: its leases and evaluations.
5. Official bar batches, recovery items and collector commands.
6. Tick ingest, notification projection, the authoritative universe and the history
   partitions.

Parts of the web pages left out: the texts and the layout for narrow screens, date ranges
the form refuses, dates given one-sided by hand, a stock page without an
event, the mark on a chosen hit, `router.back`, what old addresses pass on besides
the event, and visibility outside the listing.

Left out for good: strategies, backtest and wave scoring (numeric batch
computations with no concurrent state), queries, broadcasters, metrics, the
timeline table and formats, migrations and deployment (reads, presentation and
pure I/O).
