-------------------------- MODULE CollectionSession --------------------------
(***************************************************************************)
(* The in-memory working set of one trading day's K-lines inside the Web   *)
(* API (PairTrendCollectionSessionStore), the compute queue its "complete" *)
(* call feeds, and the single background worker that replays a completed   *)
(* cycle and projects every symbol into MySQL.                             *)
(*                                                                         *)
(* Every method of the store runs under one lock, so each is one action.   *)
(* What is not under that lock is split: the controller first completes    *)
(* the cycle and then enqueues it, and the worker takes a snapshot, writes *)
(* symbol after symbol, and only then reports back to the store.  The      *)
(* callers are left open: any of them may send any request at any moment,  *)
(* and a request for a cycle that has gone is a rejected no-op.            *)
(*                                                                         *)
(* Time is abstract.  A close is a natural number counted from the market  *)
(* open (0); the 15 minutes after which a plan is abandoned is a flag that *)
(* may be raised at any moment.                                            *)
(***************************************************************************)
EXTENDS Integers, FiniteSets, Sequences

CONSTANTS
  Dates,          \* trading dates
  NoDate,         \* the store holds no session (API just started)
  Symbols,        \* securities
  Universes,      \* the stock pools the plan provider may read from MySQL
  Freqs,          \* K-line frequencies
  Closes,         \* Closes[f]: the legal closing times (EOB) of frequency f
  DailyFreqs,     \* the daily frequency, published with a grace of its own
  Period,         \* Period[f]: one period of f, the overlap of a later cycle
  Rows,           \* contents of an official bar (OHLCV and source hash)
  NoBar,          \* no bar in memory
  MaxBatchRows,   \* rows the controller takes in one batch (3000)
  Confirmations,  \* identical reads a sparse claim must carry (3)
  MaxCycles       \* bound of the model: plans ever issued

Times == UNION {Closes[f] : f \in Freqs}

\* A bar's identity: symbol, frequency and closing time.
Keys == {k \in Symbols \X Freqs \X Times : k[3] \in Closes[k[2]]}

Pool == [symbols : SUBSET Symbols, eligible : SUBSET Symbols]

ASSUME DatesAssumption == NoDate \notin Dates
ASSUME PoolsAssumption ==
  Universes \subseteq {u \in Pool : u.symbols # {} /\ u.eligible \subseteq u.symbols}
ASSUME ClosesAssumption == Closes \in [Freqs -> SUBSET (Nat \ {0})]
ASSUME PeriodAssumption == Period \in [Freqs -> Nat \ {0}]
ASSUME RowsAssumption == NoBar \notin Rows
ASSUME BoundsAssumption ==
  MaxBatchRows \in Nat /\ Confirmations \in Nat /\ MaxCycles \in Nat

VARIABLES
  date,        \* Session.TradingDate, or NoDate when _session is null
  universe,    \* Session.Universe: the pool and who is StrategyEligible
  bars,        \* Session.Bars
  missing,     \* Session.VerifiedMissingEobs, as a set of keys
  watermark,   \* Session.Watermarks; 0 for a frequency without one
  plans,       \* Session.Plans, a set of cycles
  inFlight,    \* Session.InFlight
  status,      \* Session.Status
  lastCycle,   \* the last cycle id handed out (ids are never reused)
  accepted,    \* completed cycles the controller has not enqueued yet
  queue,       \* PairTrendCollectionComputeQueue
  worker,      \* what the compute worker holds
  projected    \* MySQL: the cycle that last rewrote each symbol's live rows

sessionVars == <<date, universe, bars, missing, watermark, plans, inFlight, status>>
workVars    == <<accepted, queue, worker>>
vars        == <<sessionVars, lastCycle, workVars, projected>>

NoPool == [symbols |-> {}, eligible |-> {}]

Statuses == {"idle", "collecting", "computing", "failed"}

Cycle == [id        : Nat,
          symbols   : SUBSET Symbols,     \* ExpectedSymbols
          freqs     : SUBSET Freqs,       \* frequencies with a window
          from      : [Freqs -> Nat],     \* window.From
          to        : [Freqs -> Nat],     \* window.To
          received  : SUBSET Keys,        \* ReceivedEobsByFrequencyAndSymbol
          completed : BOOLEAN,
          aged      : BOOLEAN]            \* created more than 15 minutes ago

\* worker.cycle = 0: waiting for a work item.
Idle == [cycle |-> 0, date |-> NoDate, todo |-> {}]

(***************************************************************************)
(* Windows.                                                                *)
(***************************************************************************)
\* e is the last close of f that is not after time t; 0 when f has none yet.
IsLastClosed(e, f, t) ==
  /\ e \in Closes[f] \cup {0}
  /\ e <= t
  /\ \A x \in Closes[f] : x <= t => x <= e

\* BuildAvailableWindows: window.To of every frequency, with at least one window.
\* The intraday frequencies share one grace, the daily bar has another.
Availability ==
  {avail \in [Freqs -> Times \cup {0}] :
     /\ \E f \in Freqs : avail[f] # 0
     /\ \E t, daily \in Times \cup {0} : \A f \in Freqs :
          IsLastClosed(avail[f], f, IF f \in DailyFreqs THEN daily ELSE t)}

\* Mutant: the overlap is not clamped to the open.
WindowFromUnclamped(f, mark) == mark[f] - Period[f]

\* A window starts one period before the watermark, but not before the open.
WindowFrom(f, mark) == IF mark[f] > Period[f] THEN mark[f] - Period[f] ELSE 0

\* Mutant: the closing end of the window is exclusive.
ExpectedBeforeTo(p) ==
  {k \in Keys : /\ k[1] \in p.symbols
                /\ k[2] \in p.freqs
                /\ p.from[k[2]] < k[3]
                /\ k[3] < p.to[k[2]]}

\* The closes a cycle must account for: ExpectedEobsByFrequency of its symbols.
Expected(p) ==
  {k \in Keys : /\ k[1] \in p.symbols
                /\ k[2] \in p.freqs
                /\ p.from[k[2]] < k[3]
                /\ k[3] <= p.to[k[2]]}

\* Mutant: any other window is taken for a new one.
DueIfDifferent(mark, avail) == {f \in Freqs : avail[f] # mark[f]}

\* The frequencies with a close after their watermark.
Due(mark, avail) == {f \in Freqs : avail[f] > mark[f]}

NewCycle(id, pool, mark, avail) ==
  LET due == Due(mark, avail)
  IN  [id        |-> id,
       symbols   |-> pool.symbols,
       freqs     |-> due,
       from      |-> [f \in Freqs |-> IF f \in due THEN WindowFrom(f, mark) ELSE 0],
       to        |-> [f \in Freqs |-> IF f \in due THEN avail[f] ELSE 0],
       received  |-> {},
       completed |-> FALSE,
       aged      |-> FALSE]

Init ==
  /\ date = NoDate
  /\ universe = NoPool
  /\ bars = [k \in Keys |-> NoBar]
  /\ missing = {}
  /\ watermark = [f \in Freqs |-> 0]
  /\ plans = {}
  /\ inFlight = FALSE
  /\ status = "idle"
  /\ lastCycle = 0
  /\ accepted = {}
  /\ queue = <<>>
  /\ worker = Idle
  /\ projected = [s \in Symbols |-> 0]

-----------------------------------------------------------------------------
(***************************************************************************)
(* BeginPlan.  Its first step removes the abandoned plans whatever the     *)
(* outcome.                                                                *)
(***************************************************************************)
\* Mutant: an unfinished plan is never given up.
NeverAbandoned == {}

Abandoned == {p \in plans : p.aged /\ ~p.completed}

ExpireAbandonedPlans ==
  /\ plans' = plans \ Abandoned
  /\ status' = IF Abandoned = {} THEN status ELSE "failed"

NeedsNewSession(d, pool) == date = NoDate \/ date # d \/ universe # pool

\* The session still collects or computes.
Busy == inFlight \/ plans \ Abandoned # {}

\* Another trading date while this one is not done.
RefusesDate(d) == date # NoDate /\ date # d /\ Busy

IssuePlan(pool, mark, avail) ==
  /\ lastCycle < MaxCycles
  /\ lastCycle' = lastCycle + 1
  /\ status' = "collecting"
  /\ plans' = {NewCycle(lastCycle + 1, pool, mark, avail)}

BeginPlanRefused(d, pool) ==
  /\ \/ RefusesDate(d)
     \/ ~NeedsNewSession(d, pool) /\ Busy
  /\ ExpireAbandonedPlans
  /\ UNCHANGED <<date, universe, bars, missing, watermark, inFlight, lastCycle>>

\* The first session, the next trading date, or a pool that has changed: the
\* old Session object is dropped, its plans and its InFlight flag with it.
\* (The provider never asks before the first close, so something is due.)
BeginPlanNewSession(d, pool, avail) ==
  LET zero == [f \in Freqs |-> 0]
  IN  /\ ~RefusesDate(d)
      /\ NeedsNewSession(d, pool)
      /\ Due(zero, avail) # {}
      /\ date' = d
      /\ universe' = pool
      /\ bars' = [k \in Keys |-> NoBar]
      /\ missing' = {}
      /\ watermark' = zero
      /\ inFlight' = FALSE
      /\ IssuePlan(pool, zero, avail)

BeginPlanSameSession(d, pool, avail) ==
  /\ ~NeedsNewSession(d, pool)
  /\ ~Busy
  /\ \/ /\ Due(watermark, avail) # {}
        /\ IssuePlan(pool, watermark, avail)
     \/ /\ Due(watermark, avail) = {}
        /\ ExpireAbandonedPlans
        /\ UNCHANGED lastCycle
  /\ UNCHANGED <<date, universe, bars, missing, watermark, inFlight>>

BeginPlan(d, pool, avail) ==
  /\ \/ BeginPlanRefused(d, pool)
     \/ BeginPlanNewSession(d, pool, avail)
     \/ BeginPlanSameSession(d, pool, avail)
  /\ UNCHANGED <<workVars, projected>>

\* Fifteen minutes pass since the plan was created.
AgePlan(p) ==
  /\ ~p.completed /\ ~p.aged
  /\ plans' = (plans \ {p}) \cup {[p EXCEPT !.aged = TRUE]}
  /\ UNCHANGED <<date, universe, bars, missing, watermark, inFlight, status,
                 lastCycle, workVars, projected>>

(***************************************************************************)
(* AcceptBatch.  The whole batch is validated before anything changes; a   *)
(* bar this cycle already received may only be repeated, not replaced.     *)
(***************************************************************************)
\* Mutant: a batch may still arrive once the cycle is completed.
AcceptsLateBatch(p, batch) ==
  /\ DOMAIN batch \subseteq Expected(p)
  /\ \A k \in DOMAIN batch \cap p.received : bars[k] = batch[k]

\* Mutant: a repeated bar is not compared with the one received before.
AcceptsConflict(p, batch) ==
  /\ ~p.completed
  /\ DOMAIN batch \subseteq Expected(p)

Accepts(p, batch) ==
  /\ ~p.completed
  /\ DOMAIN batch \subseteq Expected(p)
  /\ \A k \in DOMAIN batch \cap p.received : bars[k] = batch[k]

\* Mutant: a bar that shows up after all stays listed as missing.
StillListedMissing(sent) == missing

StillMissing(sent) == missing \ sent

AcceptBatch(p, batch) ==
  LET sent == DOMAIN batch
  IN  /\ sent # {}
      /\ Cardinality(sent) <= MaxBatchRows
      /\ Accepts(p, batch)
      /\ bars' = [k \in Keys |-> IF k \in sent THEN batch[k] ELSE bars[k]]
      /\ missing' = StillMissing(sent)
      /\ plans' = (plans \ {p}) \cup {[p EXCEPT !.received = @ \cup sent]}
      /\ UNCHANGED <<date, universe, watermark, inFlight, status, lastCycle,
                     workVars, projected>>

(***************************************************************************)
(* Complete.  The whole pool must be listed, and the claims must be        *)
(* exactly the closes the cycle has not received.  Only then are the       *)
(* claimed closes retracted from memory.                                   *)
(***************************************************************************)
Gap(p) == Expected(p) \ p.received

Completable(p, listed, claims, confirmed) ==
  /\ ~p.completed
  /\ ~inFlight
  /\ listed = p.symbols
  /\ claims # {} => confirmed = Confirmations
  /\ claims = Gap(p)

Complete(p, listed, claims, confirmed) ==
  /\ Completable(p, listed, claims, confirmed)
  /\ bars' = [k \in Keys |-> IF k \in claims THEN NoBar ELSE bars[k]]
  /\ missing' = missing \cup claims
  /\ plans' = (plans \ {p}) \cup {[p EXCEPT !.completed = TRUE]}
  /\ inFlight' = TRUE
  /\ status' = "computing"
  /\ accepted' = accepted \cup {p.id}
  /\ UNCHANGED <<date, universe, watermark, lastCycle, queue, worker, projected>>

\* The completion lists failures: the cycle is dropped.
CompleteWithFailures(p) ==
  /\ ~p.completed
  /\ ~inFlight
  /\ plans' = plans \ {p}
  /\ status' = "failed"
  /\ UNCHANGED <<date, universe, bars, missing, watermark, inFlight, lastCycle,
                 workVars, projected>>

\* The controller hands the completed cycle to the compute queue ...
Enqueue(c) ==
  /\ c \in accepted
  /\ accepted' = accepted \ {c}
  /\ queue' = Append(queue, c)
  /\ UNCHANGED <<sessionVars, lastCycle, worker, projected>>

\* ... unless the caller has disconnected: EnqueueAsync is given the request's
\* cancellation token, after the store has already been changed.
EnqueueCancelled(c) ==
  /\ c \in accepted
  /\ accepted' = accepted \ {c}
  /\ UNCHANGED <<sessionVars, lastCycle, queue, worker, projected>>

\* Abort removes the cycle, completed or not, and leaves InFlight as it is.
Abort(p) ==
  /\ plans' = plans \ {p}
  /\ status' = "failed"
  /\ UNCHANGED <<date, universe, bars, missing, watermark, inFlight, lastCycle,
                 workVars, projected>>

(***************************************************************************)
(* The compute worker.  worker.todo holds the strategy-eligible symbols of *)
(* the snapshot that have not been written yet.                            *)
(***************************************************************************)
\* Mutant: whatever completed cycle is at hand is taken for the queued one.
AnyCompletedPlan(c) == {p \in plans : p.completed}

CompletedPlan(c) == {p \in plans : p.id = c /\ p.completed}

\* Dequeue; TryTakeSnapshot finds the cycle, or the item is dropped.
WorkerTake ==
  /\ worker = Idle
  /\ queue # <<>>
  /\ queue' = Tail(queue)
  /\ worker' = IF CompletedPlan(Head(queue)) = {} THEN Idle
               ELSE [cycle |-> Head(queue), date |-> date, todo |-> universe.eligible]
  /\ UNCHANGED <<sessionVars, lastCycle, accepted, projected>>

\* Replay one symbol and rewrite its live rows, in a transaction of its own.
WorkerWrite(s) ==
  /\ worker.cycle # 0
  /\ s \in worker.todo
  /\ worker' = [worker EXCEPT !.todo = @ \ {s}]
  /\ projected' = [projected EXCEPT ![s] = worker.cycle]
  /\ UNCHANGED <<sessionVars, lastCycle, accepted, queue>>

\* Mutant: a report is not dropped with the plan it is on.
FinishProcessingAnyway(c, succeeded) ==
  LET mine == {p \in plans : p.id = c}
  IN  /\ watermark' = [f \in Freqs |->
           IF succeeded /\ \E p \in mine : f \in p.freqs
           THEN (CHOOSE p \in mine : TRUE).to[f]
           ELSE watermark[f]]
      /\ status' = IF succeeded THEN "idle" ELSE "failed"
      /\ inFlight' = FALSE
      /\ plans' = plans \ mine
      /\ UNCHANGED <<date, universe, bars, missing>>

\* FinishProcessing: silent when the cycle is no longer a plan of the session.
FinishProcessing(c, succeeded) ==
  LET mine == {p \in plans : p.id = c}
  IN  \/ /\ mine = {}
         /\ UNCHANGED sessionVars
      \/ /\ mine # {}
         /\ watermark' = [f \in Freqs |->
              IF succeeded /\ \E p \in mine : f \in p.freqs
              THEN (CHOOSE p \in mine : TRUE).to[f]
              ELSE watermark[f]]
         /\ status' = IF succeeded THEN "idle" ELSE "failed"
         /\ inFlight' = FALSE
         /\ plans' = plans \ mine
         /\ UNCHANGED <<date, universe, bars, missing>>

\* Mutant: success is reported although symbols were left unwritten.
WorkerFinishEarly ==
  /\ worker.cycle # 0
  /\ FinishProcessing(worker.cycle, TRUE)
  /\ worker' = Idle
  /\ UNCHANGED <<lastCycle, accepted, queue, projected>>

WorkerFinish ==
  /\ worker.cycle # 0
  /\ worker.todo = {}
  /\ FinishProcessing(worker.cycle, TRUE)
  /\ worker' = Idle
  /\ UNCHANGED <<lastCycle, accepted, queue, projected>>

\* The next-day validation, a replay or a write throws.
WorkerFail ==
  /\ worker.cycle # 0
  /\ FinishProcessing(worker.cycle, FALSE)
  /\ worker' = Idle
  /\ UNCHANGED <<lastCycle, accepted, queue, projected>>

\* The API process restarts: everything but MySQL is lost.
Restart ==
  /\ date' = NoDate
  /\ universe' = NoPool
  /\ bars' = [k \in Keys |-> NoBar]
  /\ missing' = {}
  /\ watermark' = [f \in Freqs |-> 0]
  /\ plans' = {}
  /\ inFlight' = FALSE
  /\ status' = "idle"
  /\ accepted' = {}
  /\ queue' = <<>>
  /\ worker' = Idle
  /\ UNCHANGED <<lastCycle, projected>>

-----------------------------------------------------------------------------
Plan == \E d \in Dates, pool \in Universes, avail \in Availability :
          BeginPlan(d, pool, avail)

Push == \E p \in plans : \E sent \in SUBSET Expected(p) :
          \E batch \in [sent -> Rows] : AcceptBatch(p, batch)

Finalize == \E p \in plans :
  \/ \E listed \in SUBSET Symbols, claims \in SUBSET Expected(p),
        confirmed \in {Confirmations - 1, Confirmations} :
       Complete(p, listed, claims, confirmed)
  \/ CompleteWithFailures(p)

Compute == WorkerTake \/ (\E s \in Symbols : WorkerWrite(s)) \/ WorkerFinish \/ WorkerFail

Next ==
  \/ Plan
  \/ Push
  \/ Finalize
  \/ \E p \in plans : AgePlan(p) \/ Abort(p)
  \/ \E c \in accepted : Enqueue(c) \/ EnqueueCancelled(c)
  \/ Compute
  \/ Restart

Spec == Init /\ [][Next]_vars

-----------------------------------------------------------------------------
(***************************************************************************)
(* Properties.                                                             *)
(***************************************************************************)
\* Types.  In particular a window never starts before the open.
TypeOK ==
  /\ date \in Dates \cup {NoDate}
  /\ universe \in Pool
  /\ bars \in [Keys -> Rows \cup {NoBar}]
  /\ missing \subseteq Keys
  /\ watermark \in [Freqs -> Nat]
  /\ plans \subseteq Cycle
  /\ inFlight \in BOOLEAN
  /\ status \in Statuses
  /\ lastCycle \in Nat
  /\ accepted \subseteq Nat
  /\ queue \in Seq(Nat)
  /\ worker \in [cycle : Nat, date : Dates \cup {NoDate}, todo : SUBSET Symbols]
  /\ projected \in [Symbols -> Nat]

\* A close is accounted for when its bar is in memory or its absence has been
\* verified.
Covered(k) == bars[k] # NoBar \/ k \in missing

\* The watermark's promise: up to the watermark of a frequency, every close of
\* every symbol of the pool is accounted for, whatever cycles were aborted,
\* expired, failed or retracted bars in between.  The incremental replay reads
\* nothing older than the overlap again, so a hole would stay for the day.
CompleteThroughWatermark ==
  \A k \in Keys :
    k[1] \in universe.symbols /\ k[3] <= watermark[k[2]] => Covered(k)

\* A close is never both present and verified missing: a bar that shows up
\* after it was proved missing, or is retracted after it was received, changes
\* both books at once.
NeverBothBarAndMissing == \A k \in missing : bars[k] = NoBar

\* Within one cycle an official bar is immutable: a retried or conflicting
\* batch never replaces a bar this cycle has received, and the cycle's own
\* completion does not retract it.
ReceivedBarsAreStable ==
  [][\A p \in plans, q \in plans' : p.id = q.id =>
       \A k \in p.received : bars'[k] = bars[k]]_vars

\* From the moment a cycle is completed until its computation has reported
\* back, late batches, plans and completions leave the bars it is computed
\* from, and the watermark, as they are.
FrozenWhileComputing ==
  [][inFlight /\ inFlight' => UNCHANGED <<bars, missing, watermark>>]_vars

\* A watermark only rises when one cycle, still the session's own, has been
\* projected for every strategy-eligible symbol: a failed, aborted, expired or
\* superseded computation advances nothing.
WatermarkOnlyAfterProjection ==
  [][\A f \in Freqs : watermark'[f] > watermark[f] =>
       \E p \in plans : /\ p.completed
                        /\ watermark'[f] = p.to[f]
                        /\ \A s \in universe.eligible : projected[s] = p.id]_vars

\* A watermark only falls when the whole session is dropped: never within a
\* session, and never keeping bars, claims or a computation of the old one.
WatermarkFallsOnlyWithSession ==
  [][(\E f \in Freqs : watermark'[f] < watermark[f]) =>
       /\ watermark' = [f \in Freqs |-> 0]
       /\ bars' = [k \in Keys |-> NoBar]
       /\ missing' = {}
       /\ ~inFlight'
       /\ plans' \cap plans = {}]_vars

\* A symbol's live rows in MySQL are never rewritten from an older cycle, even
\* if sessions are replaced while cycles wait in the queue.
ProjectionNeverGoesBack ==
  [][\A s \in Symbols : projected'[s] >= projected[s]]_projected

\* What BeginPlan's refusal says: while a computation is still running, no
\* other plan may advance the K-lines.
NoPlanWhileComputing ==
  worker.cycle # 0 => \A p \in plans : p.id = worker.cycle

\* What will still be computed: on its way to the queue, in it, or at work.
AtWork == accepted \cup {queue[i] : i \in DOMAIN queue} \cup {worker.cycle}

\* A computation was lost: InFlight waits for a report that will not come.
Stalled == inFlight /\ \A p \in plans : p.id \notin AtWork

\* A lost computation holds the store up: no report, completion, abort, timeout
\* or new trading date ends that.  Only a changed pool of the same date does, by
\* dropping the session, or a restart of the API.
OnlyNewPoolEndsStall ==
  [][Stalled /\ ~Stalled' =>
       \/ date' = NoDate
       \/ date' = date /\ universe' # universe]_vars

\* The pool stays as it is while a computation is in flight, unless the API is
\* restarted.  The provider does not see to that: it is what the refusal above
\* takes for granted.
PoolStaysWhileComputing ==
  [][inFlight => universe' = universe \/ date' = NoDate]_vars

\* The closes whose bar is known or proved absent.
Settled == {k \in Keys : Covered(k)}

Ledger == INSTANCE DayLedger WITH
            Pools <- Universes, pool <- universe, settled <- Settled,
            mark <- watermark, rewritten <- projected

\* The store and its worker keep the ledger that DayLedger describes: what they
\* settle, mark and rewrite, they do in one of its steps or in none.
LedgerSpec == Ledger!Spec
=============================================================================
