----------------------- MODULE CollectionSessionProofs -----------------------
(***************************************************************************)
(* What CollectionSession guarantees for every pool, calendar of closes    *)
(* and number of cycles.                                                   *)
(*                                                                         *)
(* The watermark's promise is not inductive by itself.  It holds because   *)
(* a plan starts at or before the watermark (PlanWindows), because what a  *)
(* plan has received stays in memory until it ends (ReceivedInMemory), and *)
(* because a completed plan has accounted for its whole window             *)
(* (CompletedCovered) and is the only one whose computation can succeed    *)
(* (WorkerCompleted).                                                      *)
(***************************************************************************)
EXTENDS CollectionSession, TLAPS

OnePlan == \A p, q \in plans : p = q

PlanIds == /\ \A p \in plans : p.id \in 1..lastCycle
           /\ worker.cycle <= lastCycle

PlanWindows ==
  \A p \in plans : /\ p.symbols = universe.symbols
                   /\ \A f \in p.freqs : p.from[f] <= watermark[f]

ReceivedInMemory == \A p \in plans : \A k \in p.received : bars[k] # NoBar

CompletedCovered ==
  \A p \in plans : p.completed => \A k \in Expected(p) : Covered(k)

WorkerCompleted == \A p \in plans : p.id = worker.cycle => p.completed

InFlightCompleted == inFlight => \A p \in plans : p.completed

IInv == /\ TypeOK
        /\ OnePlan
        /\ PlanIds
        /\ PlanWindows
        /\ ReceivedInMemory
        /\ CompletedCovered
        /\ WorkerCompleted
        /\ InFlightCompleted
        /\ CompleteThroughWatermark
        /\ NeverBothBarAndMissing

-----------------------------------------------------------------------------
(***************************************************************************)
(* Lemmas about the operators.                                             *)
(***************************************************************************)
LEMMA WindowFromBelow ==
  ASSUME NEW mark \in [Freqs -> Nat], NEW f \in Freqs
  PROVE  WindowFrom(f, mark) \in Nat /\ WindowFrom(f, mark) <= mark[f]
BY PeriodAssumption DEF WindowFrom

LEMMA KeyFields ==
  ASSUME NEW k \in Keys
  PROVE  k[1] \in Symbols /\ k[2] \in Freqs /\ k[3] \in Nat /\ k[3] > 0
BY ClosesAssumption DEF Keys, Times

LEMMA NewCycleType ==
  ASSUME NEW id \in Nat, NEW pool \in Pool, NEW mark \in [Freqs -> Nat],
         NEW avail \in [Freqs -> Nat]
  PROVE  /\ NewCycle(id, pool, mark, avail) \in Cycle
         /\ \A f \in NewCycle(id, pool, mark, avail).freqs :
              NewCycle(id, pool, mark, avail).from[f] <= mark[f]
<1> DEFINE c == NewCycle(id, pool, mark, avail)
<1>1. Due(mark, avail) \subseteq Freqs
  BY DEF Due
<1>2. \A f \in Freqs : WindowFrom(f, mark) \in Nat /\ WindowFrom(f, mark) <= mark[f]
  BY WindowFromBelow
<1>3. c.from \in [Freqs -> Nat] /\ c.to \in [Freqs -> Nat]
  BY <1>2 DEF NewCycle
<1>4. c \in Cycle
  BY <1>1, <1>3 DEF NewCycle, Cycle, Pool
<1>5. \A f \in c.freqs : c.from[f] <= mark[f]
  BY <1>1, <1>2 DEF NewCycle
<1> QED
  BY <1>4, <1>5

LEMMA AvailabilityType == Availability \subseteq [Freqs -> Nat]
BY ClosesAssumption DEF Availability, Times

-----------------------------------------------------------------------------
(***************************************************************************)
(* The invariant is inductive: one lemma for each kind of step.            *)
(***************************************************************************)
LEMMA EmptyTypes ==
  /\ NoPool \in Pool
  /\ [k \in Keys |-> NoBar] \in [Keys -> Rows \cup {NoBar}]
  /\ [f \in Freqs |-> 0] \in [Freqs -> Nat]
  /\ [s \in Symbols |-> 0] \in [Symbols -> Nat]
  /\ <<>> \in Seq(Nat)
  /\ Idle \in [cycle : Nat, date : Dates \cup {NoDate}, todo : SUBSET Symbols]
  /\ "idle" \in Statuses
<1>1. NoPool \in Pool
  BY DEF NoPool, Pool
<1>2. Idle \in [cycle : Nat, date : Dates \cup {NoDate}, todo : SUBSET Symbols]
  BY DEF Idle
<1>3. <<>> \in Seq(Nat)
  OBVIOUS
<1> QED
  BY <1>1, <1>2, <1>3 DEF Statuses

LEMMA InitInv == Init => IInv
<1> SUFFICES ASSUME Init PROVE IInv
  OBVIOUS
<1>1. TypeOK
  BY EmptyTypes DEF Init, TypeOK
<1>2. CompleteThroughWatermark
  BY KeyFields DEF Init, CompleteThroughWatermark, NoPool
<1> QED
  BY <1>1, <1>2 DEF Init, IInv, OnePlan, PlanIds, PlanWindows, ReceivedInMemory,
     CompletedCovered, WorkerCompleted, InFlightCompleted, NeverBothBarAndMissing, Idle

LEMMA RestartInv == IInv /\ Restart => IInv'
<1> SUFFICES ASSUME IInv, Restart PROVE IInv'
  OBVIOUS
<1>1. TypeOK'
  BY EmptyTypes DEF Restart, IInv, TypeOK
<1>2. CompleteThroughWatermark'
  BY KeyFields DEF Restart, CompleteThroughWatermark, NoPool
<1>3. lastCycle \in Nat
  BY DEF IInv, TypeOK
<1> QED
  BY <1>1, <1>2, <1>3 DEF Restart, IInv, OnePlan, PlanIds, PlanWindows, ReceivedInMemory,
     CompletedCovered, WorkerCompleted, InFlightCompleted, NeverBothBarAndMissing, Idle

\* A step that only removes plans, and touches neither bars nor watermark.
LEMMA DropPlansInv ==
  ASSUME IInv, plans' \subseteq plans, status' \in Statuses,
         UNCHANGED <<date, universe, bars, missing, watermark, inFlight, lastCycle,
                     workVars, projected>>
  PROVE  IInv'
BY DEF IInv, TypeOK, OnePlan, PlanIds, PlanWindows, ReceivedInMemory, Expected,
       CompletedCovered, WorkerCompleted, InFlightCompleted, Covered, workVars,
       CompleteThroughWatermark, NeverBothBarAndMissing

LEMMA IssuePlanInv ==
  ASSUME IInv, NEW pool \in Pool, NEW avail \in [Freqs -> Nat],
         IssuePlan(pool, watermark', avail),
         date' \in Dates, universe' = pool, inFlight' = FALSE,
         TypeOK => bars' \in [Keys -> Rows \cup {NoBar}] /\ missing' \subseteq Keys
                   /\ watermark' \in [Freqs -> Nat],
         CompleteThroughWatermark', NeverBothBarAndMissing',
         UNCHANGED <<workVars, projected>>
  PROVE  IInv'
<1> DEFINE c == NewCycle(lastCycle + 1, pool, watermark', avail)
<1> USE DEF IInv
<1>1. lastCycle + 1 \in Nat /\ watermark' \in [Freqs -> Nat]
  BY DEF TypeOK
<1>2. c \in Cycle /\ \A f \in c.freqs : c.from[f] <= watermark'[f]
  BY <1>1, NewCycleType
<1>3. /\ c.id = lastCycle + 1 /\ c.symbols = pool.symbols
      /\ c.received = {} /\ c.completed = FALSE
  BY DEF NewCycle
<1>4. plans' = {c} /\ lastCycle' = lastCycle + 1 /\ status' = "collecting"
  BY DEF IssuePlan
<1> HIDE DEF c
<1>5. TypeOK'
  BY <1>1, <1>2, <1>4 DEF TypeOK, Statuses, workVars, Pool
<1>6. OnePlan' /\ PlanIds' /\ PlanWindows' /\ ReceivedInMemory'
  BY <1>1, <1>2, <1>3, <1>4
     DEF OnePlan, PlanIds, PlanWindows, ReceivedInMemory, workVars, TypeOK
<1>7. CompletedCovered' /\ InFlightCompleted'
  BY <1>3, <1>4 DEF CompletedCovered, InFlightCompleted
<1>8. WorkerCompleted'
  BY <1>1, <1>3, <1>4 DEF WorkerCompleted, PlanIds, workVars, TypeOK
<1> QED
  BY <1>5, <1>6, <1>7, <1>8

LEMMA BeginPlanInv ==
  ASSUME IInv, NEW d \in Dates, NEW pool \in Universes, NEW avail \in Availability,
         BeginPlan(d, pool, avail)
  PROVE  IInv'
<1>1. pool \in Pool /\ avail \in [Freqs -> Nat]
  BY PoolsAssumption, AvailabilityType
<1>2. CASE BeginPlanRefused(d, pool)
  BY <1>2, DropPlansInv
     DEF BeginPlan, BeginPlanRefused, ExpireAbandonedPlans, IInv, TypeOK, Statuses
<1>3. CASE BeginPlanNewSession(d, pool, avail)
  <2>1. /\ bars' = [k \in Keys |-> NoBar] /\ missing' = {} /\ inFlight' = FALSE
        /\ watermark' = [f \in Freqs |-> 0] /\ date' = d /\ universe' = pool
        /\ IssuePlan(pool, watermark', avail)
        /\ UNCHANGED <<workVars, projected>>
    BY <1>3 DEF BeginPlanNewSession, BeginPlan
  <2>2. CompleteThroughWatermark' /\ NeverBothBarAndMissing'
    BY <2>1, KeyFields DEF CompleteThroughWatermark, NeverBothBarAndMissing
  <2> QED
    BY <1>1, <2>1, <2>2, IssuePlanInv
<1>4. CASE BeginPlanSameSession(d, pool, avail)
  <2>1. /\ UNCHANGED <<date, universe, bars, missing, watermark, inFlight>>
        /\ inFlight = FALSE /\ universe = pool /\ date = d
    BY <1>4 DEF BeginPlanSameSession, NeedsNewSession, Busy, IInv, TypeOK
  <2>2. CASE Due(watermark, avail) # {}
    <3>1. IssuePlan(pool, watermark', avail) /\ UNCHANGED <<workVars, projected>>
      BY <1>4, <2>1, <2>2 DEF BeginPlanSameSession, BeginPlan
    <3>2. CompleteThroughWatermark' /\ NeverBothBarAndMissing'
      BY <2>1 DEF IInv, CompleteThroughWatermark, NeverBothBarAndMissing, Covered
    <3>3. bars' \in [Keys -> Rows \cup {NoBar}] /\ missing' \subseteq Keys
          /\ watermark' \in [Freqs -> Nat]
      BY <2>1 DEF IInv, TypeOK
    <3> QED
      BY <1>1, <2>1, <3>1, <3>2, <3>3, IssuePlanInv
  <2>3. CASE Due(watermark, avail) = {}
    BY <1>4, <2>1, <2>3, DropPlansInv
       DEF BeginPlanSameSession, ExpireAbandonedPlans, BeginPlan, IInv, TypeOK, Statuses
  <2> QED
    BY <2>2, <2>3
<1> QED
  BY <1>2, <1>3, <1>4 DEF BeginPlan

LEMMA AgePlanInv ==
  ASSUME IInv, NEW p \in plans, AgePlan(p)
  PROVE  IInv'
<1> DEFINE q == [p EXCEPT !.aged = TRUE]
<1>1. p \in Cycle
  BY DEF IInv, TypeOK
<1>2. /\ q \in Cycle /\ q.id = p.id /\ q.symbols = p.symbols /\ q.freqs = p.freqs
      /\ q.from = p.from /\ q.received = p.received /\ q.completed = p.completed
  BY <1>1 DEF Cycle
<1>3. plans' = {q} /\ plans = {p} /\ p.completed = FALSE
  BY <1>1 DEF IInv, OnePlan, AgePlan, Cycle
<1>4. UNCHANGED <<date, universe, bars, missing, watermark, inFlight, status,
                  lastCycle, workVars, projected>>
  BY DEF AgePlan
<1> HIDE DEF q
<1>5. TypeOK'
  BY <1>2, <1>3, <1>4 DEF IInv, TypeOK, workVars
<1>6. OnePlan' /\ PlanIds' /\ PlanWindows' /\ ReceivedInMemory' /\ CompletedCovered'
  BY <1>2, <1>3, <1>4
     DEF IInv, OnePlan, PlanIds, PlanWindows, ReceivedInMemory, CompletedCovered, workVars
<1>7. WorkerCompleted' /\ InFlightCompleted'
  BY <1>2, <1>3, <1>4 DEF IInv, WorkerCompleted, InFlightCompleted, workVars
<1>8. CompleteThroughWatermark' /\ NeverBothBarAndMissing'
  BY <1>4 DEF IInv, CompleteThroughWatermark, NeverBothBarAndMissing, Covered
<1> QED
  BY <1>5, <1>6, <1>7, <1>8 DEF IInv

LEMMA AcceptBatchInv ==
  ASSUME IInv, NEW p \in plans, NEW sent \in SUBSET Expected(p),
         NEW batch \in [sent -> Rows], AcceptBatch(p, batch)
  PROVE  IInv'
<1> DEFINE q == [p EXCEPT !.received = @ \cup sent]
<1>1. p \in Cycle /\ sent \subseteq Keys /\ DOMAIN batch = sent
  BY DEF IInv, TypeOK, Expected
<1>2. /\ q \in Cycle /\ q.id = p.id /\ q.symbols = p.symbols /\ q.freqs = p.freqs
      /\ q.from = p.from /\ q.received = p.received \cup sent
      /\ q.completed = p.completed
  BY <1>1 DEF Cycle
<1>3. plans' = {q} /\ plans = {p} /\ p.completed = FALSE
  BY <1>1 DEF IInv, OnePlan, AcceptBatch, Accepts, Cycle
<1>4. /\ UNCHANGED <<date, universe, watermark, inFlight, status, lastCycle,
                     workVars, projected>>
      /\ bars' = [k \in Keys |-> IF k \in sent THEN batch[k] ELSE bars[k]]
      /\ missing' = missing \ sent
  BY <1>1 DEF AcceptBatch, StillMissing
<1> HIDE DEF q
<1>5. TypeOK'
  BY <1>1, <1>2, <1>3, <1>4 DEF IInv, TypeOK, workVars
<1>6. \A k \in Keys : /\ Covered(k) => Covered(k)'
                      /\ bars[k] # NoBar => bars'[k] # NoBar
                      /\ k \in sent => bars'[k] # NoBar
                      /\ k \in missing' => bars'[k] = bars[k]
  BY <1>1, <1>4, RowsAssumption DEF Covered
<1>7. OnePlan' /\ PlanIds' /\ PlanWindows' /\ CompletedCovered'
  BY <1>2, <1>3, <1>4
     DEF IInv, OnePlan, PlanIds, PlanWindows, CompletedCovered, workVars
<1>8. ReceivedInMemory'
  BY <1>1, <1>2, <1>3, <1>6 DEF IInv, ReceivedInMemory, Cycle
<1>9. WorkerCompleted' /\ InFlightCompleted'
  BY <1>2, <1>3, <1>4 DEF IInv, WorkerCompleted, InFlightCompleted, workVars
<1>10. CompleteThroughWatermark'
  BY <1>4, <1>6 DEF IInv, CompleteThroughWatermark
<1>11. NeverBothBarAndMissing'
  BY <1>4, <1>6 DEF IInv, NeverBothBarAndMissing, TypeOK
<1> QED
  BY <1>5, <1>7, <1>8, <1>9, <1>10, <1>11 DEF IInv

LEMMA CompleteInv ==
  ASSUME IInv, NEW p \in plans, NEW listed, NEW claims, NEW confirmed,
         Complete(p, listed, claims, confirmed)
  PROVE  IInv'
<1> DEFINE q == [p EXCEPT !.completed = TRUE]
<1>1. p \in Cycle /\ claims = Gap(p) /\ claims \subseteq Keys
      /\ claims \cap p.received = {}
  BY DEF IInv, TypeOK, Complete, Completable, Gap, Expected
<1>2. /\ q \in Cycle /\ q.id = p.id /\ q.symbols = p.symbols /\ q.freqs = p.freqs
      /\ q.from = p.from /\ q.to = p.to /\ q.received = p.received
      /\ q.completed = TRUE
  BY <1>1 DEF Cycle
<1>3. plans' = {q} /\ plans = {p} /\ p.id \in Nat
  BY <1>1 DEF IInv, OnePlan, Complete, Cycle
<1>4. /\ UNCHANGED <<date, universe, watermark, lastCycle, queue, worker, projected>>
      /\ bars' = [k \in Keys |-> IF k \in claims THEN NoBar ELSE bars[k]]
      /\ missing' = missing \cup claims
      /\ accepted' = accepted \cup {p.id} /\ inFlight' = TRUE
      /\ status' = "computing"
  BY DEF Complete
<1> HIDE DEF q
<1>5. TypeOK'
  BY <1>1, <1>2, <1>3, <1>4 DEF IInv, TypeOK, Statuses
<1>6. \A k \in Keys : /\ Covered(k) => Covered(k)'
                      /\ k \in claims => Covered(k)'
                      /\ k \notin claims => bars'[k] = bars[k]
                      /\ k \in claims => bars'[k] = NoBar
  BY <1>4 DEF Covered
<1>7. OnePlan' /\ PlanIds' /\ PlanWindows'
  BY <1>2, <1>3, <1>4 DEF IInv, OnePlan, PlanIds, PlanWindows
<1>8. ReceivedInMemory'
  BY <1>1, <1>2, <1>3, <1>6 DEF IInv, ReceivedInMemory, Cycle
<1>9. CompletedCovered'
  <2> SUFFICES ASSUME NEW k \in Expected(q) PROVE Covered(k)'
    BY <1>3 DEF CompletedCovered, Expected
  <2>1. k \in Expected(p) /\ k \in Keys
    BY <1>2 DEF Expected
  <2>2. CASE k \in claims
    BY <1>6, <2>1, <2>2
  <2>3. CASE k \notin claims
    <3>1. k \in p.received
      BY <1>1, <2>1, <2>3 DEF Gap
    <3>2. bars[k] # NoBar
      BY <3>1 DEF IInv, ReceivedInMemory
    <3> QED
      BY <1>6, <2>1, <3>2 DEF Covered
  <2> QED
    BY <2>2, <2>3
<1>10. WorkerCompleted' /\ InFlightCompleted'
  BY <1>2, <1>3, <1>4 DEF WorkerCompleted, InFlightCompleted
<1>11. CompleteThroughWatermark'
  BY <1>4, <1>6 DEF IInv, CompleteThroughWatermark
<1>12. NeverBothBarAndMissing'
  BY <1>1, <1>4, <1>6 DEF IInv, NeverBothBarAndMissing, TypeOK
<1> QED
  BY <1>5, <1>7, <1>8, <1>9, <1>10, <1>11, <1>12 DEF IInv

\* A step of the controller or the worker that leaves the session alone.
LEMMA WorkInv ==
  ASSUME IInv, UNCHANGED <<sessionVars, lastCycle>>,
         accepted' \subseteq Nat, queue' \in Seq(Nat), projected' \in [Symbols -> Nat],
         worker' \in [cycle : Nat, date : Dates \cup {NoDate}, todo : SUBSET Symbols],
         worker'.cycle <= lastCycle,
         \A p \in plans : p.id = worker'.cycle => p.completed
  PROVE  IInv'
<1>1. TypeOK'
  BY DEF IInv, TypeOK, sessionVars
<1>2. OnePlan' /\ PlanIds' /\ PlanWindows' /\ ReceivedInMemory'
  BY DEF IInv, OnePlan, PlanIds, PlanWindows, ReceivedInMemory, sessionVars
<1>3. CompletedCovered' /\ WorkerCompleted' /\ InFlightCompleted'
  BY DEF IInv, CompletedCovered, WorkerCompleted, InFlightCompleted, Covered, sessionVars
<1>4. CompleteThroughWatermark' /\ NeverBothBarAndMissing'
  BY DEF IInv, CompleteThroughWatermark, NeverBothBarAndMissing, Covered, sessionVars
<1> QED
  BY <1>1, <1>2, <1>3, <1>4 DEF IInv

LEMMA EnqueueInv ==
  ASSUME IInv, NEW c \in accepted, Enqueue(c) \/ EnqueueCancelled(c)
  PROVE  IInv'
<1>1. c \in Nat /\ queue \in Seq(Nat)
  BY DEF IInv, TypeOK
<1>2. Append(queue, c) \in Seq(Nat)
  BY <1>1
<1>3. UNCHANGED <<sessionVars, lastCycle, worker, projected>>
  BY DEF Enqueue, EnqueueCancelled
<1>4. accepted' \subseteq Nat /\ queue' \in Seq(Nat)
  BY <1>1, <1>2 DEF Enqueue, EnqueueCancelled, IInv, TypeOK
<1> QED
  BY <1>3, <1>4, WorkInv DEF IInv, TypeOK, PlanIds, WorkerCompleted

LEMMA WorkerTakeInv == IInv /\ WorkerTake => IInv'
<1> SUFFICES ASSUME IInv, WorkerTake PROVE IInv'
  OBVIOUS
<1> DEFINE c == Head(queue)
<1>1. queue \in Seq(Nat) /\ queue # <<>> /\ queue' = Tail(queue)
  BY DEF IInv, TypeOK, WorkerTake
<1>2. c \in Nat /\ queue' \in Seq(Nat)
  BY <1>1
<1>3. /\ UNCHANGED <<sessionVars, lastCycle, accepted, projected>>
      /\ worker' = IF CompletedPlan(c) = {} THEN Idle
                   ELSE [cycle |-> c, date |-> date, todo |-> universe.eligible]
      /\ worker = Idle
  BY DEF WorkerTake
<1> HIDE DEF c
<1>4. CASE CompletedPlan(c) = {}
  <2>1. UNCHANGED worker
    BY <1>3, <1>4
  <2> QED
    BY <1>2, <1>3, <2>1, WorkInv DEF IInv, TypeOK, PlanIds, WorkerCompleted
<1>5. CASE CompletedPlan(c) # {}
  <2>1. PICK p \in plans : p.id = c /\ p.completed
    BY <1>5 DEF CompletedPlan
  <2>2. worker' = [cycle |-> c, date |-> date, todo |-> universe.eligible]
    BY <1>3, <1>5
  <2>3. worker' \in [cycle : Nat, date : Dates \cup {NoDate}, todo : SUBSET Symbols]
    BY <1>2, <2>2 DEF IInv, TypeOK, Pool
  <2>4. c <= lastCycle
    BY <2>1 DEF IInv, PlanIds, TypeOK
  <2>5. \A q \in plans : q.id = c => q.completed
    BY <2>1 DEF IInv, OnePlan
  <2> QED
    BY <1>2, <1>3, <2>2, <2>3, <2>4, <2>5, WorkInv DEF IInv, TypeOK
<1> QED
  BY <1>4, <1>5

LEMMA WorkerWriteInv ==
  ASSUME IInv, NEW s \in Symbols, WorkerWrite(s)
  PROVE  IInv'
<1>1. worker \in [cycle : Nat, date : Dates \cup {NoDate}, todo : SUBSET Symbols]
  BY DEF IInv, TypeOK
<1>2. /\ worker' \in [cycle : Nat, date : Dates \cup {NoDate}, todo : SUBSET Symbols]
      /\ worker'.cycle = worker.cycle
  BY <1>1 DEF WorkerWrite
<1>3. projected' \in [Symbols -> Nat]
  BY <1>1 DEF WorkerWrite, IInv, TypeOK
<1> QED
  BY <1>2, <1>3, WorkInv DEF WorkerWrite, IInv, TypeOK, PlanIds, WorkerCompleted

\* The report of a computation.  It can only succeed for a completed plan,
\* which is then the only plan, so everything up to the new watermark was
\* either below the old one or inside that plan's window.
LEMMA FinishInv ==
  ASSUME IInv, NEW succeeded \in BOOLEAN, worker.cycle # 0,
         FinishProcessing(worker.cycle, succeeded), worker' = Idle,
         UNCHANGED <<lastCycle, accepted, queue, projected>>
  PROVE  IInv'
<1> DEFINE mine == {p \in plans : p.id = worker.cycle}
<1>1. /\ Idle \in [cycle : Nat, date : Dates \cup {NoDate}, todo : SUBSET Symbols]
      /\ Idle.cycle = 0 /\ lastCycle \in Nat /\ plans \subseteq Cycle
      /\ \A p \in plans : p.id \in 1..lastCycle
  BY EmptyTypes DEF Idle, IInv, TypeOK, PlanIds
<1>2. CASE mine = {} /\ UNCHANGED sessionVars
  <2>1. \A p \in plans : p.id # 0
    BY <1>1
  <2> QED
    BY <1>1, <1>2, <2>1, WorkInv DEF IInv, TypeOK
<1>3. CASE mine # {} /\ ~UNCHANGED sessionVars
  <2>1. PICK p \in plans : p.id = worker.cycle
    BY <1>3
  <2>2. /\ mine = {p} /\ p \in Cycle /\ p.completed /\ plans = {p}
        /\ p.to \in [Freqs -> Nat] /\ (CHOOSE q \in mine : TRUE) = p
    BY <1>1, <2>1 DEF IInv, OnePlan, WorkerCompleted, Cycle
  <2>3. /\ watermark' = [f \in Freqs |-> IF succeeded /\ f \in p.freqs
                                        THEN p.to[f] ELSE watermark[f]]
        /\ status' = (IF succeeded THEN "idle" ELSE "failed")
        /\ inFlight' = FALSE /\ plans' = {}
        /\ UNCHANGED <<date, universe, bars, missing>>
    BY <1>3, <2>2 DEF FinishProcessing
  <2>4. TypeOK'
    BY <1>1, <2>2, <2>3 DEF IInv, TypeOK, Statuses
  <2>5. CompleteThroughWatermark'
    <3> SUFFICES ASSUME NEW k \in Keys, k[1] \in universe.symbols,
                        k[3] <= watermark'[k[2]]
                 PROVE  Covered(k)
      BY <2>3 DEF CompleteThroughWatermark, Covered
    <3>1. k[1] \in p.symbols /\ k[2] \in Freqs /\ k[3] \in Nat
      BY <2>2, KeyFields DEF IInv, PlanWindows
    <3>2. CASE succeeded /\ k[2] \in p.freqs
      <4>1. k[3] <= p.to[k[2]] /\ p.from[k[2]] <= watermark[k[2]]
        BY <2>2, <2>3, <3>1, <3>2 DEF IInv, PlanWindows
      <4>2. CASE p.from[k[2]] < k[3]
        BY <2>2, <3>1, <3>2, <4>1, <4>2 DEF Expected, IInv, CompletedCovered
      <4>3. CASE ~(p.from[k[2]] < k[3])
        <5>1. p.from[k[2]] \in Nat /\ watermark[k[2]] \in Nat
          BY <2>2, <3>1 DEF Cycle, IInv, TypeOK
        <5>2. k[3] <= watermark[k[2]]
          BY <3>1, <4>1, <4>3, <5>1
        <5> QED
          BY <5>2 DEF IInv, CompleteThroughWatermark
      <4> QED
        BY <4>2, <4>3
    <3>3. CASE ~(succeeded /\ k[2] \in p.freqs)
      BY <2>3, <3>1, <3>3 DEF IInv, CompleteThroughWatermark
    <3> QED
      BY <3>2, <3>3
  <2> QED
    BY <1>1, <2>3, <2>4, <2>5
       DEF IInv, OnePlan, PlanIds, PlanWindows, ReceivedInMemory, CompletedCovered,
           WorkerCompleted, InFlightCompleted, NeverBothBarAndMissing
<1> QED
  BY <1>2, <1>3 DEF FinishProcessing, sessionVars

-----------------------------------------------------------------------------
LEMMA NextInv == IInv /\ [Next]_vars => IInv'
<1> SUFFICES ASSUME IInv, [Next]_vars PROVE IInv'
  OBVIOUS
<1>1. CASE Plan
  BY <1>1, BeginPlanInv DEF Plan
<1>2. CASE Push
  BY <1>2, AcceptBatchInv DEF Push
<1>3. CASE Finalize
  <2>1. ASSUME NEW p \in plans, CompleteWithFailures(p) PROVE IInv'
    BY <2>1, DropPlansInv DEF CompleteWithFailures, Statuses
  <2> QED
    BY <1>3, <2>1, CompleteInv DEF Finalize
<1>4. CASE \E p \in plans : AgePlan(p) \/ Abort(p)
  <2>1. ASSUME NEW p \in plans, Abort(p) PROVE IInv'
    BY <2>1, DropPlansInv DEF Abort, Statuses
  <2> QED
    BY <1>4, <2>1, AgePlanInv
<1>5. CASE \E c \in accepted : Enqueue(c) \/ EnqueueCancelled(c)
  BY <1>5, EnqueueInv
<1>6. CASE Compute
  <2>1. CASE WorkerFinish
    BY <2>1, FinishInv DEF WorkerFinish
  <2>2. CASE WorkerFail
    BY <2>2, FinishInv DEF WorkerFail
  <2> QED
    BY <1>6, <2>1, <2>2, WorkerTakeInv, WorkerWriteInv DEF Compute
<1>7. CASE Restart
  BY <1>7, RestartInv
<1>8. CASE UNCHANGED vars
  BY <1>8, WorkInv DEF vars, workVars, IInv, TypeOK, PlanIds, WorkerCompleted
<1> QED
  BY <1>1, <1>2, <1>3, <1>4, <1>5, <1>6, <1>7, <1>8 DEF Next

LEMMA Invariance == Spec => []IInv
BY InitInv, NextInv, PTL DEF Spec

\* Every variable keeps its type; in particular no window opens before the
\* market does, whatever the overlap of a frequency.
THEOREM TypeCorrect == Spec => []TypeOK
<1>1. IInv => TypeOK
  BY DEF IInv
<1> QED
  BY <1>1, Invariance, PTL

\* The watermark's promise, for every pool, calendar of closes, overlap and
\* sequence of completed, failed, aborted, expired and superseded cycles.
THEOREM WatermarkIsComplete == Spec => []CompleteThroughWatermark
<1>1. IInv => CompleteThroughWatermark
  BY DEF IInv
<1> QED
  BY <1>1, Invariance, PTL

\* Bars and verified absences never contradict each other.
THEOREM BarsAndMissingAgree == Spec => []NeverBothBarAndMissing
<1>1. IInv => NeverBothBarAndMissing
  BY DEF IInv
<1> QED
  BY <1>1, Invariance, PTL

-----------------------------------------------------------------------------
(***************************************************************************)
(* Action properties.                                                      *)
(***************************************************************************)
\* No step replaces or retracts a bar that a cycle has received and that cycle
\* survives: a retried or conflicting batch is harmless.
THEOREM ReceivedStable == Spec => ReceivedBarsAreStable
<1>1. ASSUME IInv, [Next]_vars, NEW p \in plans, NEW q \in plans', p.id = q.id,
             NEW k \in p.received
      PROVE  bars'[k] = bars[k]
  <2>1. /\ p \in Cycle /\ k \in Keys /\ plans = {p} /\ p.id \in 1..lastCycle
        /\ lastCycle \in Nat
    BY <1>1 DEF IInv, TypeOK, OnePlan, PlanIds, Cycle
  <2>2. CASE UNCHANGED bars
    BY <2>2
  <2>3. CASE Plan
    <3>1. PICK d \in Dates, pool \in Universes, avail \in Availability :
            BeginPlan(d, pool, avail)
      BY <2>3 DEF Plan
    <3>2. CASE BeginPlanNewSession(d, pool, avail)
      BY <1>1, <2>1, <3>2 DEF BeginPlanNewSession, IssuePlan, NewCycle
    <3> QED
      BY <2>2, <3>1, <3>2 DEF BeginPlan, BeginPlanRefused, BeginPlanSameSession
  <2>4. CASE Push
    <3>1. PICK sent \in SUBSET Expected(p) : \E batch \in [sent -> Rows] : AcceptBatch(p, batch)
      BY <2>1, <2>4 DEF Push
    <3>2. PICK batch \in [sent -> Rows] : AcceptBatch(p, batch)
      BY <3>1
    <3> QED
      BY <1>1, <2>1, <3>2 DEF AcceptBatch, Accepts
  <2>5. CASE Finalize
    <3>1. ASSUME NEW listed, NEW claims, NEW confirmed,
                 Complete(p, listed, claims, confirmed)
          PROVE  bars'[k] = bars[k]
      BY <1>1, <2>1, <3>1 DEF Complete, Completable, Gap
    <3> QED
      BY <2>1, <2>2, <2>5, <3>1 DEF Finalize, CompleteWithFailures
  <2>6. CASE Restart
    BY <1>1, <2>6 DEF Restart
  <2>7. CASE \/ \E r \in plans : AgePlan(r) \/ Abort(r)
             \/ \E c \in accepted : Enqueue(c) \/ EnqueueCancelled(c)
             \/ Compute \/ UNCHANGED vars
    <3>1. UNCHANGED bars
      BY <2>7 DEF AgePlan, Abort, Enqueue, EnqueueCancelled, Compute, WorkerTake,
         WorkerWrite, WorkerFinish, WorkerFail, FinishProcessing, vars, sessionVars
    <3> QED
      BY <3>1
  <2> QED
    BY <1>1, <2>3, <2>4, <2>5, <2>6, <2>7 DEF Next
<1>2. IInv /\ [Next]_vars =>
        [\A p \in plans, q \in plans' : p.id = q.id =>
           \A k \in p.received : bars'[k] = bars[k]]_vars
  BY <1>1
<1> QED
  BY <1>2, Invariance, PTL DEF Spec, ReceivedBarsAreStable

\* What is being computed is frozen: no batch, plan or completion disturbs the
\* bars, the verified absences or the watermark until the computation reports.
THEOREM ComputationIsFrozen == Spec => FrozenWhileComputing
<1>1. ASSUME IInv, [Next]_vars, inFlight, inFlight'
      PROVE  UNCHANGED <<bars, missing, watermark>>
  <2>1. \A p \in plans : p.completed
    BY <1>1 DEF IInv, InFlightCompleted
  <2>2. ~Push /\ ~Restart
    BY <1>1, <2>1 DEF Push, AcceptBatch, Accepts, Restart
  <2>3. CASE Plan \/ Finalize
    BY <1>1, <2>3 DEF Plan, BeginPlan, BeginPlanRefused, BeginPlanNewSession,
       BeginPlanSameSession, Finalize, Complete, Completable, CompleteWithFailures
  <2>4. CASE Compute
    BY <1>1, <2>4 DEF Compute, WorkerTake, WorkerWrite, WorkerFinish, WorkerFail,
       FinishProcessing, sessionVars
  <2>5. CASE \/ \E r \in plans : AgePlan(r) \/ Abort(r)
             \/ \E c \in accepted : Enqueue(c) \/ EnqueueCancelled(c)
             \/ UNCHANGED vars
    BY <2>5 DEF AgePlan, Abort, Enqueue, EnqueueCancelled, vars, sessionVars
  <2> QED
    BY <1>1, <2>2, <2>3, <2>4, <2>5 DEF Next
<1>2. IInv /\ [Next]_vars =>
        [inFlight /\ inFlight' => UNCHANGED <<bars, missing, watermark>>]_vars
  BY <1>1
<1> QED
  BY <1>2, Invariance, PTL DEF Spec, FrozenWhileComputing

-----------------------------------------------------------------------------
(***************************************************************************)
(* How the watermark and the projection move.  The queue may hold cycles   *)
(* in any order, but only the cycle of the one plan is ever taken from it, *)
(* and it is the youngest.                                                 *)
(***************************************************************************)
\* A plan's windows end after the watermark they were issued from.
WindowsAhead == \A p \in plans : \A f \in p.freqs : p.to[f] > watermark[f]

\* Nothing at work or projected is younger than the plan.
PlanIsYoungest ==
  \A p \in plans : worker.cycle <= p.id /\ \A s \in Symbols : projected[s] <= p.id

WorkIsYoungest ==
  \A s \in Symbols : /\ projected[s] <= lastCycle
                     /\ worker.cycle # 0 => projected[s] <= worker.cycle

\* What the worker no longer has to write for the plan, it has written.
Written ==
  \A p \in plans : p.id = worker.cycle =>
    \A s \in universe.eligible : s \in worker.todo \/ projected[s] = p.id

MoveInv == IInv /\ WindowsAhead /\ PlanIsYoungest /\ WorkIsYoungest /\ Written

LEMMA SessionFacts ==
  ASSUME IInv
  PROVE  /\ lastCycle \in Nat /\ worker.cycle \in Nat /\ worker.cycle <= lastCycle
         /\ projected \in [Symbols -> Nat] /\ watermark \in [Freqs -> Nat]
         /\ universe.eligible \subseteq Symbols
         /\ \A p \in plans : /\ plans = {p} /\ p \in Cycle /\ p.id \in Nat /\ p.id # 0
                             /\ p.id <= lastCycle
<1>1. \A p \in plans : p \in Cycle /\ p.id \in 1..lastCycle /\ plans = {p}
  BY DEF IInv, TypeOK, OnePlan, PlanIds
<1>2. lastCycle \in Nat /\ worker.cycle \in Nat /\ worker.cycle <= lastCycle
  BY DEF IInv, TypeOK, PlanIds
<1> QED
  BY <1>1, <1>2 DEF IInv, TypeOK, Pool

\* A step that keeps what is at work, and plans or copies of them.
LEMMA KeptMoves ==
  ASSUME MoveInv, UNCHANGED <<watermark, universe, worker, projected, lastCycle>>,
         \A q \in plans' : \E p \in plans : q.id = p.id /\ q.freqs = p.freqs /\ q.to = p.to
  PROVE  (WindowsAhead /\ PlanIsYoungest /\ WorkIsYoungest /\ Written)'
BY DEF MoveInv, WindowsAhead, PlanIsYoungest, WorkIsYoungest, Written

LEMMA FewerPlansKept ==
  ASSUME MoveInv, UNCHANGED <<watermark, universe, worker, projected, lastCycle>>, plans' \subseteq plans
  PROVE  (WindowsAhead /\ PlanIsYoungest /\ WorkIsYoungest /\ Written)'
BY KeptMoves

LEMMA IssuedMoves ==
  ASSUME MoveInv, NEW pool, NEW avail \in [Freqs -> Nat], IssuePlan(pool, watermark', avail),
         watermark' \in [Freqs -> Nat], UNCHANGED <<worker, projected>>
  PROVE  (WindowsAhead /\ PlanIsYoungest /\ WorkIsYoungest /\ Written)'
<1>1. PICK q : q = NewCycle(lastCycle + 1, pool, watermark', avail)
  OBVIOUS
<1>2. q.id = lastCycle + 1 /\ \A f \in q.freqs : f \in Freqs /\ q.to[f] > watermark'[f]
  BY <1>1 DEF NewCycle, Due
<1>3. plans' = {q} /\ lastCycle' = lastCycle + 1
  BY <1>1 DEF IssuePlan
<1>4. /\ lastCycle \in Nat /\ worker.cycle \in Nat /\ worker.cycle <= lastCycle
      /\ projected \in [Symbols -> Nat]
  BY SessionFacts DEF MoveInv
<1>5. \A s \in Symbols : projected[s] <= lastCycle /\ projected[s] \in Nat
  BY <1>4 DEF MoveInv, WorkIsYoungest
<1>6. WindowsAhead'
  BY <1>2, <1>3 DEF WindowsAhead
<1>7. PlanIsYoungest' /\ WorkIsYoungest'
  BY <1>2, <1>3, <1>4, <1>5 DEF MoveInv, PlanIsYoungest, WorkIsYoungest
<1>8. Written'
  BY <1>2, <1>3, <1>4 DEF Written
<1> QED
  BY <1>6, <1>7, <1>8

LEMMA PlanMoves ==
  ASSUME MoveInv, Plan
  PROVE  (WindowsAhead /\ PlanIsYoungest /\ WorkIsYoungest /\ Written)'
<1>1. PICK d \in Dates, pool \in Universes, avail \in Availability : BeginPlan(d, pool, avail)
  BY DEF Plan
<1>2. avail \in [Freqs -> Nat] /\ watermark \in [Freqs -> Nat]
  BY AvailabilityType, SessionFacts DEF MoveInv
<1>3. UNCHANGED <<worker, projected>>
  BY <1>1 DEF BeginPlan, workVars
<1>4. CASE BeginPlanNewSession(d, pool, avail)
  <2>1. watermark' \in [Freqs -> Nat] /\ IssuePlan(pool, watermark', avail)
    BY <1>4 DEF BeginPlanNewSession
  <2> QED
    BY <1>2, <1>3, <2>1, IssuedMoves
<1>5. CASE BeginPlanRefused(d, pool) \/ BeginPlanSameSession(d, pool, avail)
  <2>1. watermark' = watermark /\ universe' = universe
    BY <1>5 DEF BeginPlanRefused, BeginPlanSameSession
  <2>2. CASE lastCycle' = lastCycle /\ plans' \subseteq plans
    BY <1>3, <2>1, <2>2, FewerPlansKept
  <2>3. CASE IssuePlan(pool, watermark, avail)
    BY <1>2, <1>3, <2>1, <2>3, IssuedMoves
  <2> QED
    BY <1>5, <2>2, <2>3 DEF BeginPlanRefused, BeginPlanSameSession, ExpireAbandonedPlans
<1> QED
  BY <1>1, <1>4, <1>5 DEF BeginPlan

LEMMA TakeMoves ==
  ASSUME MoveInv, WorkerTake
  PROVE  (WindowsAhead /\ PlanIsYoungest /\ WorkIsYoungest /\ Written)'
<1>1. UNCHANGED <<plans, watermark, universe, projected, lastCycle>> /\ worker = Idle
  BY DEF WorkerTake, sessionVars
<1>2. CASE worker' = Idle
  BY <1>1, <1>2, FewerPlansKept
<1>3. CASE worker' # Idle
  <2>1. PICK p \in plans : p.id = Head(queue)
    BY <1>3 DEF WorkerTake, CompletedPlan
  <2>2. worker'.cycle = p.id /\ worker'.todo = universe.eligible
    BY <1>3, <2>1 DEF WorkerTake
  <2>3. plans = {p} /\ p.id \in Nat /\ plans' = {p}
    BY <1>1, SessionFacts DEF MoveInv
  <2>4. PlanIsYoungest' /\ WorkIsYoungest'
    BY <1>1, <2>2, <2>3 DEF MoveInv, PlanIsYoungest, WorkIsYoungest
  <2>5. WindowsAhead' /\ Written'
    BY <1>1, <2>2 DEF MoveInv, WindowsAhead, Written
  <2> QED
    BY <2>4, <2>5
<1> QED
  BY <1>2, <1>3

LEMMA WriteMoves ==
  ASSUME MoveInv, NEW t \in Symbols, WorkerWrite(t)
  PROVE  (WindowsAhead /\ PlanIsYoungest /\ WorkIsYoungest /\ Written)'
<1>1. /\ UNCHANGED <<plans, watermark, universe, lastCycle>> /\ worker.cycle # 0
      /\ worker' = [worker EXCEPT !.todo = worker.todo \ {t}]
      /\ projected' = [projected EXCEPT ![t] = worker.cycle]
  BY DEF WorkerWrite, sessionVars
<1>2. worker'.cycle = worker.cycle /\ worker'.todo = worker.todo \ {t}
  BY <1>1 DEF MoveInv, IInv, TypeOK
<1>3. /\ worker.cycle \in Nat /\ worker.cycle <= lastCycle /\ universe.eligible \subseteq Symbols
      /\ \A s \in Symbols : projected'[s] = IF s = t THEN worker.cycle ELSE projected[s]
  BY <1>1, SessionFacts DEF MoveInv
<1>4. WindowsAhead'
  BY <1>1 DEF MoveInv, WindowsAhead
<1>5. PlanIsYoungest' /\ WorkIsYoungest'
  BY <1>1, <1>2, <1>3 DEF MoveInv, PlanIsYoungest, WorkIsYoungest
<1>6. Written'
  BY <1>1, <1>2, <1>3 DEF MoveInv, Written
<1> QED
  BY <1>4, <1>5, <1>6

LEMMA FinishMoves ==
  ASSUME MoveInv, WorkerFinish \/ WorkerFail
  PROVE  (WindowsAhead /\ PlanIsYoungest /\ WorkIsYoungest /\ Written)'
<1>1. PICK done \in BOOLEAN : FinishProcessing(worker.cycle, done)
  BY DEF WorkerFinish, WorkerFail
<1>2. worker' = Idle /\ UNCHANGED <<projected, lastCycle>>
  BY DEF WorkerFinish, WorkerFail
<1>3. worker'.cycle = 0
  BY <1>2 DEF Idle
<1>4. /\ universe' = universe
      /\ plans' = {} \/ (plans' = plans /\ watermark' = watermark)
  BY <1>1, SessionFacts DEF MoveInv, FinishProcessing, sessionVars
<1>5. \A p \in plans : p.id \in Nat /\ p.id # 0
  BY SessionFacts DEF MoveInv
<1> QED
  BY <1>2, <1>3, <1>4, <1>5 DEF MoveInv, WindowsAhead, PlanIsYoungest, WorkIsYoungest, Written

LEMMA OtherMoves ==
  ASSUME MoveInv, \/ Push \/ Finalize \/ Restart \/ UNCHANGED vars
                  \/ \E p \in plans : AgePlan(p) \/ Abort(p)
                  \/ \E c \in accepted : Enqueue(c) \/ EnqueueCancelled(c)
  PROVE  (WindowsAhead /\ PlanIsYoungest /\ WorkIsYoungest /\ Written)'
<1>1. ASSUME NEW p \in plans, NEW q, plans' = (plans \ {p}) \cup {q},
             q.id = p.id, q.freqs = p.freqs, q.to = p.to,
             UNCHANGED <<watermark, universe, worker, projected, lastCycle>>
      PROVE  (WindowsAhead /\ PlanIsYoungest /\ WorkIsYoungest /\ Written)'
  BY <1>1, KeptMoves
<1>2. \A p \in plans : p \in Cycle
  BY SessionFacts DEF MoveInv
<1>3. CASE Push
  <2>1. PICK p \in plans, sent \in SUBSET Keys : \E batch \in [sent -> Rows] : AcceptBatch(p, batch)
    BY <1>3 DEF Push, Expected
  <2>2. PICK batch \in [sent -> Rows] : AcceptBatch(p, batch)
    BY <2>1
  <2>3. PICK q : q = [p EXCEPT !.received = @ \cup DOMAIN batch]
    OBVIOUS
  <2>4. q.id = p.id /\ q.freqs = p.freqs /\ q.to = p.to
    BY <1>2, <2>3 DEF Cycle
  <2> QED
    BY <1>1, <2>2, <2>3, <2>4 DEF AcceptBatch, workVars
<1>4. CASE Finalize
  <2>1. ASSUME NEW p \in plans, NEW listed, NEW claims, NEW confirmed,
               Complete(p, listed, claims, confirmed)
        PROVE  (WindowsAhead /\ PlanIsYoungest /\ WorkIsYoungest /\ Written)'
    <3>1. PICK q : q = [p EXCEPT !.completed = TRUE]
      OBVIOUS
    <3>2. q.id = p.id /\ q.freqs = p.freqs /\ q.to = p.to
      BY <1>2, <3>1 DEF Cycle
    <3> QED
      BY <1>1, <2>1, <3>1, <3>2 DEF Complete
  <2>2. ASSUME NEW p \in plans, CompleteWithFailures(p)
        PROVE  (WindowsAhead /\ PlanIsYoungest /\ WorkIsYoungest /\ Written)'
    BY <2>2, FewerPlansKept DEF CompleteWithFailures, workVars
  <2> QED
    BY <1>4, <2>1, <2>2 DEF Finalize
<1>5. ASSUME NEW p \in plans, AgePlan(p)
      PROVE  (WindowsAhead /\ PlanIsYoungest /\ WorkIsYoungest /\ Written)'
  <2>1. PICK q : q = [p EXCEPT !.aged = TRUE]
    OBVIOUS
  <2>2. q.id = p.id /\ q.freqs = p.freqs /\ q.to = p.to
    BY <1>2, <2>1 DEF Cycle
  <2> QED
    BY <1>1, <1>5, <2>1, <2>2 DEF AgePlan, workVars
<1>6. ASSUME NEW p \in plans, Abort(p)
      PROVE  (WindowsAhead /\ PlanIsYoungest /\ WorkIsYoungest /\ Written)'
  BY <1>6, FewerPlansKept DEF Abort, workVars
<1>7. ASSUME (\E c \in accepted : Enqueue(c) \/ EnqueueCancelled(c)) \/ UNCHANGED vars
      PROVE  (WindowsAhead /\ PlanIsYoungest /\ WorkIsYoungest /\ Written)'
  BY <1>7, FewerPlansKept DEF Enqueue, EnqueueCancelled, vars, sessionVars, workVars
<1>8. CASE Restart
  <2>1. plans' = {} /\ worker'.cycle = 0 /\ UNCHANGED <<projected, lastCycle>>
    BY <1>8 DEF Restart, Idle
  <2> QED
    BY <2>1 DEF MoveInv, WindowsAhead, PlanIsYoungest, WorkIsYoungest, Written
<1> QED
  BY <1>3, <1>4, <1>5, <1>6, <1>7, <1>8

LEMMA MoveNext == MoveInv /\ [Next]_vars => MoveInv'
<1> SUFFICES ASSUME MoveInv, [Next]_vars PROVE MoveInv'
  OBVIOUS
<1>1. IInv'
  BY NextInv DEF MoveInv
<1>2. (WindowsAhead /\ PlanIsYoungest /\ WorkIsYoungest /\ Written)'
  BY PlanMoves, TakeMoves, WriteMoves, FinishMoves, OtherMoves DEF Next, Compute
<1> QED
  BY <1>1, <1>2 DEF MoveInv

LEMMA MoveInvHolds == Spec => []MoveInv
<1>1. Init => MoveInv
  <2> SUFFICES ASSUME Init PROVE MoveInv
    OBVIOUS
  <2>1. plans = {} /\ worker.cycle = 0 /\ lastCycle = 0 /\ projected = [s \in Symbols |-> 0]
    BY DEF Init, Idle
  <2> QED
    BY <2>1, InitInv DEF MoveInv, WindowsAhead, PlanIsYoungest, WorkIsYoungest, Written
<1> QED
  BY <1>1, MoveNext, PTL DEF Spec

\* Only these steps touch the watermark.
LEMMA WatermarkMoves ==
  ASSUME MoveInv, Next
  PROVE  \/ watermark' = watermark
         \/ /\ watermark' = [f \in Freqs |-> 0] /\ bars' = [k \in Keys |-> NoBar]
            /\ missing' = {} /\ ~inFlight' /\ plans' \cap plans = {}
         \/ /\ WorkerFinish
            /\ \E p \in plans : /\ p.id = worker.cycle
                                /\ watermark' = [f \in Freqs |-> IF f \in p.freqs THEN p.to[f]
                                                                 ELSE watermark[f]]
<1>1. CASE Plan
  <2>1. PICK d \in Dates, pool \in Universes, avail \in Availability : BeginPlan(d, pool, avail)
    BY <1>1 DEF Plan
  <2>2. CASE BeginPlanNewSession(d, pool, avail)
    <3>1. /\ watermark' = [f \in Freqs |-> 0] /\ bars' = [k \in Keys |-> NoBar]
          /\ missing' = {} /\ ~inFlight'
      BY <2>2 DEF BeginPlanNewSession
    <3>2. PICK q : plans' = {q} /\ q.id = lastCycle + 1
      <4>1. PICK q : q = NewCycle(lastCycle + 1, pool, [f \in Freqs |-> 0], avail)
        OBVIOUS
      <4>2. q.id = lastCycle + 1
        BY <4>1 DEF NewCycle
      <4> QED
        BY <2>2, <4>1, <4>2 DEF BeginPlanNewSession, IssuePlan
    <3>3. q \notin plans
      <4>1. \A p \in plans : p.id # lastCycle + 1
        BY SessionFacts DEF MoveInv
      <4> QED
        BY <3>2, <4>1
    <3> QED
      BY <3>1, <3>2, <3>3
  <2> QED
    BY <2>1, <2>2 DEF BeginPlan, BeginPlanRefused, BeginPlanSameSession
<1>2. CASE Restart
  BY <1>2 DEF Restart
<1>3. CASE Compute
  <2>1. CASE WorkerTake \/ \E s \in Symbols : WorkerWrite(s)
    BY <2>1 DEF WorkerTake, WorkerWrite, sessionVars
  <2>2. CASE WorkerFinish
    <3>1. FinishProcessing(worker.cycle, TRUE)
      BY <2>2 DEF WorkerFinish
    <3>2. CASE {p \in plans : p.id = worker.cycle} = {}
      BY <3>1, <3>2 DEF FinishProcessing, sessionVars
    <3>3. ASSUME NEW p \in plans, p.id = worker.cycle
          PROVE  watermark' = [f \in Freqs |-> IF f \in p.freqs THEN p.to[f] ELSE watermark[f]]
      <4>1. {r \in plans : r.id = worker.cycle} = {p}
        BY <3>3, SessionFacts DEF MoveInv
      <4> QED
        BY <3>1, <4>1 DEF FinishProcessing
    <3> QED
      BY <2>2, <3>2, <3>3
  <2>3. CASE WorkerFail
    <3>1. FinishProcessing(worker.cycle, FALSE)
      BY <2>3 DEF WorkerFail
    <3>2. watermark \in [Freqs -> Nat]
      BY SessionFacts DEF MoveInv
    <3> QED
      BY <3>1, <3>2 DEF FinishProcessing, sessionVars
  <2> QED
    BY <1>3, <2>1, <2>2, <2>3 DEF Compute
<1>4. CASE \/ Push \/ Finalize
           \/ \E p \in plans : AgePlan(p) \/ Abort(p)
           \/ \E c \in accepted : Enqueue(c) \/ EnqueueCancelled(c)
  BY <1>4 DEF Push, AcceptBatch, Finalize, Complete, CompleteWithFailures, AgePlan, Abort,
     Enqueue, EnqueueCancelled, sessionVars
<1> QED
  BY <1>1, <1>2, <1>3, <1>4 DEF Next

\* A watermark rises only to the end of a completed plan's window, when every
\* strategy-eligible symbol of the session has been written for that plan.
THEOREM WatermarkFollowsProjection == Spec => WatermarkOnlyAfterProjection
<1>1. ASSUME MoveInv, Next, NEW f \in Freqs, watermark'[f] > watermark[f]
      PROVE  \E p \in plans : /\ p.completed /\ watermark'[f] = p.to[f]
                              /\ \A s \in universe.eligible : projected[s] = p.id
  <2>1. watermark[f] \in Nat /\ watermark \in [Freqs -> Nat]
    BY <1>1, SessionFacts DEF MoveInv
  <2>2. watermark' # watermark /\ watermark' # [g \in Freqs |-> 0]
    BY <1>1, <2>1
  <2>3. WorkerFinish
    BY <1>1, <2>2, WatermarkMoves
  <2>4. PICK p \in plans : /\ p.id = worker.cycle
                           /\ watermark' = [g \in Freqs |-> IF g \in p.freqs THEN p.to[g]
                                                            ELSE watermark[g]]
    BY <1>1, <2>2, WatermarkMoves
  <2>5. watermark'[f] = p.to[f]
    BY <1>1, <2>1, <2>4
  <2>6. p.completed
    BY <1>1, <2>4 DEF MoveInv, IInv, WorkerCompleted
  <2>7. \A s \in universe.eligible : projected[s] = p.id
    BY <1>1, <2>3, <2>4 DEF WorkerFinish, MoveInv, Written
  <2> QED
    BY <2>5, <2>6, <2>7
<1>2. MoveInv /\ [Next]_vars =>
        [\A f \in Freqs : watermark'[f] > watermark[f] =>
           \E p \in plans : /\ p.completed
                            /\ watermark'[f] = p.to[f]
                            /\ \A s \in universe.eligible : projected[s] = p.id]_vars
  BY <1>1
<1> QED
  BY <1>2, MoveInvHolds, PTL DEF Spec, WatermarkOnlyAfterProjection

\* A watermark falls only when the session is dropped with all it holds.
THEOREM WatermarkNeverSinks == Spec => WatermarkFallsOnlyWithSession
<1>1. ASSUME MoveInv, Next, NEW f \in Freqs, watermark'[f] < watermark[f]
      PROVE  /\ watermark' = [g \in Freqs |-> 0] /\ bars' = [k \in Keys |-> NoBar]
             /\ missing' = {} /\ ~inFlight' /\ plans' \cap plans = {}
  <2>1. watermark[f] \in Nat
    BY <1>1, SessionFacts DEF MoveInv
  <2>2. watermark' # watermark
    BY <1>1, <2>1
  <2>3. ASSUME NEW p \in plans,
               watermark' = [g \in Freqs |-> IF g \in p.freqs THEN p.to[g] ELSE watermark[g]]
        PROVE  FALSE
    <3>1. CASE f \in p.freqs
      <4>1. p.to[f] > watermark[f] /\ p.to[f] \in Nat
        BY <1>1, <3>1, SessionFacts DEF MoveInv, WindowsAhead, Cycle
      <4> QED
        BY <1>1, <2>1, <2>3, <3>1, <4>1
    <3>2. CASE f \notin p.freqs
      BY <1>1, <2>1, <2>3, <3>2
    <3> QED
      BY <3>1, <3>2
  <2> QED
    BY <1>1, <2>2, <2>3, WatermarkMoves
<1>2. MoveInv /\ [Next]_vars =>
        [(\E f \in Freqs : watermark'[f] < watermark[f]) =>
           /\ watermark' = [f \in Freqs |-> 0]
           /\ bars' = [k \in Keys |-> NoBar]
           /\ missing' = {}
           /\ ~inFlight'
           /\ plans' \cap plans = {}]_vars
  BY <1>1
<1> QED
  BY <1>2, MoveInvHolds, PTL DEF Spec, WatermarkFallsOnlyWithSession

\* In whatever order completed cycles reach the queue, no symbol is rewritten
\* from an older cycle than before.
THEOREM ProjectionMovesOn == Spec => ProjectionNeverGoesBack
<1>1. ASSUME MoveInv, Next, NEW s \in Symbols
      PROVE  projected'[s] >= projected[s]
  <2>1. projected \in [Symbols -> Nat] /\ projected[s] \in Nat /\ worker.cycle \in Nat
    BY <1>1, SessionFacts DEF MoveInv
  <2>2. ASSUME NEW t \in Symbols, WorkerWrite(t)
        PROVE  projected'[s] >= projected[s]
    <3>1. projected'[s] = IF s = t THEN worker.cycle ELSE projected[s]
      BY <2>1, <2>2 DEF WorkerWrite
    <3>2. projected[s] <= worker.cycle
      BY <1>1, <2>2 DEF WorkerWrite, MoveInv, WorkIsYoungest
    <3> QED
      BY <2>1, <3>1, <3>2
  <2>3. CASE projected' = projected
    BY <2>1, <2>3
  <2> QED
    BY <1>1, <2>2, <2>3
       DEF Next, Plan, BeginPlan, Push, AcceptBatch, Finalize, Complete, CompleteWithFailures,
           AgePlan, Abort, Enqueue, EnqueueCancelled, Compute, WorkerTake, WorkerFinish,
           WorkerFail, Restart
<1>2. MoveInv /\ [Next]_vars => [\A s \in Symbols : projected'[s] >= projected[s]]_projected
  BY <1>1 DEF vars
<1> QED
  BY <1>2, MoveInvHolds, PTL DEF Spec, ProjectionNeverGoesBack

-----------------------------------------------------------------------------
(***************************************************************************)
(* The store keeps DayLedger's ledger.  Batches and completions settle     *)
(* closes, a new session opens the ledger, and what a report advances was  *)
(* settled before (CompleteThroughWatermark) and rewritten (Written).      *)
(***************************************************************************)
LEMMA LedgerInit == Init => Ledger!Init
<1> SUFFICES ASSUME Init PROVE Ledger!Init
  OBVIOUS
<1>1. Settled = {}
  BY DEF Init, Settled, Covered
<1> QED
  BY <1>1 DEF Init, Ledger!Init, Ledger!Unmarked

LEMMA LedgerStands ==
  ASSUME UNCHANGED <<date, universe, bars, missing, watermark, projected>>
  PROVE  UNCHANGED <<date, universe, Settled, watermark, projected>>
BY DEF Settled, Covered

LEMMA LedgerPlan ==
  ASSUME IInv, Plan
  PROVE  Ledger!Open \/ UNCHANGED <<date, universe, Settled, watermark, projected>>
<1>1. PICK d \in Dates, pool \in Universes, avail \in Availability : BeginPlan(d, pool, avail)
  BY DEF Plan
<1>2. CASE BeginPlanNewSession(d, pool, avail)
  <2>1. /\ date' = d /\ universe' = pool /\ (date' # date \/ universe' # universe)
        /\ bars' = [k \in Keys |-> NoBar] /\ missing' = {}
        /\ watermark' = [f \in Freqs |-> 0] /\ projected' = projected
    BY <1>1, <1>2, DatesAssumption DEF BeginPlanNewSession, NeedsNewSession, BeginPlan
  <2>2. Settled' = {}
    BY <2>1 DEF Settled, Covered
  <2> QED
    BY <2>1, <2>2 DEF Ledger!Open, Ledger!Unmarked
<1>3. CASE BeginPlanRefused(d, pool) \/ BeginPlanSameSession(d, pool, avail)
  BY <1>1, <1>3, LedgerStands DEF BeginPlanRefused, BeginPlanSameSession, BeginPlan
<1> QED
  BY <1>1, <1>2, <1>3 DEF BeginPlan

LEMMA LedgerPush ==
  ASSUME IInv, Push
  PROVE  Ledger!Settle
<1>1. PICK p \in plans, sent \in SUBSET Keys :
        /\ sent \subseteq Expected(p)
        /\ \E batch \in [sent -> Rows] : AcceptBatch(p, batch)
  BY DEF Push, Expected
<1>2. PICK batch \in [sent -> Rows] : AcceptBatch(p, batch)
  BY <1>1
<1>3. /\ UNCHANGED <<date, universe, watermark, projected>>
      /\ bars' = [k \in Keys |-> IF k \in sent THEN batch[k] ELSE bars[k]]
      /\ missing' = missing \ sent
  BY <1>2 DEF AcceptBatch, StillMissing
<1>4. \A k \in sent : k[1] \in universe.symbols
  BY <1>1 DEF IInv, PlanWindows, Expected
<1>5. Settled' = Settled \cup sent
  BY <1>3, RowsAssumption DEF Settled, Covered
<1> QED
  BY <1>3, <1>4, <1>5 DEF Ledger!Settle, Settled

LEMMA LedgerFinalize ==
  ASSUME IInv, Finalize
  PROVE  Ledger!Settle \/ UNCHANGED <<date, universe, Settled, watermark, projected>>
<1>1. ASSUME NEW p \in plans, NEW listed, NEW claims, NEW confirmed,
             Complete(p, listed, claims, confirmed)
      PROVE  Ledger!Settle
  <2>1. /\ UNCHANGED <<date, universe, watermark, projected>>
        /\ bars' = [k \in Keys |-> IF k \in claims THEN NoBar ELSE bars[k]]
        /\ missing' = missing \cup claims
    BY <1>1 DEF Complete
  <2>2. claims \subseteq Keys /\ \A k \in claims : k[1] \in universe.symbols
    BY <1>1 DEF Complete, Completable, Gap, Expected, IInv, PlanWindows
  <2>3. Settled' = Settled \cup claims
    BY <2>1, <2>2 DEF Settled, Covered
  <2> QED
    BY <2>1, <2>2, <2>3 DEF Ledger!Settle, Settled
<1>2. ASSUME NEW p \in plans, CompleteWithFailures(p)
      PROVE  UNCHANGED <<date, universe, Settled, watermark, projected>>
  BY <1>2, LedgerStands DEF CompleteWithFailures
<1> QED
  BY <1>1, <1>2 DEF Finalize

LEMMA LedgerWrite ==
  ASSUME MoveInv, NEW s \in Symbols, WorkerWrite(s)
  PROVE  Ledger!Rewrite(s)
<1>1. /\ projected' = [projected EXCEPT ![s] = worker.cycle] /\ worker.cycle # 0
      /\ UNCHANGED <<date, universe, bars, missing, watermark>>
  BY DEF WorkerWrite, sessionVars
<1>2. Settled' = Settled
  BY <1>1 DEF Settled, Covered
<1>3. projected \in [Symbols -> Nat] /\ worker.cycle \in Nat /\ projected[s] <= worker.cycle
  BY <1>1, SessionFacts DEF MoveInv, WorkIsYoungest
<1>4. projected'[s] = worker.cycle
  BY <1>1, <1>3
<1> QED
  BY <1>1, <1>2, <1>3, <1>4 DEF Ledger!Rewrite

\* What the plan in hand has written is what every eligible symbol carries.
LEMMA LedgerFinish ==
  ASSUME MoveInv, MoveInv', WorkerFinish \/ WorkerFail
  PROVE  Ledger!Advance \/ UNCHANGED <<date, universe, Settled, watermark, projected>>
<1>1. UNCHANGED <<date, universe, bars, missing, projected>>
  BY DEF WorkerFinish, WorkerFail, FinishProcessing, sessionVars
<1>2. CASE watermark' = watermark
  BY <1>1, <1>2, LedgerStands
<1>3. CASE watermark' # watermark
  <2>1. /\ watermark \in [Freqs -> Nat] /\ watermark' \in [Freqs -> Nat]
        /\ universe.eligible \subseteq Symbols
    BY SessionFacts DEF MoveInv, IInv, TypeOK
  <2>2. WorkerFinish /\ \E p \in plans : p.id = worker.cycle
    <3>1. CASE WorkerFail
      BY <1>3, <2>1, <3>1 DEF WorkerFail, FinishProcessing, sessionVars
    <3>2. CASE WorkerFinish
      BY <1>3, <3>2 DEF WorkerFinish, FinishProcessing, sessionVars
    <3> QED
      BY <3>1, <3>2
  <2>3. PICK p \in plans : p.id = worker.cycle
    BY <2>2
  <2>4. /\ plans = {p} /\ p.id # 0
        /\ watermark' = [f \in Freqs |-> IF f \in p.freqs THEN p.to[f] ELSE watermark[f]]
    <3>1. plans = {p} /\ p.id # 0 /\ {q \in plans : q.id = worker.cycle} = {p}
      BY <2>3, SessionFacts DEF MoveInv
    <3> QED
      BY <2>2, <3>1 DEF WorkerFinish, FinishProcessing
  <2>5. Ledger!AllRewritten
    <3>1. \A s \in universe.eligible : projected[s] = p.id
      BY <2>2, <2>3 DEF WorkerFinish, MoveInv, Written
    <3>2. \A s \in Symbols : projected[s] <= p.id
      BY <2>3 DEF MoveInv, PlanIsYoungest
    <3> QED
      BY <2>4, <3>1, <3>2 DEF Ledger!AllRewritten
  <2>6. \A f \in Freqs : watermark'[f] >= watermark[f]
    <3>1. \A f \in p.freqs : p.to[f] > watermark[f]
      BY DEF MoveInv, WindowsAhead
    <3>2. p.to \in [Freqs -> Nat]
      BY SessionFacts DEF MoveInv, Cycle
    <3> QED
      BY <2>1, <2>4, <3>1, <3>2
  <2>7. Ledger!SettledThrough(watermark')
    BY <1>1 DEF MoveInv, IInv, CompleteThroughWatermark, Covered, Settled, Ledger!SettledThrough
  <2>8. Settled' = Settled
    BY <1>1 DEF Settled, Covered
  <2> QED
    BY <1>1, <2>1, <2>5, <2>6, <2>7, <2>8 DEF Ledger!Advance
<1> QED
  BY <1>2, <1>3

LEMMA LedgerLost == Restart => Ledger!Lose
<1> SUFFICES ASSUME Restart PROVE Ledger!Lose
  OBVIOUS
<1>1. Settled' = {}
  BY DEF Restart, Settled, Covered
<1> QED
  BY <1>1 DEF Restart, Ledger!Lose, Ledger!Unmarked

LEMMA LedgerStep ==
  MoveInv /\ MoveInv' /\ [Next]_vars
    => [Ledger!Next]_<<date, universe, Settled, watermark, projected>>
<1> SUFFICES ASSUME MoveInv, MoveInv', [Next]_vars
             PROVE  Ledger!Next \/ UNCHANGED <<date, universe, Settled, watermark, projected>>
  OBVIOUS
<1>1. IInv
  BY DEF MoveInv
<1>2. CASE Plan \/ Push \/ Finalize \/ Restart
  BY <1>1, <1>2, LedgerPlan, LedgerPush, LedgerFinalize, LedgerLost DEF Ledger!Next
<1>3. CASE \E s \in Symbols : WorkerWrite(s)
  BY <1>3, LedgerWrite DEF Ledger!Next
<1>4. CASE WorkerFinish \/ WorkerFail
  BY <1>4, LedgerFinish DEF Ledger!Next
<1>5. CASE \/ \E p \in plans : AgePlan(p) \/ Abort(p)
           \/ \E c \in accepted : Enqueue(c) \/ EnqueueCancelled(c)
           \/ WorkerTake \/ UNCHANGED vars
  <2>1. UNCHANGED <<date, universe, bars, missing, watermark, projected>>
    BY <1>5 DEF AgePlan, Abort, Enqueue, EnqueueCancelled, WorkerTake, vars, sessionVars
  <2> QED
    BY <2>1, LedgerStands
<1> QED
  BY <1>2, <1>3, <1>4, <1>5 DEF Next, Compute

\* The store and its worker implement DayLedger: every step opens, settles,
\* rewrites, advances or loses the ledger as it says, or leaves it alone.
THEOREM SessionKeepsTheLedger == Spec => LedgerSpec
<1>1. Spec => Ledger!Init /\ [][Ledger!Next]_<<date, universe, Settled, watermark, projected>>
  BY LedgerInit, LedgerStep, MoveInvHolds, PTL DEF Spec
<1> QED
  BY <1>1 DEF LedgerSpec, Ledger!Spec, Ledger!ledger

\* DayLedger promises enough: whoever keeps it has every close of the pool known
\* or proved absent up to its marks.
THEOREM LedgerIsComplete == LedgerSpec => []CompleteThroughWatermark
<1> DEFINE now == <<date, universe, Settled, watermark, projected>>
<1>1. \A k \in Keys : k[2] \in Freqs /\ k[3] \in Nat \ {0}
  BY KeyFields
<1>2. (watermark = [f \in Freqs |-> 0]) => CompleteThroughWatermark
  BY <1>1 DEF CompleteThroughWatermark
<1>3. Ledger!Init => CompleteThroughWatermark
  BY <1>2 DEF Ledger!Init, Ledger!Unmarked
<1>4. ASSUME CompleteThroughWatermark, Ledger!Next
      PROVE  CompleteThroughWatermark'
  <2>1. CASE Ledger!Open \/ Ledger!Lose
    BY <1>1, <2>1 DEF Ledger!Open, Ledger!Lose, Ledger!Unmarked, CompleteThroughWatermark
  <2>2. CASE Ledger!Settle
    BY <1>4, <2>2 DEF Ledger!Settle, CompleteThroughWatermark, Settled
  <2>3. CASE \E s \in Symbols : Ledger!Rewrite(s)
    BY <1>4, <2>3 DEF Ledger!Rewrite, CompleteThroughWatermark, Settled
  <2>4. CASE Ledger!Advance
    BY <2>4 DEF Ledger!Advance, Ledger!SettledThrough, CompleteThroughWatermark, Settled
  <2> QED
    BY <1>4, <2>1, <2>2, <2>3, <2>4 DEF Ledger!Next
<1>5. CompleteThroughWatermark /\ UNCHANGED now => CompleteThroughWatermark'
  BY DEF CompleteThroughWatermark, Settled
<1>6. CompleteThroughWatermark /\ [Ledger!Next]_now => CompleteThroughWatermark'
  BY <1>4, <1>5
<1>7. Ledger!Spec => []CompleteThroughWatermark
  BY <1>3, <1>6, PTL DEF Ledger!Spec, Ledger!ledger
<1> QED
  BY <1>7 DEF LedgerSpec

-----------------------------------------------------------------------------
(***************************************************************************)
(* InFlight.  A completed plan is in flight, and what is in flight ends    *)
(* only by a report on that plan, with the session, or with the process.   *)
(***************************************************************************)
SessionIsOpen == inFlight \/ plans # {} => date # NoDate

CompletedInFlight == \A p \in plans : p.completed => inFlight

FlightInv == IInv /\ SessionIsOpen /\ CompletedInFlight

\* While a computation is in flight nobody collects, and only another pool of
\* the same date opens a new session.
LEMMA StepsInFlight ==
  ASSUME FlightInv, Next, inFlight
  PROVE  \/ /\ UNCHANGED <<date, universe, inFlight, workVars>> /\ plans' \subseteq plans
         \/ /\ date' = date /\ universe' # universe
         \/ /\ (\E c \in accepted : Enqueue(c) \/ EnqueueCancelled(c)) \/ Compute
         \/ /\ Restart
<1>1. /\ \A p \in plans : p.completed
      /\ date # NoDate
  BY DEF FlightInv, IInv, InFlightCompleted, SessionIsOpen
<1>2. ~Push /\ ~Finalize /\ \A p \in plans : ~AgePlan(p)
  BY <1>1 DEF Push, AcceptBatch, Accepts, Finalize, Complete, Completable,
     CompleteWithFailures, AgePlan
<1>3. CASE Plan
  <2>1. PICK d \in Dates, pool \in Universes, avail \in Availability : BeginPlan(d, pool, avail)
    BY <1>3 DEF Plan
  <2>2. CASE BeginPlanRefused(d, pool)
    BY <2>1, <2>2 DEF BeginPlanRefused, BeginPlan, ExpireAbandonedPlans
  <2>3. CASE BeginPlanNewSession(d, pool, avail)
    BY <1>1, <2>3 DEF BeginPlanNewSession, NeedsNewSession, RefusesDate, Busy
  <2>4. ~BeginPlanSameSession(d, pool, avail)
    BY DEF BeginPlanSameSession, Busy
  <2> QED
    BY <2>1, <2>2, <2>3, <2>4 DEF BeginPlan
<1>4. CASE \E p \in plans : Abort(p)
  BY <1>4 DEF Abort
<1> QED
  BY <1>2, <1>3, <1>4 DEF Next

LEMMA FlightNext == FlightInv /\ [Next]_vars => FlightInv'
<1> SUFFICES ASSUME FlightInv, [Next]_vars PROVE FlightInv'
  OBVIOUS
<1>1. IInv /\ IInv'
  BY NextInv DEF FlightInv
<1> SUFFICES (SessionIsOpen /\ CompletedInFlight)'
  BY <1>1 DEF FlightInv
<1>2. ASSUME UNCHANGED <<date, inFlight>>, plans' \subseteq plans
      PROVE  (SessionIsOpen /\ CompletedInFlight)'
  BY <1>2 DEF FlightInv, SessionIsOpen, CompletedInFlight
<1>3. ASSUME NEW p \in plans, NEW q, plans' = (plans \ {p}) \cup {q}, date' = date,
             (inFlight' = inFlight /\ q.completed = p.completed) \/ inFlight' = TRUE
      PROVE  (SessionIsOpen /\ CompletedInFlight)'
  BY <1>3 DEF FlightInv, SessionIsOpen, CompletedInFlight
<1>4. CASE Plan
  <2>1. PICK d \in Dates, pool \in Universes, avail \in Availability : BeginPlan(d, pool, avail)
    BY <1>4 DEF Plan
  <2>2. ASSUME NEW mark, IssuePlan(pool, mark, avail)
        PROVE  \A p \in plans' : ~p.completed
    <3>1. PICK q : q = NewCycle(lastCycle + 1, pool, mark, avail)
      OBVIOUS
    <3>2. ~q.completed
      BY <3>1 DEF NewCycle
    <3> QED
      BY <2>2, <3>1, <3>2 DEF IssuePlan
  <2>3. CASE BeginPlanNewSession(d, pool, avail)
    <3>1. date' # NoDate
      BY <2>3, DatesAssumption DEF BeginPlanNewSession
    <3>2. \A p \in plans' : ~p.completed
      BY <2>2, <2>3 DEF BeginPlanNewSession
    <3> QED
      BY <3>1, <3>2 DEF SessionIsOpen, CompletedInFlight
  <2>4. CASE BeginPlanSameSession(d, pool, avail)
    <3>1. /\ date' = date /\ date # NoDate
          /\ plans' \subseteq plans \/ IssuePlan(pool, watermark, avail)
          /\ inFlight' = inFlight
      BY <2>4 DEF BeginPlanSameSession, NeedsNewSession, ExpireAbandonedPlans
    <3>2. \A p \in plans' : p.completed => inFlight'
      BY <2>2, <3>1 DEF FlightInv, CompletedInFlight
    <3> QED
      BY <3>1, <3>2 DEF SessionIsOpen, CompletedInFlight
  <2>5. CASE BeginPlanRefused(d, pool)
    BY <1>2, <2>5 DEF BeginPlanRefused, ExpireAbandonedPlans
  <2> QED
    BY <2>1, <2>3, <2>4, <2>5 DEF BeginPlan
<1>5. CASE Push
  <2>1. PICK p \in plans, sent \in SUBSET Keys : \E batch \in [sent -> Rows] : AcceptBatch(p, batch)
    BY <1>5 DEF Push, Expected
  <2>2. PICK batch \in [sent -> Rows] : AcceptBatch(p, batch)
    BY <2>1
  <2>3. PICK q : q = [p EXCEPT !.received = @ \cup DOMAIN batch]
    OBVIOUS
  <2>4. q.completed = p.completed
    BY <1>1, <2>3, SessionFacts DEF Cycle
  <2> QED
    BY <1>3, <2>2, <2>3, <2>4 DEF AcceptBatch
<1>6. CASE Finalize
  <2>1. ASSUME NEW p \in plans, NEW listed, NEW claims, NEW confirmed,
               Complete(p, listed, claims, confirmed)
        PROVE  (SessionIsOpen /\ CompletedInFlight)'
    <3>1. PICK q : q = [p EXCEPT !.completed = TRUE]
      OBVIOUS
    <3> QED
      BY <1>3, <2>1, <3>1 DEF Complete
  <2>2. ASSUME NEW p \in plans, CompleteWithFailures(p)
        PROVE  (SessionIsOpen /\ CompletedInFlight)'
    BY <1>2, <2>2 DEF CompleteWithFailures
  <2> QED
    BY <1>6, <2>1, <2>2 DEF Finalize
<1>7. ASSUME NEW p \in plans, AgePlan(p)
      PROVE  (SessionIsOpen /\ CompletedInFlight)'
  <2>1. PICK q : q = [p EXCEPT !.aged = TRUE]
    OBVIOUS
  <2>2. q.completed = p.completed
    BY <1>1, <2>1, SessionFacts DEF Cycle
  <2> QED
    BY <1>3, <1>7, <2>1, <2>2 DEF AgePlan
<1>8. CASE WorkerFinish \/ WorkerFail
  <2>1. \/ UNCHANGED sessionVars
        \/ plans' = {} /\ inFlight' = FALSE
    BY <1>1, <1>8, SessionFacts DEF WorkerFinish, WorkerFail, FinishProcessing
  <2> QED
    BY <1>2, <2>1 DEF sessionVars, SessionIsOpen, CompletedInFlight
<1>9. CASE Restart
  BY <1>9 DEF Restart, SessionIsOpen, CompletedInFlight
<1>10. CASE \/ \E p \in plans : Abort(p)
            \/ \E c \in accepted : Enqueue(c) \/ EnqueueCancelled(c)
            \/ WorkerTake \/ (\E s \in Symbols : WorkerWrite(s)) \/ UNCHANGED vars
  <2>1. UNCHANGED <<date, inFlight>> /\ plans' \subseteq plans
    BY <1>10 DEF Abort, Enqueue, EnqueueCancelled, WorkerTake, WorkerWrite, vars, sessionVars
  <2> QED
    BY <1>2, <2>1
<1> QED
  BY <1>1, <1>4, <1>5, <1>6, <1>7, <1>8, <1>9, <1>10 DEF Next, Compute

LEMMA FlightInvHolds == Spec => []FlightInv
<1>1. Init => FlightInv
  BY InitInv DEF Init, FlightInv, SessionIsOpen, CompletedInFlight
<1> QED
  BY <1>1, FlightNext, PTL DEF Spec

LEMMA QueueElements ==
  ASSUME NEW q \in Seq(Nat)
  PROVE  /\ \A c \in Nat : {Append(q, c)[i] : i \in DOMAIN Append(q, c)}
                             \subseteq {q[i] : i \in DOMAIN q} \cup {c}
         /\ q # << >> => {Tail(q)[i] : i \in DOMAIN Tail(q)} \cup {Head(q)}
                             \subseteq {q[i] : i \in DOMAIN q}
<1>1. ASSUME NEW c \in Nat, NEW i \in DOMAIN Append(q, c)
      PROVE  Append(q, c)[i] \in {q[j] : j \in DOMAIN q} \cup {c}
  OBVIOUS
<1>2. ASSUME q # << >>, NEW i \in DOMAIN Tail(q)
      PROVE  Tail(q)[i] \in {q[j] : j \in DOMAIN q}
  BY <1>2
<1>3. ASSUME q # << >>
      PROVE  Head(q) \in {q[j] : j \in DOMAIN q}
  BY <1>3
<1> QED
  BY <1>1, <1>2, <1>3

\* The controller and the worker pass cycles on; only a restart or a plan's
\* completion adds to them.
LEMMA AtWorkShrinks ==
  ASSUME IInv, (\E c \in accepted : Enqueue(c) \/ EnqueueCancelled(c)) \/ Compute
  PROVE  AtWork' \subseteq AtWork \cup {0}
<1>1. queue \in Seq(Nat) /\ accepted \subseteq Nat /\ Idle.cycle = 0
  BY DEF IInv, TypeOK, Idle
<1>2. ASSUME NEW c \in accepted, Enqueue(c) \/ EnqueueCancelled(c)
      PROVE  AtWork' \subseteq AtWork
  BY <1>1, <1>2, QueueElements DEF Enqueue, EnqueueCancelled, AtWork
<1>3. CASE WorkerTake
  <2>1. worker'.cycle \in {0, Head(queue)}
    BY <1>1, <1>3 DEF WorkerTake
  <2> QED
    BY <1>1, <1>3, <2>1, QueueElements DEF WorkerTake, AtWork
<1>4. CASE \E s \in Symbols : WorkerWrite(s)
  <2>1. worker'.cycle = worker.cycle
    BY <1>4 DEF WorkerWrite, IInv, TypeOK
  <2> QED
    BY <1>4, <2>1 DEF WorkerWrite, AtWork
<1>5. CASE WorkerFinish \/ WorkerFail
  BY <1>1, <1>5 DEF WorkerFinish, WorkerFail, AtWork
<1> QED
  BY <1>2, <1>3, <1>4, <1>5 DEF Compute

\* A lost computation is never reported on, and while InFlight stays no plan is
\* issued, completed or moved to another date.
THEOREM StallsLast == Spec => OnlyNewPoolEndsStall
<1>1. ASSUME FlightInv, Next, Stalled, ~Stalled'
      PROVE  date' = NoDate \/ (date' = date /\ universe' # universe)
  <2>1. IInv /\ inFlight /\ \A p \in plans : p.id \notin AtWork /\ p.id # 0
    BY <1>1, SessionFacts DEF FlightInv, Stalled
  <2>2. ~(inFlight' /\ plans' \subseteq plans /\ AtWork' \subseteq AtWork \cup {0})
    BY <1>1, <2>1 DEF Stalled
  <2>3. CASE UNCHANGED <<inFlight, workVars>> /\ plans' \subseteq plans
    BY <2>1, <2>2, <2>3 DEF workVars, AtWork
  <2>4. CASE (\E c \in accepted : Enqueue(c) \/ EnqueueCancelled(c)) \/ Compute
    <3>1. AtWork' \subseteq AtWork \cup {0}
      BY <2>1, <2>4, AtWorkShrinks
    <3>2. {p \in plans : p.id = worker.cycle} = {}
      BY <2>1 DEF AtWork
    <3>3. UNCHANGED sessionVars
      BY <2>4, <3>2 DEF Enqueue, EnqueueCancelled, Compute, WorkerTake, WorkerWrite,
         WorkerFinish, WorkerFail, FinishProcessing
    <3> QED
      BY <2>1, <2>2, <3>1, <3>3 DEF sessionVars
  <2>5. CASE Restart
    BY <2>5 DEF Restart
  <2> QED
    BY <1>1, <2>1, <2>3, <2>4, <2>5, StepsInFlight
<1>2. FlightInv /\ [Next]_vars =>
        [Stalled /\ ~Stalled' =>
           \/ date' = NoDate
           \/ date' = date /\ universe' # universe]_vars
  BY <1>1
<1> QED
  BY <1>2, FlightInvHolds, PTL DEF Spec, OnlyNewPoolEndsStall

\* What is being computed is in flight, and no other plan is there.
WorkerAlone == worker.cycle # 0 => inFlight /\ \A p \in plans : p.id = worker.cycle

LEMMA WorkerAloneNext ==
  ASSUME FlightInv, WorkerAlone, [Next]_vars,
         inFlight => universe' = universe \/ date' = NoDate
  PROVE  WorkerAlone'
<1>1. IInv /\ Idle.cycle = 0 /\ (date = NoDate => ~inFlight)
  BY DEF FlightInv, Idle, SessionIsOpen
<1>2. CASE UNCHANGED vars
  BY <1>2 DEF vars, sessionVars, workVars, WorkerAlone
<1>3. ASSUME UNCHANGED <<worker, inFlight>>, plans' \subseteq plans
      PROVE  WorkerAlone'
  BY <1>3 DEF WorkerAlone
<1>4. CASE WorkerTake
  <2>1. CASE worker' = Idle
    BY <1>1, <2>1 DEF WorkerAlone
  <2>2. CASE worker' # Idle
    <3>1. PICK p \in plans : p.id = Head(queue) /\ p.completed
      BY <1>4, <2>2 DEF WorkerTake, CompletedPlan
    <3>2. plans = {p} /\ worker'.cycle = p.id /\ UNCHANGED <<plans, inFlight>>
      BY <1>1, <1>4, <2>2, <3>1, SessionFacts DEF WorkerTake, sessionVars
    <3>3. inFlight
      BY <3>1 DEF FlightInv, CompletedInFlight
    <3> QED
      BY <3>2, <3>3 DEF WorkerAlone
  <2> QED
    BY <2>1, <2>2
<1>5. CASE \E s \in Symbols : WorkerWrite(s)
  <2>1. worker'.cycle = worker.cycle /\ UNCHANGED <<plans, inFlight>>
    BY <1>1, <1>5 DEF WorkerWrite, sessionVars, IInv, TypeOK
  <2> QED
    BY <2>1 DEF WorkerAlone
<1>6. CASE WorkerFinish \/ WorkerFail \/ Restart
  BY <1>1, <1>6 DEF WorkerFinish, WorkerFail, Restart, WorkerAlone
<1>7. CASE \E c \in accepted : Enqueue(c) \/ EnqueueCancelled(c)
  BY <1>3, <1>7 DEF Enqueue, EnqueueCancelled, sessionVars
<1>8. CASE worker.cycle = 0 /\ UNCHANGED worker
  BY <1>8 DEF WorkerAlone
<1>9. CASE worker.cycle # 0 /\ Next
  <2>1. inFlight /\ date # NoDate
    BY <1>1, <1>9 DEF WorkerAlone
  <2>2. CASE UNCHANGED <<date, universe, inFlight, workVars>> /\ plans' \subseteq plans
    BY <1>3, <2>2 DEF workVars
  <2>3. ~(date' = date /\ universe' # universe)
    BY <2>1
  <2> QED
    BY <1>4, <1>5, <1>6, <1>7, <1>9, <2>1, <2>2, <2>3, StepsInFlight DEF Compute
<1>10. Next => UNCHANGED worker \/ Compute \/ Restart
  BY DEF Next, Plan, BeginPlan, Push, AcceptBatch, Finalize, Complete, CompleteWithFailures,
     AgePlan, Abort, Enqueue, EnqueueCancelled, workVars
<1> QED
  BY <1>2, <1>4, <1>5, <1>6, <1>8, <1>9, <1>10 DEF Compute

\* The store's refusal keeps what it says as long as the pool does not change
\* under a computation: that, and nothing else, lets a second plan in.
THEOREM OverlapNeedsNewPool == Spec /\ PoolStaysWhileComputing => []NoPlanWhileComputing
<1>1. Init => WorkerAlone
  BY DEF Init, Idle, WorkerAlone
<1>2. /\ FlightInv /\ WorkerAlone /\ [Next]_vars
      /\ [inFlight => universe' = universe \/ date' = NoDate]_vars
      => WorkerAlone'
  <2> SUFFICES ASSUME FlightInv, WorkerAlone, [Next]_vars,
                      [inFlight => universe' = universe \/ date' = NoDate]_vars
               PROVE  WorkerAlone'
    OBVIOUS
  <2>1. UNCHANGED vars => universe' = universe
    BY DEF vars, sessionVars
  <2> QED
    BY <2>1, WorkerAloneNext
<1>3. WorkerAlone => NoPlanWhileComputing
  BY DEF WorkerAlone, NoPlanWhileComputing
<1> QED
  BY <1>1, <1>2, <1>3, FlightInvHolds, PTL DEF Spec, PoolStaysWhileComputing
=============================================================================
