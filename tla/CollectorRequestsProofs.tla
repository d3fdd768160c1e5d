------------------------ MODULE CollectorRequestsProofs ------------------------
(***************************************************************************)
(* What the supervisor and its jobs keep true of their requests, for every *)
(* number of symbols, closes, workers, attempts and faults.                *)
(*                                                                         *)
(* The store never has a plan of another cycle than the last one issued,   *)
(* and while the supervisor is in a cycle it is that one (Ids).  A symbol  *)
(* is then waiting, in one job, or done (GroupsApart), and a close that is *)
(* on its way or received belongs to the one job that read it (Pushed), or *)
(* to a job that has returned with everything received (Returned).  So no  *)
(* two requests of a cycle disagree about a close, and the manifest is the *)
(* gap of the symbols that are done (ManifestIsGap).                       *)
(***************************************************************************)
EXTENDS CollectorProtocolProofs

Live    == {p \in plans : ~p.completed}
Batches == {m \in wire : m.kind = "batch" /\ m.cycle = lastCycle}
Ends    == {m \in wire : m.kind = "complete" /\ m.cycle = lastCycle}
MyJobs  == {j \in jobs : j.cycle = lastCycle}

\* The close k of the current cycle is in memory or on its way.
Out(p, k) == k \in p.received \/ \E m \in Batches : k \in DOMAIN m.rows

-----------------------------------------------------------------------------
(***************************************************************************)
(* The supervisor.                                                         *)
(***************************************************************************)
Ids ==
  /\ phase \in Phases
  /\ phase = "idle" => /\ plan = NoCycle /\ pending = {} /\ succeeded = {} /\ manifest = {}
                       /\ ~stopping
  /\ phase # "collecting" => pending = {}
  /\ phase # "idle" => plan.id = lastCycle
  /\ \A p \in plans : p.id = lastCycle
  /\ \A j \in jobs : j.cycle <= lastCycle
  /\ \A m \in wire : m.cycle \in Nat /\ m.cycle <= lastCycle

PlanCopied == phase # "idle" => \A p \in plans : /\ p.symbols = plan.symbols
                                                 /\ Expected(p) = Expected(plan)

\* While the supervisor collects nobody has asked for the end of its cycle.
NotEnded == phase = "collecting" => Ends = {} /\ Live = plans

PoolIsClean ==
  /\ phase = "collecting" /\ ~stopping => plan.symbols \cap blacklist = {}
  /\ \A m \in Ends : m.symbols \cap blacklist = {}
  /\ NoBlacklistedCompletion

Books ==
  /\ pending \subseteq plan.symbols /\ succeeded \subseteq plan.symbols
  /\ pending \cap succeeded = {}
  /\ manifest \subseteq Expected(plan)
  /\ failures \in [Symbols -> 0..(MaxFailureAttempts - 1)]
  /\ blacklist \subseteq Symbols /\ apiBlacklist \subseteq blacklist

JobFits(j) ==
  /\ j.bad \subseteq j.group
  /\ j.unsent \cup j.sent \subseteq DOMAIN j.rows /\ j.unsent \cap j.sent = {}
  /\ DOMAIN j.rows \subseteq j.due
  /\ \A k \in j.due : k[1] \in j.group
  /\ \A k \in DOMAIN j.rows : k[1] \notin j.bad
  /\ j.stage = "reading" => DOMAIN j.rows = {}
  /\ j.attempt <= MaxAttempts
  /\ j.ack # "none" => j.sent # {}

\* A symbol of the cycle waits, is in one job, or is done.
GroupApart(j) ==
  phase = "collecting" => /\ j.group \subseteq plan.symbols
                          /\ j.group \cap pending = {} /\ j.group \cap succeeded = {}
                          /\ j.due = {k \in Expected(plan) : k[1] \in j.group}

GroupsApart == \A i, j \in MyJobs : i # j => i.group \cap j.group = {}

SupInv == /\ Ids /\ PlanCopied /\ NotEnded /\ PoolIsClean /\ Books
          /\ \A j \in jobs : JobFits(j)
          /\ \A j \in MyJobs : GroupApart(j)
          /\ GroupsApart

-----------------------------------------------------------------------------
(***************************************************************************)
(* The requests, while the store still collects for the plan p.            *)
(***************************************************************************)
\* No two of the store, the jobs and the requests disagree about a bar.
Agreed(p) ==
  /\ \A m \in Batches : \A k \in DOMAIN m.rows : k \in p.received => bars[k] = m.rows[k]
  /\ \A j \in MyJobs : \A k \in DOMAIN j.rows : k \in p.received => bars[k] = j.rows[k]
  /\ \A m, n \in Batches : \A k \in (DOMAIN m.rows) \cap (DOMAIN n.rows) : m.rows[k] = n.rows[k]
  /\ \A j \in MyJobs, m \in Batches :
       \A k \in (DOMAIN j.rows) \cap (DOMAIN m.rows) : j.rows[k] = m.rows[k]

InWindow(p) == /\ \A k \in Keys : Out(p, k) => k \in Expected(p)
               /\ \A m \in Batches : DOMAIN m.rows \subseteq Expected(p)
               /\ \A j \in MyJobs : j.due \subseteq Expected(p)

Pushed(p, j) ==
  /\ \A k \in Keys : Out(p, k) /\ k[1] \in j.group => k \in (DOMAIN j.rows) \ j.unsent
  /\ j.stage = "pushing" => (DOMAIN j.rows) \ (j.unsent \cup j.sent) \subseteq p.received
  /\ j.ack = "accepted" => j.sent \subseteq p.received

Returned(p) ==
  phase = "collecting" =>
    \A k \in Keys : Out(p, k) => /\ k[1] \notin pending
                                 /\ k[1] \in succeeded => k \in p.received

ManifestIsGap(p) ==
  phase = "collecting" =>
    manifest = {k \in Expected(plan) : k[1] \in succeeded /\ k \notin p.received}

\* A completion is the last request of its cycle that changes anything.
EndIsLast(p) ==
  \A e \in Ends : /\ e.symbols = p.symbols /\ e.claims = Gap(p)
                  /\ MyJobs = {}
                  /\ \A m \in Batches : DOMAIN m.rows \subseteq p.received

ReqInv(p) == /\ Agreed(p) /\ InWindow(p) /\ Returned(p) /\ ManifestIsGap(p) /\ EndIsLast(p)
             /\ \A j \in MyJobs : Pushed(p, j)

RInv == PInv /\ SupInv /\ \A p \in Live : ReqInv(p)

-----------------------------------------------------------------------------
(***************************************************************************)
(* Lemmas about the state.                                                 *)
(***************************************************************************)
\* A live plan is the only one, and that of the last cycle.
LEMMA LivePlan ==
  ASSUME RInv, NEW p \in plans
  PROVE  plans = {p} /\ p \in Cycle /\ p.id = lastCycle
BY DEF RInv, PInv, IInv, OnePlan, TypeOK, SupInv, Ids

\* What ages, receives or completes keeps its window and its pool.
Copies(p, q) == /\ q.id = p.id /\ q.symbols = p.symbols
                /\ Expected(q) = Expected(p)

LEMMA UpdatedCopies ==
  ASSUME NEW p \in Cycle, NEW r, NEW b
  PROVE  /\ Copies(p, [p EXCEPT !.aged = b])
         /\ Copies(p, [p EXCEPT !.completed = b])
         /\ Copies(p, [p EXCEPT !.received = r])
<1>1. Copies(p, [p EXCEPT !.aged = b])
  BY DEF Copies, Expected, Cycle
<1>2. Copies(p, [p EXCEPT !.completed = b])
  BY DEF Copies, Expected, Cycle
<1>3. Copies(p, [p EXCEPT !.received = r])
  BY DEF Copies, Expected, Cycle
<1> QED
  BY <1>1, <1>2, <1>3

\* BeginPlan issues a plan of a new cycle, or drops what has been abandoned.
Fresh(q, pool) == q.id = lastCycle + 1 /\ q.symbols = pool.symbols /\ q.received = {} /\ ~q.completed

Issues(pool) == lastCycle' = lastCycle + 1 /\ \E q : plans' = {q} /\ Fresh(q, pool)

IssuesNothing == lastCycle' = lastCycle /\ plans' \subseteq plans /\ bars' = bars

LEMMA BeginPlanSteps ==
  ASSUME NEW d, NEW pool, NEW avail, BeginPlan(d, pool, avail)
  PROVE  Issues(pool) \/ IssuesNothing
<1>1. ASSUME NEW mark, IssuePlan(pool, mark, avail)
      PROVE  Issues(pool)
  <2> DEFINE q == NewCycle(lastCycle + 1, pool, mark, avail)
  <2>1. Fresh(q, pool)
    BY DEF NewCycle, Fresh
  <2>2. plans' = {q} /\ lastCycle' = lastCycle + 1
    BY <1>1 DEF IssuePlan
  <2> HIDE DEF q
  <2> QED
    BY <2>1, <2>2 DEF Issues
<1>2. ExpireAbandonedPlans => plans' \subseteq plans
  BY DEF ExpireAbandonedPlans
<1>3. CASE BeginPlanRefused(d, pool)
  BY <1>3, <1>2 DEF BeginPlanRefused, IssuesNothing
<1>4. CASE BeginPlanNewSession(d, pool, avail)
  BY <1>4, <1>1 DEF BeginPlanNewSession
<1>5. CASE BeginPlanSameSession(d, pool, avail)
  BY <1>5, <1>1, <1>2 DEF BeginPlanSameSession, IssuesNothing
<1> QED
  BY <1>3, <1>4, <1>5 DEF BeginPlan

-----------------------------------------------------------------------------
(***************************************************************************)
(* The supervisor's part is preserved.                                     *)
(***************************************************************************)
\* A job keeps its cycle, its group and the closes it must account for.
SameGroup(i, j) == j.cycle = i.cycle /\ j.group = i.group /\ j.due = i.due

JobsFollow ==
  /\ \A k \in jobs' : JobFits(k) /\ \E j \in jobs : SameGroup(j, k)
  /\ \A k, l \in jobs' : k # l =>
       \E i, j \in jobs : i # j /\ SameGroup(i, k) /\ SameGroup(j, l)

LEMMA FewerJobsFollow ==
  ASSUME SupInv, jobs' \subseteq jobs
  PROVE  JobsFollow
BY DEF SupInv, JobsFollow, SameGroup

LEMMA NextJobFollows ==
  ASSUME SupInv, NEW j \in jobs, NEW k, SameGroup(j, k), JobFits(k), Become(j, k)
  PROVE  JobsFollow
<1>1. jobs' = (jobs \ {j}) \cup {k}
  BY DEF Become
<1>2. \A i \in jobs : JobFits(i) /\ SameGroup(i, i)
  BY DEF SupInv, SameGroup
<1> QED
  BY <1>1, <1>2 DEF JobsFollow

\* The store's plans lose members, or copies replace them.
PlansFollow ==
  \A q \in plans' : \E p \in plans :
    /\ Copies(p, q)
    /\ q.completed => p.completed \/ (phase # "collecting" /\ q.symbols \cap blacklist = {})

WireFollows ==
  \A m \in wire' : m \in wire \/ (m.kind = "batch" /\ m.cycle \in Nat /\ m.cycle <= lastCycle)

LEMMA SupFollows ==
  ASSUME SupInv, JobsFollow, PlansFollow, WireFollows,
         UNCHANGED <<phase, plan, pending, succeeded, manifest, stopping, stateFile,
                     apiBlacklist, lastCycle>>
  PROVE  SupInv'
<1>1. Ids'
  BY DEF SupInv, Ids, JobsFollow, PlansFollow, WireFollows, SameGroup, Copies
<1>2. PlanCopied'
  BY DEF SupInv, PlanCopied, PlansFollow, Copies
<1>3. Ends' \subseteq Ends
  BY DEF Ends, WireFollows
<1>4. NotEnded'
  BY <1>3 DEF SupInv, NotEnded, Live, PlansFollow
<1>5. PoolIsClean'
  <2>1. NoBlacklistedCompletion'
    BY DEF SupInv, PoolIsClean, NoBlacklistedCompletion, PlansFollow, Copies, stateFile
  <2> QED
    BY <1>3, <2>1 DEF SupInv, PoolIsClean, stateFile
<1>6. Books'
  <2>1. Expected(plan)' = Expected(plan)
    BY DEF Expected
  <2> QED
    BY <2>1 DEF SupInv, Books, stateFile
<1>7. (\A j \in jobs : JobFits(j))'
  BY DEF JobsFollow
<1>8. (\A j \in MyJobs : GroupApart(j))'
  <2>1. Expected(plan)' = Expected(plan)
    BY DEF Expected
  <2> SUFFICES ASSUME NEW k \in MyJobs' PROVE GroupApart(k)'
    OBVIOUS
  <2>2. PICK j \in jobs : SameGroup(j, k)
    BY DEF JobsFollow, MyJobs
  <2>3. j \in MyJobs
    BY <2>2 DEF MyJobs, SameGroup
  <2> QED
    BY <2>1, <2>2, <2>3 DEF SupInv, GroupApart, SameGroup
<1>9. GroupsApart'
  <2> SUFFICES ASSUME NEW k \in MyJobs', NEW l \in MyJobs', k # l
               PROVE  k.group \cap l.group = {}
    BY DEF GroupsApart
  <2>1. PICK i \in jobs, j \in jobs : i # j /\ SameGroup(i, k) /\ SameGroup(j, l)
    BY DEF JobsFollow, MyJobs
  <2>2. i \in MyJobs /\ j \in MyJobs
    BY <2>1 DEF MyJobs, SameGroup
  <2> QED
    BY <2>1, <2>2 DEF SupInv, GroupsApart, SameGroup
<1> QED
  BY <1>1, <1>2, <1>4, <1>5, <1>6, <1>7, <1>8, <1>9 DEF SupInv

LEMMA SupReturns ==
  ASSUME SupInv, Return, jobs' \subseteq jobs, UNCHANGED <<plans, lastCycle, stateFile, apiBlacklist>>,
         \A m \in wire' : m \in wire \/ (m = Abortion(plan.id) /\ phase # "idle"),
         lastCycle \in Nat
  PROVE  SupInv'
<1>1. Ids'
  <2>1. \A m \in wire' : m.cycle \in Nat /\ m.cycle <= lastCycle
    BY DEF SupInv, Ids, Abortion
  <2> QED
    BY <2>1 DEF SupInv, Ids, Return, Phases
<1>2. PlanCopied' /\ NotEnded'
  BY DEF Return, PlanCopied, NotEnded
<1>3. Ends' \subseteq Ends
  BY DEF Ends, Abortion
<1>4. PoolIsClean'
  BY <1>3 DEF SupInv, PoolIsClean, NoBlacklistedCompletion, Return, stateFile
<1>5. Books'
  BY DEF SupInv, Books, Return, NoCycle, stateFile
<1>6. (\A j \in jobs : JobFits(j))'
  BY DEF SupInv
<1>7. (\A j \in MyJobs : GroupApart(j))' /\ GroupsApart'
  BY DEF SupInv, GroupApart, GroupsApart, Return, MyJobs
<1> QED
  BY <1>1, <1>2, <1>4, <1>5, <1>6, <1>7 DEF SupInv

\* Collecting is over, but not the cycle.
LEMMA SupStopsCollecting ==
  ASSUME SupInv, phase # "idle", phase' \in {"completing", "aborting"}, pending' = {},
         \A m \in wire' : m \in wire \/ (phase = "collecting" /\ ~stopping /\ m = Completion),
         UNCHANGED <<plan, succeeded, manifest, plans, lastCycle, stateFile, apiBlacklist, jobs>>,
         lastCycle \in Nat
  PROVE  SupInv'
<1>1. Ids'
  <2>1. \A m \in wire' : m.cycle \in Nat /\ m.cycle <= lastCycle
    BY DEF SupInv, Ids, Completion
  <2> QED
    BY <2>1 DEF SupInv, Ids, Phases
<1>2. PlanCopied' /\ NotEnded'
  BY DEF SupInv, PlanCopied, NotEnded, Expected
<1>3. \A e \in Ends' : e.symbols \cap blacklist = {}
  <2> SUFFICES ASSUME NEW e \in Ends' PROVE e.symbols \cap blacklist = {}
    OBVIOUS
  <2>1. CASE e \in wire
    BY <2>1 DEF Ends, SupInv, PoolIsClean
  <2>2. CASE e \notin wire
    BY <2>2 DEF Ends, SupInv, PoolIsClean, Completion
  <2> QED
    BY <2>1, <2>2
<1>4. PoolIsClean'
  BY <1>3 DEF SupInv, PoolIsClean, NoBlacklistedCompletion, stateFile
<1>5. Books'
  <2>1. Expected(plan)' = Expected(plan)
    BY DEF Expected
  <2> QED
    BY <2>1 DEF SupInv, Books, stateFile
<1>6. (\A j \in jobs : JobFits(j))'
  BY DEF SupInv
<1>7. (\A j \in MyJobs : GroupApart(j))' /\ GroupsApart'
  BY DEF SupInv, GroupApart, GroupsApart, MyJobs
<1> QED
  BY <1>1, <1>2, <1>4, <1>5, <1>6, <1>7 DEF SupInv

\* What is under way belongs to earlier cycles than a new one.
LEMMA IssuedIsNew ==
  ASSUME PInv, SupInv, NEW pool, Issues(pool), UNCHANGED jobs, wire' = wire
  PROVE  /\ lastCycle \in Nat /\ MyJobs' = {} /\ Ends' = {} /\ Batches' = {}
         /\ \A j \in jobs : j.cycle <= lastCycle'
         /\ \A m \in wire : m.cycle \in Nat /\ m.cycle <= lastCycle'
<1>1. lastCycle \in Nat /\ lastCycle' = lastCycle + 1
  BY DEF PInv, IInv, TypeOK, Issues
<1>2. \A j \in jobs : j.cycle \in Nat /\ j.cycle <= lastCycle
  BY DEF PInv, WireInv, JobType, SupInv, Ids
<1>3. \A m \in wire : m.cycle \in Nat /\ m.cycle <= lastCycle
  BY DEF SupInv, Ids
<1>4. MyJobs' = {}
  BY <1>1, <1>2 DEF MyJobs
<1>5. Ends' = {} /\ Batches' = {}
  BY <1>1, <1>3 DEF Ends, Batches
<1> QED
  BY <1>1, <1>2, <1>3, <1>4, <1>5

LEMMA SupIssued ==
  ASSUME PInv, SupInv, PInv', phase = "idle", NEW pool, NEW q, Fresh(q, pool), plans' = {q},
         lastCycle' = lastCycle + 1,
         UNCHANGED <<succeeded, manifest, stopping, stateFile, jobs, wire>>,
         \/ UNCHANGED <<phase, plan, pending, apiBlacklist>>
         \/ /\ plan' = q
            /\ phase' = IF Blocked(q) = {} THEN "collecting" ELSE "aborting"
            /\ pending' = IF Blocked(q) = {} THEN q.symbols ELSE {}
            /\ apiBlacklist' \subseteq apiBlacklist \cup Blocked(q)
  PROVE  SupInv'
<1>1. /\ lastCycle \in Nat /\ MyJobs' = {} /\ Ends' = {}
      /\ \A j \in jobs : j.cycle <= lastCycle'
      /\ \A m \in wire : m.cycle \in Nat /\ m.cycle <= lastCycle'
  BY IssuedIsNew DEF Issues
<1>2. q.id = lastCycle' /\ ~q.completed
  BY DEF Fresh
<1>3. plan = NoCycle /\ pending = {} /\ succeeded = {} /\ manifest = {} /\ ~stopping
  BY DEF SupInv, Ids
<1>4. Ids'
  BY <1>1, <1>2, <1>3 DEF SupInv, Ids, Phases
<1>5. PlanCopied'
  <2>1. ASSUME plan' = q PROVE Expected(q)' = Expected(plan)'
    BY <2>1 DEF Expected
  <2> QED
    BY <1>3, <2>1 DEF PlanCopied
<1>6. NotEnded'
  BY <1>1, <1>2 DEF NotEnded, Live
<1>7. PoolIsClean'
  <2>1. (phase = "collecting" /\ ~stopping => plan.symbols \cap blacklist = {})'
    BY DEF Blocked, stateFile
  <2> QED
    BY <1>1, <1>2, <2>1 DEF PoolIsClean, NoBlacklistedCompletion
<1>8. Books'
  BY <1>3 DEF SupInv, Books, Blocked, stateFile
<1>9. (\A j \in jobs : JobFits(j))'
  BY DEF SupInv
<1>10. (\A j \in MyJobs : GroupApart(j))' /\ GroupsApart'
  BY <1>1 DEF GroupsApart
<1> QED
  BY <1>4, <1>5, <1>6, <1>7, <1>8, <1>9, <1>10 DEF SupInv

LEMMA NewJobFields ==
  ASSUME NEW group
  PROVE  LET n == NewJob(group)
         IN  /\ n.cycle = plan.id /\ n.group = group /\ n.stage = "reading" /\ n.ack = "none"
             /\ n.due = {k \in Expected(plan) : k[1] \in group}
             /\ n.bad = {} /\ n.unsent = {} /\ n.sent = {} /\ DOMAIN n.rows = {} /\ n.attempt = 0
BY DEF NewJob, NoRows

LEMMA SupStartJob ==
  ASSUME PInv, SupInv, NEW group \in SUBSET pending, StartJob(group)
  PROVE  SupInv'
<1> DEFINE n == NewJob(group)
<1>1. /\ n.cycle = plan.id /\ n.group = group /\ n.stage = "reading"
      /\ n.due = {k \in Expected(plan) : k[1] \in group}
      /\ n.bad = {} /\ n.unsent = {} /\ n.sent = {} /\ DOMAIN n.rows = {} /\ n.attempt = 0
      /\ n.ack = "none"
  BY NewJobFields
<1>2. JobFits(n)
  <2>1. MaxAttempts \in Nat
    BY CollectorAssumption
  <2> QED
    BY <1>1, <2>1 DEF JobFits
<1>3. jobs' = jobs \cup {n} /\ pending' = pending \ group /\ phase = "collecting"
  BY DEF StartJob
<1> HIDE DEF n
<1>4. /\ UNCHANGED <<plans, lastCycle, phase, plan, succeeded, manifest, stopping, failures,
                     blacklist, wire, apiBlacklist>>
      /\ Expected(plan)' = Expected(plan)
  BY DEF StartJob, stateFile, vars, sessionVars, Expected
<1>5. plan.id = lastCycle /\ lastCycle \in Nat
  BY <1>3 DEF SupInv, Ids, PInv, IInv, TypeOK
<1>6. Ids'
  BY <1>1, <1>3, <1>4, <1>5 DEF SupInv, Ids
<1>7. PlanCopied' /\ NotEnded'
  <2>1. \A p \in plans : Expected(p)' = Expected(p)
    BY DEF Expected
  <2> QED
    BY <1>4, <2>1 DEF SupInv, PlanCopied, NotEnded, Ends, Live
<1>8. PoolIsClean'
  BY <1>4 DEF SupInv, PoolIsClean, NoBlacklistedCompletion, Ends
<1>9. Books'
  BY <1>3, <1>4 DEF SupInv, Books
<1>10. (\A j \in jobs : JobFits(j))'
  BY <1>2, <1>3 DEF SupInv
<1>11. MyJobs' = MyJobs \cup {n}
  BY <1>1, <1>3, <1>4, <1>5 DEF MyJobs
<1>12. (\A j \in MyJobs : GroupApart(j))'
  BY <1>1, <1>3, <1>4, <1>11 DEF SupInv, GroupApart, Books
<1>13. GroupsApart'
  BY <1>1, <1>3, <1>11 DEF SupInv, GroupsApart, GroupApart
<1> QED
  BY <1>6, <1>7, <1>8, <1>9, <1>10, <1>12, <1>13 DEF SupInv

LEMMA SupJobReturns ==
  ASSUME PInv, SupInv, NEW j \in jobs, JobReturns(j)
  PROVE  SupInv'
<1> DEFINE good  == j.group \ j.bad
           newly == {s \in j.bad : ReachesLimit(s)}
<1>1. /\ phase = "collecting" /\ j.cycle = plan.id
      /\ jobs' = jobs \ {j} /\ blacklist' = blacklist \cup newly
      /\ succeeded' = (succeeded \cup good) \ j.bad
      /\ manifest' = manifest \cup {k \in j.due \ DOMAIN j.rows : k[1] \in good}
      /\ stopping' = (stopping \/ newly # {})
      /\ pending' \in {{}, pending \cup j.bad}
      /\ UNCHANGED <<plans, lastCycle, phase, plan, wire>>
      /\ Expected(plan)' = Expected(plan)
  BY DEF JobReturns, Current, vars, sessionVars, Expected
<1>2. apiBlacklist' \subseteq apiBlacklist \cup newly
  BY DEF JobReturns, Report
<1>3. /\ failures' = [s \in Symbols |-> IF s \in good \cup newly THEN 0
                                        ELSE IF s \in j.bad THEN failures[s] + 1
                                        ELSE failures[s]]
  BY DEF JobReturns
<1>4. j \in MyJobs
  BY <1>1 DEF SupInv, Ids, MyJobs
<1>5. /\ j.bad \subseteq j.group /\ j.group \subseteq plan.symbols
      /\ j.group \cap pending = {} /\ j.group \cap succeeded = {}
      /\ j.due \subseteq Expected(plan)
  BY <1>1, <1>4 DEF SupInv, JobFits, GroupApart
<1>6. plan.symbols \subseteq Symbols
  BY DEF PInv, WireInv, Cycle
<1>7. newly \subseteq j.bad /\ \A s \in j.bad \ newly : ~ReachesLimit(s)
  OBVIOUS
<1> HIDE DEF newly
<1>8. failures' \in [Symbols -> 0..(MaxFailureAttempts - 1)]
  <2>1. MaxFailureAttempts \in Nat \ {0} /\ failures \in [Symbols -> 0..(MaxFailureAttempts - 1)]
    BY CollectorAssumption DEF SupInv, Books
  <2>2. ASSUME NEW s \in Symbols, s \in j.bad, s \notin newly
        PROVE  failures[s] + 1 \in 0..(MaxFailureAttempts - 1)
    <3>1. ~(failures[s] + 1 >= MaxFailureAttempts)
      BY <1>7, <2>2 DEF ReachesLimit
    <3> QED
      BY <2>1, <3>1
  <2>3. ASSUME NEW s \in Symbols
        PROVE  failures'[s] \in 0..(MaxFailureAttempts - 1)
    <3>1. 0 \in 0..(MaxFailureAttempts - 1) /\ failures[s] \in 0..(MaxFailureAttempts - 1)
      BY <2>1
    <3> QED
      BY <1>3, <2>2, <3>1
  <2> QED
    BY <1>3, <2>3
<1>9. Books'
  <2>1. pending' \subseteq plan.symbols /\ succeeded' \subseteq plan.symbols
    BY <1>1, <1>5 DEF SupInv, Books
  <2>2. pending' \cap succeeded' = {}
    BY <1>1, <1>5 DEF SupInv, Books
  <2>3. manifest' \subseteq Expected(plan)
    BY <1>1, <1>5 DEF SupInv, Books
  <2>4. blacklist' \subseteq Symbols /\ apiBlacklist' \subseteq blacklist'
    BY <1>1, <1>2, <1>5, <1>6, <1>7 DEF SupInv, Books
  <2> QED
    BY <1>1, <1>8, <2>1, <2>2, <2>3, <2>4 DEF Books
<1>10. Ids'
  BY <1>1 DEF SupInv, Ids
<1>11. PlanCopied' /\ NotEnded'
  <2>1. \A p \in plans : Expected(p)' = Expected(p)
    BY DEF Expected
  <2> QED
    BY <1>1, <2>1 DEF SupInv, PlanCopied, NotEnded, Ends, Live
<1>12. PoolIsClean'
  <2>1. Ends' = {} /\ \A p \in plans' : ~p.completed
    BY <1>1 DEF SupInv, NotEnded, Ends, Live
  <2>2. (phase = "collecting" /\ ~stopping => plan.symbols \cap blacklist = {})'
    BY <1>1 DEF SupInv, PoolIsClean
  <2> QED
    BY <2>1, <2>2 DEF PoolIsClean, NoBlacklistedCompletion
<1>13. (\A i \in jobs : JobFits(i))'
  BY <1>1 DEF SupInv
<1>14. MyJobs' = MyJobs \ {j}
  BY <1>1 DEF MyJobs
<1>15. (\A i \in MyJobs : GroupApart(i))'
  <2> SUFFICES ASSUME NEW i \in MyJobs' PROVE GroupApart(i)'
    OBVIOUS
  <2>1. i \in MyJobs /\ i # j
    BY <1>14
  <2>2. i.group \cap j.group = {}
    BY <1>4, <2>1 DEF SupInv, GroupsApart
  <2>3. GroupApart(i)
    BY <2>1 DEF SupInv
  <2> QED
    BY <1>1, <1>5, <2>2, <2>3 DEF GroupApart
<1>16. GroupsApart'
  BY <1>14 DEF SupInv, GroupsApart
<1> QED
  BY <1>9, <1>10, <1>11, <1>12, <1>13, <1>15, <1>16 DEF SupInv

LEMMA FewerPlansFollow ==
  ASSUME plans' \subseteq plans
  PROVE  PlansFollow
BY DEF PlansFollow, Copies

LEMMA OnePlanFollows ==
  ASSUME NEW p \in plans, NEW q, plans' = (plans \ {p}) \cup {q}, Copies(p, q),
         q.completed => p.completed \/ (phase # "collecting" /\ q.symbols \cap blacklist = {})
  PROVE  PlansFollow
<1>1. \A r \in plans : Copies(r, r)
  BY DEF Copies
<1> QED
  BY <1>1 DEF PlansFollow

LEMMA AcknowledgedFollow ==
  ASSUME PInv, SupInv, NEW m, NEW ack, Acknowledge(m, ack)
  PROVE  JobsFollow
<1> DEFINE A(j) == IF j.sent # {} /\ Batch(j) = m THEN [j EXCEPT !.ack = ack] ELSE j
<1>1. jobs' = {A(j) : j \in jobs}
  BY DEF Acknowledge
<1>2. ASSUME NEW j \in jobs
      PROVE  SameGroup(j, A(j)) /\ JobFits(A(j))
  <2>1. j \in JobType
    BY DEF PInv, WireInv
  <2>2. JobFits(j)
    BY DEF SupInv
  <2>3. SameGroup(j, [j EXCEPT !.ack = ack])
    BY <2>1 DEF SameGroup, JobType
  <2>4. ASSUME j.sent # {} PROVE JobFits([j EXCEPT !.ack = ack])
    BY <2>1, <2>2, <2>4 DEF JobFits, JobType
  <2> QED
    BY <2>2, <2>3, <2>4 DEF SameGroup
<1> HIDE DEF A
<1>3. \A k \in jobs' : JobFits(k) /\ \E j \in jobs : SameGroup(j, k)
  BY <1>1, <1>2
<1>4. ASSUME NEW k \in jobs', NEW l \in jobs', k # l
      PROVE  \E i, j \in jobs : i # j /\ SameGroup(i, k) /\ SameGroup(j, l)
  <2>1. PICK i \in jobs, j \in jobs : k = A(i) /\ l = A(j)
    BY <1>1
  <2> QED
    BY <1>2, <1>4, <2>1
<1> QED
  BY <1>3, <1>4 DEF JobsFollow

\* A job reads its group, sends a batch (again), or hears of one or gives up.
ReadStep(j, k) ==
  /\ j.stage = "reading" /\ k.stage = "pushing" /\ k.unsent = DOMAIN k.rows
  /\ k.sent = {} /\ k.ack = "none"
  /\ wire' = wire

SendStep(j, k) ==
  /\ k.stage = j.stage /\ k.rows = j.rows /\ k.ack = "none"
  /\ k.unsent \cup k.sent = j.unsent \cup j.sent /\ k.unsent \subseteq j.unsent
  /\ wire' \subseteq wire \cup {Batch(k)}

EndStep(j, k) ==
  /\ k.rows = j.rows /\ k.unsent = j.unsent /\ k.ack = "none"
  /\ k.stage = "raised" \/ (j.ack = "accepted" /\ k.stage = j.stage /\ k.sent = {})
  /\ wire' \subseteq wire

WorkStep ==
  /\ UNCHANGED <<vars, supervisorVars, stateFile, apiBlacklist>>
  /\ \E j \in jobs :
       \/ jobs' = jobs \ {j} /\ wire' = wire
       \/ \E k \in JobType : /\ SameGroup(j, k) /\ JobFits(k) /\ Become(j, k)
                             /\ ReadStep(j, k) \/ SendStep(j, k) \/ EndStep(j, k)

LEMMA JobReadStep ==
  ASSUME PInv, SupInv, NEW j \in jobs, NEW bad \in SUBSET j.group, NEW keys \in SUBSET j.due,
         keys = Pushable(keys, bad), JobRead(j, keys, bad)
  PROVE  \E k \in JobType : SameGroup(j, k) /\ JobFits(k) /\ Become(j, k) /\ ReadStep(j, k)
<1>1. j \in JobType /\ JobFits(j)
  BY DEF PInv, WireInv, SupInv
<1>2. PICK rows \in [Pushable(keys, bad) -> Rows] :
        Become(j, [j EXCEPT !.stage = "pushing", !.rows = rows, !.bad = bad,
                            !.unsent = DOMAIN rows])
  BY DEF JobRead
<1> DEFINE k == [j EXCEPT !.stage = "pushing", !.rows = rows, !.bad = bad,
                          !.unsent = DOMAIN rows]
<1>3. /\ SameGroup(j, k) /\ k.stage = "pushing" /\ k.rows = rows /\ k.bad = bad
      /\ k.unsent = DOMAIN rows /\ k.sent = j.sent /\ k.attempt = j.attempt /\ k.ack = j.ack
  BY <1>1 DEF JobType, SameGroup
<1>4. k \in JobType
  <2>1. DOMAIN rows \subseteq Keys /\ bad \subseteq Symbols
    BY <1>1 DEF JobType, Pushable
  <2>2. rows \in RowSets
    BY <2>1 DEF RowSets
  <2> QED
    BY <1>1, <2>1, <2>2 DEF JobType
<1>5. Become(j, k)
  BY <1>2
<1> HIDE DEF k
<1>6. j.stage = "reading" /\ j.sent = {} /\ j.ack = "none" /\ wire' = wire
  BY <1>1 DEF JobRead, JobFits
<1>7. JobFits(k)
  <2>1. DOMAIN rows = keys /\ \A x \in keys : x[1] \notin bad
    BY DEF Pushable
  <2>2. \A x \in DOMAIN rows : x \in j.due /\ x[1] \notin bad
    BY <2>1
  <2> QED
    BY <1>1, <1>3, <1>6, <2>2 DEF JobFits, SameGroup
<1>8. ReadStep(j, k)
  BY <1>3, <1>6 DEF ReadStep
<1> QED
  BY <1>3, <1>4, <1>5, <1>7, <1>8

LEMMA JobPushStep ==
  ASSUME PInv, SupInv, NEW j \in jobs, NEW keys \in SUBSET j.unsent, JobPush(j, keys)
  PROVE  \E k \in JobType : SameGroup(j, k) /\ JobFits(k) /\ Become(j, k) /\ SendStep(j, k)
<1>1. j \in JobType /\ JobFits(j)
  BY DEF PInv, WireInv, SupInv
<1> DEFINE k == [j EXCEPT !.sent = keys, !.unsent = @ \ keys, !.attempt = 1]
<1>2. /\ SameGroup(j, k) /\ k.stage = j.stage /\ k.rows = j.rows /\ k.bad = j.bad
      /\ k.unsent = j.unsent \ keys /\ k.sent = keys /\ k.attempt = 1 /\ k.ack = j.ack
  BY <1>1 DEF JobType, SameGroup
<1>3. k \in JobType
  BY <1>1 DEF JobType
<1>4. Become(j, k) /\ wire' = wire \cup {Batch(k)} /\ j.sent = {}
  BY DEF JobPush
<1> HIDE DEF k
<1>5. 1 <= MaxAttempts
  BY CollectorAssumption
<1>6. JobFits(k)
  BY <1>1, <1>2, <1>4, <1>5 DEF JobFits, SameGroup
<1>7. SendStep(j, k)
  BY <1>1, <1>2, <1>4 DEF SendStep, JobFits
<1> QED
  BY <1>2, <1>3, <1>4, <1>6, <1>7

LEMMA JobAnsweredStep ==
  ASSUME PInv, SupInv, NEW j \in jobs, JobAnswered(j)
  PROVE  \E k \in JobType : SameGroup(j, k) /\ JobFits(k) /\ Become(j, k) /\ EndStep(j, k)
<1>1. j \in JobType /\ JobFits(j)
  BY DEF PInv, WireInv, SupInv
<1> DEFINE heard == [j EXCEPT !.sent = {}, !.ack = "none"]
           dead  == [j EXCEPT !.stage = "raised", !.sent = {}, !.ack = "none"]
<1>2. /\ SameGroup(j, heard) /\ heard.stage = j.stage /\ heard.rows = j.rows /\ heard.bad = j.bad
      /\ heard.unsent = j.unsent /\ heard.sent = {} /\ heard.attempt = j.attempt
      /\ heard.ack = "none" /\ heard \in JobType
  BY <1>1 DEF JobType, SameGroup
<1>3. /\ SameGroup(j, dead) /\ dead.stage = "raised" /\ dead.rows = j.rows /\ dead.bad = j.bad
      /\ dead.unsent = j.unsent /\ dead.sent = {} /\ dead.attempt = j.attempt
      /\ dead.ack = "none" /\ dead \in JobType
  BY <1>1 DEF JobType, SameGroup
<1>4. wire' = wire /\ ((j.ack = "accepted" /\ Become(j, heard)) \/ Become(j, dead))
  BY DEF JobAnswered
<1> HIDE DEF heard, dead
<1>5. JobFits(heard)
  BY <1>1, <1>2 DEF JobFits, SameGroup
<1>6. JobFits(dead)
  BY <1>1, <1>3 DEF JobFits, SameGroup
<1>7. CASE j.ack = "accepted" /\ Become(j, heard)
  BY <1>2, <1>4, <1>5, <1>7 DEF EndStep
<1>8. CASE Become(j, dead)
  BY <1>3, <1>4, <1>6, <1>8 DEF EndStep
<1> QED
  BY <1>4, <1>7, <1>8

LEMMA JobUnheardStep ==
  ASSUME PInv, SupInv, NEW j \in jobs, JobUnheard(j)
  PROVE  \E k \in JobType : /\ SameGroup(j, k) /\ JobFits(k) /\ Become(j, k)
                            /\ SendStep(j, k) \/ EndStep(j, k)
<1>1. j \in JobType /\ JobFits(j)
  BY DEF PInv, WireInv, SupInv
<1> DEFINE again == [j EXCEPT !.attempt = @ + 1, !.ack = "none"]
           dead  == [j EXCEPT !.stage = "raised", !.sent = {}, !.ack = "none"]
<1>2. /\ SameGroup(j, again) /\ again.stage = j.stage /\ again.rows = j.rows
      /\ again.bad = j.bad /\ again.unsent = j.unsent /\ again.sent = j.sent
      /\ again.attempt = j.attempt + 1 /\ again.ack = "none"
  BY <1>1 DEF JobType, SameGroup
<1>3. again \in JobType
  <2>1. j.attempt + 1 \in Nat
    BY <1>1 DEF JobType
  <2>2. ASSUME NEW n \in Nat
        PROVE  [j EXCEPT !.attempt = n, !.ack = "none"] \in JobType
    BY <1>1 DEF JobType
  <2> QED
    BY <2>1, <2>2
<1>4. /\ SameGroup(j, dead) /\ dead.stage = "raised" /\ dead.rows = j.rows /\ dead.bad = j.bad
      /\ dead.unsent = j.unsent /\ dead.sent = {} /\ dead.attempt = j.attempt
      /\ dead.ack = "none" /\ dead \in JobType
  BY <1>1 DEF JobType, SameGroup
<1>5. \/ j.attempt < MaxAttempts /\ Become(j, again) /\ wire' \subseteq wire \cup {Batch(again)}
      \/ Become(j, dead) /\ wire' \subseteq wire
  BY DEF JobUnheard
<1> HIDE DEF again, dead
<1>6. CASE j.attempt < MaxAttempts /\ Become(j, again) /\ wire' \subseteq wire \cup {Batch(again)}
  <2>1. again.attempt <= MaxAttempts
    <3>1. j.attempt \in Nat /\ MaxAttempts \in Nat
      BY <1>1, CollectorAssumption DEF JobType
    <3> QED
      BY <1>2, <1>6, <3>1
  <2>2. JobFits(again)
    BY <1>1, <1>2, <2>1 DEF JobFits, SameGroup
  <2>3. SendStep(j, again)
    BY <1>2, <1>6 DEF SendStep
  <2> QED
    BY <1>2, <1>3, <1>6, <2>2, <2>3
<1>7. CASE Become(j, dead) /\ wire' \subseteq wire
  <2>1. JobFits(dead)
    BY <1>1, <1>4 DEF JobFits, SameGroup
  <2>2. EndStep(j, dead)
    BY <1>4, <1>7 DEF EndStep
  <2> QED
    BY <1>4, <1>7, <2>1, <2>2
<1> QED
  BY <1>5, <1>6, <1>7

LEMMA WorkSteps ==
  ASSUME PInv, SupInv, Work
  PROVE  WorkStep
<1>1. PICK j \in jobs :
        \/ \E bad \in SUBSET j.group : \E keys \in SUBSET j.due :
             keys = Pushable(keys, bad) /\ JobRead(j, keys, bad)
        \/ \E keys \in SUBSET j.unsent : JobPush(j, keys)
        \/ JobProviderUnavailable(j) \/ JobAnswered(j) \/ JobUnheard(j) \/ JobForgotten(j)
  BY DEF Work
<1>2. UNCHANGED <<vars, supervisorVars, stateFile, apiBlacklist>>
  BY <1>1 DEF JobRead, JobPush, JobProviderUnavailable, JobAnswered, JobUnheard, JobForgotten
<1>3. CASE JobForgotten(j)
  BY <1>2, <1>3 DEF JobForgotten, WorkStep
<1>4. ASSUME NEW bad \in SUBSET j.group, NEW keys \in SUBSET j.due,
             keys = Pushable(keys, bad), JobRead(j, keys, bad)
      PROVE  WorkStep
  BY <1>2, <1>4, JobReadStep DEF WorkStep
<1>5. ASSUME NEW keys \in SUBSET j.unsent, JobPush(j, keys)
      PROVE  WorkStep
  BY <1>2, <1>5, JobPushStep DEF WorkStep
<1>6. CASE JobAnswered(j)
  BY <1>2, <1>6, JobAnsweredStep DEF WorkStep
<1>7. CASE JobUnheard(j)
  BY <1>2, <1>7, JobUnheardStep DEF WorkStep
<1>8. CASE JobProviderUnavailable(j)
  <2> DEFINE k == [j EXCEPT !.stage = "raised"]
  <2>1. j \in JobType /\ JobFits(j)
    BY DEF PInv, WireInv, SupInv
  <2>2. /\ SameGroup(j, k) /\ k.stage = "raised" /\ k.rows = j.rows /\ k.bad = j.bad
        /\ k.unsent = j.unsent /\ k.sent = j.sent /\ k.attempt = j.attempt
        /\ k.ack = j.ack /\ k \in JobType
    BY <2>1 DEF JobType, SameGroup
  <2>3. Become(j, k) /\ j.stage = "reading" /\ wire' = wire
    BY <1>8 DEF JobProviderUnavailable
  <2> HIDE DEF k
  <2>4. j.ack = "none"
    BY <2>1, <2>3 DEF JobFits
  <2>5. JobFits(k)
    BY <2>1, <2>2 DEF JobFits, SameGroup
  <2>6. EndStep(j, k)
    BY <2>2, <2>3, <2>4 DEF EndStep
  <2> QED
    BY <1>2, <2>2, <2>3, <2>5, <2>6 DEF WorkStep
<1> QED
  BY <1>1, <1>3, <1>4, <1>5, <1>6, <1>7, <1>8

LEMMA SupWork ==
  ASSUME PInv, SupInv, WorkStep
  PROVE  SupInv'
<1>1. /\ plans' \subseteq plans
      /\ UNCHANGED <<phase, plan, pending, succeeded, manifest, stopping, stateFile,
                     apiBlacklist, lastCycle>>
  BY DEF WorkStep, vars, sessionVars, supervisorVars
<1>2. PICK j \in jobs :
        \/ jobs' = jobs \ {j} /\ wire' = wire
        \/ \E k \in JobType : /\ SameGroup(j, k) /\ JobFits(k) /\ Become(j, k)
                              /\ ReadStep(j, k) \/ SendStep(j, k) \/ EndStep(j, k)
  BY DEF WorkStep
<1>3. CASE jobs' = jobs \ {j} /\ wire' = wire
  <2>1. WireFollows
    BY <1>3 DEF WireFollows
  <2> QED
    BY <1>1, <1>3, <2>1, FewerJobsFollow, FewerPlansFollow, SupFollows
<1>4. ASSUME NEW k \in JobType, SameGroup(j, k), JobFits(k), Become(j, k),
             ReadStep(j, k) \/ SendStep(j, k) \/ EndStep(j, k)
      PROVE  SupInv'
  <2>1. wire' \subseteq wire \cup {Batch(k)}
    BY <1>4 DEF ReadStep, SendStep, EndStep
  <2>2. Batch(k).kind = "batch" /\ Batch(k).cycle = j.cycle
    BY <1>4 DEF Batch, SameGroup
  <2>3. j.cycle \in Nat /\ j.cycle <= lastCycle
    BY DEF PInv, WireInv, JobType, SupInv, Ids
  <2>4. WireFollows
    BY <2>1, <2>2, <2>3 DEF WireFollows
  <2> QED
    BY <1>1, <1>4, <2>4, NextJobFollows, FewerPlansFollow, SupFollows
<1> QED
  BY <1>2, <1>3, <1>4

LEMMA SupServe ==
  ASSUME PInv, SupInv, Serve
  PROVE  SupInv'
<1>1. PICK m : /\ m \in wire /\ (ServeBatch(m) \/ ServeComplete(m) \/ ServeAbort(m))
               \/ \E c \in accepted : ServeEnqueue(c)
  BY DEF Serve
<1>2. /\ UNCHANGED <<phase, plan, pending, succeeded, manifest, stopping, stateFile,
                     apiBlacklist, lastCycle>>
      /\ wire' \subseteq wire
  BY <1>1 DEF ServeBatch, ServeComplete, ServeAbort, ServeEnqueue, supervisorVars, vars,
     AcceptBatch, Complete, Abort, Enqueue, EnqueueCancelled
<1>3. WireFollows
  BY <1>2 DEF WireFollows
<1>4. JobsFollow
  <2>1. CASE jobs' = jobs
    BY <2>1, FewerJobsFollow
  <2>2. CASE ServeBatch(m)
    BY <2>2, AcknowledgedFollow DEF ServeBatch
  <2> QED
    BY <1>1, <2>1, <2>2 DEF ServeComplete, ServeAbort, ServeEnqueue
<1>5. PlansFollow
  <2>1. \A p \in plans : p \in Cycle /\ p.id = lastCycle
    BY DEF PInv, IInv, TypeOK, SupInv, Ids
  <2>2. ASSUME NEW p \in plans, AcceptBatch(p, m.rows)
        PROVE  PlansFollow
    <3> DEFINE q == [p EXCEPT !.received = @ \cup DOMAIN m.rows]
    <3>1. Copies(p, q) /\ q.completed = p.completed
      BY <2>1, UpdatedCopies DEF Cycle
    <3>2. plans' = (plans \ {p}) \cup {q}
      BY <2>2 DEF AcceptBatch
    <3> HIDE DEF q
    <3> QED
      BY <3>1, <3>2, OnePlanFollows
  <2>3. ASSUME NEW p \in plans, m \in wire, m.kind = "complete", p.id = m.cycle,
               Complete(p, m.symbols, m.claims, Confirmations)
        PROVE  PlansFollow
    <3> DEFINE q == [p EXCEPT !.completed = TRUE]
    <3>1. Copies(p, q)
      BY <2>1, UpdatedCopies
    <3>2. plans' = (plans \ {p}) \cup {q} /\ m.symbols = p.symbols
      BY <2>3 DEF Complete, Completable
    <3>3. m \in Ends
      BY <2>1, <2>3 DEF Ends
    <3>4. phase # "collecting" /\ p.symbols \cap blacklist = {}
      BY <3>2, <3>3 DEF SupInv, NotEnded, PoolIsClean
    <3> HIDE DEF q
    <3> QED
      BY <3>1, <3>2, <3>4, OnePlanFollows DEF Copies
  <2>4. CASE plans' \subseteq plans
    BY <2>4, FewerPlansFollow
  <2> QED
    BY <1>1, <2>2, <2>3, <2>4
       DEF ServeBatch, ServeComplete, ServeAbort, ServeEnqueue, Abort, Enqueue,
           EnqueueCancelled, vars, sessionVars
<1> QED
  BY <1>2, <1>3, <1>4, <1>5, SupFollows

LEMMA SupSession ==
  ASSUME PInv, SupInv, Computing \/ ComputeFails \/ Age \/ ApiRestart \/ UNCHANGED protocolVars
  PROVE  SupInv'
<1>1. UNCHANGED <<phase, plan, pending, succeeded, manifest, stopping, stateFile,
                  apiBlacklist, lastCycle, jobs, wire>>
  BY DEF Computing, ComputeFails, Age, ApiRestart, protocolVars, collectorVars, supervisorVars,
         stateFile, vars, WorkerTake, WorkerWrite, WorkerFinish, WorkerFail, AgePlan, Restart
<1>2. JobsFollow /\ WireFollows
  BY <1>1, FewerJobsFollow DEF WireFollows
<1>3. PlansFollow
  <2>1. ASSUME NEW p \in plans, AgePlan(p)
        PROVE  PlansFollow
    <3> DEFINE q == [p EXCEPT !.aged = TRUE]
    <3>1. Copies(p, q) /\ q.completed = p.completed
      BY UpdatedCopies DEF PInv, IInv, TypeOK, Cycle
    <3>2. plans' = (plans \ {p}) \cup {q}
      BY <2>1 DEF AgePlan
    <3> HIDE DEF q
    <3> QED
      BY <3>1, <3>2, OnePlanFollows
  <2>2. CASE plans' \subseteq plans
    BY <2>2, FewerPlansFollow
  <2> QED
    BY <2>1, <2>2
       DEF Age, Computing, ComputeFails, ApiRestart, Restart, WorkerTake, WorkerWrite,
           WorkerFinish, WorkerFail, FinishProcessing, protocolVars, vars, sessionVars
<1> QED
  BY <1>1, <1>2, <1>3, SupFollows

LEMMA SupPoll ==
  ASSUME PInv, SupInv, PInv', NEW d \in Dates, NEW avail \in Availability,
         Poll(d, avail) \/ PollUnheard(d, avail)
  PROVE  SupInv'
<1>1. phase = "idle" /\ BeginPlan(d, Offered, avail)
  BY DEF Poll, PollUnheard, AskForPlan
<1>2. UNCHANGED <<succeeded, manifest, stopping, stateFile, jobs, wire>>
  BY DEF Poll, PollUnheard, supervisorVars
<1>3. lastCycle \in Nat
  BY DEF PInv, IInv, TypeOK
<1>4. CASE IssuesNothing
  <2>1. UNCHANGED <<phase, plan, pending, apiBlacklist>>
    BY <1>4 DEF Poll, PollUnheard, IssuesNothing
  <2>2. WireFollows
    BY <1>2 DEF WireFollows
  <2> QED
    BY <1>2, <1>4, <2>1, <2>2, FewerJobsFollow, FewerPlansFollow, SupFollows DEF IssuesNothing
<1>5. CASE Issues(Offered)
  <2>1. PICK q : plans' = {q} /\ Fresh(q, Offered)
    BY <1>5 DEF Issues
  <2>2. lastCycle' = lastCycle + 1 /\ lastCycle' # lastCycle
    BY <1>3, <1>5 DEF Issues
  <2>3. CASE PollUnheard(d, avail)
    <3>1. UNCHANGED <<phase, plan, pending, apiBlacklist>>
      BY <2>3 DEF PollUnheard, supervisorVars
    <3> QED
      BY <1>1, <1>2, <2>1, <2>2, <3>1, SupIssued
  <2>4. CASE Poll(d, avail)
    <3>1. (CHOOSE r \in plans' : TRUE) = q
      BY <2>1
    <3>2. /\ plan' = q
          /\ phase' = IF Blocked(q) = {} THEN "collecting" ELSE "aborting"
          /\ pending' = IF Blocked(q) = {} THEN q.symbols ELSE {}
          /\ Report(Blocked(q))
      BY <2>2, <2>4, <3>1 DEF Poll
    <3>3. apiBlacklist' \subseteq apiBlacklist \cup Blocked(q)
      BY <3>2 DEF Report
    <3> QED
      BY <1>1, <1>2, <2>1, <2>2, <3>2, <3>3, SupIssued
  <2> QED
    BY <2>3, <2>4
<1> QED
  BY <1>1, <1>4, <1>5, BeginPlanSteps

LEMMA SupEnds ==
  ASSUME PInv, SupInv,
         GiveUp \/ SendComplete \/ CompleteAnswered \/ CompleteUnheard \/ SendAbort
           \/ CollectorRestart
  PROVE  SupInv'
<1>1. lastCycle \in Nat /\ UNCHANGED <<plans, lastCycle, stateFile, apiBlacklist>>
  BY DEF PInv, IInv, TypeOK, GiveUp, SendComplete, CompleteAnswered, CompleteUnheard, SendAbort,
     CollectorRestart, vars, sessionVars
<1>2. CASE GiveUp
  BY <1>1, <1>2, SupStopsCollecting DEF GiveUp
<1>3. CASE SendComplete
  BY <1>1, <1>3, SupStopsCollecting DEF SendComplete
<1>4. CASE CompleteUnheard
  <2>1. pending' = {}
    BY <1>4 DEF CompleteUnheard, SupInv, Ids
  <2> QED
    BY <1>1, <1>4, <2>1, SupStopsCollecting DEF CompleteUnheard
<1>5. CASE CompleteAnswered
  <2>1. CASE Return
    BY <1>1, <1>5, <2>1, SupReturns DEF CompleteAnswered
  <2>2. CASE ~Return
    BY <1>1, <1>5, <2>2, SupStopsCollecting DEF CompleteAnswered, SupInv, Ids
  <2> QED
    BY <2>1, <2>2
<1>6. CASE SendAbort
  BY <1>1, <1>6, SupReturns DEF SendAbort
<1>7. CASE CollectorRestart
  BY <1>1, <1>7, SupReturns DEF CollectorRestart
<1> QED
  BY <1>2, <1>3, <1>4, <1>5, <1>6, <1>7

LEMMA SupInit == ProtocolInit => SupInv
<1> SUFFICES ASSUME ProtocolInit PROVE SupInv
  OBVIOUS
<1>1. /\ phase = "idle" /\ plan = NoCycle /\ pending = {} /\ jobs = {} /\ succeeded = {}
      /\ manifest = {} /\ failures = [s \in Symbols |-> 0] /\ blacklist = {} /\ stopping = FALSE
      /\ wire = {} /\ apiBlacklist = {} /\ plans = {}
  BY DEF ProtocolInit, Init
<1>2. failures \in [Symbols -> 0..(MaxFailureAttempts - 1)]
  BY <1>1, CollectorAssumption
<1>3. Books
  BY <1>1, <1>2 DEF Books, NoCycle
<1>4. Ids /\ PlanCopied /\ NotEnded
  BY <1>1 DEF Ids, PlanCopied, NotEnded, Phases
<1>5. PoolIsClean
  BY <1>1 DEF PoolIsClean, NoBlacklistedCompletion, Ends
<1> QED
  BY <1>1, <1>3, <1>4, <1>5 DEF SupInv, MyJobs, GroupsApart

LEMMA SupNext == PInv /\ SupInv /\ [ProtocolNext]_protocolVars => SupInv'
<1> SUFFICES ASSUME PInv, SupInv, [ProtocolNext]_protocolVars PROVE SupInv'
  OBVIOUS
<1>1. PInv'
  BY ProtocolNextInv
<1>2. CASE Supervise
  <2>1. CASE PollNothing
    BY <2>1, SupSession DEF PollNothing
  <2> QED
    BY <1>1, <1>2, <2>1, SupPoll, SupStartJob, SupJobReturns, SupEnds DEF Supervise
<1>3. CASE Work
  BY <1>3, WorkSteps, SupWork
<1>4. CASE Serve
  BY <1>4, SupServe
<1> QED
  BY <1>2, <1>3, <1>4, SupSession, SupEnds DEF ProtocolNext

-----------------------------------------------------------------------------
(***************************************************************************)
(* The requests' part is preserved.                                        *)
(***************************************************************************)
\* No request is added, and the supervisor goes on as it was or leaves.
LEMMA ReqQuiet ==
  ASSUME RInv, NEW p \in Live, NEW q, Copies(p, q), q.received = p.received, bars' = bars,
         MyJobs' \subseteq MyJobs, Batches' \subseteq Batches, Ends' \subseteq Ends,
         phase' = "collecting" =>
           phase = "collecting" /\ UNCHANGED <<plan, pending, succeeded, manifest>>
  PROVE  ReqInv(q)'
<1>1. ReqInv(p)
  BY DEF RInv
<1>2. \A k : Out(q, k)' => Out(p, k)
  BY DEF Out
<1>3. Expected(q)' = Expected(p) /\ Gap(q)' = Gap(p)
  BY DEF Copies, Expected, Gap
<1>4. Agreed(q)'
  BY <1>1 DEF ReqInv, Agreed
<1>5. InWindow(q)'
  BY <1>1, <1>2, <1>3 DEF ReqInv, InWindow
<1>6. Returned(q)'
  BY <1>1, <1>2 DEF ReqInv, Returned
<1>7. ManifestIsGap(q)'
  <2>1. plan' = plan => Expected(plan)' = Expected(plan)
    BY DEF Expected
  <2> QED
    BY <1>1, <2>1 DEF ReqInv, ManifestIsGap
<1>8. EndIsLast(q)'
  BY <1>1, <1>3 DEF ReqInv, EndIsLast, Copies
<1>9. (\A j \in MyJobs : Pushed(q, j))'
  BY <1>1, <1>2 DEF ReqInv, Pushed
<1> QED
  BY <1>4, <1>5, <1>6, <1>7, <1>8, <1>9 DEF ReqInv

\* A new plan has nothing under way.
LEMMA ReqFresh ==
  ASSUME PInv, SupInv, phase = "idle", NEW pool, NEW q, Fresh(q, pool), Issues(pool),
         UNCHANGED <<jobs, wire, succeeded, manifest>>
  PROVE  ReqInv(q)'
<1>1. MyJobs' = {} /\ Ends' = {} /\ Batches' = {}
  BY IssuedIsNew
<1>2. q.received = {} /\ succeeded' = {} /\ manifest' = {}
  BY DEF Fresh, SupInv, Ids
<1>3. \A k : ~Out(q, k)'
  BY <1>1, <1>2 DEF Out
<1>4. Agreed(q)' /\ InWindow(q)' /\ Returned(q)' /\ EndIsLast(q)'
  BY <1>1, <1>3 DEF Agreed, InWindow, Returned, EndIsLast
<1>5. ManifestIsGap(q)'
  BY <1>2 DEF ManifestIsGap
<1> QED
  BY <1>1, <1>4, <1>5 DEF ReqInv

\* A job that changes, when the plan it works for is still collected.
LEMMA ActiveJob ==
  ASSUME RInv, NEW p \in Live, NEW j \in MyJobs, NEW k, SameGroup(j, k), Become(j, k),
         lastCycle' = lastCycle
  PROVE  /\ MyJobs' = (MyJobs \ {j}) \cup {k} /\ Ends = {} /\ ReqInv(p)
         /\ Pushed(p, j) /\ JobFits(j) /\ j \in JobType
         /\ \A i \in MyJobs : i # j => i.group \cap j.group = {}
<1>1. ReqInv(p) /\ SupInv
  BY DEF RInv
<1>2. MyJobs' = (MyJobs \ {j}) \cup {k}
  BY DEF MyJobs, Become, SameGroup
<1>3. j \in jobs
  BY DEF MyJobs
<1>4. j \in JobType
  BY <1>3 DEF RInv, PInv, WireInv
<1> QED
  BY <1>1, <1>2, <1>3, <1>4 DEF ReqInv, EndIsLast, SupInv, GroupsApart

LEMMA ReqRead ==
  ASSUME RInv, NEW p \in Live, NEW j \in MyJobs, NEW k \in JobType, SameGroup(j, k), JobFits(k),
         Become(j, k), ReadStep(j, k), UNCHANGED <<vars, supervisorVars>>
  PROVE  ReqInv(p)'
<1>1. /\ MyJobs' = (MyJobs \ {j}) \cup {k} /\ Ends = {} /\ ReqInv(p)
      /\ Pushed(p, j) /\ JobFits(j)
  BY ActiveJob DEF vars
<1>2. Batches' = Batches /\ Ends' = Ends
  BY DEF Batches, Ends, ReadStep, vars
<1>3. \A x : Out(p, x)' = Out(p, x)
  BY <1>2 DEF Out
<1>4. UNCHANGED <<bars, phase, plan, pending, succeeded, manifest>>
  BY DEF vars, sessionVars, supervisorVars
<1>5. Expected(p)' = Expected(p) /\ Expected(plan)' = Expected(plan)
  BY <1>4 DEF Expected
<1>6. \A x \in DOMAIN k.rows : x \in Keys /\ ~Out(p, x)
  <2> SUFFICES ASSUME NEW x \in DOMAIN k.rows, Out(p, x), x \in Keys PROVE FALSE
    BY RowSetsAreFunctions DEF JobType
  <2>1. x[1] \in j.group
    BY DEF JobFits, SameGroup
  <2>2. x \in DOMAIN j.rows
    BY <1>1, <2>1 DEF Pushed
  <2> QED
    BY <1>1, <2>2 DEF JobFits, ReadStep
<1>7. Agreed(p)'
  <2>1. \A m \in Batches : \A x \in DOMAIN k.rows : x \notin DOMAIN m.rows
    BY <1>6 DEF Out
  <2>2. \A x \in DOMAIN k.rows : x \notin p.received
    BY <1>6 DEF Out
  <2>3. Agreed(p)
    BY <1>1 DEF ReqInv
  <2> QED
    BY <1>1, <1>2, <1>4, <2>1, <2>2, <2>3 DEF Agreed
<1>8. InWindow(p)'
  BY <1>1, <1>2, <1>3, <1>5 DEF ReqInv, InWindow, SameGroup
<1>9. Returned(p)' /\ ManifestIsGap(p)'
  BY <1>1, <1>3, <1>4, <1>5 DEF ReqInv, Returned, ManifestIsGap
<1>10. EndIsLast(p)'
  BY <1>1, <1>2 DEF EndIsLast
<1>11. (\A i \in MyJobs : Pushed(p, i))'
  <2>1. Pushed(p, k)'
    <3>1. \A x \in Keys : Out(p, x) => x[1] \notin k.group
      BY <1>1 DEF Pushed, JobFits, ReadStep, SameGroup
    <3> QED
      BY <1>3, <3>1 DEF Pushed, ReadStep
  <2>2. ASSUME NEW i \in MyJobs PROVE Pushed(p, i)'
    BY <1>1, <1>3 DEF ReqInv, Pushed
  <2> QED
    BY <1>1, <2>1, <2>2
<1> QED
  BY <1>7, <1>8, <1>9, <1>10, <1>11 DEF ReqInv

LEMMA ReqSend ==
  ASSUME RInv, NEW p \in Live, NEW j \in MyJobs, NEW k \in JobType, SameGroup(j, k), JobFits(k),
         Become(j, k), SendStep(j, k), UNCHANGED <<vars, supervisorVars>>
  PROVE  ReqInv(p)'
<1>1. /\ MyJobs' = (MyJobs \ {j}) \cup {k} /\ Ends = {} /\ ReqInv(p)
      /\ Pushed(p, j) /\ JobFits(j)
      /\ \A i \in MyJobs : i # j => i.group \cap j.group = {}
  BY ActiveJob DEF vars
<1> DEFINE b == Batch(k)
<1>2. /\ b.kind = "batch" /\ DOMAIN b.rows = k.sent
      /\ \A x \in k.sent : b.rows[x] = k.rows[x]
  BY DEF Batch, Restrict, JobFits
<1>3. wire' \subseteq wire \cup {b} /\ k.rows = j.rows
  BY DEF SendStep
<1> HIDE DEF b
<1>4. Batches' \subseteq Batches \cup {b} /\ Ends' = {}
  BY <1>1, <1>2, <1>3 DEF Batches, Ends, vars
<1>5. \A x : Out(p, x)' => Out(p, x) \/ x \in k.sent
  BY <1>2, <1>4 DEF Out
<1>6. UNCHANGED <<bars, phase, plan, pending, succeeded, manifest>>
  BY DEF vars, sessionVars, supervisorVars
<1>7. Expected(p)' = Expected(p) /\ Expected(plan)' = Expected(plan)
  BY <1>6 DEF Expected
<1>8. \A x \in k.sent : /\ x \in DOMAIN j.rows /\ x \in j.due /\ x[1] \in j.group
                        /\ x \in Keys
  <2>1. \A x \in DOMAIN k.rows : x \in Keys
    BY RowSetsAreFunctions DEF JobType
  <2> QED
    BY <1>3, <2>1 DEF JobFits, SameGroup
<1>9. Agreed(p)'
  <2> USE DEF Agreed
  <2>1. Agreed(p)
    BY <1>1 DEF ReqInv
  <2>2. (\A m \in Batches : \A x \in DOMAIN m.rows : x \in p.received => bars[x] = m.rows[x])'
    BY <1>2, <1>3, <1>4, <1>6, <1>8, <2>1
  <2>3. (\A i \in MyJobs : \A x \in DOMAIN i.rows : x \in p.received => bars[x] = i.rows[x])'
    BY <1>1, <1>3, <1>6, <2>1
  <2>4. (\A m, n \in Batches :
           \A x \in (DOMAIN m.rows) \cap (DOMAIN n.rows) : m.rows[x] = n.rows[x])'
    <3>1. \A n \in Batches : \A x \in (DOMAIN b.rows) \cap (DOMAIN n.rows) : b.rows[x] = n.rows[x]
      BY <1>2, <1>3, <1>8, <2>1
    <3> QED
      BY <1>4, <2>1, <3>1
  <2>5. (\A i \in MyJobs, m \in Batches :
           \A x \in (DOMAIN i.rows) \cap (DOMAIN m.rows) : i.rows[x] = m.rows[x])'
    <3>1. \A m \in Batches : \A x \in (DOMAIN k.rows) \cap (DOMAIN m.rows) : k.rows[x] = m.rows[x]
      BY <1>3, <2>1
    <3>2. \A x \in DOMAIN b.rows : k.rows[x] = b.rows[x]
      BY <1>2
    <3>3. ASSUME NEW i \in MyJobs, i # j
          PROVE  (DOMAIN i.rows) \cap (DOMAIN b.rows) = {}
      <4>1. \A x \in DOMAIN i.rows : x[1] \in i.group
        BY DEF RInv, SupInv, JobFits, MyJobs
      <4> QED
        BY <1>1, <1>2, <1>8, <3>3, <4>1
    <3> QED
      BY <1>1, <1>4, <2>1, <3>1, <3>2, <3>3
  <2> QED
    BY <2>2, <2>3, <2>4, <2>5
<1>10. InWindow(p)'
  <2>1. InWindow(p)
    BY <1>1 DEF ReqInv
  <2>2. k.sent \subseteq Expected(p)
    BY <1>8, <2>1 DEF InWindow
  <2> QED
    BY <1>1, <1>2, <1>4, <1>5, <1>7, <2>1, <2>2 DEF InWindow, SameGroup
<1>11. Returned(p)'
  <2>1. phase = "collecting" => \A x \in k.sent : x[1] \notin pending /\ x[1] \notin succeeded
    BY <1>8 DEF RInv, SupInv, GroupApart
  <2> QED
    BY <1>1, <1>5, <1>6, <2>1 DEF ReqInv, Returned
<1>12. ManifestIsGap(p)' /\ EndIsLast(p)'
  BY <1>1, <1>4, <1>6, <1>7 DEF ReqInv, ManifestIsGap, EndIsLast
<1>13. (\A i \in MyJobs : Pushed(p, i))'
  <2>1. Pushed(p, k)'
    BY <1>1, <1>5 DEF Pushed, SendStep, SameGroup, JobFits
  <2>2. ASSUME NEW i \in MyJobs, i # j PROVE Pushed(p, i)'
    <3>1. \A x \in k.sent : x[1] \notin i.group
      BY <1>1, <1>8, <2>2
    <3> QED
      BY <1>1, <1>5, <3>1 DEF ReqInv, Pushed
  <2> QED
    BY <1>1, <2>1, <2>2
<1> QED
  BY <1>9, <1>10, <1>11, <1>12, <1>13 DEF ReqInv

LEMMA ReqEnd ==
  ASSUME RInv, NEW p \in Live, NEW j \in MyJobs, NEW k \in JobType, SameGroup(j, k),
         Become(j, k), EndStep(j, k), UNCHANGED <<vars, supervisorVars>>
  PROVE  ReqInv(p)'
<1>1. /\ MyJobs' = (MyJobs \ {j}) \cup {k} /\ Ends = {} /\ ReqInv(p) /\ Pushed(p, j)
  BY ActiveJob DEF vars
<1>2. Batches' \subseteq Batches /\ Ends' = {}
  BY <1>1 DEF Batches, Ends, EndStep, vars
<1>3. \A x : Out(p, x)' => Out(p, x)
  BY <1>2 DEF Out
<1>4. UNCHANGED <<bars, phase, plan, pending, succeeded, manifest>> /\ k.rows = j.rows
  BY DEF vars, sessionVars, supervisorVars, EndStep
<1>5. Expected(p)' = Expected(p) /\ Expected(plan)' = Expected(plan)
  BY <1>4 DEF Expected
<1>6. Agreed(p)'
  BY <1>1, <1>2, <1>4 DEF ReqInv, Agreed
<1>7. InWindow(p)'
  BY <1>1, <1>2, <1>3, <1>5 DEF ReqInv, InWindow, SameGroup
<1>8. Returned(p)' /\ ManifestIsGap(p)' /\ EndIsLast(p)'
  BY <1>1, <1>2, <1>3, <1>4, <1>5 DEF ReqInv, Returned, ManifestIsGap, EndIsLast
<1>9. (\A i \in MyJobs : Pushed(p, i))'
  <2>1. Pushed(p, k)'
    BY <1>1, <1>3 DEF Pushed, EndStep, SameGroup
  <2>2. ASSUME NEW i \in MyJobs PROVE Pushed(p, i)'
    BY <1>1, <1>3 DEF ReqInv, Pushed
  <2> QED
    BY <1>1, <2>1, <2>2
<1> QED
  BY <1>6, <1>7, <1>8, <1>9 DEF ReqInv

LEMMA ReqWork ==
  ASSUME RInv, WorkStep, NEW p \in Live'
  PROVE  ReqInv(p)'
<1>1. UNCHANGED <<vars, supervisorVars>> /\ p \in Live /\ Copies(p, p)
  BY DEF WorkStep, Live, vars, sessionVars, Copies
<1>2. PICK j \in jobs :
        \/ jobs' = jobs \ {j} /\ wire' = wire
        \/ \E k \in JobType : /\ SameGroup(j, k) /\ JobFits(k) /\ Become(j, k)
                              /\ ReadStep(j, k) \/ SendStep(j, k) \/ EndStep(j, k)
  BY DEF WorkStep
<1>3. /\ bars' = bars /\ lastCycle' = lastCycle
      /\ UNCHANGED <<phase, plan, pending, succeeded, manifest>>
  BY <1>1 DEF vars, sessionVars, supervisorVars
<1>4. CASE jobs' = jobs \ {j} /\ wire' = wire
  <2>1. MyJobs' \subseteq MyJobs /\ Batches' \subseteq Batches /\ Ends' \subseteq Ends
    BY <1>3, <1>4 DEF MyJobs, Batches, Ends
  <2> QED
    BY <1>1, <1>3, <2>1, ReqQuiet
<1>5. ASSUME NEW k \in JobType, SameGroup(j, k), JobFits(k), Become(j, k),
             ReadStep(j, k) \/ SendStep(j, k) \/ EndStep(j, k)
      PROVE  ReqInv(p)'
  <2>1. CASE j \in MyJobs
    BY <1>1, <1>5, <2>1, ReqRead, ReqSend, ReqEnd
  <2>2. CASE j \notin MyJobs
    <3>1. j.cycle # lastCycle /\ k.cycle # lastCycle
      BY <1>5, <2>2 DEF MyJobs, SameGroup
    <3>2. MyJobs' \subseteq MyJobs
      BY <1>3, <1>5, <3>1 DEF MyJobs, Become
    <3>3. wire' \subseteq wire \cup {Batch(k)}
      BY <1>5 DEF ReadStep, SendStep, EndStep
    <3>4. Batch(k).kind = "batch" /\ Batch(k).cycle # lastCycle
      BY <3>1 DEF Batch
    <3>5. Batches' \subseteq Batches /\ Ends' \subseteq Ends
      BY <1>3, <3>3, <3>4 DEF Batches, Ends
    <3> QED
      BY <1>1, <1>3, <3>2, <3>5, ReqQuiet
  <2> QED
    BY <2>1, <2>2
<1> QED
  BY <1>2, <1>4, <1>5

LEMMA ReqPoll ==
  ASSUME RInv, NEW d \in Dates, NEW avail \in Availability,
         Poll(d, avail) \/ PollUnheard(d, avail), NEW p \in Live'
  PROVE  ReqInv(p)'
<1>1. phase = "idle" /\ BeginPlan(d, Offered, avail) /\ lastCycle \in Nat
  BY DEF Poll, PollUnheard, AskForPlan, RInv, PInv, IInv, TypeOK
<1>2. UNCHANGED <<succeeded, manifest, jobs, wire>>
  BY DEF Poll, PollUnheard, supervisorVars
<1>3. CASE IssuesNothing
  <2>1. phase' = phase
    BY <1>3 DEF Poll, PollUnheard, supervisorVars, IssuesNothing
  <2>2. p \in Live /\ Copies(p, p) /\ bars' = bars
    BY <1>3 DEF IssuesNothing, Live, Copies
  <2>3. MyJobs' \subseteq MyJobs /\ Batches' \subseteq Batches /\ Ends' \subseteq Ends
    BY <1>2, <1>3 DEF MyJobs, Batches, Ends, IssuesNothing
  <2> QED
    BY <1>1, <2>1, <2>2, <2>3, ReqQuiet
<1>4. CASE Issues(Offered)
  <2>1. PICK q : plans' = {q} /\ Fresh(q, Offered)
    BY <1>4 DEF Issues
  <2>2. p = q
    BY <2>1 DEF Live
  <2> QED
    BY <1>1, <1>2, <1>4, <2>1, <2>2, ReqFresh DEF RInv
<1> QED
  BY <1>1, <1>3, <1>4, BeginPlanSteps

LEMMA ReqStartJob ==
  ASSUME RInv, NEW group \in SUBSET pending, StartJob(group), NEW p \in Live'
  PROVE  ReqInv(p)'
<1>0. PICK n : n = NewJob(group)
  OBVIOUS
<1>1. /\ n.cycle = plan.id /\ n.group = group /\ n.stage = "reading" /\ n.ack = "none"
      /\ n.due = {k \in Expected(plan) : k[1] \in group}
      /\ DOMAIN n.rows = {}
  BY <1>0, NewJobFields
<1>2. /\ jobs' = jobs \cup {n} /\ pending' = pending \ group /\ phase = "collecting"
      /\ UNCHANGED <<plans, lastCycle, bars, phase, plan, succeeded, manifest, wire>>
  BY <1>0 DEF StartJob, vars, sessionVars
<1>3. p \in Live /\ p \in plans /\ ReqInv(p) /\ plan.id = lastCycle /\ Ends = {}
      /\ Expected(p) = Expected(plan)
  BY <1>2 DEF Live, RInv, SupInv, Ids, NotEnded, PlanCopied
<1>4. MyJobs' = MyJobs \cup {n} /\ Batches' = Batches /\ Ends' = {}
  BY <1>1, <1>2, <1>3 DEF MyJobs, Batches, Ends
<1>5. \A k : Out(p, k)' = Out(p, k)
  BY <1>4 DEF Out
<1>6. Expected(p)' = Expected(p) /\ Expected(plan)' = Expected(plan)
  BY <1>2 DEF Expected
<1>7. Agreed(p)'
  BY <1>1, <1>2, <1>3, <1>4 DEF ReqInv, Agreed
<1>8. InWindow(p)'
  BY <1>1, <1>3, <1>4, <1>5, <1>6 DEF ReqInv, InWindow
<1>9. Returned(p)' /\ ManifestIsGap(p)' /\ EndIsLast(p)'
  BY <1>2, <1>3, <1>4, <1>5, <1>6 DEF ReqInv, Returned, ManifestIsGap, EndIsLast
<1>10. (\A j \in MyJobs : Pushed(p, j))'
  <2>1. Pushed(p, n)'
    <3>1. \A k \in Keys : Out(p, k) => k[1] \notin group
      BY <1>2, <1>3 DEF ReqInv, Returned
    <3> QED
      BY <1>1, <1>5, <3>1 DEF Pushed
  <2>2. ASSUME NEW j \in MyJobs PROVE Pushed(p, j)'
    BY <1>3, <1>5 DEF ReqInv, Pushed
  <2> QED
    BY <1>4, <2>1, <2>2
<1> QED
  BY <1>7, <1>8, <1>9, <1>10 DEF ReqInv

\* When a job returns, what its good symbols lack is what was not received.
LEMMA ReqJobReturns ==
  ASSUME RInv, NEW j \in jobs, JobReturns(j), NEW p \in Live'
  PROVE  ReqInv(p)'
<1> DEFINE good == j.group \ j.bad
<1>1. /\ phase = "collecting" /\ j.cycle = plan.id
      /\ j.stage = "pushing" /\ j.sent = {} /\ j.unsent = {}
      /\ jobs' = jobs \ {j}
      /\ succeeded' = (succeeded \cup good) \ j.bad
      /\ manifest' = manifest \cup {k \in j.due \ DOMAIN j.rows : k[1] \in good}
      /\ pending' \in {{}, pending \cup j.bad}
      /\ UNCHANGED <<plans, lastCycle, bars, phase, plan, wire>>
  BY DEF JobReturns, Current, vars, sessionVars
<1>2. p \in Live /\ p \in plans /\ ReqInv(p) /\ plan.id = lastCycle /\ Ends = {}
      /\ Expected(p) = Expected(plan)
  BY <1>1 DEF Live, RInv, SupInv, Ids, NotEnded, PlanCopied
<1>3. j \in MyJobs /\ JobFits(j) /\ GroupApart(j) /\ Pushed(p, j) /\ j \in JobType
  BY <1>1, <1>2 DEF MyJobs, RInv, SupInv, ReqInv, PInv, WireInv
<1>4. MyJobs' = MyJobs \ {j} /\ Batches' = Batches /\ Ends' = {}
  BY <1>1, <1>2 DEF MyJobs, Batches, Ends
<1>5. \A k : Out(p, k)' = Out(p, k)
  BY <1>4 DEF Out
<1>6. Expected(p)' = Expected(p) /\ Expected(plan)' = Expected(plan)
  BY <1>1 DEF Expected
<1>7. \A k \in Keys : Out(p, k) /\ k[1] \in j.group =>
        k \in DOMAIN j.rows /\ k \in p.received /\ k[1] \notin j.bad
  BY <1>1, <1>3 DEF Pushed, JobFits
<1>8. DOMAIN j.rows \subseteq p.received
  BY <1>1, <1>3 DEF Pushed
<1>9. Agreed(p)'
  BY <1>1, <1>2, <1>4 DEF ReqInv, Agreed
<1>10. InWindow(p)'
  BY <1>2, <1>4, <1>5, <1>6 DEF ReqInv, InWindow
<1>11. EndIsLast(p)' /\ (\A i \in MyJobs : Pushed(p, i))'
  BY <1>2, <1>4, <1>5 DEF ReqInv, EndIsLast, Pushed
<1>12. Returned(p)'
  <2> SUFFICES ASSUME NEW k \in Keys, Out(p, k)
               PROVE  k[1] \notin pending' /\ (k[1] \in succeeded' => k \in p.received)
    BY <1>5 DEF Returned
  <2>1. k[1] \notin pending /\ (k[1] \in succeeded => k \in p.received)
    BY <1>1, <1>2 DEF ReqInv, Returned
  <2>2. k[1] \notin j.bad
    BY <1>3, <1>7 DEF JobFits
  <2> QED
    BY <1>1, <1>7, <2>1, <2>2
<1>13. ManifestIsGap(p)'
  <2>1. manifest = {k \in Expected(plan) : k[1] \in succeeded /\ k \notin p.received}
    BY <1>1, <1>2 DEF ReqInv, ManifestIsGap
  <2>2. j.due = {k \in Expected(plan) : k[1] \in j.group}
        /\ j.group \cap succeeded = {} /\ j.bad \subseteq j.group
    BY <1>1, <1>3 DEF GroupApart, JobFits
  <2>3. ASSUME NEW k \in Expected(plan), k[1] \in good
        PROVE  k \in DOMAIN j.rows <=> k \in p.received
    <3>1. k \in Keys
      BY DEF Expected
    <3> QED
      BY <1>7, <1>8, <2>3, <3>1 DEF Out
  <2>4. ASSUME NEW k
        PROVE  k \in manifest' <=>
                 k \in Expected(plan) /\ k[1] \in succeeded' /\ k \notin p.received
    BY <1>1, <2>1, <2>2, <2>3
  <2>5. manifest' = {k \in Expected(plan) : k[1] \in succeeded' /\ k \notin p.received}
    BY <2>4
  <2> QED
    BY <1>6, <2>5 DEF ManifestIsGap
<1> QED
  BY <1>9, <1>10, <1>11, <1>12, <1>13 DEF ReqInv

\* The supervisor ends its cycle once every symbol is done: what it claims is
\* the gap, and no batch on its way says anything new.
LEMMA ReqSendComplete ==
  ASSUME RInv, SendComplete, NEW p \in Live'
  PROVE  ReqInv(p)'
<1>1. /\ phase = "collecting" /\ Current = {} /\ succeeded = plan.symbols
      /\ phase' = "completing" /\ wire' = wire \cup {Completion}
      /\ UNCHANGED <<plans, lastCycle, bars, plan, succeeded, manifest, jobs>>
  BY DEF SendComplete, vars, sessionVars
<1>2. p \in Live /\ ReqInv(p) /\ plan.id = lastCycle /\ Ends = {}
      /\ p.symbols = plan.symbols /\ Expected(p) = Expected(plan)
  BY <1>1 DEF Live, RInv, SupInv, Ids, NotEnded, PlanCopied
<1>3. MyJobs = {} /\ MyJobs' = {}
  BY <1>1, <1>2 DEF MyJobs, Current
<1>4. PICK c : c = Completion
  OBVIOUS
<1>5. c.kind = "complete" /\ c.symbols = plan.symbols /\ c.claims = manifest
  BY <1>4 DEF Completion
<1>6. Batches' = Batches /\ Ends' \subseteq {c}
  BY <1>1, <1>2, <1>4, <1>5 DEF Batches, Ends
<1>7. \A k : Out(p, k)' = Out(p, k)
  BY <1>6 DEF Out
<1>8. Expected(p)' = Expected(p) /\ Gap(p)' = Gap(p)
  BY DEF Expected, Gap
<1>9. Agreed(p)'
  BY <1>1, <1>2, <1>3, <1>6 DEF ReqInv, Agreed
<1>10. InWindow(p)'
  BY <1>2, <1>3, <1>6, <1>7, <1>8 DEF ReqInv, InWindow
<1>11. Returned(p)' /\ ManifestIsGap(p)' /\ (\A j \in MyJobs : Pushed(p, j))'
  BY <1>1, <1>3 DEF Returned, ManifestIsGap
<1>12. manifest = Gap(p)
  <2>1. manifest = {k \in Expected(plan) : k[1] \in succeeded /\ k \notin p.received}
    BY <1>1, <1>2 DEF ReqInv, ManifestIsGap
  <2>2. \A k \in Expected(p) : k[1] \in p.symbols
    BY DEF Expected
  <2> QED
    BY <1>1, <1>2, <2>1, <2>2 DEF Gap
<1>13. \A m \in Batches : DOMAIN m.rows \subseteq p.received
  <2> SUFFICES ASSUME NEW m \in Batches, NEW k \in DOMAIN m.rows PROVE k \in p.received
    OBVIOUS
  <2>1. k \in Expected(p) /\ Out(p, k)
    BY <1>2 DEF ReqInv, InWindow, Out
  <2>2. k \in Keys /\ k[1] \in p.symbols
    BY <2>1 DEF Expected
  <2> QED
    BY <1>1, <1>2, <2>1, <2>2 DEF ReqInv, Returned
<1>14. EndIsLast(p)'
  BY <1>2, <1>3, <1>5, <1>6, <1>8, <1>12, <1>13 DEF EndIsLast
<1> QED
  BY <1>9, <1>10, <1>11, <1>14 DEF ReqInv

LEMMA ReqEnds ==
  ASSUME RInv, NEW p \in Live',
         GiveUp \/ CompleteAnswered \/ CompleteUnheard \/ SendAbort \/ CollectorRestart
  PROVE  ReqInv(p)'
<1>1. UNCHANGED <<plans, lastCycle, bars>>
  BY DEF GiveUp, CompleteAnswered, CompleteUnheard, SendAbort, CollectorRestart, vars, sessionVars
<1>2. p \in Live /\ Copies(p, p)
  BY <1>1 DEF Live, Copies
<1>3. phase' # "collecting"
  BY DEF GiveUp, CompleteAnswered, CompleteUnheard, SendAbort, CollectorRestart, Return
<1>4. jobs' \subseteq jobs /\ wire' \subseteq wire \cup {Abortion(plan.id)}
  BY DEF GiveUp, CompleteAnswered, CompleteUnheard, SendAbort, CollectorRestart
<1>5. MyJobs' \subseteq MyJobs /\ Batches' \subseteq Batches /\ Ends' \subseteq Ends
  BY <1>1, <1>4 DEF MyJobs, Batches, Ends, Abortion
<1> QED
  BY <1>1, <1>2, <1>3, <1>5, ReqQuiet

\* The jobs after the answer to m: those that wait for it have heard it.
LEMMA AcknowledgedJobs ==
  ASSUME PInv, SupInv, NEW m, NEW ack, Acknowledge(m, ack), lastCycle' = lastCycle
  PROVE  \A k \in MyJobs' : \E j \in MyJobs :
           /\ SameGroup(j, k) /\ k.rows = j.rows /\ k.unsent = j.unsent /\ k.sent = j.sent
           /\ k.stage = j.stage
           /\ k.ack = j.ack \/ (k.ack = ack /\ k.sent = DOMAIN m.rows)
<1> SUFFICES ASSUME NEW k \in MyJobs'
             PROVE  \E j \in MyJobs :
                      /\ SameGroup(j, k) /\ k.rows = j.rows /\ k.unsent = j.unsent
                      /\ k.sent = j.sent /\ k.stage = j.stage
                      /\ k.ack = j.ack \/ (k.ack = ack /\ k.sent = DOMAIN m.rows)
  OBVIOUS
<1>1. PICK j \in jobs :
        k = IF j.sent # {} /\ Batch(j) = m THEN [j EXCEPT !.ack = ack] ELSE j
  BY DEF MyJobs, Acknowledge
<1>2. j \in JobType /\ JobFits(j)
  BY DEF PInv, WireInv, SupInv
<1>3. CASE k = j
  BY <1>3 DEF MyJobs, SameGroup
<1>4. CASE Batch(j) = m /\ k = [j EXCEPT !.ack = ack]
  <2>1. /\ SameGroup(j, k) /\ k.rows = j.rows /\ k.unsent = j.unsent /\ k.sent = j.sent
        /\ k.stage = j.stage /\ k.ack = ack
    BY <1>2, <1>4 DEF JobType, SameGroup
  <2>2. DOMAIN m.rows = j.sent
    BY <1>2, <1>4 DEF Batch, Restrict, JobFits
  <2>3. j \in MyJobs
    BY <2>1 DEF MyJobs, SameGroup
  <2> QED
    BY <2>1, <2>2, <2>3
<1> QED
  BY <1>1, <1>3, <1>4

\* The store receives the closes of D, all of them or none of the batch m.
LEMMA ReqAcknowledged ==
  ASSUME RInv, NEW p \in Live, NEW q, NEW m, NEW ack, NEW D,
         Copies(p, q), q.received = p.received \cup D, Acknowledge(m, ack),
         \/ ack = "accepted" /\ D = DOMAIN m.rows /\ m \in Batches
         \/ ack = "rejected" /\ D = {},
         \A k \in Keys : bars'[k] = IF k \in D THEN m.rows[k] ELSE bars[k],
         wire' \subseteq wire, lastCycle' = lastCycle,
         UNCHANGED <<phase, plan, pending, succeeded, manifest>>
  PROVE  ReqInv(q)'
<1>1. ReqInv(p)
  BY DEF RInv
<1>2. Batches' \subseteq Batches /\ Ends' \subseteq Ends
  BY DEF Batches, Ends
<1>3. \A k \in MyJobs' : \E j \in MyJobs :
           /\ SameGroup(j, k) /\ k.rows = j.rows /\ k.unsent = j.unsent /\ k.sent = j.sent
           /\ k.stage = j.stage
           /\ k.ack = j.ack \/ (k.ack = ack /\ k.sent = DOMAIN m.rows)
  BY AcknowledgedJobs DEF RInv
<1>4. \A k : Out(q, k)' => Out(p, k)
  BY <1>2 DEF Out
<1>5. Expected(q)' = Expected(p) /\ Expected(plan)' = Expected(plan) /\ Expected(p) \subseteq Keys
  BY DEF Copies, Expected
<1>6. \A n \in Batches : DOMAIN n.rows \subseteq Keys
  BY <1>1, <1>5 DEF ReqInv, InWindow
<1>7. \A j \in MyJobs : DOMAIN j.rows \subseteq Keys
  BY RowSetsAreFunctions DEF MyJobs, RInv, PInv, WireInv, JobType
<1>8. Agreed(p)
  BY <1>1 DEF ReqInv
<1>9. Agreed(q)'
  <2>1. (\A n \in Batches : \A k \in DOMAIN n.rows : k \in q.received => bars[k] = n.rows[k])'
    BY <1>2, <1>6, <1>8 DEF Agreed
  <2>2. (\A i \in MyJobs : \A k \in DOMAIN i.rows : k \in q.received => bars[k] = i.rows[k])'
    <3>1. ASSUME NEW j \in MyJobs, NEW k \in DOMAIN j.rows, k \in q.received
          PROVE  bars'[k] = j.rows[k]
      <4>1. k \in Keys
        BY <1>7
      <4>2. CASE k \in D
        BY <1>8, <4>1, <4>2 DEF Agreed
      <4>3. CASE k \notin D
        BY <1>8, <3>1, <4>1, <4>3 DEF Agreed
      <4> QED
        BY <4>2, <4>3
    <3> QED
      BY <1>3, <3>1
  <2>3. (\A n, o \in Batches :
           \A k \in (DOMAIN n.rows) \cap (DOMAIN o.rows) : n.rows[k] = o.rows[k])'
    BY <1>2, <1>8 DEF Agreed
  <2>4. (\A i \in MyJobs, n \in Batches :
           \A k \in (DOMAIN i.rows) \cap (DOMAIN n.rows) : i.rows[k] = n.rows[k])'
    BY <1>2, <1>3, <1>8 DEF Agreed
  <2> QED
    BY <2>1, <2>2, <2>3, <2>4 DEF Agreed
<1>10. InWindow(q)'
  BY <1>1, <1>2, <1>3, <1>4, <1>5 DEF ReqInv, InWindow, SameGroup
<1>11. D = {} \/ \A k \in D : Out(p, k) /\ k \in Keys
  BY <1>6 DEF Out
<1>12. Returned(q)'
  BY <1>1, <1>4 DEF ReqInv, Returned
<1>13. ManifestIsGap(q)'
  <2> SUFFICES ASSUME phase = "collecting"
               PROVE  manifest = {k \in Expected(plan) : k[1] \in succeeded /\ k \notin q.received}
    BY <1>5 DEF ManifestIsGap
  <2>1. manifest = {k \in Expected(plan) : k[1] \in succeeded /\ k \notin p.received}
    BY <1>1 DEF ReqInv, ManifestIsGap
  <2>2. \A k \in D : k[1] \in succeeded => k \in p.received
    BY <1>1, <1>11 DEF ReqInv, Returned
  <2> QED
    BY <2>1, <2>2
<1>14. EndIsLast(q)'
  <2> SUFFICES ASSUME NEW e \in Ends'
               PROVE  /\ e.symbols = q.symbols /\ e.claims = Gap(q)' /\ MyJobs' = {}
                      /\ \A n \in Batches' : DOMAIN n.rows \subseteq q.received
    BY DEF EndIsLast
  <2>1. /\ e.symbols = p.symbols /\ e.claims = Gap(p) /\ MyJobs = {}
        /\ \A n \in Batches : DOMAIN n.rows \subseteq p.received
    BY <1>1, <1>2 DEF ReqInv, EndIsLast
  <2>2. q.received = p.received
    BY <2>1
  <2>3. Gap(q)' = Gap(p)
    BY <1>5, <2>2 DEF Gap
  <2> QED
    BY <1>2, <1>3, <2>1, <2>2, <2>3 DEF Copies
<1>15. (\A k \in MyJobs : Pushed(q, k))'
  <2> SUFFICES ASSUME NEW k \in MyJobs' PROVE Pushed(q, k)'
    OBVIOUS
  <2>1. PICK j \in MyJobs :
           /\ SameGroup(j, k) /\ k.rows = j.rows /\ k.unsent = j.unsent /\ k.sent = j.sent
           /\ k.stage = j.stage
           /\ k.ack = j.ack \/ (k.ack = ack /\ k.sent = DOMAIN m.rows)
    BY <1>3
  <2>2. Pushed(p, j)
    BY <1>1 DEF ReqInv
  <2>3. (\A x \in Keys : Out(q, x) /\ x[1] \in k.group => x \in (DOMAIN k.rows) \ k.unsent)'
    BY <1>4, <2>1, <2>2 DEF Pushed, SameGroup
  <2>4. k.stage = "pushing" => (DOMAIN k.rows) \ (k.unsent \cup k.sent) \subseteq q.received
    BY <2>1, <2>2 DEF Pushed
  <2>5. k.ack = "accepted" => k.sent \subseteq q.received
    BY <2>1, <2>2 DEF Pushed
  <2> QED
    BY <2>3, <2>4, <2>5 DEF Pushed
<1> QED
  BY <1>9, <1>10, <1>12, <1>13, <1>14, <1>15 DEF ReqInv

LEMMA ReqServeBatch ==
  ASSUME RInv, NEW m \in wire, ServeBatch(m), NEW q \in Live'
  PROVE  ReqInv(q)'
<1>1. /\ m.kind = "batch" /\ wire' \subseteq wire
      /\ UNCHANGED <<phase, plan, pending, succeeded, manifest>>
  BY DEF ServeBatch, supervisorVars
<1>2. ASSUME NEW p \in plans, p.id = m.cycle, AcceptBatch(p, m.rows), Acknowledge(m, "accepted")
      PROVE  ReqInv(q)'
  <2>1. plans = {p} /\ p \in Cycle /\ p.id = lastCycle
    BY LivePlan
  <2>2. /\ ~p.completed /\ plans' = (plans \ {p}) \cup {[p EXCEPT !.received = @ \cup DOMAIN m.rows]}
        /\ bars' = [k \in Keys |-> IF k \in DOMAIN m.rows THEN m.rows[k] ELSE bars[k]]
        /\ lastCycle' = lastCycle
    BY <1>2 DEF AcceptBatch, Accepts
  <2>3. q = [p EXCEPT !.received = p.received \cup DOMAIN m.rows]
    BY <2>1, <2>2 DEF Live
  <2>4. Copies(p, q) /\ q.received = p.received \cup DOMAIN m.rows
    BY <2>1, <2>3, UpdatedCopies DEF Cycle
  <2>5. p \in Live /\ m \in Batches
    BY <1>1, <1>2, <2>1, <2>2 DEF Live, Batches
  <2>6. \A k \in Keys : bars'[k] = IF k \in DOMAIN m.rows THEN m.rows[k] ELSE bars[k]
    BY <2>2
  <2> QED
    BY <1>1, <1>2, <2>2, <2>4, <2>5, <2>6, ReqAcknowledged
<1>3. ASSUME UNCHANGED vars, Acknowledge(m, "rejected")
      PROVE  ReqInv(q)'
  <2>1. lastCycle' = lastCycle /\ bars' = bars /\ q \in Live
    BY <1>3 DEF vars, sessionVars, Live
  <2>2. PICK none : none = {}
    OBVIOUS
  <2>3. Copies(q, q) /\ q.received = q.received \cup none
    BY <2>2 DEF Copies
  <2>4. \A k \in Keys : bars'[k] = IF k \in none THEN m.rows[k] ELSE bars[k]
    BY <2>1, <2>2
  <2> QED
    BY <1>1, <1>3, <2>1, <2>2, <2>3, <2>4, ReqAcknowledged
<1> QED
  BY <1>2, <1>3 DEF ServeBatch

\* Nothing the store does for others disturbs the requests of a live plan.
LEMMA ReqStore ==
  ASSUME RInv, NEW q \in Live',
         \/ \E m \in wire : ServeComplete(m) \/ ServeAbort(m)
         \/ \E c \in accepted : ServeEnqueue(c)
         \/ Computing \/ ComputeFails \/ Age \/ ApiRestart \/ UNCHANGED protocolVars
  PROVE  ReqInv(q)'
<1>1. /\ UNCHANGED <<phase, plan, pending, succeeded, manifest, jobs, lastCycle>>
      /\ wire' \subseteq wire
  BY DEF ServeComplete, ServeAbort, ServeEnqueue, Complete, Abort, Enqueue, EnqueueCancelled,
     Computing, ComputeFails, Age, ApiRestart, protocolVars, collectorVars, supervisorVars, vars,
     sessionVars, WorkerTake, WorkerWrite, WorkerFinish, WorkerFail, AgePlan, Restart
<1>2. MyJobs' \subseteq MyJobs /\ Batches' \subseteq Batches /\ Ends' \subseteq Ends
  BY <1>1 DEF MyJobs, Batches, Ends
<1>3. ASSUME NEW p \in Live, Copies(p, q), q.received = p.received, bars' = bars
      PROVE  ReqInv(q)'
  BY <1>1, <1>2, <1>3, ReqQuiet
<1>4. CASE plans' \subseteq plans /\ bars' = bars
  BY <1>3, <1>4 DEF Live, Copies
<1>5. ASSUME NEW p \in plans, AgePlan(p)
      PROVE  ReqInv(q)'
  <2>1. plans = {p} /\ p \in Cycle
    BY LivePlan
  <2>2. plans' = (plans \ {p}) \cup {[p EXCEPT !.aged = TRUE]} /\ ~p.completed /\ bars' = bars
    BY <1>5 DEF AgePlan
  <2>3. q = [p EXCEPT !.aged = TRUE] /\ p \in Live
    BY <2>1, <2>2 DEF Live
  <2>4. Copies(p, q) /\ q.received = p.received
    BY <2>1, <2>3, UpdatedCopies DEF Cycle
  <2> QED
    BY <1>3, <2>2, <2>3, <2>4
<1>6. ASSUME NEW p \in plans, NEW listed, NEW claims, Complete(p, listed, claims, Confirmations)
      PROVE  FALSE
  <2>1. plans = {p} /\ p \in Cycle
    BY LivePlan
  <2>2. plans' = (plans \ {p}) \cup {[p EXCEPT !.completed = TRUE]}
    BY <1>6 DEF Complete
  <2>3. q = [p EXCEPT !.completed = TRUE] /\ ~q.completed
    BY <2>1, <2>2 DEF Live
  <2> QED
    BY <2>1, <2>3 DEF Cycle
<1>7. CASE \E m \in wire : ServeComplete(m) \/ ServeAbort(m)
  BY <1>4, <1>6, <1>7 DEF ServeComplete, ServeAbort, Abort, vars, sessionVars
<1>8. CASE \E c \in accepted : ServeEnqueue(c)
  BY <1>4, <1>8 DEF ServeEnqueue, Enqueue, EnqueueCancelled, sessionVars
<1>9. CASE Computing \/ ComputeFails \/ UNCHANGED protocolVars
  BY <1>4, <1>9 DEF Computing, ComputeFails, protocolVars, vars, sessionVars, WorkerTake,
     WorkerWrite, WorkerFinish, WorkerFail, FinishProcessing
<1>10. CASE Age
  BY <1>5, <1>10 DEF Age
<1>11. CASE ApiRestart
  BY <1>11 DEF ApiRestart, Restart, Live
<1> QED
  BY <1>7, <1>8, <1>9, <1>10, <1>11

LEMMA ReqNext == RInv /\ [ProtocolNext]_protocolVars => (\A p \in Live : ReqInv(p))'
<1> SUFFICES ASSUME RInv, [ProtocolNext]_protocolVars, NEW p \in Live' PROVE ReqInv(p)'
  OBVIOUS
<1>1. CASE Supervise
  <2>1. CASE PollNothing
    BY <2>1, ReqStore DEF PollNothing
  <2> QED
    BY <1>1, <2>1, ReqPoll, ReqStartJob, ReqJobReturns, ReqSendComplete, ReqEnds DEF Supervise
<1>2. CASE Work
  BY <1>2, WorkSteps, ReqWork DEF RInv
<1>3. CASE Serve
  BY <1>3, ReqServeBatch, ReqStore DEF Serve
<1> QED
  BY <1>1, <1>2, <1>3, ReqStore, ReqEnds DEF ProtocolNext

-----------------------------------------------------------------------------
(***************************************************************************)
(* The theorems.                                                           *)
(***************************************************************************)
LEMMA RInvHolds == ProtocolSpec => []RInv
<1>1. ProtocolInit => RInv
  BY ProtocolInitInv, SupInit DEF RInv, Live, ProtocolInit, Init
<1>2. RInv /\ [ProtocolNext]_protocolVars => RInv'
  BY ProtocolNextInv, SupNext, ReqNext DEF RInv
<1> QED
  BY <1>1, <1>2, PTL DEF ProtocolSpec

\* The supervisor's books, its jobs and the two blacklists keep their types:
\* in particular the API never lists a symbol the collector does not, and a
\* failure count never reaches the limit without being reset.
THEOREM CollectorTypeCorrect == ProtocolSpec => []CollectorTypeOK
<1>1. RInv => CollectorTypeOK
  <2> SUFFICES ASSUME RInv PROVE CollectorTypeOK
    OBVIOUS
  <2>1. phase \in Phases /\ plan \in Cycle /\ Books
    BY DEF RInv, SupInv, Ids, PInv, WireInv
  <2>2. \A j \in jobs : j.group \subseteq Symbols /\ JobFits(j)
    BY DEF RInv, SupInv, PInv, WireInv, JobType
  <2> QED
    BY <2>1, <2>2 DEF CollectorTypeOK, Books, JobFits
<1> QED
  BY <1>1, RInvHolds, PTL

\* Whatever reports are lost and whatever requests of earlier cycles arrive
\* late, no cycle is completed with a symbol the collector has blacklisted.
THEOREM BlacklistIsRespected == ProtocolSpec => []NoBlacklistedCompletion
<1>1. RInv => NoBlacklistedCompletion
  BY DEF RInv, SupInv, PoolIsClean
<1> QED
  BY <1>1, RInvHolds, PTL

\* A batch on its way repeats or extends what its plan has received, and a
\* completion on its way claims exactly the gap, until the plan is completed.
THEOREM RequestsFit == ProtocolSpec => []RequestsFitTheirPlan
<1>1. RInv => RequestsFitTheirPlan
  <2> SUFFICES ASSUME RInv, NEW m \in wire, NEW p \in plans, p.id = m.cycle, ~p.completed
               PROVE  /\ m.kind = "batch" => Accepts(p, m.rows)
                      /\ m.kind = "complete" =>
                           Completable(p, m.symbols, m.claims, Confirmations)
    BY DEF RequestsFitTheirPlan
  <2>1. p.id = lastCycle /\ p \in Live /\ ReqInv(p)
    BY LivePlan DEF Live, RInv
  <2>2. ASSUME m.kind = "batch" PROVE Accepts(p, m.rows)
    <3>1. m \in Batches
      BY <2>1, <2>2 DEF Batches
    <3> QED
      BY <2>1, <3>1 DEF ReqInv, Agreed, InWindow, Accepts
  <2>3. ASSUME m.kind = "complete" PROVE Completable(p, m.symbols, m.claims, Confirmations)
    <3>1. m \in Ends
      BY <2>1, <2>3 DEF Ends
    <3>2. m.symbols = p.symbols /\ m.claims = Gap(p)
      BY <2>1, <3>1 DEF ReqInv, EndIsLast
    <3>3. ~inFlight
      BY DEF RInv, PInv, IInv, InFlightCompleted
    <3> QED
      BY <3>2, <3>3 DEF Completable
  <2> QED
    BY <2>2, <2>3
<1> QED
  BY <1>1, RInvHolds, PTL

-----------------------------------------------------------------------------
(***************************************************************************)
(* The pool.  A symbol is blacklisted, and reported, only before its cycle *)
(* is completed, and a completion is served with every blacklisted symbol  *)
(* out of it.  So the pool on offer and the pool of a computation in       *)
(* flight are one, and blacklisting never opens a second session beside a  *)
(* computation, as other changes of the pool do (symbols watched for their *)
(* next-day validation, which the supervisor's side leaves out).           *)
(***************************************************************************)
PoolIsOffer ==
  date # NoDate => /\ universe = [symbols |-> universe.symbols, eligible |-> universe.symbols]
                   /\ Offered.symbols \subseteq universe.symbols
                   /\ universe.symbols \subseteq Symbols

FlightPool == inFlight => phase # "collecting" /\ universe = Offered

PoolInv == RInv /\ FlightInv /\ PoolIsOffer /\ FlightPool

\* What a step of the API's other actors does to the session.
PoolKept == UNCHANGED <<date, universe, apiBlacklist>> /\ (inFlight' => inFlight)

LEMMA KeptPool ==
  ASSUME PoolInv, PoolKept, phase' # "collecting" \/ phase' = phase
  PROVE  (PoolIsOffer /\ FlightPool)'
<1>1. Offered' = Offered
  BY DEF PoolKept, Offered
<1> QED
  BY <1>1 DEF PoolInv, PoolKept, PoolIsOffer, FlightPool

\* A poll opens a session for the pool on offer, or finds that pool open.
LEMMA PlannedPool ==
  ASSUME PoolInv, NEW d \in Dates, NEW avail \in Availability, AskForPlan(d, avail)
  PROVE  \/ UNCHANGED <<date, universe, inFlight, lastCycle>>
         \/ date' # NoDate /\ universe' = Offered /\ ~inFlight /\ ~inFlight'
<1>1. d # NoDate
  BY DatesAssumption
<1>2. BeginPlan(d, Offered, avail)
  BY DEF AskForPlan
<1>3. CASE BeginPlanRefused(d, Offered)
  BY <1>3 DEF BeginPlanRefused
<1>4. CASE BeginPlanNewSession(d, Offered, avail)
  <2>1. ~inFlight
    BY <1>4 DEF BeginPlanNewSession, RefusesDate, NeedsNewSession, Busy, PoolInv, FlightPool,
       FlightInv, SessionIsOpen
  <2> QED
    BY <1>1, <1>4, <2>1 DEF BeginPlanNewSession
<1>5. CASE BeginPlanSameSession(d, Offered, avail)
  BY <1>1, <1>5 DEF BeginPlanSameSession, NeedsNewSession, Busy
<1> QED
  BY <1>2, <1>3, <1>4, <1>5 DEF BeginPlan

LEMMA PoolPoll ==
  ASSUME PoolInv, NEW d \in Dates, NEW avail \in Availability,
         Poll(d, avail) \/ PollUnheard(d, avail)
  PROVE  (PoolIsOffer /\ FlightPool)'
<1>1. phase = "idle" /\ AskForPlan(d, avail)
  BY DEF Poll, PollUnheard, AskForPlan
<1>2. apiBlacklist \subseteq apiBlacklist'
  BY DEF Poll, PollUnheard, Report
<1>3. CASE UNCHANGED <<date, universe, inFlight, lastCycle>>
  BY <1>1, <1>3, KeptPool DEF Poll, PollUnheard, PoolKept, supervisorVars
<1>4. CASE date' # NoDate /\ universe' = Offered /\ ~inFlight'
  BY <1>2, <1>4 DEF PoolIsOffer, FlightPool, Offered
<1> QED
  BY <1>1, <1>3, <1>4, PlannedPool

\* A report that blacklists is made while the cycle still collects.
LEMMA PoolJobReturns ==
  ASSUME PoolInv, NEW j \in jobs, JobReturns(j)
  PROVE  (PoolIsOffer /\ FlightPool)'
<1>1. ~inFlight /\ UNCHANGED <<date, universe, inFlight>>
  BY DEF JobReturns, PoolInv, FlightPool, vars, sessionVars
<1>2. apiBlacklist \subseteq apiBlacklist'
  BY DEF JobReturns, Report
<1>3. Offered'.symbols \subseteq Offered.symbols
  BY <1>2 DEF Offered
<1> QED
  BY <1>1, <1>3 DEF PoolInv, PoolIsOffer, FlightPool

\* A completion lists a pool without blacklisted symbols, and every other symbol
\* is on offer.
LEMMA PoolServeComplete ==
  ASSUME PoolInv, NEW m \in wire, ServeComplete(m)
  PROVE  (PoolIsOffer /\ FlightPool)'
<1>1. CASE UNCHANGED vars
  BY <1>1, KeptPool DEF ServeComplete, PoolKept, vars, sessionVars
<1>2. ASSUME NEW p \in plans, p.id = m.cycle, Complete(p, m.symbols, m.claims, Confirmations)
      PROVE  (PoolIsOffer /\ FlightPool)'
  <2>1. p.id = lastCycle /\ date # NoDate /\ p.symbols = universe.symbols
    BY DEF PoolInv, RInv, SupInv, Ids, FlightInv, SessionIsOpen, IInv, PlanWindows
  <2>2. m \in Ends
    BY <1>2, <2>1 DEF Ends, ServeComplete
  <2>3. phase # "collecting" /\ m.symbols \cap blacklist = {} /\ apiBlacklist \subseteq blacklist
    BY <2>2 DEF PoolInv, RInv, SupInv, NotEnded, PoolIsClean, Books
  <2>4. m.symbols = universe.symbols
    BY <1>2, <2>1 DEF Complete, Completable
  <2>5. universe = Offered
    BY <2>1, <2>3, <2>4 DEF PoolInv, PoolIsOffer, Offered
  <2>6. UNCHANGED <<date, universe, phase, apiBlacklist>>
    BY <1>2 DEF ServeComplete, Complete
  <2>7. Offered' = Offered
    BY <2>6 DEF Offered
  <2> QED
    BY <2>3, <2>5, <2>6, <2>7 DEF PoolInv, PoolIsOffer, FlightPool
<1> QED
  BY <1>1, <1>2 DEF ServeComplete

LEMMA PoolNext == PoolInv /\ [ProtocolNext]_protocolVars => PoolInv'
<1> SUFFICES ASSUME PoolInv, [ProtocolNext]_protocolVars PROVE PoolInv'
  OBVIOUS
<1>1. RInv' /\ FlightInv'
  BY ProtocolNextInv, SupNext, ReqNext, StepSimulation, FlightNext DEF PoolInv, RInv
<1> SUFFICES (PoolIsOffer /\ FlightPool)'
  BY <1>1 DEF PoolInv
<1>2. CASE Supervise
  <2>1. CASE PollNothing
    BY <2>1, KeptPool DEF PollNothing, PoolKept, protocolVars, vars, sessionVars, collectorVars,
       supervisorVars
  <2>2. CASE \E group \in SUBSET pending : StartJob(group)
    BY <2>2, KeptPool DEF StartJob, PoolKept, vars, sessionVars
  <2>3. CASE GiveUp \/ SendComplete \/ CompleteAnswered \/ CompleteUnheard \/ SendAbort
    BY <2>3, KeptPool DEF GiveUp, SendComplete, CompleteAnswered, CompleteUnheard, SendAbort,
       Return, PoolKept, vars, sessionVars
  <2> QED
    BY <1>2, <2>1, <2>2, <2>3, PoolPoll, PoolJobReturns DEF Supervise
<1>3. CASE Work
  <2>1. UNCHANGED <<vars, supervisorVars, apiBlacklist>>
    BY <1>3 DEF Work, JobRead, JobProviderUnavailable, JobPush, JobAnswered, JobUnheard,
       JobForgotten
  <2> QED
    BY <2>1, KeptPool DEF PoolKept, vars, sessionVars, supervisorVars
<1>4. CASE Serve
  <2>1. ASSUME NEW m \in wire, ServeBatch(m) \/ ServeAbort(m)
        PROVE  PoolKept /\ phase' = phase
    BY <2>1 DEF ServeBatch, AcceptBatch, ServeAbort, Abort, PoolKept, vars, sessionVars,
       supervisorVars
  <2>2. ASSUME NEW c \in accepted, ServeEnqueue(c)
        PROVE  PoolKept /\ phase' = phase
    BY <2>2 DEF ServeEnqueue, Enqueue, EnqueueCancelled, PoolKept, sessionVars
  <2> QED
    BY <1>4, <2>1, <2>2, KeptPool, PoolServeComplete DEF Serve
<1>5. CASE Computing \/ ComputeFails
  BY <1>5, KeptPool DEF Computing, ComputeFails, WorkerTake, WorkerWrite, WorkerFinish,
     WorkerFail, FinishProcessing, PoolKept, sessionVars, collectorVars, supervisorVars
<1>6. CASE Age
  BY <1>6, KeptPool DEF Age, AgePlan, PoolKept, collectorVars, supervisorVars
<1>7. CASE CollectorRestart
  BY <1>7, KeptPool DEF CollectorRestart, Return, PoolKept, vars, sessionVars
<1>8. CASE ApiRestart
  BY <1>8 DEF ApiRestart, Restart, PoolIsOffer, FlightPool
<1>9. CASE UNCHANGED protocolVars
  BY <1>9, KeptPool DEF PoolKept, protocolVars, vars, sessionVars, collectorVars, supervisorVars
<1> QED
  BY <1>2, <1>3, <1>4, <1>5, <1>6, <1>7, <1>8, <1>9 DEF ProtocolNext

LEMMA PoolInvHolds == ProtocolSpec => []PoolInv
<1>1. ProtocolInit => PoolIsOffer /\ FlightPool
  BY DEF ProtocolInit, Init, PoolIsOffer, FlightPool
<1>2. ProtocolInit => PoolInv
  BY <1>1, ProtocolInitInv, SupInit, InitInv
     DEF PoolInv, RInv, Live, ProtocolInit, Init, FlightInv, SessionIsOpen, CompletedInFlight
<1> QED
  BY <1>2, PoolNext, PTL DEF ProtocolSpec

\* Only an API restart takes the pool from under a computation.
LEMMA PoolSteps ==
  ASSUME PoolInv, [ProtocolNext]_protocolVars, inFlight
  PROVE  universe' = universe \/ date' = NoDate
<1>1. PoolInv'
  BY PoolNext
<1>2. ASSUME NEW d \in Dates, NEW avail \in Availability, AskForPlan(d, avail)
      PROVE  universe' = universe
  BY <1>2, PlannedPool
<1>3. CASE Supervise
  BY <1>2, <1>3
     DEF Supervise, Poll, PollUnheard, PollNothing, StartJob, JobReturns, GiveUp, SendComplete,
         CompleteAnswered, CompleteUnheard, SendAbort, protocolVars, vars, sessionVars
<1>4. CASE Work
  BY <1>4 DEF Work, JobRead, JobProviderUnavailable, JobPush, JobAnswered, JobUnheard,
     JobForgotten, vars, sessionVars
<1>5. CASE Serve
  BY <1>5 DEF Serve, ServeBatch, AcceptBatch, ServeComplete, Complete, ServeAbort, Abort,
     ServeEnqueue, Enqueue, EnqueueCancelled, vars, sessionVars
<1>6. CASE Computing \/ ComputeFails \/ Age
  BY <1>6 DEF Computing, ComputeFails, WorkerTake, WorkerWrite, WorkerFinish, WorkerFail,
     FinishProcessing, Age, AgePlan, sessionVars
<1>7. CASE CollectorRestart \/ ApiRestart \/ UNCHANGED protocolVars
  BY <1>7 DEF CollectorRestart, ApiRestart, Restart, protocolVars, vars, sessionVars
<1> QED
  BY <1>3, <1>4, <1>5, <1>6, <1>7 DEF ProtocolNext

\* Blacklisting leaves the store's pool as it is while a computation is in
\* flight: what BeginPlan takes for granted of the pool, and does not check.
\* Like the two theorems that rest on it, it speaks of plan requests that read
\* the pool and begin their plan without another one in between (AskForPlan).
THEOREM BlacklistKeepsThePool == ProtocolSpec => PoolStaysWhileComputing
<1>1. PoolInv /\ [ProtocolNext]_protocolVars =>
        [inFlight => universe' = universe \/ date' = NoDate]_vars
  BY PoolSteps
<1> QED
  BY <1>1, PoolInvHolds, PTL DEF ProtocolSpec, PoolStaysWhileComputing

\* So no second plan is issued beside a computation by way of the blacklist,
\* whatever reports are lost or repeated and whatever is restarted.
THEOREM BlacklistNeverOverlaps == ProtocolSpec => []NoPlanWhileComputing
BY CollectorUsesSession, BlacklistKeepsThePool, OverlapNeedsNewPool, PTL DEF SessionSpec

\* And once a computation is lost, nothing this collector does, blacklisting
\* included, and no timeout releases the store: only a restart of the API does.
THEOREM OnlyRestartEndsStall == ProtocolSpec => [][Stalled /\ ~Stalled' => date' = NoDate]_vars
<1>1. [Stalled /\ ~Stalled' => date' = NoDate \/ (date' = date /\ universe' # universe)]_vars
        /\ [inFlight => universe' = universe \/ date' = NoDate]_vars
        => [Stalled /\ ~Stalled' => date' = NoDate]_vars
  BY DEF Stalled
<1>2. SessionSpec =>
        [][Stalled /\ ~Stalled' =>
             \/ date' = NoDate
             \/ date' = date /\ universe' # universe]_vars
  BY StallsLast DEF SessionSpec, OnlyNewPoolEndsStall
<1>3. ProtocolSpec => [][inFlight => universe' = universe \/ date' = NoDate]_vars
  BY BlacklistKeepsThePool DEF PoolStaysWhileComputing
<1> QED
  BY <1>1, <1>2, <1>3, CollectorUsesSession, PTL
=============================================================================
