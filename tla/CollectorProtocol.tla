-------------------------- MODULE CollectorProtocol --------------------------
(***************************************************************************)
(* The Python collector (CollectorSupervisor and its worker processes)     *)
(* driving the API's session store of CollectionSession over HTTP.         *)
(*                                                                         *)
(* The supervisor asks for a plan, hands groups of symbols to its worker   *)
(* processes, applies what they return to its durable failure counts and   *)
(* blacklist, and ends the cycle with one "complete" or one "abort".  A    *)
(* job reads a whole group, pushes the rows of the symbols it has read     *)
(* successfully, and returns.  When the supervisor gives a cycle up, jobs  *)
(* that are still running carry on, unheard.                               *)
(*                                                                         *)
(* A request is on the wire until the API serves it.  A caller that hears  *)
(* nothing cannot know whether it was lost, is late, or has been served:   *)
(* batches are then sent again, "complete" and "abort" are not.  Every     *)
(* failure, of the network, a provider or a process, spends one of         *)
(* MaxFaults.                                                              *)
(***************************************************************************)
EXTENDS CollectionSession

CONSTANTS
  SymbolsPerJob,       \* SYMBOLS_PER_JOB (200)
  Workers,             \* WORKER_PROCESS_COUNT (6)
  MaxPushBars,         \* rows in one batch the collector sends
  MaxAttempts,         \* times a batch is sent: first send and retries (4)
  MaxFailureAttempts,  \* MAX_FAILURE_ATTEMPTS (3)
  MaxFaults            \* bound of the model

ASSUME CollectorAssumption ==
  /\ \A S \in SUBSET Symbols : S # {} => [symbols |-> S, eligible |-> S] \in Universes
  /\ {SymbolsPerJob, Workers, MaxPushBars, MaxAttempts, MaxFailureAttempts} \subseteq Nat \ {0}
  /\ MaxPushBars <= MaxBatchRows
  /\ MaxFaults \in Nat

VARIABLES
  phase,         \* where run_once is
  plan,          \* the plan it works on
  pending,       \* symbols waiting for a job
  jobs,          \* what the worker processes do
  succeeded,     \* symbols read and pushed in this cycle
  manifest,      \* sparse_manifest: the closes proved absent
  failures,      \* collector-state.json: consecutive failures of a symbol
  blacklist,     \* collector-state.json: blacklisted symbols
  stopping,      \* stop_scheduling: a symbol was blacklisted in this cycle
  reply,         \* the API's answer to "complete"
  wire,          \* requests the API has not served yet
  apiBlacklist,  \* the blacklist in MySQL, which the plan provider reads
  faults

supervisorVars == <<phase, plan, pending, succeeded, manifest, stopping, reply>>
stateFile      == <<failures, blacklist>>
collectorVars  == <<supervisorVars, stateFile, jobs, wire, apiBlacklist, faults>>
protocolVars   == <<vars, collectorVars>>

Phases == {"idle", "collecting", "completing", "aborting"}

NoCycle == [id |-> 0, symbols |-> {}, freqs |-> {}, from |-> [f \in Freqs |-> 0],
            to |-> [f \in Freqs |-> 0], received |-> {}, completed |-> FALSE, aged |-> FALSE]

NoRows == [k \in {} |-> NoBar]

Restrict(rows, S) == [k \in (DOMAIN rows) \cap S |-> rows[k]]

\* A job: the closes it must account for, the rows it has read, the symbols it
\* could not read, the rows left to push and the batch it waits for.
NewJob(group) == [cycle |-> plan.id, group |-> group,
                  due |-> {k \in Expected(plan) : k[1] \in group},
                  stage |-> "reading", rows |-> NoRows, bad |-> {},
                  unsent |-> {}, sent |-> {}, attempt |-> 0, ack |-> "none"]

Batch(j)    == [kind |-> "batch", cycle |-> j.cycle, attempt |-> j.attempt,
                rows |-> Restrict(j.rows, j.sent)]
Completion  == [kind |-> "complete", cycle |-> plan.id, symbols |-> plan.symbols,
                claims |-> manifest]
Abortion(c) == [kind |-> "abort", cycle |-> c]

Current == {j \in jobs : j.cycle = plan.id}

\* A network, provider or process failure.
Fault == faults < MaxFaults /\ faults' = faults + 1

ProtocolInit ==
  /\ Init
  /\ phase = "idle"
  /\ plan = NoCycle
  /\ pending = {} /\ jobs = {} /\ succeeded = {} /\ manifest = {}
  /\ failures = [s \in Symbols |-> 0]
  /\ blacklist = {}
  /\ stopping = FALSE
  /\ reply = "none"
  /\ wire = {}
  /\ apiBlacklist = {}
  /\ faults = 0

\* run_once returns or raises: its locals are gone.
Return ==
  /\ phase' = "idle" /\ plan' = NoCycle /\ pending' = {}
  /\ succeeded' = {} /\ manifest' = {} /\ stopping' = FALSE /\ reply' = "none"

-----------------------------------------------------------------------------
(***************************************************************************)
(* Asking for a plan.                                                      *)
(***************************************************************************)
\* Mutant: the provider does not stop at an empty pool.
AskForAnyPlan(d, avail) ==
  /\ phase = "idle"
  /\ BeginPlan(d, [symbols |-> Symbols \ apiBlacklist, eligible |-> Symbols \ apiBlacklist], avail)

\* What the plan provider offers: every symbol MySQL has not blacklisted.
Offered == [symbols |-> Symbols \ apiBlacklist, eligible |-> Symbols \ apiBlacklist]

\* A plan request is one step: one that has read the pool and reaches BeginPlan
\* after a later request is left to the open session, which begins any plan.
AskForPlan(d, avail) ==
  /\ phase = "idle"
  /\ Offered.symbols # {}
  /\ BeginPlan(d, Offered, avail)

\* Mutant: the local blacklist is not looked at.
NoneBlocked(p) == {}

Blocked(p) == p.symbols \cap blacklist

\* report_blacklist for each symbol of S; a report that fails is only logged.
Report(S) ==
  \/ apiBlacklist' = apiBlacklist \cup S /\ UNCHANGED faults
  \/ /\ S # {} /\ Fault
     /\ \E heard \in SUBSET S : heard # S /\ apiBlacklist' = apiBlacklist \cup heard

\* The answer arrives.  A plan that still holds a symbol of the local blacklist
\* is given up after the report has been repeated.
Poll(d, avail) ==
  /\ AskForPlan(d, avail)
  /\ IF lastCycle' = lastCycle
     THEN UNCHANGED <<phase, plan, pending, apiBlacklist, faults>>
     ELSE LET p == CHOOSE q \in plans' : TRUE
          IN  /\ plan' = p
              /\ phase' = IF Blocked(p) = {} THEN "collecting" ELSE "aborting"
              /\ pending' = IF Blocked(p) = {} THEN p.symbols ELSE {}
              /\ Report(Blocked(p))
  /\ UNCHANGED <<succeeded, manifest, stopping, reply, stateFile, jobs, wire>>

\* The plan is issued and the answer lost.  get_plan is sent again, which is
\* another poll: the API refuses it while the orphan is alive.
PollUnheard(d, avail) ==
  /\ Fault
  /\ AskForPlan(d, avail)
  /\ lastCycle' # lastCycle
  /\ UNCHANGED <<supervisorVars, stateFile, jobs, wire, apiBlacklist>>

\* With every symbol blacklisted the provider answers without asking the store.
PollNothing ==
  /\ phase = "idle"
  /\ Offered.symbols = {}
  /\ UNCHANGED protocolVars

(***************************************************************************)
(* collect_partition.                                                      *)
(***************************************************************************)
Become(j, k) == jobs' = (jobs \ {j}) \cup {k}

StartJob(group) ==
  /\ phase = "collecting"
  /\ ~stopping
  /\ Cardinality(Current) < Workers
  /\ group # {} /\ group \subseteq pending
  /\ Cardinality(group) <= SymbolsPerJob
  /\ pending' = pending \ group
  /\ jobs' = jobs \cup {NewJob(group)}
  /\ UNCHANGED <<vars, phase, plan, succeeded, manifest, stopping, reply, stateFile,
                 wire, apiBlacklist, faults>>

\* A frequency for which a whole group comes back empty, and nobody failed, is
\* the provider's failure and not a sparse bar of every symbol.
NothingRead(j, keys, bad) ==
  /\ bad = {}
  /\ \E f \in {k[2] : k \in j.due} : \A k \in keys : k[2] # f

\* Mutant: rows of a symbol that will be retried are pushed as well.
PushableAll(keys, bad) == keys

\* Only the rows of symbols read without an error are pushed.
Pushable(keys, bad) == {k \in keys : k[1] \notin bad}

\* The group is read.  What a good symbol lacks was confirmed absent by two
\* more identical reads.
JobRead(j, keys, bad) ==
  /\ j.stage = "reading"
  /\ ~NothingRead(j, keys, bad)
  /\ IF bad = {} THEN UNCHANGED faults ELSE Fault
  /\ \E rows \in [Pushable(keys, bad) -> Rows] :
       Become(j, [j EXCEPT !.stage = "pushing", !.rows = rows, !.bad = bad,
                           !.unsent = DOMAIN rows])
  /\ UNCHANGED <<vars, supervisorVars, stateFile, wire, apiBlacklist>>

JobProviderUnavailable(j) ==
  /\ j.stage = "reading"
  /\ Fault
  /\ Become(j, [j EXCEPT !.stage = "raised"])
  /\ UNCHANGED <<vars, supervisorVars, stateFile, wire, apiBlacklist>>

JobPush(j, keys) ==
  LET k == [j EXCEPT !.sent = keys, !.unsent = @ \ keys, !.attempt = 1]
  IN  /\ j.stage = "pushing" /\ j.sent = {}
      /\ keys # {} /\ keys \subseteq j.unsent
      /\ Cardinality(keys) <= MaxPushBars
      /\ Cardinality(keys) = MaxPushBars \/ keys = j.unsent
      /\ Become(j, k)
      /\ wire' = wire \cup {Batch(k)}
      /\ UNCHANGED <<vars, supervisorVars, stateFile, apiBlacklist, faults>>

\* The answer to a batch: the next one, or a rejection, which the job raises.
JobAnswered(j) ==
  /\ j.ack # "none"
  /\ Become(j, IF j.ack = "accepted" THEN [j EXCEPT !.sent = {}, !.ack = "none"]
               ELSE [j EXCEPT !.stage = "raised", !.sent = {}, !.ack = "none"])
  /\ UNCHANGED <<vars, supervisorVars, stateFile, wire, apiBlacklist, faults>>

\* No answer: the same batch is sent again, MaxAttempts times at most.  The
\* unheard request is lost, or still on its way.
JobUnheard(j) ==
  LET again == [j EXCEPT !.attempt = @ + 1, !.ack = "none"]
  IN  /\ j.stage = "pushing" /\ j.sent # {}
      /\ Fault
      /\ \E rest \in {wire, wire \ {Batch(j)}} :
           \/ /\ j.attempt < MaxAttempts
              /\ Become(j, again)
              /\ wire' = rest \cup {Batch(again)}
           \/ /\ j.attempt = MaxAttempts
              /\ Become(j, [j EXCEPT !.stage = "raised", !.sent = {}, !.ack = "none"])
              /\ wire' = rest
      /\ UNCHANGED <<vars, supervisorVars, stateFile, apiBlacklist>>

(***************************************************************************)
(* The supervisor's loop over finished jobs, and the end of the cycle.     *)
(***************************************************************************)
\* Mutant: one failure more is allowed.
OverLimit(s) == failures[s] + 1 > MaxFailureAttempts

\* This failure of s is the one that blacklists it.
ReachesLimit(s) == failures[s] + 1 >= MaxFailureAttempts

JobReturns(j) ==
  LET good  == j.group \ j.bad
      newly == {s \in j.bad : ReachesLimit(s)}
      halt  == stopping \/ newly # {}
  IN  /\ phase = "collecting" /\ j \in Current
      /\ j.stage = "pushing" /\ j.sent = {} /\ j.unsent = {}
      /\ jobs' = jobs \ {j}
      /\ failures' = [s \in Symbols |-> IF s \in good \cup newly THEN 0
                                        ELSE IF s \in j.bad THEN failures[s] + 1
                                        ELSE failures[s]]
      /\ blacklist' = blacklist \cup newly
      /\ Report(newly)
      /\ succeeded' = (succeeded \cup good) \ j.bad
      /\ manifest' = manifest \cup {k \in j.due \ DOMAIN j.rows : k[1] \in good}
      /\ stopping' = halt
      /\ pending' = IF halt THEN {} ELSE pending \cup j.bad
      /\ UNCHANGED <<vars, phase, plan, reply, wire>>

\* Any error a job raises ends the cycle; so does a blacklisted symbol, once
\* the running jobs have returned.
GiveUp ==
  /\ phase = "collecting"
  /\ \/ \E j \in Current : j.stage = "raised"
     \/ stopping /\ Current = {}
  /\ phase' = "aborting"
  /\ pending' = {}
  /\ UNCHANGED <<vars, plan, jobs, succeeded, manifest, stopping, reply, stateFile,
                 wire, apiBlacklist, faults>>

\* A job of a cycle the supervisor has given up ends.
JobForgotten(j) ==
  /\ ~(phase = "collecting" /\ j \in Current)
  /\ j.stage = "raised" \/ (j.stage = "pushing" /\ j.sent = {} /\ j.unsent = {})
  /\ jobs' = jobs \ {j}
  /\ UNCHANGED <<vars, supervisorVars, stateFile, wire, apiBlacklist, faults>>

SendComplete ==
  /\ phase = "collecting"
  /\ pending = {} /\ Current = {} /\ ~stopping
  /\ succeeded = plan.symbols
  /\ phase' = "completing"
  /\ wire' = wire \cup {Completion}
  /\ UNCHANGED <<vars, plan, pending, jobs, succeeded, manifest, stopping, reply,
                 stateFile, apiBlacklist, faults>>

\* 202: submitted for compute.  409: the exception path aborts.
CompleteAnswered ==
  /\ phase = "completing"
  /\ \/ reply = "accepted" /\ Return
     \/ /\ reply = "rejected" /\ phase' = "aborting"
        /\ UNCHANGED <<plan, pending, succeeded, manifest, stopping, reply>>
  /\ UNCHANGED <<vars, jobs, stateFile, wire, apiBlacklist, faults>>

\* complete is not retried.  An answer that cannot come any more needs no fault.
CompleteUnheard ==
  /\ phase = "completing"
  /\ \/ Fault
     \/ /\ Completion \notin wire /\ reply = "none" /\ plan.id \notin accepted
        /\ UNCHANGED faults
  /\ wire' \in {wire, wire \ {Completion}}
  /\ phase' = "aborting"
  /\ UNCHANGED <<vars, plan, pending, jobs, succeeded, manifest, stopping, reply,
                 stateFile, apiBlacklist>>

\* _abort_safely: one attempt, whatever comes of it; the next poll may come
\* before the API has served it.
SendAbort ==
  /\ phase = "aborting"
  /\ Return
  /\ \/ /\ wire' = wire \cup {Abortion(plan.id)} /\ UNCHANGED faults
     \/ /\ Fault /\ UNCHANGED wire
  /\ UNCHANGED <<vars, jobs, stateFile, apiBlacklist>>

\* The collector process ends and is started again: only its state file is left.
CollectorRestart ==
  /\ phase # "idle" \/ jobs # {}
  /\ Fault
  /\ Return
  /\ jobs' = {}
  /\ UNCHANGED <<vars, stateFile, wire, apiBlacklist>>

-----------------------------------------------------------------------------
(***************************************************************************)
(* The API serves a request.                                               *)
(***************************************************************************)
\* The answer reaches the job that still waits for it.
Acknowledge(m, ack) ==
  jobs' = {IF j.sent # {} /\ Batch(j) = m THEN [j EXCEPT !.ack = ack] ELSE j : j \in jobs}

ServeBatch(m) ==
  /\ m.kind = "batch"
  /\ wire' = wire \ {m}
  /\ \/ /\ \E p \in plans : p.id = m.cycle /\ AcceptBatch(p, m.rows)
        /\ Acknowledge(m, "accepted")
     \/ /\ \A p \in plans : p.id = m.cycle => ~Accepts(p, m.rows)
        /\ UNCHANGED vars
        /\ Acknowledge(m, "rejected")
  /\ UNCHANGED <<supervisorVars, stateFile, apiBlacklist, faults>>

\* An accepted completion is answered only after it has been enqueued.
ServeComplete(m) ==
  /\ m.kind = "complete"
  /\ wire' = wire \ {m}
  /\ \/ /\ \E p \in plans : p.id = m.cycle /\ Complete(p, m.symbols, m.claims, Confirmations)
        /\ UNCHANGED reply
     \/ /\ \A p \in plans :
             p.id = m.cycle => ~Completable(p, m.symbols, m.claims, Confirmations)
        /\ UNCHANGED vars
        /\ reply' = IF phase = "completing" /\ plan.id = m.cycle THEN "rejected" ELSE reply
  /\ UNCHANGED <<phase, plan, pending, succeeded, manifest, stopping, stateFile, jobs,
                 apiBlacklist, faults>>

\* The controller is cancelled only when its caller has hung up.
ServeEnqueue(c) ==
  LET heard == phase = "completing" /\ plan.id = c
  IN  /\ \/ Enqueue(c) /\ reply' = IF heard THEN "accepted" ELSE reply
         \/ EnqueueCancelled(c) /\ ~heard /\ UNCHANGED reply
      /\ UNCHANGED <<phase, plan, pending, succeeded, manifest, stopping, stateFile, jobs,
                     wire, apiBlacklist, faults>>

ServeAbort(m) ==
  /\ m.kind = "abort"
  /\ wire' = wire \ {m}
  /\ \/ \E p \in plans : p.id = m.cycle /\ Abort(p)
     \/ (\A p \in plans : p.id # m.cycle) /\ UNCHANGED vars
  /\ UNCHANGED <<supervisorVars, stateFile, jobs, apiBlacklist, faults>>

ApiRestart ==
  /\ Fault
  /\ Restart
  /\ UNCHANGED <<supervisorVars, stateFile, jobs, wire, apiBlacklist>>

ComputeFails ==
  /\ Fault
  /\ WorkerFail
  /\ UNCHANGED <<supervisorVars, stateFile, jobs, wire, apiBlacklist>>

-----------------------------------------------------------------------------
Supervise ==
  \/ \E d \in Dates, avail \in Availability : Poll(d, avail) \/ PollUnheard(d, avail)
  \/ PollNothing
  \/ \E group \in SUBSET pending : StartJob(group)
  \/ \E j \in jobs : JobReturns(j)
  \/ GiveUp \/ SendComplete \/ CompleteAnswered \/ CompleteUnheard \/ SendAbort

Work == \E j \in jobs :
  \/ /\ j.stage = "reading"
     /\ \E bad \in SUBSET j.group :
          \E keys \in SUBSET j.due : keys = Pushable(keys, bad) /\ JobRead(j, keys, bad)
  \/ \E keys \in SUBSET j.unsent : JobPush(j, keys)
  \/ JobProviderUnavailable(j) \/ JobAnswered(j) \/ JobUnheard(j) \/ JobForgotten(j)

Serve ==
  \/ \E m \in wire : ServeBatch(m) \/ ServeComplete(m) \/ ServeAbort(m)
  \/ \E c \in accepted : ServeEnqueue(c)

Computing ==
  /\ WorkerTake \/ (\E s \in Symbols : WorkerWrite(s)) \/ WorkerFinish
  /\ UNCHANGED collectorVars

Age == (\E p \in plans : AgePlan(p)) /\ UNCHANGED collectorVars

ProtocolNext ==
  Supervise \/ Work \/ Serve \/ Computing \/ ComputeFails \/ Age
    \/ CollectorRestart \/ ApiRestart

ProtocolSpec == ProtocolInit /\ [][ProtocolNext]_protocolVars

\* The supervisor's loop, its worker processes, the web server, the compute
\* worker and the clock all keep running.
Fairness ==
  /\ WF_protocolVars(Supervise)
  /\ WF_protocolVars(Work)
  /\ WF_protocolVars(Serve)
  /\ WF_protocolVars(Computing)
  /\ WF_protocolVars(Age)

FairProtocolSpec == ProtocolSpec /\ Fairness

-----------------------------------------------------------------------------
(***************************************************************************)
(* Properties.                                                             *)
(***************************************************************************)
\* Types of the collector's side.
CollectorTypeOK ==
  /\ phase \in Phases
  /\ plan \in Cycle
  /\ pending \subseteq plan.symbols /\ succeeded \subseteq plan.symbols
  /\ \A j \in jobs : /\ j.group \subseteq Symbols
                     /\ j.unsent \cup j.sent \subseteq DOMAIN j.rows
                     /\ DOMAIN j.rows \subseteq j.due
                     /\ j.attempt <= MaxAttempts
  /\ manifest \subseteq Expected(plan)
  /\ failures \in [Symbols -> 0..(MaxFailureAttempts - 1)]
  /\ blacklist \subseteq Symbols /\ apiBlacklist \subseteq blacklist

\* The collector never contradicts itself: while the API still collects for the
\* plan a request names, a batch repeats or extends what was received, and a
\* completion lists the whole pool and claims exactly the gap - however often
\* symbols were retried and batches resent or delivered late.
RequestsFitTheirPlan ==
  \A m \in wire, p \in plans : p.id = m.cycle /\ ~p.completed =>
    /\ m.kind = "batch" => Accepts(p, m.rows)
    /\ m.kind = "complete" => Completable(p, m.symbols, m.claims, Confirmations)

\* No cycle is completed with a symbol the collector has blacklisted, although
\* its report to the API may be lost and requests of earlier cycles arrive late.
NoBlacklistedCompletion ==
  \A p \in plans : p.completed => p.symbols \cap blacklist = {}

\* A plan whose collection was interrupted in any way - its answer lost, the
\* collector restarted, its abort lost - does not block collection for ever: it
\* is completed, or dropped at a later poll (which takes a symbol on offer).
PlanIsReleased ==
  \A c \in 1..MaxCycles :
    (\E p \in plans : p.id = c /\ ~p.completed) ~>
      ~(\E p \in plans : p.id = c /\ ~p.completed) \/ Offered.symbols = {}

\* What "abort releases the plan, the next round collects again" promises: a
\* computation that blocks all further plans comes to an end.
ComputationEnds == inFlight ~> ~inFlight

\* The closed system only takes steps of the open one, so that whatever holds
\* of CollectionSession holds here.
SessionSpec == Spec
=============================================================================
