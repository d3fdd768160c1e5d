----------------------- MODULE CollectorProtocolProofs -----------------------
(***************************************************************************)
(* The collector and the API together take only steps of CollectionSession *)
(* alone, for every number of symbols, workers, attempts and faults.  What *)
(* is proved of the session with its callers left open therefore holds     *)
(* when its caller is the collector.                                       *)
(***************************************************************************)
EXTENDS CollectorProtocol, CollectionSessionProofs

RowSets == UNION {[S -> Rows] : S \in SUBSET Keys}

JobType == [cycle : Nat, group : SUBSET Symbols, due : SUBSET Keys,
            stage : {"reading", "pushing", "raised"}, rows : RowSets,
            bad : SUBSET Symbols, unsent : SUBSET Keys, sent : SUBSET Keys,
            attempt : Nat, ack : {"none", "accepted", "rejected"}]

\* What the steps of the collector rely on to be steps the API knows.
WireInv == /\ plan \in Cycle
           /\ pending \subseteq Symbols
           /\ jobs \subseteq JobType
           /\ \A m \in wire : m.kind = "batch" => m.rows \in RowSets

PInv == IInv /\ WireInv

-----------------------------------------------------------------------------
LEMMA RowSetsAreFunctions ==
  ASSUME NEW r \in RowSets
  PROVE  r \in [DOMAIN r -> Rows] /\ DOMAIN r \subseteq Keys
BY DEF RowSets

LEMMA RestrictedRows ==
  ASSUME NEW r \in RowSets, NEW S
  PROVE  Restrict(r, S) \in RowSets
<1>1. r \in [DOMAIN r -> Rows] /\ DOMAIN r \subseteq Keys
  BY RowSetsAreFunctions
<1>2. Restrict(r, S) \in [(DOMAIN r) \cap S -> Rows]
  BY <1>1 DEF Restrict
<1> QED
  BY <1>1, <1>2 DEF RowSets

LEMMA NoCycleType == NoCycle \in Cycle
BY DEF NoCycle, Cycle

LEMMA NoRowsType == NoRows \in RowSets
<1>1. NoRows \in [{} -> Rows]
  BY DEF NoRows
<1> QED
  BY <1>1 DEF RowSets

LEMMA NewJobType ==
  ASSUME plan \in Cycle, NEW group \in SUBSET Symbols
  PROVE  NewJob(group) \in JobType
<1>1. plan.id \in Nat
  BY DEF Cycle
<1>2. {k \in Expected(plan) : k[1] \in group} \subseteq Keys
  BY DEF Expected
<1> QED
  BY <1>1, <1>2, NoRowsType DEF NewJob, JobType

\* A batch on the wire carries rows.
LEMMA BatchType ==
  ASSUME NEW j \in JobType
  PROVE  Batch(j).rows \in RowSets /\ Batch(j).kind = "batch"
BY RestrictedRows DEF Batch, JobType

-----------------------------------------------------------------------------
(***************************************************************************)
(* Every step of the closed system is a step of the session, or leaves its *)
(* variables alone.                                                        *)
(***************************************************************************)
LEMMA PollIsPlan ==
  ASSUME NEW d \in Dates, NEW avail \in Availability, AskForPlan(d, avail)
  PROVE  Next
<1>1. Offered \in Universes
  BY CollectorAssumption DEF AskForPlan, Offered
<1> QED
  BY <1>1 DEF AskForPlan, Next, Plan

LEMMA ServeIsSession ==
  ASSUME PInv, Serve
  PROVE  [Next]_vars
<1>1. ASSUME NEW m \in wire, ServeBatch(m)
      PROVE  [Next]_vars
  <2>1. CASE UNCHANGED vars
    BY <2>1
  <2>2. ASSUME NEW p \in plans, AcceptBatch(p, m.rows)
        PROVE  Next
    <3>1. m.rows \in [DOMAIN m.rows -> Rows]
      BY <1>1, RowSetsAreFunctions DEF PInv, WireInv, ServeBatch
    <3>2. DOMAIN m.rows \in SUBSET Expected(p)
      BY <2>2 DEF AcceptBatch, Accepts
    <3> QED
      BY <2>2, <3>1, <3>2 DEF Next, Push
  <2> QED
    BY <1>1, <2>1, <2>2 DEF ServeBatch
<1>2. ASSUME NEW m \in wire, ServeComplete(m)
      PROVE  [Next]_vars
  <2>1. ASSUME NEW p \in plans, Complete(p, m.symbols, m.claims, Confirmations)
        PROVE  Next
    <3>1. m.symbols \in SUBSET Symbols /\ m.claims \in SUBSET Expected(p)
      BY <2>1 DEF Complete, Completable, Gap, PInv, IInv, TypeOK, Cycle
    <3> QED
      BY <2>1, <3>1 DEF Next, Finalize
  <2> QED
    BY <1>2, <2>1 DEF ServeComplete
<1>3. ASSUME NEW m \in wire, ServeAbort(m)
      PROVE  [Next]_vars
  BY <1>3 DEF ServeAbort, Next
<1>4. ASSUME NEW c \in accepted, ServeEnqueue(c)
      PROVE  [Next]_vars
  BY <1>4 DEF ServeEnqueue, Next
<1> QED
  BY <1>1, <1>2, <1>3, <1>4 DEF Serve

LEMMA StepSimulation == PInv /\ [ProtocolNext]_protocolVars => [Next]_vars
<1> SUFFICES ASSUME PInv, [ProtocolNext]_protocolVars PROVE [Next]_vars
  OBVIOUS
<1>1. CASE Supervise
  BY <1>1, PollIsPlan
     DEF Supervise, Poll, PollUnheard, PollNothing, StartJob, JobReturns, GiveUp,
         SendComplete, CompleteAnswered, CompleteUnheard, SendAbort, protocolVars
<1>2. CASE Work
  BY <1>2 DEF Work, JobRead, JobProviderUnavailable, JobPush, JobAnswered, JobUnheard,
     JobForgotten
<1>3. CASE Serve
  BY <1>3, ServeIsSession
<1>4. CASE Computing \/ ComputeFails
  BY <1>4 DEF Computing, ComputeFails, Next, Compute
<1>5. CASE Age
  BY <1>5 DEF Age, Next
<1>6. CASE CollectorRestart \/ ApiRestart
  BY <1>6 DEF CollectorRestart, ApiRestart, Next
<1>7. CASE UNCHANGED protocolVars
  BY <1>7 DEF protocolVars
<1> QED
  BY <1>1, <1>2, <1>3, <1>4, <1>5, <1>6, <1>7 DEF ProtocolNext

-----------------------------------------------------------------------------
(***************************************************************************)
(* WireInv is preserved.                                                   *)
(***************************************************************************)
LEMMA ReturnWire == Return => plan' \in Cycle /\ pending' \subseteq Symbols
BY NoCycleType DEF Return

LEMMA SuperviseWire ==
  ASSUME PInv, Supervise
  PROVE  WireInv'
<1> USE DEF PInv, WireInv
<1>1. ASSUME NEW d \in Dates, NEW avail \in Availability, Poll(d, avail)
      PROVE  WireInv'
  <2>1. IInv'
    BY <1>1, PollIsPlan, NextInv DEF Poll
  <2>2. CASE lastCycle' = lastCycle
    BY <1>1, <2>2 DEF Poll
  <2>3. CASE lastCycle' # lastCycle
    <3> DEFINE p == CHOOSE q \in plans' : TRUE
    <3>1. plans' # {}
      BY <1>1, <2>3 DEF Poll, AskForPlan, BeginPlan, BeginPlanRefused, IssuePlan,
         BeginPlanNewSession, BeginPlanSameSession
    <3>2. p \in plans' /\ plans' \subseteq Cycle
      BY <2>1, <3>1 DEF IInv, TypeOK
    <3>3. /\ plan' = p /\ pending' \in {{}, p.symbols}
          /\ UNCHANGED <<jobs, wire>>
      BY <1>1, <2>3 DEF Poll
    <3> QED
      BY <3>2, <3>3 DEF Cycle
  <2> QED
    BY <2>2, <2>3
<1>2. ASSUME NEW d \in Dates, NEW avail \in Availability, PollUnheard(d, avail)
      PROVE  WireInv'
  BY <1>2 DEF PollUnheard, supervisorVars
<1>3. ASSUME NEW group \in SUBSET pending, StartJob(group)
      PROVE  WireInv'
  BY <1>3, NewJobType DEF StartJob
<1>4. ASSUME NEW j \in jobs, JobReturns(j)
      PROVE  WireInv'
  <2>1. j.bad \subseteq Symbols
    BY DEF JobType
  <2> QED
    BY <1>4, <2>1 DEF JobReturns
<1>5. CASE GiveUp \/ PollNothing
  BY <1>5 DEF GiveUp, PollNothing, protocolVars, collectorVars, supervisorVars
<1>6. CASE SendComplete
  BY <1>6 DEF SendComplete, Completion
<1>7. CASE CompleteAnswered
  BY <1>7, ReturnWire DEF CompleteAnswered
<1>8. CASE CompleteUnheard
  BY <1>8 DEF CompleteUnheard
<1>9. CASE SendAbort
  BY <1>9, ReturnWire DEF SendAbort, Abortion
<1> QED
  BY <1>1, <1>2, <1>3, <1>4, <1>5, <1>6, <1>7, <1>8, <1>9 DEF Supervise

LEMMA WorkWire ==
  ASSUME PInv, Work
  PROVE  WireInv'
<1> USE DEF PInv, WireInv
<1>1. PICK j \in jobs :
        \/ \E keys \in SUBSET j.due, bad \in SUBSET j.group :
             keys = Pushable(keys, bad) /\ JobRead(j, keys, bad)
        \/ \E keys \in SUBSET j.unsent : JobPush(j, keys)
        \/ JobProviderUnavailable(j) \/ JobAnswered(j) \/ JobUnheard(j) \/ JobForgotten(j)
  BY DEF Work
<1>2. j \in JobType
  OBVIOUS
<1>3. ASSUME NEW keys \in SUBSET j.due, NEW bad \in SUBSET j.group, JobRead(j, keys, bad)
      PROVE  WireInv'
  <2>1. PICK rows \in [Pushable(keys, bad) -> Rows] :
          jobs' = (jobs \ {j}) \cup {[j EXCEPT !.stage = "pushing", !.rows = rows,
                                                !.bad = bad, !.unsent = DOMAIN rows]}
    BY <1>3 DEF JobRead, Become
  <2>2. Pushable(keys, bad) \subseteq Keys /\ bad \subseteq Symbols
    BY <1>2 DEF Pushable, JobType
  <2>3. rows \in RowSets /\ DOMAIN rows \subseteq Keys
    BY <2>1, <2>2 DEF RowSets
  <2>4. [j EXCEPT !.stage = "pushing", !.rows = rows, !.bad = bad,
                  !.unsent = DOMAIN rows] \in JobType
    BY <1>2, <2>2, <2>3 DEF JobType
  <2> QED
    BY <1>3, <2>1, <2>4 DEF JobRead, supervisorVars
<1>4. ASSUME NEW keys \in SUBSET j.unsent, JobPush(j, keys)
      PROVE  WireInv'
  <2> DEFINE k == [j EXCEPT !.sent = keys, !.unsent = @ \ keys, !.attempt = 1]
  <2>1. k \in JobType
    BY <1>2 DEF JobType
  <2>2. Batch(k).rows \in RowSets
    BY <2>1, BatchType
  <2>3. jobs' = (jobs \ {j}) \cup {k} /\ wire' = wire \cup {Batch(k)}
    BY <1>4 DEF JobPush, Become
  <2> QED
    BY <1>4, <2>1, <2>2, <2>3 DEF JobPush, supervisorVars
<1>5. CASE JobProviderUnavailable(j)
  <2>1. [j EXCEPT !.stage = "raised"] \in JobType
    BY <1>2 DEF JobType
  <2> QED
    BY <1>5, <2>1 DEF JobProviderUnavailable, Become, supervisorVars
<1>6. CASE JobAnswered(j)
  <2>1. /\ [j EXCEPT !.sent = {}, !.ack = "none"] \in JobType
        /\ [j EXCEPT !.stage = "raised", !.sent = {}, !.ack = "none"] \in JobType
    BY <1>2 DEF JobType
  <2> QED
    BY <1>6, <2>1 DEF JobAnswered, Become, supervisorVars
<1>7. CASE JobUnheard(j)
  <2> DEFINE again == [j EXCEPT !.attempt = @ + 1, !.ack = "none"]
             dead  == [j EXCEPT !.stage = "raised", !.sent = {}, !.ack = "none"]
  <2>1. again \in JobType /\ dead \in JobType
    <3>1. j.attempt + 1 \in Nat
      BY <1>2 DEF JobType
    <3>2. ASSUME NEW n \in Nat
          PROVE  [j EXCEPT !.attempt = n, !.ack = "none"] \in JobType
      BY <1>2 DEF JobType
    <3>3. again \in JobType
      BY <3>1, <3>2
    <3>4. dead \in JobType
      BY <1>2 DEF JobType
    <3> QED
      BY <3>3, <3>4
  <2>2. Batch(again).rows \in RowSets
    BY <2>1, BatchType
  <2>3. /\ jobs' \subseteq jobs \cup {again, dead}
        /\ wire' \subseteq wire \cup {Batch(again)}
        /\ UNCHANGED supervisorVars
    BY <1>7 DEF JobUnheard, Become
  <2> HIDE DEF again, dead
  <2> QED
    BY <2>1, <2>2, <2>3 DEF supervisorVars
<1>8. CASE JobForgotten(j)
  BY <1>8 DEF JobForgotten, supervisorVars
<1> QED
  BY <1>1, <1>3, <1>4, <1>5, <1>6, <1>7, <1>8

LEMMA ServeWire ==
  ASSUME PInv, Serve
  PROVE  WireInv'
<1> USE DEF PInv, WireInv
<1>1. ASSUME NEW m \in wire, ServeBatch(m)
      PROVE  WireInv'
  <2>1. ASSUME NEW ack \in {"accepted", "rejected"}, Acknowledge(m, ack)
        PROVE  jobs' \subseteq JobType
    <3>1. \A j \in jobs : [j EXCEPT !.ack = ack] \in JobType
      BY DEF JobType
    <3> QED
      BY <2>1, <3>1 DEF Acknowledge
  <2> QED
    BY <1>1, <2>1 DEF ServeBatch, supervisorVars
<1>2. ASSUME NEW m \in wire, ServeComplete(m) \/ ServeAbort(m)
      PROVE  WireInv'
  BY <1>2 DEF ServeComplete, ServeAbort, supervisorVars
<1>3. ASSUME NEW c \in accepted, ServeEnqueue(c)
      PROVE  WireInv'
  BY <1>3 DEF ServeEnqueue
<1> QED
  BY <1>1, <1>2, <1>3 DEF Serve

LEMMA ProtocolInitInv == ProtocolInit => PInv
BY InitInv, NoCycleType DEF ProtocolInit, PInv, WireInv

LEMMA ProtocolNextInv == PInv /\ [ProtocolNext]_protocolVars => PInv'
<1> SUFFICES ASSUME PInv, [ProtocolNext]_protocolVars PROVE PInv'
  OBVIOUS
<1>1. IInv'
  BY StepSimulation, NextInv DEF PInv
<1>2. WireInv'
  <2>1. CASE Computing \/ Age \/ UNCHANGED protocolVars
    BY <2>1 DEF Computing, Age, PInv, WireInv, protocolVars, collectorVars, supervisorVars
  <2>2. CASE ComputeFails \/ ApiRestart
    BY <2>2 DEF ComputeFails, ApiRestart, PInv, WireInv, supervisorVars
  <2>3. CASE CollectorRestart
    BY <2>3, ReturnWire DEF CollectorRestart, PInv, WireInv
  <2> QED
    BY <2>1, <2>2, <2>3, SuperviseWire, WorkWire, ServeWire DEF ProtocolNext
<1> QED
  BY <1>1, <1>2 DEF PInv

\* The collector with the API is an instance of the API with open callers.
THEOREM CollectorUsesSession == ProtocolSpec => SessionSpec
<1>1. ProtocolInit => Init
  BY DEF ProtocolInit
<1> QED
  BY <1>1, ProtocolInitInv, ProtocolNextInv, StepSimulation, PTL
     DEF ProtocolSpec, SessionSpec, Spec

\* So the watermark keeps its promise whatever is lost, late or restarted.
THEOREM CollectedDayIsComplete == ProtocolSpec => []CompleteThroughWatermark
BY CollectorUsesSession, WatermarkIsComplete, PTL DEF SessionSpec

\* And its ledger moves by DayLedger's steps alone.
THEOREM CollectorKeepsTheLedger == ProtocolSpec => LedgerSpec
BY CollectorUsesSession, SessionKeepsTheLedger, PTL DEF SessionSpec
=============================================================================
