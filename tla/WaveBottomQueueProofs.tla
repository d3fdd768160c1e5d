------------------------ MODULE WaveBottomQueueProofs ------------------------
(***************************************************************************)
(* What the queue guarantees for every number of events, leases, attempts  *)
(* and requests, whatever its callers send.                                *)
(*                                                                         *)
(* SessionsMatchLeases needs to know that a token is fresh when it is      *)
(* handed out (TokensIssued) and that only a job with a focus time is ever *)
(* leased (LeasedInFocus).                                                 *)
(*                                                                         *)
(* The last part is about what it does not guarantee: under which          *)
(* conditions on the steps of others no job is superseded wrongly and no   *)
(* score is lost.                                                          *)
(***************************************************************************)
EXTENDS WaveBottomQueue, TLAPS

TokensIssued ==
  /\ \A e \in Events : job[e].token <= lastToken
  /\ \A s \in sessions : s.token <= lastToken

LeasedInFocus == \A e \in Events : job[e].status = "LEASED" => job[e].focus # NoFocus

IInv ==
  /\ TypeOK
  /\ TokensIssued
  /\ LeasedInFocus
  /\ SessionsMatchLeases
  /\ CollectingMeansLeased
  /\ FailedOnlyAfterAttempts

-----------------------------------------------------------------------------
(***************************************************************************)
(* Lemmas about one job and its event.                                     *)
(***************************************************************************)
\* What the proof needs of a step that replaces the row of one job and of its
\* event: the row leaves the queue, and the event is not left collecting.
RowInv(e, j, v) ==
  /\ j \in Job /\ v \in Event
  /\ j.token = 0 \/ j = job[e]
  /\ j.status = "LEASED" => j = job[e]
  /\ v.calculation = "COLLECTING" => j.status = "LEASED"
  /\ j.status = "FAILED" => j.attempts >= MaximumAttempts

LEMMA ReplaceRow ==
  ASSUME IInv, NEW e \in Events, NEW j, NEW v, RowInv(e, j, v),
         job' = [job EXCEPT ![e] = j], event' = [event EXCEPT ![e] = v],
         sessions' \subseteq sessions, calls' \subseteq Call, UNCHANGED lastToken
  PROVE  IInv'
<1>1. TypeOK'
  BY DEF IInv, TypeOK, RowInv
<1>2. TokensIssued'
  BY DEF IInv, TypeOK, TokensIssued, RowInv, Job
<1>3. LeasedInFocus'
  BY DEF IInv, TypeOK, LeasedInFocus, RowInv
<1>4. SessionsMatchLeases'
  BY DEF IInv, TypeOK, SessionsMatchLeases, RowInv
<1>5. CollectingMeansLeased'
  BY DEF IInv, TypeOK, CollectingMeansLeased, RowInv
<1>6. FailedOnlyAfterAttempts'
  BY DEF IInv, TypeOK, FailedOnlyAfterAttempts, RowInv
<1> QED
  BY <1>1, <1>2, <1>3, <1>4, <1>5, <1>6 DEF IInv

\* A request that is worked on stays one.
LEMMA ProceedType ==
  ASSUME TypeOK, NEW c \in calls, NEW d \in Call, Proceed(c, d)
  PROVE  calls' \subseteq Call
BY DEF TypeOK, Proceed

LEMMA CallUpdates ==
  ASSUME NEW c \in Call, NEW w
  PROVE  /\ [c EXCEPT !.left = @ \ {w}] \in Call
         /\ w \in c.left => [c EXCEPT !.failures = @ \cup {w[1]}] \in Call
BY DEF Call, Work

LEMMA WorkFields ==
  ASSUME TypeOK, NEW c \in calls, NEW w \in c.left
  PROVE  w[1] \in Events /\ w[2] \in Focuses
BY DEF TypeOK, Call, Work

\* Attempts never go below zero, and what is final has used them up.
LEMMA TriesType ==
  ASSUME TypeOK, NEW e \in Events, NEW outage \in BOOLEAN
  PROVE  /\ Tries(e, outage) \in Nat
         /\ Final(Tries(e, outage), outage) => Tries(e, outage) >= MaximumAttempts
<1>1. job[e].attempts \in Nat
  BY DEF TypeOK, Job
<1> QED
  BY <1>1 DEF Tries, Final

-----------------------------------------------------------------------------
(***************************************************************************)
(* The invariant is inductive.                                             *)
(***************************************************************************)
LEMMA InitInv == Init => IInv
<1> SUFFICES ASSUME Init PROVE IInv
  OBVIOUS
<1>1. TypeOK
  BY DEF Init, TypeOK, Event, Job, NoJob, Calculations, JobStatuses, Unclaimed
<1> QED
  BY <1>1 DEF Init, IInv, NoJob, TokensIssued, LeasedInFocus, SessionsMatchLeases,
              CollectingMeansLeased, FailedOnlyAfterAttempts

LEMMA SnapshotInv ==
  ASSUME IInv, NEW e \in Events, NEW active \in BOOLEAN,
         NEW f \in Focuses \cup {NoFocus}, Snapshot(e, active, f)
  PROVE  IInv'
<1> DEFINE eligible == active /\ f # NoFocus
<1> DEFINE j == IF eligible THEN Upserted(job[e], f) ELSE job[e]
<1> DEFINE status == Upserted(job[e], f).status
<1> DEFINE v == [event[e] EXCEPT !.active = active, !.focus = f,
                   !.calculation = IF ~eligible \/ status = "COMPLETED" THEN @
                                   ELSE IF status = "FAILED" THEN "FAILED" ELSE "PENDING"]
<1>1. job[e] \in Job /\ event[e] \in Event
  BY DEF IInv, TypeOK
<1>2. j \in Job
  BY <1>1 DEF Upserted, NoJob, Job, JobStatuses, Unclaimed
<1>3. v \in Event
  BY <1>1 DEF Event, Calculations
<1>4. j.token = 0 \/ j = job[e]
  BY <1>1 DEF Upserted, NoJob
<1>5. j.status = "LEASED" => j = job[e]
  BY <1>1 DEF Upserted, NoJob
<1>6. v.calculation = "COLLECTING" => j.status = "LEASED"
  <2>1. event[e].calculation = "COLLECTING" => job[e].status = "LEASED"
    BY DEF IInv, CollectingMeansLeased
  <2>2. v.calculation = IF ~eligible \/ status = "COMPLETED" THEN event[e].calculation
                        ELSE IF status = "FAILED" THEN "FAILED" ELSE "PENDING"
    BY <1>1 DEF Event
  <2>3. CASE ~eligible
    BY <2>1, <2>2, <2>3
  <2>4. CASE eligible /\ status = "COMPLETED"
    BY <1>1, <2>1, <2>2, <2>4 DEF Upserted, NoJob, Job
  <2>5. CASE eligible /\ status # "COMPLETED"
    BY <2>2, <2>5
  <2> QED
    BY <2>3, <2>4, <2>5
<1>7. j.status = "FAILED" => j.attempts >= MaximumAttempts
  BY <1>1 DEF IInv, FailedOnlyAfterAttempts, Upserted, NoJob
<1>8. RowInv(e, j, v)
  BY <1>2, <1>3, <1>4, <1>5, <1>6, <1>7 DEF RowInv
<1>9. job' = [job EXCEPT ![e] = j]
  <2>1. CASE eligible
    BY <2>1 DEF Snapshot
  <2>2. CASE ~eligible
    BY <2>2 DEF Snapshot, IInv, TypeOK
  <2> QED
    BY <2>1, <2>2
<1>10. event' = [event EXCEPT ![e] = v]
  BY DEF Snapshot
<1>11. sessions' \subseteq sessions /\ calls' \subseteq Call /\ UNCHANGED lastToken
  BY DEF Snapshot, IInv, TypeOK
<1> HIDE DEF j, v
<1> QED
  BY <1>8, <1>9, <1>10, <1>11, ReplaceRow

LEMMA ClaimInv ==
  ASSUME IInv, NEW S \in SUBSET Events, Claim(S)
  PROVE  IInv'
<1> DEFINE token == lastToken + 1
<1> DEFINE work == {<<e, job[e].focus>> : e \in S}
<1> DEFINE new == [token |-> token, work |-> work, batches |-> 0, expired |-> FALSE]
<1>1. /\ token \in Nat /\ lastToken' = token /\ lastToken \in Nat
      /\ sessions' = Unexpired \cup {new} /\ calls' = calls
  <2>1. lastToken \in Nat /\ token \in Nat
    BY DEF IInv, TypeOK
  <2>2. lastToken' = token /\ sessions' = Unexpired \cup {new} /\ calls' = calls
    BY Zenon DEF Claim
  <2> QED
    BY <2>1, <2>2
<1>2. \A e \in Events : job[e] \in Job /\ event[e] \in Event
  BY DEF IInv, TypeOK
<1>3. \A e \in S : job[e].focus \in Focuses
  BY <1>2 DEF Claim, Claimable, Job
<1>4. \A e \in Events \ S : job'[e] = job[e] /\ event'[e] = event[e]
  BY DEF Claim
<1>5. \A e \in S : job'[e] = [job[e] EXCEPT !.status = "LEASED", !.token = token,
                                            !.lapsed = FALSE, !.attempts = @ + 1]
  BY DEF Claim
<1>6. \A e \in S : /\ job'[e] \in Job /\ job'[e].status = "LEASED"
                   /\ job'[e].token = token /\ job'[e].focus = job[e].focus
  <2> SUFFICES ASSUME NEW e \in S
               PROVE  /\ job'[e] \in Job /\ job'[e].status = "LEASED"
                      /\ job'[e].token = token /\ job'[e].focus = job[e].focus
    OBVIOUS
  <2>1. job[e] \in Job
    BY <1>2
  <2>2. job'[e] = [job[e] EXCEPT !.status = "LEASED", !.token = token,
                                 !.lapsed = FALSE, !.attempts = @ + 1]
    BY <1>5
  <2>3. token \in Nat
    BY <1>1
  <2>4. job[e].attempts + 1 \in Nat /\ "LEASED" \in JobStatuses
    BY <2>1 DEF Job, JobStatuses
  <2> DEFINE tries == job[e].attempts + 1
  <2>5. job'[e] = [job[e] EXCEPT !.status = "LEASED", !.token = token,
                                 !.lapsed = FALSE, !.attempts = tries]
    BY <2>2
  <2>6. tries \in Nat
    BY <2>4
  <2> HIDE DEF token, tries
  <2> QED
    BY <2>1, <2>3, <2>4, <2>5, <2>6 DEF Job
<1>7. \A e \in S : event'[e] \in Event
  BY <1>2 DEF Claim, Event, Calculations
<1>8. TypeOK'
  <2>1. work \in Work
    BY <1>3 DEF Work
  <2>2. new \in Session
    BY <1>1, <2>1 DEF Session
  <2>3. job' \in [Events -> Job] /\ event' \in [Events -> Event]
    BY <1>2, <1>4, <1>6, <1>7 DEF Claim
  <2> QED
    BY <1>1, <2>2, <2>3 DEF IInv, TypeOK, Unexpired
<1>9. TokensIssued'
  <2>1. \A e \in Events : job'[e].token <= token
    <3>1. \A e \in Events : job[e].token \in Nat /\ job[e].token <= lastToken
      BY <1>2 DEF IInv, TokensIssued, Job
    <3> QED
      BY <1>1, <1>4, <1>6, <3>1
  <2>2. \A s \in sessions' : s.token <= token
    BY <1>1 DEF IInv, TypeOK, TokensIssued, Unexpired, Session
  <2> QED
    BY <1>1, <2>1, <2>2 DEF TokensIssued
<1>10. LeasedInFocus'
  BY <1>3, <1>4, <1>6, FocusAssumption DEF IInv, LeasedInFocus
<1>11. SessionsMatchLeases'
  <2> SUFFICES ASSUME NEW s \in sessions', NEW e \in Events,
                      job'[e].status = "LEASED", job'[e].token = s.token
               PROVE  <<e, job'[e].focus>> \in s.work
    BY DEF SessionsMatchLeases
  <2>1. CASE s = new
    <3>1. job[e].token # token
      BY <1>1, <1>2 DEF IInv, TokensIssued, Job
    <3>2. e \in S
      BY <1>4, <2>1, <3>1
    <3> QED
      BY <1>6, <2>1, <3>2
  <2>2. CASE s \in sessions
    <3>1. s.token # token
      BY <1>1, <2>2 DEF IInv, TypeOK, TokensIssued, Session
    <3>2. e \notin S
      BY <1>6, <3>1
    <3> QED
      BY <1>4, <2>2, <3>2 DEF IInv, SessionsMatchLeases
  <2> QED
    BY <1>1, <2>1, <2>2 DEF Unexpired
<1>12. CollectingMeansLeased'
  BY <1>4, <1>6 DEF IInv, CollectingMeansLeased
<1>13. FailedOnlyAfterAttempts'
  BY <1>4, <1>6 DEF IInv, FailedOnlyAfterAttempts
<1> QED
  BY <1>8, <1>9, <1>10, <1>11, <1>12, <1>13 DEF IInv

\* Steps that change no row except the flags of its lease, and the sessions
\* only by dropping or renewing them.
LEMMA FlagsInv ==
  ASSUME IInv,
         job' \in [Events -> Job], UNCHANGED <<event, lastToken>>,
         \A e \in Events : /\ job'[e].status = job[e].status
                           /\ job'[e].focus = job[e].focus
                           /\ job'[e].token = job[e].token
                           /\ job'[e].attempts = job[e].attempts,
         sessions' \subseteq Session, calls' \subseteq Call,
         \A s \in sessions' : \E r \in sessions : s.token = r.token /\ s.work = r.work
  PROVE  IInv'
<1>1. TypeOK'
  BY DEF IInv, TypeOK
<1>2. TokensIssued'
  BY DEF IInv, TokensIssued
<1>3. LeasedInFocus'
  BY DEF IInv, LeasedInFocus
<1>4. SessionsMatchLeases'
  BY DEF IInv, SessionsMatchLeases
<1>5. CollectingMeansLeased'
  BY DEF IInv, CollectingMeansLeased
<1>6. FailedOnlyAfterAttempts'
  BY DEF IInv, FailedOnlyAfterAttempts
<1> QED
  BY <1>1, <1>2, <1>3, <1>4, <1>5, <1>6 DEF IInv

LEMMA AcceptBatchInv ==
  ASSUME IInv, NEW s \in sessions, NEW t \in Threads, AcceptBatch(s, t)
  PROVE  IInv'
<1>1. s \in Session
  BY DEF IInv, TypeOK
<1>2. [s EXCEPT !.batches = @ + 1] \in Session
  BY <1>1 DEF Session
<1>3. sessions' \subseteq Session
  BY <1>2 DEF AcceptBatch, IInv, TypeOK
<1>4. \A r \in sessions' : \E q \in sessions : r.token = q.token /\ r.work = q.work
  BY <1>1 DEF AcceptBatch, Session
<1>5. [thread |-> t, kind |-> "batch", token |-> s.token, left |-> {},
       failures |-> {}, outage |-> FALSE, uploaded |-> TRUE] \in Call
  BY <1>1 DEF Call, Session, Work
<1>6. calls' \subseteq Call
  BY <1>5 DEF AcceptBatch, IInv, TypeOK
<1> QED
  BY <1>3, <1>4, <1>6, FlagsInv DEF AcceptBatch, IInv, TypeOK

LEMMA ExtendLeaseInv ==
  ASSUME IInv, NEW c \in calls, ExtendLease(c)
  PROVE  IInv'
<1>1. \A e \in Events : job[e] \in Job
  BY DEF IInv, TypeOK
<1>2. /\ job' \in [Events -> Job]
      /\ \A e \in Events : /\ job'[e].status = job[e].status
                           /\ job'[e].focus = job[e].focus
                           /\ job'[e].token = job[e].token
                           /\ job'[e].attempts = job[e].attempts
  BY <1>1 DEF ExtendLease, Job
<1> QED
  BY <1>2, FlagsInv DEF ExtendLease, IInv, TypeOK

LEMMA StartCompleteInv ==
  ASSUME IInv, NEW s \in sessions, NEW failures \in SUBSET Events, NEW t \in Threads,
         StartComplete(s, failures, t)
  PROVE  IInv'
<1>1. s \in Session
  BY DEF IInv, TypeOK
<1>2. [thread |-> t, kind |-> "complete", token |-> s.token, left |-> s.work,
       failures |-> failures, outage |-> FALSE, uploaded |-> s.batches > 0] \in Call
  <2>1. s.token \in Nat /\ s.work \in Work /\ (s.batches > 0) \in BOOLEAN
    BY <1>1 DEF Session
  <2> QED
    BY <2>1 DEF Call
<1>3. calls' \subseteq Call
  BY <1>2 DEF StartComplete, IInv, TypeOK
<1> QED
  BY <1>3, FlagsInv DEF StartComplete, IInv, TypeOK

LEMMA StartFailInv ==
  ASSUME IInv, NEW token \in 1..lastToken, NEW outage \in BOOLEAN, NEW t \in Threads,
         StartFail(token, outage, t)
  PROVE  IInv'
<1> DEFINE work == {<<e, job[e].focus>> : e \in Leased(token)}
<1> DEFINE restored == [token |-> token, work |-> work, batches |-> 0, expired |-> FALSE]
<1>1. /\ lastToken \in Nat /\ token \in Nat /\ token <= lastToken
      /\ job \in [Events -> Job] /\ sessions \subseteq Session
  BY DEF IInv, TypeOK
<1>2. work \in Work
  BY <1>1 DEF IInv, LeasedInFocus, Leased, Work, Job
<1>3. restored \in Session
  BY <1>1, <1>2 DEF Session
<1>4. /\ sessions' \subseteq sessions \cup {restored}
      /\ UNCHANGED <<event, job, lastToken>>
  BY DEF StartFail
<1>5. TypeOK'
  <2>1. sessions' \subseteq Session
    BY <1>1, <1>3, <1>4
  <2>2. PICK s \in sessions' :
          calls' = calls \cup {[thread |-> t, kind |-> "fail", token |-> token,
                                left |-> s.work, failures |-> {w[1] : w \in s.work},
                                outage |-> outage, uploaded |-> FALSE]}
    BY DEF StartFail
  <2>3. s.work \in Work /\ {w[1] : w \in s.work} \subseteq Events
    BY <2>1 DEF Session, Work
  <2>4. [thread |-> t, kind |-> "fail", token |-> token, left |-> s.work,
         failures |-> {w[1] : w \in s.work}, outage |-> outage, uploaded |-> FALSE] \in Call
    BY <1>1, <2>3 DEF Call
  <2>5. calls' \subseteq Call
    BY <2>2, <2>4 DEF IInv, TypeOK
  <2> QED
    BY <1>4, <2>1, <2>5 DEF IInv, TypeOK
<1>6. TokensIssued'
  BY <1>1, <1>4 DEF IInv, TokensIssued
<1>7. SessionsMatchLeases'
  BY <1>4 DEF IInv, SessionsMatchLeases, Leased
<1> QED
  BY <1>4, <1>5, <1>6, <1>7 DEF IInv, LeasedInFocus, CollectingMeansLeased,
                                FailedOnlyAfterAttempts

LEMMA MarkFailureInv ==
  ASSUME IInv, NEW e \in Events, NEW outage \in BOOLEAN, MarkFailure(e, outage),
         UNCHANGED <<sessions, lastToken>>, calls' \subseteq Call
  PROVE  IInv'
<1> DEFINE attempts == Tries(e, outage)
<1> DEFINE final == Final(attempts, outage)
<1> DEFINE j == [job[e] EXCEPT !.status = IF FocusMoved(e) THEN "SUPERSEDED"
                                          ELSE IF final THEN "FAILED" ELSE "RETRY",
                               !.token = 0, !.lapsed = FALSE, !.attempts = attempts,
                               !.ready = final \/ FocusMoved(e)]
<1>1. job[e] \in Job /\ event[e] \in Event
  BY DEF IInv, TypeOK
<1>2. attempts \in Nat /\ (final => attempts >= MaximumAttempts)
  BY TriesType DEF IInv
<1>3. final \in BOOLEAN /\ FocusMoved(e) \in BOOLEAN
  BY DEF Final, FocusMoved
<1>4. j \in Job /\ j.token = 0 /\ j.status # "LEASED"
      /\ (j.status = "FAILED" => j.attempts >= MaximumAttempts)
  BY <1>1, <1>2, <1>3 DEF Job, JobStatuses, Unclaimed
<1>5. EventFailed(e, final) \in Event /\ EventFailed(e, final).calculation # "COLLECTING"
  BY <1>1, <1>3 DEF EventFailed, Event, Calculations
<1>6. RowInv(e, j, EventFailed(e, final))
  BY <1>4, <1>5 DEF RowInv
<1>7. job' = [job EXCEPT ![e] = j] /\ event' = [event EXCEPT ![e] = EventFailed(e, final)]
  BY DEF MarkFailure
<1> HIDE DEF j, final
<1> QED
  BY <1>6, <1>7, ReplaceRow

LEMMA SupersedeInv ==
  ASSUME IInv, NEW e \in Events, Supersede(e),
         UNCHANGED <<sessions, lastToken>>, calls' \subseteq Call
  PROVE  IInv'
<1> DEFINE j == [job[e] EXCEPT !.status = "SUPERSEDED", !.token = 0,
                               !.lapsed = FALSE, !.ready = TRUE]
<1> DEFINE v == [event[e] EXCEPT !.calculation = IF @ = "COLLECTING" THEN "NOT_ELIGIBLE" ELSE @]
<1>1. job[e] \in Job /\ event[e] \in Event
  BY DEF IInv, TypeOK
<1>2. j \in Job /\ j.token = 0 /\ j.status = "SUPERSEDED"
  BY <1>1 DEF Job, JobStatuses
<1>3. v \in Event /\ v.calculation # "COLLECTING"
  BY <1>1 DEF Event, Calculations
<1>4. RowInv(e, j, v)
  BY <1>2, <1>3 DEF RowInv
<1>5. job' = [job EXCEPT ![e] = j] /\ event' = [event EXCEPT ![e] = v]
  BY <1>1 DEF Supersede, Event
<1> HIDE DEF j, v
<1> QED
  BY <1>4, <1>5, ReplaceRow

LEMMA CommitInv ==
  ASSUME IInv, NEW e \in Events, NEW f \in Focuses,
         NEW calculation \in {"COMPLETED", "INSUFFICIENT_DATA"}, Commit(e, f, calculation),
         UNCHANGED <<sessions, lastToken>>, calls' \subseteq Call
  PROVE  IInv'
<1> DEFINE j == [job[e] EXCEPT !.status = "COMPLETED", !.token = 0,
                               !.lapsed = FALSE, !.ready = TRUE]
<1> DEFINE v == [event[e] EXCEPT !.calculation = calculation, !.scored = f]
<1>1. job[e] \in Job /\ event[e] \in Event
  BY DEF IInv, TypeOK
<1>2. j \in Job /\ j.token = 0 /\ j.status = "COMPLETED"
  BY <1>1 DEF Job, JobStatuses
<1>3. v \in Event /\ v.calculation # "COLLECTING"
  BY <1>1 DEF Event, Calculations
<1>4. RowInv(e, j, v)
  BY <1>2, <1>3 DEF RowInv
<1>5. job' = [job EXCEPT ![e] = j] /\ event' = [event EXCEPT ![e] = v]
  BY DEF Commit
<1> HIDE DEF j, v
<1> QED
  BY <1>4, <1>5, ReplaceRow

LEMMA HandleInv ==
  ASSUME IInv, Handle
  PROVE  IInv'
<1> PICK c \in calls :
      \/ \E w \in c.left :
           \/ FailJob(c, w) \/ RefuseJob(c, w) \/ SupersedeJob(c, w)
           \/ \E calculation \in {"COMPLETED", "INSUFFICIENT_DATA"} :
                EvaluateJob(c, w, calculation)
      \/ ExtendLease(c) \/ Return(c)
  BY DEF Handle
<1>1. TypeOK /\ c \in Call /\ c.outage \in BOOLEAN
  BY DEF IInv, TypeOK, Call
<1>2. ASSUME NEW w \in c.left, FailJob(c, w)
      PROVE  IInv'
  BY <1>1, <1>2, CallUpdates, ProceedType, WorkFields, MarkFailureInv DEF FailJob
<1>3. ASSUME NEW w \in c.left, RefuseJob(c, w)
      PROVE  IInv'
  <2>1. calls' \subseteq Call
    BY <1>1, <1>3, CallUpdates, ProceedType DEF RefuseJob
  <2> QED
    BY <1>3, <2>1, FlagsInv DEF RefuseJob, IInv, TypeOK
<1>4. ASSUME NEW w \in c.left, SupersedeJob(c, w)
      PROVE  IInv'
  BY <1>1, <1>4, CallUpdates, ProceedType, WorkFields, SupersedeInv DEF SupersedeJob
<1>5. ASSUME NEW w \in c.left, NEW calculation \in {"COMPLETED", "INSUFFICIENT_DATA"},
             EvaluateJob(c, w, calculation)
      PROVE  IInv'
  BY <1>1, <1>5, CallUpdates, ProceedType, WorkFields, CommitInv DEF EvaluateJob
<1>6. ASSUME Return(c)
      PROVE  IInv'
  BY <1>6, FlagsInv DEF Return, IInv, TypeOK
<1>7. CASE ExtendLease(c)
  BY <1>7, ExtendLeaseInv
<1> QED
  BY <1>2, <1>3, <1>4, <1>5, <1>6, <1>7

LEMMA TimeInv ==
  ASSUME IInv, Time
  PROVE  IInv'
<1>1. ASSUME NEW e \in Events, LapseLease(e) \/ BecomeReady(e)
      PROVE  IInv'
  <2>1. \A d \in Events : job[d] \in Job
    BY DEF IInv, TypeOK
  <2>2. /\ job' \in [Events -> Job]
        /\ \A d \in Events : /\ job'[d].status = job[d].status
                             /\ job'[d].focus = job[d].focus
                             /\ job'[d].token = job[d].token
                             /\ job'[d].attempts = job[d].attempts
    <3>1. CASE LapseLease(e)
      BY <2>1, <3>1 DEF LapseLease, IInv, TypeOK, Job
    <3>2. CASE BecomeReady(e)
      BY <2>1, <3>2 DEF BecomeReady, IInv, TypeOK, Job
    <3> QED
      BY <1>1, <3>1, <3>2
  <2> QED
    BY <1>1, <2>2, FlagsInv DEF LapseLease, BecomeReady, IInv, TypeOK
<1>2. ASSUME NEW s \in sessions, ExpireSession(s)
      PROVE  IInv'
  <2>1. s \in Session
    BY DEF IInv, TypeOK
  <2>2. [s EXCEPT !.expired = TRUE] \in Session
    BY <2>1 DEF Session
  <2>3. sessions' \subseteq Session
        /\ \A r \in sessions' : \E q \in sessions : r.token = q.token /\ r.work = q.work
    BY <1>2, <2>1, <2>2 DEF ExpireSession, IInv, TypeOK, Session
  <2> QED
    BY <1>2, <2>3, FlagsInv DEF ExpireSession, IInv, TypeOK
<1> QED
  BY <1>1, <1>2 DEF Time

LEMMA NextInv == IInv /\ [Next]_vars => IInv'
<1> SUFFICES ASSUME IInv, [Next]_vars PROVE IInv'
  OBVIOUS
<1>1. CASE Write
  BY <1>1, SnapshotInv DEF Write
<1>2. CASE Take
  BY <1>2, ClaimInv DEF Take
<1>3. CASE ClaimNothing
  BY <1>3, FlagsInv DEF ClaimNothing, Unexpired, IInv, TypeOK
<1>4. CASE Upload
  BY <1>4, AcceptBatchInv DEF Upload
<1>5. ASSUME NEW s \in sessions, RefuseExpired(s)
      PROVE  IInv'
  BY <1>5, FlagsInv DEF RefuseExpired, IInv, TypeOK
<1>6. CASE Begin
  BY <1>6, StartCompleteInv, StartFailInv DEF Begin
<1>7. CASE Handle
  BY <1>7, HandleInv
<1>8. CASE Time
  BY <1>8, TimeInv
<1>9. CASE Restart
  BY <1>9, FlagsInv DEF Restart, IInv, TypeOK
<1>10. CASE UNCHANGED vars
  BY <1>10, FlagsInv DEF vars, IInv, TypeOK
<1> QED
  BY <1>1, <1>2, <1>3, <1>4, <1>5, <1>6, <1>7, <1>8, <1>9, <1>10 DEF Next

-----------------------------------------------------------------------------
(***************************************************************************)
(* Theorems.                                                               *)
(***************************************************************************)
\* The strengthening holds in every reachable state.
THEOREM QueueInvariant == Spec => []IInv
BY InitInv, NextInv, PTL DEF Spec

\* Every variable keeps its type: in particular the attempts given back for
\* outages never go below zero.
THEOREM QueueTypes == Spec => []TypeOK
<1>1. IInv => TypeOK
  BY DEF IInv
<1> QED
  BY <1>1, QueueInvariant, PTL

\* A lease in MySQL and the session it is served from are for the same focus
\* time.
THEOREM LeaseHalvesAgree == Spec => []SessionsMatchLeases
<1>1. IInv => SessionsMatchLeases
  BY DEF IInv
<1> QED
  BY <1>1, QueueInvariant, PTL

\* No event is shown as collecting without a lease.
THEOREM CollectingIsLeased == Spec => []CollectingMeansLeased
<1>1. IInv => CollectingMeansLeased
  BY DEF IInv
<1> QED
  BY <1>1, QueueInvariant, PTL

\* No job is given up before its attempts are used up.
THEOREM FailureTakesAttempts == Spec => []FailedOnlyAfterAttempts
<1>1. IInv => FailedOnlyAfterAttempts
  BY DEF IInv
<1> QED
  BY <1>1, QueueInvariant, PTL

-----------------------------------------------------------------------------
(***************************************************************************)
(* Late focus.  FocusIsNotSuperseded and ScoreIsKept fail when the         *)
(* snapshot writer moves a focus time while a lease, a session or a        *)
(* request for the old one is still out.  Here is that nothing else breaks *)
(* the first, and only a failure marked on a finished job the second.      *)
(***************************************************************************)
\* The pairs some session or request may still be worked on for.
Given == {w \in Events \X Focuses : \/ \E s \in sessions : w \in s.work
                                    \/ \E c \in calls : w \in c.left}

Outstanding(e) == job[e].status = "LEASED" \/ \E w \in Given : w[1] = e

\* The writer does not move the focus of an event with work outstanding.
FocusStays ==
  [][\A e \in Events : event'[e].focus # event[e].focus => ~Outstanding(e)]_vars

\* A finished job is not taken back for the same focus time.
CompletedStays ==
  [][\A e \in Events : job[e].status = "COMPLETED" /\ job'[e].focus = job[e].focus
                         => job'[e].status = "COMPLETED"]_vars

Agrees(e) == event[e].focus = job[e].focus

AgreeInv ==
  /\ \A e \in Events : job[e].status # "SUPERSEDED"
  /\ \A e \in Events : job[e].status = "LEASED" => Agrees(e)
  /\ \A w \in Given : Agrees(w[1]) /\ w[2] = job[w[1]].focus

\* Work is given out for leased jobs, at the focus time of the job.
GivenFollows ==
  \A w \in Given' : \/ w \in Given
                    \/ job'[w[1]].status = "LEASED" /\ w[2] = job'[w[1]].focus

\* A row keeps its two times and is leased, or superseded, only if they agree,
\* or it is nobody's.
RowFollows(e) ==
  \/ /\ job'[e].focus = job[e].focus /\ event'[e].focus = event[e].focus
     /\ job'[e].status = "LEASED" => Agrees(e)
     /\ job'[e].status # "SUPERSEDED"
  \/ ~Outstanding(e) /\ job'[e].status \notin {"LEASED", "SUPERSEDED"}

LEMMA AgreeFollows ==
  ASSUME AgreeInv, GivenFollows, \A e \in Events : RowFollows(e)
  PROVE  AgreeInv'
<1>1. \A w \in Given' : w[1] \in Events
  BY DEF Given
<1>2. ASSUME NEW e \in Events, job'[e].status = "LEASED"
      PROVE  Agrees(e)'
  BY <1>2 DEF RowFollows, Agrees
<1>3. ASSUME NEW w \in Given, w[1] \in Events
      PROVE  Agrees(w[1])' /\ w[2] = job'[w[1]].focus
  BY <1>3 DEF AgreeInv, RowFollows, Outstanding, Agrees
<1>4. (\A e \in Events : job[e].status # "SUPERSEDED")'
  BY DEF RowFollows
<1> QED
  BY <1>1, <1>2, <1>3, <1>4 DEF AgreeInv, GivenFollows

\* A step on one job of a request that is worked on.
LEMMA GivenProceeds ==
  ASSUME TypeOK, NEW c \in calls, NEW d, d.left \subseteq c.left, Proceed(c, d),
         sessions' \subseteq sessions
  PROVE  GivenFollows
BY DEF Proceed, GivenFollows, Given

LEMMA WorkIsGiven ==
  ASSUME TypeOK, NEW c \in calls, NEW w \in c.left
  PROVE  w \in Given
BY DEF TypeOK, Call, Work, Given

\* Without late focus a failed job is tried again, or failed for good.
LEMMA AgreeFailJob ==
  ASSUME IInv, AgreeInv, NEW c \in calls, NEW w \in c.left, FailJob(c, w)
  PROVE  AgreeInv'
<1> DEFINE e == w[1]
<1>1. e \in Events /\ Agrees(e) /\ job[e] \in Job /\ event[e] \in Event
  BY WorkFields, WorkIsGiven DEF IInv, AgreeInv, TypeOK
<1>2. ~FocusMoved(e)
  BY <1>1 DEF FocusMoved, Agrees
<1> DEFINE attempts == Tries(e, c.outage)
<1> DEFINE final == Final(attempts, c.outage)
<1> DEFINE j == [job[e] EXCEPT !.status = IF FocusMoved(e) THEN "SUPERSEDED"
                                          ELSE IF final THEN "FAILED" ELSE "RETRY",
                               !.token = 0, !.lapsed = FALSE, !.attempts = attempts,
                               !.ready = final \/ FocusMoved(e)]
<1>3. job' = [job EXCEPT ![e] = j] /\ event' = [event EXCEPT ![e] = EventFailed(e, final)]
  BY DEF FailJob, MarkFailure
<1>4. j.focus = job[e].focus /\ j.status \in {"FAILED", "RETRY"}
  BY <1>1, <1>2 DEF Job
<1>5. EventFailed(e, final).focus = event[e].focus
  BY <1>1 DEF EventFailed, Event
<1> HIDE DEF j, final
<1>6. /\ \A d \in Events \ {e} : job'[d] = job[d] /\ event'[d] = event[d]
      /\ job'[e].focus = job[e].focus /\ job'[e].status \in {"FAILED", "RETRY"}
      /\ event'[e].focus = event[e].focus
  BY <1>1, <1>3, <1>4, <1>5 DEF IInv, TypeOK
<1>7. \A d \in Events : RowFollows(d)
  BY <1>6 DEF RowFollows, AgreeInv
<1>8. GivenFollows
  <2>1. [c EXCEPT !.left = @ \ {w}].left \subseteq c.left
    BY DEF IInv, TypeOK, Call
  <2> QED
    BY <2>1, GivenProceeds DEF FailJob, IInv
<1> QED
  BY <1>7, <1>8, AgreeFollows

LEMMA AgreeEvaluateJob ==
  ASSUME IInv, AgreeInv, NEW c \in calls, NEW w \in c.left, NEW calculation,
         EvaluateJob(c, w, calculation)
  PROVE  AgreeInv'
<1> DEFINE e == w[1]
<1>1. e \in Events /\ job[e] \in Job /\ event[e] \in Event
  BY WorkFields DEF IInv, TypeOK
<1>2. \A d \in Events \ {e} : job'[d] = job[d] /\ event'[d] = event[d]
  BY DEF EvaluateJob, Commit, IInv, TypeOK
<1>3. /\ job'[e].focus = job[e].focus /\ job'[e].status = "COMPLETED"
      /\ event'[e].focus = event[e].focus
  BY <1>1 DEF EvaluateJob, Commit, IInv, TypeOK, Job, Event
<1>4. \A d \in Events : RowFollows(d)
  BY <1>2, <1>3 DEF RowFollows, AgreeInv
<1>5. GivenFollows
  <2>1. [c EXCEPT !.left = @ \ {w}].left \subseteq c.left
    BY DEF IInv, TypeOK, Call
  <2> QED
    BY <2>1, GivenProceeds DEF EvaluateJob, IInv
<1> QED
  BY <1>4, <1>5, AgreeFollows

LEMMA AgreeHandle ==
  ASSUME IInv, AgreeInv, Handle
  PROVE  AgreeInv'
<1> PICK c \in calls :
      \/ \E w \in c.left :
           \/ FailJob(c, w) \/ RefuseJob(c, w) \/ SupersedeJob(c, w)
           \/ \E calculation \in {"COMPLETED", "INSUFFICIENT_DATA"} :
                EvaluateJob(c, w, calculation)
      \/ ExtendLease(c) \/ Return(c)
  BY DEF Handle
<1>1. ASSUME NEW w \in c.left, RefuseJob(c, w)
      PROVE  AgreeInv'
  <2>1. [c EXCEPT !.failures = @ \cup {w[1]}].left \subseteq c.left
    BY DEF IInv, TypeOK, Call
  <2>2. GivenFollows
    BY <1>1, <2>1, GivenProceeds DEF RefuseJob, IInv
  <2> QED
    BY <1>1, <2>2, AgreeFollows DEF RefuseJob, RowFollows, AgreeInv
<1>2. ASSUME NEW w \in c.left
      PROVE  ~SupersedeJob(c, w)
  BY WorkIsGiven DEF SupersedeJob, AgreeInv, Agrees, IInv
<1>3. CASE ExtendLease(c)
  <2>1. \A e \in Events : /\ job'[e].focus = job[e].focus /\ job'[e].status = job[e].status
                          /\ event'[e] = event[e]
    BY <1>3 DEF ExtendLease, IInv, TypeOK, Job
  <2>2. GivenFollows
    BY <1>3 DEF ExtendLease, GivenFollows, Given
  <2> QED
    BY <2>1, <2>2, AgreeFollows DEF RowFollows, AgreeInv
<1>4. CASE Return(c)
  <2>1. GivenFollows
    BY <1>4 DEF Return, GivenFollows, Given
  <2> QED
    BY <1>4, <2>1, AgreeFollows DEF Return, RowFollows, AgreeInv
<1> QED
  BY <1>1, <1>2, <1>3, <1>4, AgreeFailJob, AgreeEvaluateJob

LEMMA AgreeSnapshot ==
  ASSUME IInv, AgreeInv, NEW e \in Events, NEW active \in BOOLEAN,
         NEW f \in Focuses \cup {NoFocus}, Snapshot(e, active, f),
         event'[e].focus # event[e].focus => ~Outstanding(e)
  PROVE  AgreeInv'
<1>1. job[e] \in Job /\ event[e] \in Event /\ event'[e].focus = f
  BY DEF IInv, TypeOK, Snapshot, Event
<1>2. \A d \in Events \ {e} : job'[d] = job[d] /\ event'[d] = event[d]
  BY DEF Snapshot, IInv, TypeOK
<1>3. job'[e] = job[e] \/ job'[e] = Upserted(job[e], f)
  BY DEF Snapshot, IInv, TypeOK
<1>4. CASE Outstanding(e)
  <2>1. Agrees(e) /\ f = event[e].focus
    BY <1>1, <1>4 DEF AgreeInv, Outstanding
  <2>2. job'[e] = job[e]
    BY <1>3, <2>1 DEF Agrees, Upserted
  <2> QED
    <3>1. RowFollows(e)
      BY <1>1, <2>1, <2>2 DEF RowFollows, AgreeInv
    <3>2. GivenFollows
      BY DEF Snapshot, GivenFollows, Given
    <3> QED
      BY <1>2, <3>1, <3>2, AgreeFollows DEF RowFollows, AgreeInv
<1>5. CASE ~Outstanding(e)
  <2>1. job'[e].status \notin {"LEASED", "SUPERSEDED"}
    BY <1>1, <1>3, <1>5 DEF Upserted, NoJob, Outstanding, AgreeInv
  <2>2. GivenFollows
    BY DEF Snapshot, GivenFollows, Given
  <2> QED
    BY <1>2, <1>5, <2>1, <2>2, AgreeFollows DEF RowFollows, AgreeInv
<1> QED
  BY <1>4, <1>5

LEMMA AgreeClaim ==
  ASSUME IInv, AgreeInv, NEW S \in SUBSET Events, Claim(S)
  PROVE  AgreeInv'
<1>1. \A e \in Events : job[e] \in Job /\ event[e] \in Event
  BY DEF IInv, TypeOK
<1>2. \A e \in Events \ S : job'[e] = job[e] /\ event'[e] = event[e]
  BY DEF Claim
<1>3. \A e \in S : /\ job'[e].status = "LEASED" /\ job'[e].focus = job[e].focus
                   /\ event'[e].focus = event[e].focus /\ Agrees(e)
  <2> SUFFICES ASSUME NEW e \in S
               PROVE  /\ job'[e].status = "LEASED" /\ job'[e].focus = job[e].focus
                      /\ event'[e].focus = event[e].focus /\ Agrees(e)
    OBVIOUS
  <2>1. PICK j : j = job[e]
    OBVIOUS
  <2>2. PICK k : k = job'[e]
    OBVIOUS
  <2>3. k = [j EXCEPT !.status = "LEASED", !.token = lastToken + 1,
                      !.lapsed = FALSE, !.attempts = @ + 1]
    BY <2>1, <2>2 DEF Claim
  <2>4. k.status = "LEASED" /\ k.focus = j.focus
    BY <1>1, <2>1, <2>3 DEF Job
  <2>5. event'[e].focus = event[e].focus
    BY <1>1 DEF Claim, Event
  <2> QED
    BY <2>1, <2>2, <2>4, <2>5 DEF Claim, Claimable, Agrees
<1>4. \A e \in Events : RowFollows(e)
  BY <1>2, <1>3 DEF RowFollows, AgreeInv
<1>5. GivenFollows
  <2> DEFINE new == [token |-> lastToken + 1, work |-> {<<e, job[e].focus>> : e \in S},
                     batches |-> 0, expired |-> FALSE]
  <2>1. sessions' = Unexpired \cup {new} /\ calls' = calls
    BY Zenon DEF Claim
  <2>2. \A w \in new.work : w[1] \in S /\ w[2] = job[w[1]].focus
    OBVIOUS
  <2> HIDE DEF new
  <2> QED
    BY <1>3, <2>1, <2>2 DEF GivenFollows, Given, Unexpired
<1> QED
  BY <1>4, <1>5, AgreeFollows

LEMMA AgreeBegin ==
  ASSUME IInv, AgreeInv, Begin
  PROVE  AgreeInv'
<1>1. UNCHANGED <<event, job>>
  BY DEF Begin, StartComplete, StartFail
<1>2. ASSUME NEW t, NEW s \in sessions, NEW failures, StartComplete(s, failures, t)
      PROVE  GivenFollows
  <2> DEFINE c == [thread |-> t, kind |-> "complete", token |-> s.token, left |-> s.work,
                   failures |-> failures, outage |-> FALSE, uploaded |-> s.batches > 0]
  <2>1. calls' = calls \cup {c}
    BY <1>2 DEF StartComplete
  <2>2. c.left = s.work
    OBVIOUS
  <2> HIDE DEF c
  <2> QED
    BY <1>2, <2>1, <2>2 DEF StartComplete, GivenFollows, Given
<1>3. ASSUME NEW t, NEW token, NEW outage, StartFail(token, outage, t)
      PROVE  GivenFollows
  <2> DEFINE restored == [token |-> token, work |-> {<<e, job[e].focus>> : e \in Leased(token)},
                          batches |-> 0, expired |-> FALSE]
  <2>1. sessions' \subseteq sessions \cup {restored}
    BY <1>3 DEF StartFail
  <2>2. \A w \in restored.work : job[w[1]].status = "LEASED" /\ w[2] = job[w[1]].focus
    BY DEF Leased
  <2> DEFINE c(s) == [thread |-> t, kind |-> "fail", token |-> token, left |-> s.work,
                      failures |-> {w[1] : w \in s.work}, outage |-> outage,
                      uploaded |-> FALSE]
  <2>3. PICK s \in sessions' : calls' = calls \cup {c(s)}
    BY <1>3 DEF StartFail
  <2>4. c(s).left = s.work
    OBVIOUS
  <2> HIDE DEF c
  <2> HIDE DEF restored
  <2> QED
    BY <1>1, <2>1, <2>2, <2>3, <2>4 DEF GivenFollows, Given
<1>4. GivenFollows
  BY <1>2, <1>3 DEF Begin
<1> QED
  BY <1>1, <1>4, AgreeFollows DEF RowFollows, AgreeInv

\* Steps that give no work out and change no row except the flags of its lease.
LEMMA AgreeFlags ==
  ASSUME IInv, AgreeInv, ClaimNothing \/ Upload \/ (\E s \in sessions : RefuseExpired(s))
                           \/ Time \/ Restart \/ UNCHANGED vars
  PROVE  AgreeInv'
<1>1. \A e \in Events : /\ job'[e].focus = job[e].focus /\ job'[e].status = job[e].status
                        /\ event'[e] = event[e]
  BY DEF IInv, TypeOK, Job, ClaimNothing, Upload, AcceptBatch, RefuseExpired, Time, LapseLease,
         BecomeReady, ExpireSession, Restart, vars
<1>2. CASE Upload
  <2>1. PICK s \in sessions, t \in Threads : AcceptBatch(s, t)
    BY <1>2 DEF Upload
  <2>2. [s EXCEPT !.batches = @ + 1].work = s.work
    BY DEF IInv, TypeOK, Session
  <2>3. PICK r : sessions' = (sessions \ {s}) \cup {r} /\ r.work = s.work
    BY <2>1, <2>2 DEF AcceptBatch
  <2> DEFINE c == [thread |-> t, kind |-> "batch", token |-> s.token, left |-> {},
                   failures |-> {}, outage |-> FALSE, uploaded |-> TRUE]
  <2>4. calls' = calls \cup {c}
    BY <2>1 DEF AcceptBatch
  <2>5. c.left = {}
    OBVIOUS
  <2> HIDE DEF c
  <2> QED
    BY <1>1, <2>3, <2>4, <2>5, AgreeFollows DEF GivenFollows, Given, RowFollows, AgreeInv
<1>3. CASE \E s \in sessions : ExpireSession(s)
  <2>1. PICK s \in sessions : ExpireSession(s)
    BY <1>3
  <2>2. [s EXCEPT !.expired = TRUE].work = s.work
    BY DEF IInv, TypeOK, Session
  <2>3. PICK r : sessions' = (sessions \ {s}) \cup {r} /\ r.work = s.work
    BY <2>1, <2>2 DEF ExpireSession
  <2> QED
    BY <1>1, <2>1, <2>3, AgreeFollows
       DEF ExpireSession, GivenFollows, Given, RowFollows, AgreeInv
<1>4. CASE sessions' \subseteq sessions /\ calls' \subseteq calls
  BY <1>1, <1>4, AgreeFollows DEF GivenFollows, Given, RowFollows, AgreeInv
<1> QED
  BY <1>2, <1>3, <1>4 DEF ClaimNothing, Unexpired, RefuseExpired, Time, LapseLease, BecomeReady,
     Restart, vars

LEMMA AgreeNext ==
  ASSUME IInv, AgreeInv, [Next]_vars,
         \A e \in Events : event'[e].focus # event[e].focus => ~Outstanding(e)
  PROVE  AgreeInv'
<1>1. CASE Write
  BY <1>1, AgreeSnapshot DEF Write
<1>2. CASE Take
  BY <1>2, AgreeClaim DEF Take
<1> QED
  BY <1>1, <1>2, AgreeBegin, AgreeHandle, AgreeFlags DEF Next

LEMMA AgreeInvHolds == Spec /\ FocusStays => []AgreeInv
<1>1. Init => AgreeInv
  BY DEF Init, NoJob, AgreeInv, Given
<1>2. /\ IInv /\ AgreeInv /\ [Next]_vars
      /\ [\A e \in Events : event'[e].focus # event[e].focus => ~Outstanding(e)]_vars
      => AgreeInv'
  <2> SUFFICES ASSUME IInv, AgreeInv, [Next]_vars,
                      [\A e \in Events :
                         event'[e].focus # event[e].focus => ~Outstanding(e)]_vars
               PROVE  AgreeInv'
    OBVIOUS
  <2>1. CASE UNCHANGED vars
    BY <2>1, AgreeFlags
  <2> QED
    BY <2>1, AgreeNext
<1> QED
  BY <1>1, <1>2, QueueInvariant, PTL DEF Spec, FocusStays

\* With the focus kept while work is outstanding, the job of an active event in
\* focus is never superseded: late focus is the only way to lose one.
THEOREM SupersededByLateFocus == Spec /\ FocusStays => []FocusIsNotSuperseded
<1>1. AgreeInv => FocusIsNotSuperseded
  BY DEF AgreeInv, FocusIsNotSuperseded
<1> QED
  BY <1>1, AgreeInvHolds, PTL

\* A score that is shown is that of a finished job.
ScoreInv ==
  \A e \in Events :
    event[e].calculation = "COMPLETED" =>
      job[e].status = "COMPLETED" /\ job[e].focus = event[e].scored

\* ScoreIsKept, and that a score shown afterwards is of a finished job.
RowKeepsScore(e) ==
  /\ /\ event[e].calculation = "COMPLETED"
     /\ event[e].scored = event[e].focus
     /\ event'[e].focus = event[e].focus
     => event'[e].calculation \notin {"PENDING", "FAILED"}
  /\ event'[e].calculation = "COMPLETED" =>
       job'[e].status = "COMPLETED" /\ job'[e].focus = event'[e].scored

Finished(e) == job[e].status = "COMPLETED" /\ job'[e].focus = job[e].focus
                 => job'[e].status = "COMPLETED"

LEMMA ScoreRowStands ==
  ASSUME ScoreInv, NEW e \in Events, job'[e].status = job[e].status, job'[e].focus = job[e].focus,
         event'[e] = event[e]
  PROVE  RowKeepsScore(e)
BY DEF ScoreInv, RowKeepsScore

LEMMA ScoreSnapshot ==
  ASSUME TypeOK, ScoreInv, NEW e \in Events, NEW active \in BOOLEAN,
         NEW f \in Focuses \cup {NoFocus}, Snapshot(e, active, f)
  PROVE  \A d \in Events : RowKeepsScore(d)
<1>1. ASSUME NEW d \in Events \ {e}
      PROVE  RowKeepsScore(d)
  BY ScoreRowStands DEF Snapshot, TypeOK
<1>2. job[e] \in Job /\ event[e] \in Event
  BY DEF TypeOK
<1> DEFINE eligible == active /\ f # NoFocus
<1> DEFINE status == Upserted(job[e], f).status
<1>3. /\ event'[e].focus = f /\ event'[e].scored = event[e].scored
      /\ event'[e].calculation = IF ~eligible \/ status = "COMPLETED" THEN event[e].calculation
                                 ELSE IF status = "FAILED" THEN "FAILED" ELSE "PENDING"
  BY <1>2 DEF Snapshot, TypeOK, Event
<1>4. job'[e] = IF eligible THEN Upserted(job[e], f) ELSE job[e]
  BY DEF Snapshot, TypeOK
<1>5. status = "COMPLETED" => job[e].focus = f /\ Upserted(job[e], f) = job[e]
  BY DEF Upserted, NoJob
<1>6. RowKeepsScore(e)
  <2>1. event[e].calculation = "COMPLETED" =>
          job[e].status = "COMPLETED" /\ job[e].focus = event[e].scored
    BY DEF ScoreInv
  <2>2. job[e].focus = f => status = job[e].status
    BY DEF Upserted
  <2> HIDE DEF eligible, status
  <2>3. CASE ~eligible \/ status = "COMPLETED"
    BY <1>3, <1>4, <1>5, <2>1, <2>3 DEF RowKeepsScore
  <2>4. CASE eligible /\ status # "COMPLETED"
    BY <1>3, <1>4, <2>1, <2>2, <2>4 DEF RowKeepsScore
  <2> QED
    BY <2>3, <2>4
<1> QED
  BY <1>1, <1>6

LEMMA ScoreClaim ==
  ASSUME TypeOK, ScoreInv, NEW S \in SUBSET Events, Claim(S)
  PROVE  \A e \in Events : RowKeepsScore(e)
<1>1. ASSUME NEW e \in Events \ S
      PROVE  RowKeepsScore(e)
  BY ScoreRowStands DEF Claim
<1>2. ASSUME NEW e \in S
      PROVE  RowKeepsScore(e)
  <2>1. job[e].status # "COMPLETED"
    BY DEF Claim, Claimable, Unclaimed
  <2>2. event[e].calculation # "COMPLETED"
    BY <2>1 DEF ScoreInv
  <2>3. event[e] \in Event
    BY DEF TypeOK
  <2>4. event'[e].calculation = "COLLECTING"
    BY <2>2, <2>3 DEF Claim, Event
  <2> QED
    BY <2>2, <2>4 DEF RowKeepsScore
<1> QED
  BY <1>1, <1>2

LEMMA ScoreFailJob ==
  ASSUME IInv, ScoreInv, NEW c \in calls, NEW w \in c.left, FailJob(c, w),
         \A e \in Events : Finished(e)
  PROVE  \A e \in Events : RowKeepsScore(e)
<1> DEFINE e == w[1]
<1>1. e \in Events /\ job[e] \in Job /\ event[e] \in Event
  BY WorkFields DEF IInv, TypeOK
<1>2. ASSUME NEW d \in Events \ {e}
      PROVE  RowKeepsScore(d)
  BY ScoreRowStands DEF FailJob, MarkFailure, IInv, TypeOK
<1> DEFINE final == Final(Tries(e, c.outage), c.outage)
<1>3. job'[e].focus = job[e].focus /\ job'[e].status # "COMPLETED"
  BY <1>1 DEF FailJob, MarkFailure, IInv, TypeOK, Job
<1>4. event[e].calculation # "COMPLETED"
  BY <1>1, <1>3 DEF Finished, ScoreInv
<1>5. event'[e] = EventFailed(e, final)
  BY <1>1 DEF FailJob, MarkFailure, IInv, TypeOK
<1>6. EventFailed(e, final).calculation \in {"FAILED", "PENDING"}
  BY <1>1, <1>4 DEF EventFailed, Event
<1>7. RowKeepsScore(e)
  BY <1>4, <1>5, <1>6 DEF RowKeepsScore
<1> QED
  BY <1>2, <1>7

LEMMA ScoreEvaluateJob ==
  ASSUME IInv, AgreeInv, ScoreInv, NEW c \in calls, NEW w \in c.left, NEW calculation,
         EvaluateJob(c, w, calculation)
  PROVE  \A e \in Events : RowKeepsScore(e)
<1> DEFINE e == w[1]
<1>1. e \in Events /\ job[e] \in Job /\ event[e] \in Event /\ w[2] = job[e].focus
  BY WorkFields, WorkIsGiven DEF IInv, TypeOK, AgreeInv
<1>2. ASSUME NEW d \in Events \ {e}
      PROVE  RowKeepsScore(d)
  BY ScoreRowStands DEF EvaluateJob, Commit, IInv, TypeOK
<1>3. event[e].calculation # "COMPLETED"
  BY <1>1 DEF EvaluateJob, ScoreInv
<1>4. /\ job'[e].status = "COMPLETED" /\ job'[e].focus = job[e].focus
      /\ event'[e].scored = w[2]
  BY <1>1 DEF EvaluateJob, Commit, IInv, TypeOK, Job, Event
<1>5. RowKeepsScore(e)
  BY <1>1, <1>3, <1>4 DEF RowKeepsScore
<1> QED
  BY <1>2, <1>5

LEMMA ScoreNext ==
  ASSUME IInv, AgreeInv, ScoreInv, [Next]_vars, \A e \in Events : Finished(e)
  PROVE  \A e \in Events : RowKeepsScore(e)
<1>1. CASE Write
  BY <1>1, ScoreSnapshot DEF Write, IInv
<1>2. CASE Take
  BY <1>2, ScoreClaim DEF Take, IInv
<1>3. CASE Handle
  <2> PICK c \in calls :
        \/ \E w \in c.left :
             \/ FailJob(c, w) \/ RefuseJob(c, w) \/ SupersedeJob(c, w)
             \/ \E calculation \in {"COMPLETED", "INSUFFICIENT_DATA"} :
                  EvaluateJob(c, w, calculation)
        \/ ExtendLease(c) \/ Return(c)
    BY <1>3 DEF Handle
  <2>1. ASSUME NEW w \in c.left
        PROVE  ~SupersedeJob(c, w)
    BY WorkIsGiven DEF SupersedeJob, AgreeInv, Agrees, IInv
  <2>2. ASSUME NEW w \in c.left, RefuseJob(c, w)
        PROVE  \A e \in Events : RowKeepsScore(e)
    BY <2>2, ScoreRowStands DEF RefuseJob
  <2>3. CASE ExtendLease(c)
    <3>1. \A e \in Events : job'[e].status = job[e].status /\ job'[e].focus = job[e].focus
      BY <2>3 DEF ExtendLease, IInv, TypeOK, Job
    <3> QED
      BY <2>3, <3>1, ScoreRowStands DEF ExtendLease
  <2>4. CASE Return(c)
    BY <2>4, ScoreRowStands DEF Return
  <2> QED
    BY <2>1, <2>2, <2>3, <2>4, ScoreFailJob, ScoreEvaluateJob
<1>4. CASE Begin
  BY <1>4, ScoreRowStands DEF Begin, StartComplete, StartFail
<1>5. CASE ClaimNothing \/ Upload \/ (\E s \in sessions : RefuseExpired(s)) \/ Time \/ Restart
             \/ UNCHANGED vars
  <2>1. \A e \in Events : /\ job'[e].focus = job[e].focus /\ job'[e].status = job[e].status
                          /\ event'[e] = event[e]
    BY <1>5 DEF IInv, TypeOK, Job, ClaimNothing, Upload, AcceptBatch, RefuseExpired, Time,
       LapseLease, BecomeReady, ExpireSession, Restart, vars
  <2> QED
    BY <2>1, ScoreRowStands
<1> QED
  BY <1>1, <1>2, <1>3, <1>4, <1>5 DEF Next

\* If besides a finished job stays finished, the score stays, too: only late
\* focus, and a failure marked on a finished job, can take it away.
THEOREM ScoreLostByLateWork == Spec /\ FocusStays /\ CompletedStays => ScoreIsKept
<1>1. Init => ScoreInv
  BY DEF Init, ScoreInv
<1>2. ASSUME IInv, AgreeInv, ScoreInv, [Next]_vars,
             [\A e \in Events : job[e].status = "COMPLETED" /\ job'[e].focus = job[e].focus
                                  => job'[e].status = "COMPLETED"]_vars
      PROVE  \A e \in Events : RowKeepsScore(e)
  <2>1. UNCHANGED vars => \A e \in Events : Finished(e)
    BY DEF vars, Finished
  <2>2. \A e \in Events : Finished(e)
    BY <1>2, <2>1 DEF Finished
  <2> QED
    BY <1>2, <2>2, ScoreNext
<1>3. IInv /\ AgreeInv /\ ScoreInv /\ [Next]_vars
        /\ [\A e \in Events : job[e].status = "COMPLETED" /\ job'[e].focus = job[e].focus
                                => job'[e].status = "COMPLETED"]_vars
        => /\ ScoreInv'
           /\ [\A e \in Events :
                 /\ event[e].calculation = "COMPLETED"
                 /\ event[e].scored = event[e].focus
                 /\ event'[e].focus = event[e].focus
                 => event'[e].calculation \notin {"PENDING", "FAILED"}]_vars
  BY <1>2 DEF RowKeepsScore, ScoreInv
<1> QED
  BY <1>1, <1>3, AgreeInvHolds, QueueInvariant, PTL DEF Spec, CompletedStays, ScoreIsKept
=============================================================================
