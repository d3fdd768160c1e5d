--------------------------- MODULE WaveBottomQueue ---------------------------
(***************************************************************************)
(* The queue of wave-bottom jobs.  A bottom event that comes into focus    *)
(* gets a durable job in MySQL, written in the same transaction as the     *)
(* event (PairTrendLiveSnapshotWriter).  A collector claims jobs under a   *)
(* lease, uploads the daily bars, and completes or fails the lease         *)
(* (WaveBottomCollectionService).  The lease is in MySQL; the claimed jobs *)
(* and the uploaded bars are in the memory of the API.                     *)
(*                                                                         *)
(* Every transaction is one action.  "complete" and "fail" run one or two  *)
(* transactions for each job of the lease, and a batch renews the lease    *)
(* after the session; they are records in calls while they do.  Collectors *)
(* are left open: whoever has been given a lease may send its requests at  *)
(* any moment and again, as the collector does when it hears no answer.    *)
(*                                                                         *)
(* Time is abstract: a lease, a session and the pause before a retry come  *)
(* to their end at any moment, the database's clock and the API's on their *)
(* own.  Every event is on a symbol of its own.                            *)
(***************************************************************************)
EXTENDS Integers, FiniteSets

CONSTANTS
  Events,           \* bottom events
  Focuses,          \* the times an event may be focused at
  NoFocus,          \* focused_at IS NULL
  MaximumAttempts,  \* MaximumAttempts (3)
  MaximumSymbolsPerClaim,  \* 200
  MaxBatches,       \* bound of the model: uploads in one session
  MaxLeases,        \* bound of the model: leases ever handed out
  Threads           \* bound of the model: requests the API works on at once

ASSUME FocusAssumption == NoFocus \notin Focuses
ASSUME LimitAssumption ==
  /\ MaximumAttempts \in Nat \ {0} /\ MaximumSymbolsPerClaim \in Nat \ {0}
  /\ MaxBatches \in Nat /\ MaxLeases \in Nat

VARIABLES
  event,      \* pair_trend_live_event
  job,        \* wave_bottom_collection_job, of the current algorithm version
  sessions,   \* _sessions
  calls,      \* the requests being worked on
  lastToken   \* the last lease token handed out (tokens are never reused)

vars == <<event, job, sessions, calls, lastToken>>

Unclaimed == {"PENDING", "RETRY"}
JobStatuses == Unclaimed \cup {"NONE", "LEASED", "COMPLETED", "FAILED", "SUPERSEDED"}

Calculations ==
  {"NOT_ELIGIBLE", "PENDING", "COLLECTING", "COMPLETED", "INSUFFICIENT_DATA", "FAILED"}

\* is_active, focused_at, wave_calculation_status, and the focused_at the
\* stored score was computed for.
Event == [active : BOOLEAN, focus : Focuses \cup {NoFocus},
          calculation : Calculations, scored : Focuses \cup {NoFocus}]

\* token = 0: lease_token IS NULL; lapsed: lease_expires_at is over;
\* ready: next_attempt_at is NULL or over.
Job == [status : JobStatuses, focus : Focuses \cup {NoFocus}, token : Nat,
        lapsed : BOOLEAN, ready : BOOLEAN, attempts : Nat]

Work == SUBSET (Events \X Focuses)

\* LeaseSession.  expired: ExpiresAt is over.
Session == [token : Nat, work : Work, batches : Nat, expired : BOOLEAN]

Call == [thread : Threads, kind : {"batch", "complete", "fail"}, token : Nat, left : Work,
         failures : SUBSET Events, outage : BOOLEAN, uploaded : BOOLEAN]

NoJob == [status |-> "NONE", focus |-> NoFocus, token |-> 0,
          lapsed |-> FALSE, ready |-> TRUE, attempts |-> 0]

Init ==
  /\ event = [e \in Events |-> [active |-> FALSE, focus |-> NoFocus,
                                calculation |-> "NOT_ELIGIBLE", scored |-> NoFocus]]
  /\ job = [e \in Events |-> NoJob]
  /\ sessions = {}
  /\ calls = {}
  /\ lastToken = 0

-----------------------------------------------------------------------------
(***************************************************************************)
(* The snapshot writer.                                                    *)
(***************************************************************************)
\* Mutant: a changed focus time does not end the lease.
KeptOnUpsert(j, f) == IF j.status = "LEASED" THEN [j EXCEPT !.focus = f]
                      ELSE [NoJob EXCEPT !.status = "PENDING", !.focus = f]

\* The job of an event focused at f: a new one, or the one of another time
\* started over.
Upserted(j, f) == IF j.focus = f THEN j
                  ELSE [NoJob EXCEPT !.status = "PENDING", !.focus = f]

\* One cycle's evaluation of the event: its focus may come, move with revised
\* bars, or go; the event itself may become inactive.
Snapshot(e, active, f) ==
  LET eligible == active /\ f # NoFocus
      status   == Upserted(job[e], f).status
  IN  /\ job' = IF eligible THEN [job EXCEPT ![e] = Upserted(@, f)] ELSE job
      /\ event' = [event EXCEPT ![e] =
           [event[e] EXCEPT !.active = active, !.focus = f,
                            !.calculation = IF ~eligible \/ status = "COMPLETED" THEN @
                              ELSE IF status = "FAILED" THEN "FAILED" ELSE "PENDING"]]
      /\ UNCHANGED <<sessions, calls, lastToken>>

(***************************************************************************)
(* Claiming and uploading.                                                 *)
(***************************************************************************)
Unexpired == {s \in sessions : ~s.expired}

\* Mutant: a lease that has run out is not handed out again.
ClaimableOnce(e) ==
  /\ job[e].focus # NoFocus /\ job[e].focus = event[e].focus
  /\ job[e].status \in Unclaimed /\ job[e].ready

Claimable(e) ==
  /\ job[e].focus # NoFocus /\ job[e].focus = event[e].focus
  /\ \/ job[e].status \in Unclaimed /\ job[e].ready
     \/ job[e].status = "LEASED" /\ job[e].lapsed

\* Rows locked by another transaction are skipped, so any claimable jobs may be
\* the ones taken.
Claim(S) ==
  LET token == lastToken + 1
  IN  /\ lastToken < MaxLeases
      /\ S # {} /\ Cardinality(S) <= MaximumSymbolsPerClaim
      /\ \A e \in S : Claimable(e)
      /\ lastToken' = token
      /\ job' = [e \in Events |->
           IF e \in S THEN [job[e] EXCEPT !.status = "LEASED", !.token = token,
                                          !.lapsed = FALSE, !.attempts = @ + 1]
           ELSE job[e]]
      /\ event' = [e \in Events |->
           IF e \in S /\ event[e].calculation # "COMPLETED"
           THEN [event[e] EXCEPT !.calculation = "COLLECTING"] ELSE event[e]]
      /\ sessions' = Unexpired \cup
           {[token |-> token, work |-> {<<e, job[e].focus>> : e \in S},
             batches |-> 0, expired |-> FALSE]}
      /\ UNCHANGED calls

ClaimNothing ==
  /\ sessions' = Unexpired
  /\ UNCHANGED <<event, job, calls, lastToken>>

Idle(t) == \A c \in calls : c.thread # t

Proceed(c, d) == calls' = (calls \ {c}) \cup {d}

\* The bars are stored and the session renewed.
AcceptBatch(s, t) ==
  /\ Idle(t)
  /\ ~s.expired
  /\ s.batches < MaxBatches
  /\ sessions' = (sessions \ {s}) \cup {[s EXCEPT !.batches = @ + 1]}
  /\ calls' = calls \cup {[thread |-> t, kind |-> "batch", token |-> s.token, left |-> {},
                           failures |-> {}, outage |-> FALSE, uploaded |-> TRUE]}
  /\ UNCHANGED <<event, job, lastToken>>

Leased(token) == {e \in Events : job[e].status = "LEASED" /\ job[e].token = token}

\* Then the lease: one that has run out but has not been claimed by another is
\* alive again.
ExtendLease(c) ==
  /\ c.kind = "batch"
  /\ job' = [e \in Events |-> IF e \in Leased(c.token) THEN [job[e] EXCEPT !.lapsed = FALSE]
                             ELSE job[e]]
  /\ calls' = calls \ {c}
  /\ UNCHANGED <<event, sessions, lastToken>>

(***************************************************************************)
(* What "complete" and "fail" do to one job.                               *)
(***************************************************************************)
\* focused_at=job.focused_at is neither true nor false of a NULL: only another
\* time stops the retries.
FocusMoved(e) == event[e].focus # NoFocus /\ event[e].focus # job[e].focus

\* Mutant: the try is given back without a look at zero.
TriesUnclamped(e, outage) == IF outage THEN job[e].attempts - 1 ELSE job[e].attempts

\* An outage gives the try of this claim back - also when the job has been
\* started over since, and has none.
Tries(e, outage) == IF outage /\ job[e].attempts > 0 THEN job[e].attempts - 1
                    ELSE job[e].attempts

\* Mutant: the try is counted, whatever the cause.
FinalWhateverTheCause(attempts, outage) ==
  (IF outage THEN attempts + 1 ELSE attempts) >= MaximumAttempts

Final(attempts, outage) == ~outage /\ attempts >= MaximumAttempts

\* Mutant: the event keeps waiting for its job.
EventLeftWaiting(e, final) == event[e]

EventFailed(e, final) ==
  [event[e] EXCEPT !.calculation = IF @ = "COMPLETED" THEN @
                                   ELSE IF final THEN "FAILED" ELSE "PENDING"]

\* Whatever the job's status and lease are by now.
MarkFailure(e, outage) ==
  LET attempts == Tries(e, outage)
      final    == Final(attempts, outage)
  IN  /\ job' = [job EXCEPT ![e] =
           [@ EXCEPT !.status = IF FocusMoved(e) THEN "SUPERSEDED"
                                ELSE IF final THEN "FAILED" ELSE "RETRY",
                     !.token = 0, !.lapsed = FALSE, !.attempts = attempts,
                     !.ready = final \/ FocusMoved(e)]]
      /\ event' = [event EXCEPT ![e] = EventFailed(e, final)]

\* The event has another focus time, or none: whatever job it has by now is
\* superseded.
Supersede(e) ==
  /\ job' = [job EXCEPT ![e] = [@ EXCEPT !.status = "SUPERSEDED", !.token = 0,
                                         !.lapsed = FALSE, !.ready = TRUE]]
  /\ event' = [event EXCEPT ![e].calculation =
                 IF @ = "COLLECTING" THEN "NOT_ELIGIBLE" ELSE @]

\* The lease's token is not compared.
Commit(e, f, calculation) ==
  /\ job' = [job EXCEPT ![e] = [@ EXCEPT !.status = "COMPLETED", !.token = 0,
                                         !.lapsed = FALSE, !.ready = TRUE]]
  /\ event' = [event EXCEPT ![e] = [@ EXCEPT !.calculation = calculation, !.scored = f]]

(***************************************************************************)
(* complete and fail.                                                      *)
(***************************************************************************)
StartComplete(s, failures, t) ==
  /\ Idle(t)
  /\ ~s.expired
  /\ failures \subseteq {w[1] : w \in s.work}
  /\ calls' = calls \cup {[thread |-> t, kind |-> "complete", token |-> s.token,
                           left |-> s.work, failures |-> failures, outage |-> FALSE,
                           uploaded |-> s.batches > 0]}
  /\ UNCHANGED <<event, job, sessions, lastToken>>

\* An expired session is removed and the request refused.
RefuseExpired(s) ==
  /\ s.expired
  /\ sessions' = sessions \ {s}
  /\ UNCHANGED <<event, job, calls, lastToken>>

\* The session, or what can be restored of it after a restart of the API.
StartFail(token, outage, t) ==
  LET found    == {s \in sessions : s.token = token}
      restored == [token |-> token, work |-> {<<e, job[e].focus>> : e \in Leased(token)},
                   batches |-> 0, expired |-> FALSE]
  IN  /\ Idle(t)
      /\ found # {} \/ Leased(token) # {}
      /\ sessions' = IF found = {} THEN sessions \cup {restored} ELSE sessions
      /\ \E s \in sessions' :
           /\ s.token = token
           /\ calls' = calls \cup {[thread |-> t, kind |-> "fail", token |-> token,
                                    left |-> s.work, failures |-> {w[1] : w \in s.work},
                                    outage |-> outage, uploaded |-> FALSE]}
      /\ UNCHANGED <<event, job, lastToken>>

\* A listed failure, or any job of a failed lease.
FailJob(c, w) ==
  /\ w \in c.left /\ w[1] \in c.failures
  /\ MarkFailure(w[1], c.outage)
  /\ Proceed(c, [c EXCEPT !.left = @ \ {w}])
  /\ UNCHANGED <<sessions, lastToken>>

\* Fewer than 60 bars are scored as insufficient; without an upload there are
\* none.
EvaluateJob(c, w, calculation) ==
  /\ w \in c.left /\ w[1] \notin c.failures
  /\ event[w[1]].focus = w[2] /\ job[w[1]].status = "LEASED"
  /\ calculation = "INSUFFICIENT_DATA" \/ (calculation = "COMPLETED" /\ c.uploaded)
  /\ Commit(w[1], w[2], calculation)
  /\ Proceed(c, [c EXCEPT !.left = @ \ {w}])
  /\ UNCHANGED <<sessions, lastToken>>

\* The job is not leased any more: rolled back, and then marked as a failure.
RefuseJob(c, w) ==
  /\ w \in c.left /\ w[1] \notin c.failures
  /\ event[w[1]].focus = w[2] /\ job[w[1]].status # "LEASED"
  /\ Proceed(c, [c EXCEPT !.failures = @ \cup {w[1]}])
  /\ UNCHANGED <<event, job, sessions, lastToken>>

SupersedeJob(c, w) ==
  /\ w \in c.left /\ w[1] \notin c.failures
  /\ event[w[1]].focus # w[2]
  /\ Supersede(w[1])
  /\ Proceed(c, [c EXCEPT !.left = @ \ {w}])
  /\ UNCHANGED <<sessions, lastToken>>

\* The last job is done; or a database error ends the request early.  Either
\* way complete and fail remove the session.
Return(c) ==
  /\ calls' = calls \ {c}
  /\ sessions' = {s \in sessions : s.token # c.token \/ c.kind = "batch"}
  /\ UNCHANGED <<event, job, lastToken>>

(***************************************************************************)
(* Time, and a restart of the API.                                         *)
(***************************************************************************)
LapseLease(e) ==
  /\ job[e].status = "LEASED" /\ ~job[e].lapsed
  /\ job' = [job EXCEPT ![e].lapsed = TRUE]
  /\ UNCHANGED <<event, sessions, calls, lastToken>>

ExpireSession(s) ==
  /\ ~s.expired
  /\ sessions' = (sessions \ {s}) \cup {[s EXCEPT !.expired = TRUE]}
  /\ UNCHANGED <<event, job, calls, lastToken>>

BecomeReady(e) ==
  /\ ~job[e].ready
  /\ job' = [job EXCEPT ![e].ready = TRUE]
  /\ UNCHANGED <<event, sessions, calls, lastToken>>

Restart ==
  /\ sessions' = {} /\ calls' = {}
  /\ UNCHANGED <<event, job, lastToken>>

-----------------------------------------------------------------------------
Write == \E e \in Events, active \in BOOLEAN, f \in Focuses \cup {NoFocus} :
           Snapshot(e, active, f)

Take == \E S \in SUBSET Events : Claim(S)

Upload == \E s \in sessions, t \in Threads : AcceptBatch(s, t)

Begin ==
  \E t \in Threads :
    \/ \E s \in sessions : \E failures \in SUBSET Events : StartComplete(s, failures, t)
    \/ \E token \in 1..lastToken, outage \in BOOLEAN : StartFail(token, outage, t)

Handle == \E c \in calls :
  \/ \E w \in c.left :
       \/ FailJob(c, w) \/ RefuseJob(c, w) \/ SupersedeJob(c, w)
       \/ \E calculation \in {"COMPLETED", "INSUFFICIENT_DATA"} : EvaluateJob(c, w, calculation)
  \/ ExtendLease(c) \/ Return(c)

Time ==
  \/ \E e \in Events : LapseLease(e) \/ BecomeReady(e)
  \/ \E s \in sessions : ExpireSession(s)

Next ==
  \/ Write
  \/ Take \/ ClaimNothing
  \/ Upload
  \/ \E s \in sessions : RefuseExpired(s)
  \/ Begin
  \/ Handle
  \/ Time
  \/ Restart

Spec == Init /\ [][Next]_vars

\* The clocks run, and the collector polls for jobs for ever.  It uploads what
\* it has read for a lease, each batch a bounded number of times.
Fairness ==
  /\ \A e \in Events : WF_vars(LapseLease(e)) /\ WF_vars(BecomeReady(e))
  /\ WF_vars(Take)
  /\ <>[][~Upload]_vars

FairSpec == Spec /\ Fairness

-----------------------------------------------------------------------------
(***************************************************************************)
(* Properties.                                                             *)
(***************************************************************************)
\* Types.
TypeOK ==
  /\ event \in [Events -> Event]
  /\ job \in [Events -> Job]
  /\ sessions \subseteq Session
  /\ calls \subseteq Call
  /\ lastToken \in Nat

\* The two halves of a lease agree: while a job is leased, the session of that
\* lease scores the very focus time the job is for, even after the event moved,
\* the lease was taken over, or the session was restored.
SessionsMatchLeases ==
  \A s \in sessions, e \in Events :
    job[e].status = "LEASED" /\ job[e].token = s.token => <<e, job[e].focus>> \in s.work

\* An event is shown as collecting only while a lease is out for it: no late
\* completion, failure or new focus leaves it waiting for nobody.
CollectingMeansLeased ==
  \A e \in Events : event[e].calculation = "COLLECTING" => job[e].status = "LEASED"

\* A supplier's outage does not use up the three tries: a job is given up only
\* after that many claims of it, outages not counted.
FailedOnlyAfterAttempts ==
  \A e \in Events : job[e].status = "FAILED" => job[e].attempts >= MaximumAttempts

\* A lease nobody works on any more - its answer lost, its session lost in a
\* restart, its request cut off - does not hold the job for ever, as long as
\* the event keeps the focus the job is for.
AbandonedLeaseEnds ==
  \A e \in Events, t \in 1..(MaxLeases - 1) :
    job[e].token = t ~> job[e].token # t \/ event[e].focus # job[e].focus

\* Only a stale score is skipped when the focus time has changed: the job of an
\* active event in focus is not superseded.
FocusIsNotSuperseded ==
  \A e \in Events :
    event[e].active /\ event[e].focus # NoFocus => job[e].status # "SUPERSEDED"

\* "Promotion must not erase ... the original point-in-time signal": once
\* computed for a focus time, the score is not withdrawn while that time stands.
ScoreIsKept ==
  [][\A e \in Events :
       /\ event[e].calculation = "COMPLETED"
       /\ event[e].scored = event[e].focus
       /\ event'[e].focus = event[e].focus
       => event'[e].calculation \notin {"PENDING", "FAILED"}]_vars
=============================================================================
