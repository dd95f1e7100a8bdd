---------------------------- MODULE SecurityEmail ---------------------------
(***************************************************************************)
(* One operational email: the domain event that asks for it is turned into *)
(* a handoff row by workers that may both hold the event, and the row is   *)
(* delivered by a queue job that is retried with exponential backoff.      *)
(*                                                                         *)
(* Time is counted in seconds because three schedules must fit together:   *)
(* the job's eight attempts, the minute between two sends of unknown       *)
(* outcome, and the half minute a claim is leased.  Time goes from one     *)
(* deadline to the next.                                                   *)
(***************************************************************************)
EXTENDS Naturals, FiniteSets

CONSTANTS Workers,
          NoWorker,
          SendLimit,     \* PROVIDER_SEND_ATTEMPT_LIMIT, 3
          RetryDelay,    \* UNKNOWN_OUTCOME_RETRY_DELAY_MS, 60 s
          Lease,         \* lease of a claim, 30 s
          JobAttempts,   \* attempts of a system job, 8
          LockDuration,  \* lock of a job, 30 s
          MaxMailFaults  \* bound: stalled jobs, crashes, errors outside the send

ASSUME MailAssumption ==
  /\ IsFiniteSet(Workers) /\ NoWorker \notin Workers
  /\ {SendLimit, RetryDelay, Lease, JobAttempts, LockDuration, MaxMailFaults} \subseteq Nat

\* The values of the code for which the three schedules have to fit together.
ASSUME SchedulesAssumption == SendLimit = 3 /\ JobAttempts = 8 /\ RetryDelay <= 60

VARIABLES
  now, purpose, verified,   \* the clock, the kind of mail, the user's address
  mailRow, requests,        \* identity_email_handoffs, request events
  job,                      \* the job of the request event
  mailWriter, act,          \* what each worker is doing
  sends, accepted,          \* contacts with the provider, attempts it accepted
  mailFaults

mailVars == <<now, purpose, verified, mailRow, requests, job, mailWriter, act, sends, accepted,
              mailFaults>>

NoRow == [status |-> "none", attempts |-> 0, availableAt |-> 0, lockedAt |-> 0, lease |-> 0]
Idle == [phase |-> "idle", at |-> 0, attempt |-> 0]

MailInit ==
  /\ now = 0 /\ purpose \in {"notice", "credential"} /\ verified \in BOOLEAN
  /\ mailRow = NoRow /\ requests = 0
  /\ job = [state |-> "none", made |-> 0, readyAt |-> 0, owner |-> NoWorker, lockedUntil |-> 0,
             stalls |-> 0]
  /\ mailWriter = [w \in Workers |-> "idle"] /\ act = [w \in Workers |-> Idle]
  /\ sends = 0 /\ accepted = {} /\ mailFaults = 0

Final == {"sent", "attention_required"}

---------------------------------------------------------------------------
(* From the domain event to the handoff row.                               *)

\* The transaction finds no row of the same source event (else it is done) ...
findExisting(w) ==
  /\ mailWriter[w] = "idle" /\ mailRow.status = "none"
  /\ mailWriter' = [mailWriter EXCEPT ![w] = "absent"]
  /\ UNCHANGED <<now, purpose, verified, mailRow, requests, job, act, sends, accepted, mailFaults>>

\* ... and inserts one; the loser of a race finds the winner's row instead.
queueSecurityEmailHandoff ==
  IF mailRow.status = "none"
  THEN /\ mailRow' = [NoRow EXCEPT !.status = "pending", !.availableAt = now]
       /\ requests' = requests + 1
  ELSE UNCHANGED <<mailRow, requests>>

recordSecurityEmailAttentionRequired ==
  /\ mailRow' = IF mailRow.status = "none" THEN [NoRow EXCEPT !.status = "attention_required"]
                ELSE mailRow
  /\ UNCHANGED requests

materialize(w) ==
  /\ mailWriter[w] = "absent"
  /\ IF verified THEN queueSecurityEmailHandoff ELSE recordSecurityEmailAttentionRequired
  /\ mailWriter' = [mailWriter EXCEPT ![w] = "done"]
  /\ UNCHANGED <<now, purpose, verified, job, act, sends, accepted, mailFaults>>

\* The relay hands the request event to the queue; its id deduplicates the job.
publish ==
  /\ requests > 0 /\ job.state = "none"
  /\ job' = [job EXCEPT !.state = "waiting", !.readyAt = now]
  /\ UNCHANGED <<now, purpose, verified, mailRow, requests, mailWriter, act, sends, accepted,
                 mailFaults>>

---------------------------------------------------------------------------
(* The job.                                                                *)

\* The instant of the attempt is read once, before anything is done.
pick(w) ==
  /\ job.state = "waiting" /\ job.readyAt <= now /\ act[w].phase = "idle"
  /\ job' = [job EXCEPT !.state = "active", !.owner = w, !.lockedUntil = now + LockDuration]
  /\ act' = [act EXCEPT ![w] = [phase |-> "retire", at |-> now, attempt |-> 0]]
  /\ UNCHANGED <<now, purpose, verified, mailRow, requests, mailWriter, sends, accepted,
                 mailFaults>>

backoff(n) == 2 ^ (n - 1)

\* What the end of an attempt makes of the job, if the worker still owns it.
ended(w, ok) ==
  IF job.state # "active" \/ job.owner # w THEN job
  ELSE IF ok THEN [job EXCEPT !.state = "completed", !.owner = NoWorker]
  ELSE IF job.made + 1 = JobAttempts
       THEN [job EXCEPT !.state = "failed", !.owner = NoWorker, !.made = @ + 1]
       ELSE [job EXCEPT !.state = "waiting", !.owner = NoWorker, !.made = @ + 1,
                        !.readyAt = now + backoff(job.made + 1)]

finish(w, ok) == job' = ended(w, ok) /\ act' = [act EXCEPT ![w] = Idle]
go(w, phase) == act' = [act EXCEPT ![w].phase = phase] /\ UNCHANGED job

\* A lock not renewed in time gives the job to another worker, once; the
\* worker that lost it may be gone or may go on with what it was doing.
stall(w) ==
  /\ mailFaults < MaxMailFaults /\ mailFaults' = mailFaults + 1
  /\ job.state = "active" /\ job.owner = w /\ now >= job.lockedUntil
  /\ job' = IF job.stalls = 0
            THEN [job EXCEPT !.state = "waiting", !.owner = NoWorker, !.readyAt = now, !.stalls = 1]
            ELSE [job EXCEPT !.state = "failed", !.owner = NoWorker]
  /\ act' \in {act, [act EXCEPT ![w] = Idle]}
  /\ UNCHANGED <<now, purpose, verified, mailRow, requests, mailWriter, sends, accepted>>

\* A statement fails, or the envelope cannot be decrypted: the attempt throws.
throw(w) ==
  /\ mailFaults < MaxMailFaults /\ mailFaults' = mailFaults + 1
  /\ act[w].phase # "idle"
  /\ finish(w, FALSE)
  /\ UNCHANGED <<now, purpose, verified, mailRow, requests, mailWriter, sends, accepted>>

---------------------------------------------------------------------------
(* deliverSecurityEmailHandoff, one action per statement.                  *)

unleased(w) == mailRow.lease <= act[w].at
toAttention == [mailRow EXCEPT !.status = "attention_required", !.lockedAt = 0, !.lease = 0]

\* Credential links have no endpoint any more: retired without a send.
retire(w) ==
  /\ act[w].phase = "retire"
  /\ IF purpose = "credential" /\ mailRow.status \notin Final /\ unleased(w)
     THEN mailRow' = toAttention /\ finish(w, TRUE)
     ELSE mailRow' = mailRow /\ go(w, "recover")
  /\ UNCHANGED <<now, purpose, verified, requests, mailWriter, sends, accepted, mailFaults>>

\* The last attempt never reported back.
recover(w) ==
  /\ act[w].phase = "recover"
  /\ IF mailRow.status \notin Final /\ mailRow.attempts >= SendLimit /\ unleased(w)
     THEN mailRow' = toAttention /\ finish(w, TRUE)
     ELSE mailRow' = mailRow /\ go(w, "claim")
  /\ UNCHANGED <<now, purpose, verified, requests, mailWriter, sends, accepted, mailFaults>>

claimable(w) ==
  /\ mailRow.status \notin Final /\ mailRow.attempts < SendLimit
  /\ mailRow.availableAt <= act[w].at /\ unleased(w)

claim(w) ==
  /\ act[w].phase = "claim"
  /\ IF claimable(w)
     THEN /\ mailRow' = [mailRow EXCEPT !.status = "processing", !.attempts = @ + 1,
                                       !.lockedAt = act[w].at, !.lease = act[w].at + Lease]
          /\ act' = [act EXCEPT ![w].phase = "send", ![w].attempt = mailRow.attempts + 1] /\ job' = job
     ELSE mailRow' = mailRow /\ finish(w, mailRow.status \in Final)
  /\ UNCHANGED <<now, purpose, verified, requests, mailWriter, sends, accepted, mailFaults>>

\* The provider takes the message or not; the sender may never learn which.
send(w) ==
  /\ act[w].phase = "send"
  /\ sends' = sends + 1
  /\ accepted' \in {accepted, accepted \union {act[w].attempt}}
  /\ \/ act[w].attempt \in accepted' /\ go(w, "delivered")
     \/ go(w, "unknown")
  /\ UNCHANGED <<now, purpose, verified, mailRow, requests, mailWriter, mailFaults>>

\* Fault model of owns: any sender may write while the row is processing.
ownsAny(w) == mailRow.status = "processing" /\ w \in Workers

\* The row is still the one this attempt claimed.
owns(w) ==
  /\ mailRow.status = "processing"
  /\ mailRow.attempts = act[w].attempt /\ mailRow.lockedAt = act[w].at

sendFailed(w) ==
  LET over == act[w].attempt >= SendLimit IN
  /\ act[w].phase = "unknown"
  /\ mailRow' = IF ~owns(w) THEN mailRow
                ELSE IF over THEN toAttention
                ELSE [mailRow EXCEPT !.status = "failed", !.lockedAt = 0, !.lease = 0,
                                     !.availableAt = act[w].at + RetryDelay]
  /\ finish(w, owns(w) /\ over)
  /\ UNCHANGED <<now, purpose, verified, requests, mailWriter, sends, accepted, mailFaults>>

markSent(w) ==
  /\ act[w].phase = "delivered"
  /\ mailRow' = IF owns(w) THEN [mailRow EXCEPT !.status = "sent", !.lockedAt = 0, !.lease = 0] ELSE mailRow
  /\ finish(w, owns(w))
  /\ UNCHANGED <<now, purpose, verified, requests, mailWriter, sends, accepted, mailFaults>>

---------------------------------------------------------------------------

Deadlines == {job.readyAt, job.lockedUntil, mailRow.availableAt, mailRow.lease}

\* Statements take no time and a ready job is picked at once; the provider and
\* a worker that lost its lock take theirs.
pass ==
  /\ job.state = "waiting" => job.readyAt > now
  /\ job.state = "active" => act[job.owner].phase \in {"send", "unknown", "delivered"}
  /\ job.state \in {"waiting", "active"}
  /\ \E d \in Deadlines : d > now /\ (\A e \in Deadlines : e > now => d <= e) /\ now' = d
  /\ UNCHANGED <<purpose, verified, mailRow, requests, job, mailWriter, act, sends, accepted,
                 mailFaults>>

MailNext ==
  \/ pass \/ publish
  \/ \E w \in Workers :
       \/ findExisting(w) \/ materialize(w) \/ pick(w) \/ stall(w) \/ throw(w)
       \/ retire(w) \/ recover(w) \/ claim(w) \/ send(w) \/ sendFailed(w) \/ markSent(w)

MailSpec == MailInit /\ [][MailNext]_mailVars

---------------------------------------------------------------------------
(* Properties.                                                             *)

\* One event asks for one delivery and the provider is contacted at most
\* three times for it, however many workers hold the event or the job
\* (onConflictDoNothing on the source event, the attempt bound of the claim);
\* mail for a retired credential link is never sent.
SendsAreBounded ==
  /\ requests <= 1 /\ sends <= SendLimit
  /\ purpose = "credential" => sends = 0

\* A late sender never overwrites a newer attempt (the ownership guard of
\* deliverSecurityEmailHandoff): a row becomes sent only when its present
\* attempt was accepted, and sent and attention_required are final.
OutcomesAreOwned ==
  [][/\ mailRow.status \in Final => mailRow'.status = mailRow.status
     /\ mailRow.status # "sent" /\ mailRow'.status = "sent" => mailRow.attempts \in accepted
     /\ mailRow.status = "processing" /\ mailRow'.status = "failed"
          => \E w \in Workers : act[w].attempt = mailRow.attempts]_mailVars

\* Eight attempts with their backoff leave room for three sends a minute
\* apart: a job that runs out of attempts without a stall or an error leaves
\* a row whose outcome is settled, not one that is never looked at again.
AttemptsSuffice == job.state \in {"completed", "failed"} /\ mailFaults = 0 => mailRow.status \in Final

\* A security mail is sent a bounded number of times, the job's attempts reach the end of
\* the row's, and only the holder of the lease writes the outcome (securityEmailHandoff).
MailIsAccountedFor == [](SendsAreBounded /\ AttemptsSuffice) /\ OutcomesAreOwned
=============================================================================
