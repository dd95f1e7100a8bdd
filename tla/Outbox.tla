-------------------------------- MODULE Outbox --------------------------------
(***************************************************************************)
(* The transactional outbox: rows of system_outbox are inserted in the      *)
(* transaction of the business change, claimed under a lease by the polling *)
(* dispatcher of a worker process, added to the BullMQ system queue under   *)
(* the row's own id, run by a job processor, and acknowledged by setting    *)
(* published_at.                                                            *)
(*                                                                         *)
(* Time is abstracted to what the code compares: a lease is live or has     *)
(* expired (lease_expires_at <= now), a row is due or not (available_at <=  *)
(* now); the passing of time is an action of its own.                       *)
(***************************************************************************)
EXTENDS Naturals, FiniteSets

CONSTANTS Events,        \* outbox rows; the order of Nat is (occurred_at, id)
          Workers,       \* dispatcher identities (hostname:randomUUID)
          Procs,         \* slots of the system-queue job processor
          BatchSize,     \* options.batchSize
          MaxAttempts,   \* attempts: 8 of the job options
          MaxFaults,     \* bound on crashes, losses and failing calls
          NoWorker, NoProc, NoEvent

ASSUME OutboxAssumptions ==
  /\ Events \subseteq Nat /\ IsFiniteSet(Events) /\ NoEvent \notin Events
  /\ NoWorker \notin Workers /\ NoProc \notin Procs
  /\ BatchSize \in Nat \ {0} /\ MaxAttempts \in Nat \ {0} /\ MaxFaults \in Nat

VARIABLES
  row, due, lockedBy, lease,  \* system_outbox: published_at, available_at, lock
  jobs, tries, owner,         \* BullMQ: state, attemptsMade, lock of a job id
  late,                       \* queue writes whose caller gave up on them
  todo, at, step,             \* dispatchOutboxBatch of each worker
  event, phase,               \* the job processor slots
  effects,                    \* events whose own branch has committed
  faults                      \* faults so far

rowVars  == <<row, due, lockedBy, lease>>
jobVars  == <<jobs, tries, owner>>
dispVars == <<todo, at, step>>
procVars == <<event, phase>>
vars     == <<rowVars, jobVars, late, dispVars, procVars, effects, faults>>

RowStates == {"absent", "pending", "published"}
Leases    == {"none", "live", "expired"}
JobStates == {"none", "waiting", "active", "failed", "completed"}
Phases    == {"idle", "running", "handled", "acked"}
Steps     == {"add", "inspect", "retry", "markFailed"}
Writes    == {"add", "retry"}

Init ==
  /\ row = [e \in Events |-> "absent"]
  /\ due = [e \in Events |-> FALSE]
  /\ lockedBy = [e \in Events |-> NoWorker]
  /\ lease = [e \in Events |-> "none"]
  /\ jobs = [e \in Events |-> "none"]
  /\ tries = [e \in Events |-> 0]
  /\ owner = [e \in Events |-> NoProc]
  /\ late = {}
  /\ todo = [w \in Workers |-> {}]
  /\ at = [w \in Workers |-> NoEvent]
  /\ step = [w \in Workers |-> "add"]
  /\ event = [p \in Procs |-> NoEvent]
  /\ phase = [p \in Procs |-> "idle"]
  /\ effects = {}
  /\ faults = 0

Fault == faults < MaxFaults /\ faults' = faults + 1
---------------------------------------------------------------------------
(* The rows. *)

\* insertOutboxEvent, inside the transaction of the business change.
InsertOutboxEvent(e) ==
  /\ row[e] = "absent"
  /\ row' = [row EXCEPT ![e] = "pending"]
  /\ due' = [due EXCEPT ![e] = TRUE]
  /\ UNCHANGED <<lockedBy, lease, jobVars, late, dispVars, procVars, effects, faults>>

\* The candidates of claimOutboxBatch.
Claimable(e) == row[e] = "pending" /\ due[e] /\ lease[e] # "live"

\* order by occurred_at, id ... limit n
OldestOf(S, n) == {e \in S : Cardinality({f \in S : f < e}) < n}

\* One claim transaction; every claimed row is leased to the worker.
ClaimOutboxBatch(w) ==
  LET claimed == OldestOf({e \in Events : Claimable(e)}, BatchSize)
  IN /\ todo[w] = {} /\ claimed # {}
     /\ lockedBy' = [e \in Events |-> IF e \in claimed THEN w ELSE lockedBy[e]]
     /\ lease' = [e \in Events |-> IF e \in claimed THEN "live" ELSE lease[e]]
     /\ todo' = [todo EXCEPT ![w] = claimed]
     /\ UNCHANGED <<row, due, jobVars, late, at, step, procVars, effects, faults>>

\* The lease of a row runs out; a postponed row becomes due again.
TimePasses(e) ==
  /\ \/ /\ lease[e] = "live"
        /\ lease' = [lease EXCEPT ![e] = "expired"]
        /\ UNCHANGED due
     \/ /\ row[e] = "pending" /\ ~due[e]
        /\ due' = [due EXCEPT ![e] = TRUE]
        /\ UNCHANGED lease
  /\ UNCHANGED <<row, lockedBy, jobVars, late, dispVars, procVars, effects, faults>>
---------------------------------------------------------------------------
(* The dispatch loop: one event of the batch after the other. *)

\* The loop moves on to the next event of the batch, or ends.
Advance(w) ==
  /\ todo' = [todo EXCEPT ![w] = @ \ {at[w]}]
  /\ at' = [at EXCEPT ![w] = NoEvent]
  /\ step' = [step EXCEPT ![w] = "add"]

\* queue.add under jobId = event id: BullMQ keeps a job it already knows.
AddJob(w) ==
  /\ at[w] = NoEvent
  /\ \E e \in todo[w] :
       /\ jobs' = [jobs EXCEPT ![e] = IF @ = "none" THEN "waiting" ELSE @]
       /\ at' = [at EXCEPT ![w] = e]
       /\ step' = [step EXCEPT ![w] = "inspect"]
  /\ UNCHANGED <<rowVars, tries, owner, late, todo, procVars, effects, faults>>

\* Fault model of InspectJob: a failed job is taken for one that still runs.
InspectJobNeverRetries(w) ==
  /\ at[w] # NoEvent /\ step[w] = "inspect"
  /\ Advance(w)
  /\ UNCHANGED <<rowVars, jobVars, late, procVars, effects, faults>>

\* job.getState(): a failed job is going to be retried, any other is left alone.
InspectJob(w) ==
  /\ at[w] # NoEvent /\ step[w] = "inspect"
  /\ IF jobs[at[w]] = "failed"
     THEN step' = [step EXCEPT ![w] = "retry"] /\ UNCHANGED <<todo, at>>
     ELSE Advance(w)
  /\ UNCHANGED <<rowVars, jobVars, late, procVars, effects, faults>>

\* job.retry("failed"): throws when the job has left the failed state.
RetryJob(w) ==
  /\ at[w] # NoEvent /\ step[w] = "retry"
  /\ IF jobs[at[w]] = "failed"
     THEN jobs' = [jobs EXCEPT ![at[w]] = "waiting"] /\ Advance(w)
     ELSE step' = [step EXCEPT ![w] = "markFailed"] /\ UNCHANGED <<jobs, todo, at>>
  /\ UNCHANGED <<rowVars, tries, owner, late, procVars, effects, faults>>

\* add, getState or retry fails or times out (withProducerOperationDeadline);
\* the abandoned add or retry may still reach the queue, much later.
EnqueueFails(w) ==
  /\ Fault
  /\ \/ /\ at[w] = NoEvent
        /\ \E e \in todo[w] :
             /\ late' \in {late, late \cup {<<e, "add">>}}
             /\ at' = [at EXCEPT ![w] = e]
     \/ /\ at[w] # NoEvent /\ step[w] = "inspect"
        /\ UNCHANGED <<late, at>>
     \/ /\ at[w] # NoEvent /\ step[w] = "retry"
        /\ late' \in {late, late \cup {<<at[w], "retry">>}}
        /\ UNCHANGED at
  /\ step' = [step EXCEPT ![w] = "markFailed"]
  /\ UNCHANGED <<rowVars, jobVars, todo, procVars, effects>>

\* An abandoned queue write arrives, or is dropped with its connection.
LateWrite(e) ==
  \E op \in Writes :
    /\ <<e, op>> \in late
    /\ late' = late \ {<<e, op>>}
    /\ \/ UNCHANGED jobs
       \/ /\ jobs[e] = IF op = "add" THEN "none" ELSE "failed"
          /\ jobs' = [jobs EXCEPT ![e] = "waiting"]
    /\ UNCHANGED <<rowVars, tries, owner, dispVars, procVars, effects, faults>>

\* Fault model of MarkOutboxFailed: the locked_by condition is missing.
MarkOutboxFailedByAnyone(w) ==
  /\ at[w] # NoEvent /\ step[w] = "markFailed"
  /\ IF row[at[w]] = "pending"
     THEN /\ due' = [due EXCEPT ![at[w]] = FALSE]
          /\ lockedBy' = [lockedBy EXCEPT ![at[w]] = NoWorker]
          /\ lease' = [lease EXCEPT ![at[w]] = "none"]
     ELSE UNCHANGED <<due, lockedBy, lease>>
  /\ Advance(w)
  /\ UNCHANGED <<row, jobVars, late, procVars, effects, faults>>

\* markOutboxFailed: only the lock holder of an unpublished row releases it,
\* to be due again retryDelayMs later.
MarkOutboxFailed(w) ==
  /\ at[w] # NoEvent /\ step[w] = "markFailed"
  /\ IF lockedBy[at[w]] = w /\ row[at[w]] = "pending"
     THEN /\ due' = [due EXCEPT ![at[w]] = FALSE]
          /\ lockedBy' = [lockedBy EXCEPT ![at[w]] = NoWorker]
          /\ lease' = [lease EXCEPT ![at[w]] = "none"]
     ELSE UNCHANGED <<due, lockedBy, lease>>
  /\ Advance(w)
  /\ UNCHANGED <<row, jobVars, late, procVars, effects, faults>>

\* The process dies, or markOutboxFailed itself throws and ends the batch.
DispatchAborts(w) ==
  /\ todo[w] # {}
  /\ Fault
  /\ todo' = [todo EXCEPT ![w] = {}]
  /\ at' = [at EXCEPT ![w] = NoEvent]
  /\ step' = [step EXCEPT ![w] = "add"]
  /\ UNCHANGED <<rowVars, jobVars, late, procVars, effects>>
---------------------------------------------------------------------------
(* The job processor. *)

\* The slot is free for another job.
Release(p) ==
  /\ event' = [event EXCEPT ![p] = NoEvent]
  /\ phase' = [phase EXCEPT ![p] = "idle"]

\* A processor slot takes a waiting job and its lock.
StartJob(p) ==
  /\ phase[p] = "idle"
  /\ \E e \in Events :
       /\ jobs[e] = "waiting"
       /\ jobs' = [jobs EXCEPT ![e] = "active"]
       /\ owner' = [owner EXCEPT ![e] = p]
       /\ event' = [event EXCEPT ![p] = e]
  /\ phase' = [phase EXCEPT ![p] = "running"]
  /\ UNCHANGED <<rowVars, tries, late, dispVars, effects, faults>>

\* The branch for the event type, and the notification fan-out, commit.
RunHandler(p) ==
  /\ phase[p] = "running"
  /\ effects' = effects \cup {event[p]}
  /\ phase' = [phase EXCEPT ![p] = "handled"]
  /\ UNCHANGED <<rowVars, jobVars, late, dispVars, event, faults>>

\* The update of acknowledgeOutboxEvent; a row already published is left as it is.
Publish(e) ==
  /\ row' = [row EXCEPT ![e] = "published"]
  /\ lockedBy' = [lockedBy EXCEPT ![e] = NoWorker]
  /\ lease' = [lease EXCEPT ![e] = "none"]

\* Fault model of AcknowledgeOutboxEvent: it need not wait for the handler.
AcknowledgeBeforeHandler(p) ==
  /\ phase[p] \in {"running", "handled"}
  /\ Publish(event[p])
  /\ phase' = [phase EXCEPT ![p] = "acked"]
  /\ UNCHANGED <<due, jobVars, late, dispVars, event, effects, faults>>

\* acknowledgeOutboxEvent after the handler returned.
AcknowledgeOutboxEvent(p) ==
  /\ phase[p] = "handled"
  /\ Publish(event[p])
  /\ phase' = [phase EXCEPT ![p] = "acked"]
  /\ UNCHANGED <<due, jobVars, late, dispVars, event, effects, faults>>

\* The processor returns; only the holder of the job's lock completes it.
CompleteJob(p) ==
  /\ phase[p] = "acked"
  /\ IF owner[event[p]] = p
     THEN /\ jobs' = [jobs EXCEPT ![event[p]] = "completed"]
          /\ owner' = [owner EXCEPT ![event[p]] = NoProc]
     ELSE UNCHANGED <<jobs, owner>>
  /\ Release(p)
  /\ UNCHANGED <<rowVars, tries, late, dispVars, effects, faults>>

\* The branch, the notification step or the acknowledgement throws.
JobFails(p) ==
  /\ phase[p] \in {"running", "handled"}
  /\ Fault
  /\ IF owner[event[p]] = p
     THEN /\ jobs' = [jobs EXCEPT ![event[p]] =
                        IF tries[event[p]] + 1 >= MaxAttempts THEN "failed" ELSE "waiting"]
          /\ tries' = [tries EXCEPT ![event[p]] = IF @ < MaxAttempts THEN @ + 1 ELSE @]
          /\ owner' = [owner EXCEPT ![event[p]] = NoProc]
     ELSE UNCHANGED <<jobs, tries, owner>>
  /\ Release(p)
  /\ UNCHANGED <<rowVars, late, dispVars, effects>>

\* The process dies in any phase; an active job keeps a dead lock.
ProcessorCrashes(p) ==
  /\ phase[p] # "idle"
  /\ Fault
  /\ owner' = IF owner[event[p]] = p THEN [owner EXCEPT ![event[p]] = NoProc] ELSE owner
  /\ Release(p)
  /\ UNCHANGED <<rowVars, jobs, tries, late, dispVars, effects>>

\* A job lock is lost while its processor goes on (a stalled event loop).
LockLost(e) ==
  /\ owner[e] # NoProc
  /\ Fault
  /\ owner' = [owner EXCEPT ![e] = NoProc]
  /\ UNCHANGED <<rowVars, jobs, tries, late, dispVars, procVars, effects>>

\* BullMQ's stalled check returns the job, or fails one that stalls too often.
RecoverStalledJob(e) ==
  /\ jobs[e] = "active" /\ owner[e] = NoProc
  /\ \E s \in {"waiting", "failed"} : jobs' = [jobs EXCEPT ![e] = s]
  /\ UNCHANGED <<rowVars, tries, owner, late, dispVars, procVars, effects, faults>>

\* removeOnComplete trims a completed job.
TrimJob(e) ==
  /\ jobs[e] = "completed"
  /\ jobs' = [jobs EXCEPT ![e] = "none"]
  /\ tries' = [tries EXCEPT ![e] = 0]
  /\ UNCHANGED <<rowVars, owner, late, dispVars, procVars, effects, faults>>

\* Valkey restarts without its latest writes and forgets the job.
QueueForgetsJob(e) ==
  /\ jobs[e] \in {"waiting", "active", "failed"}
  /\ Fault
  /\ jobs' = [jobs EXCEPT ![e] = "none"]
  /\ tries' = [tries EXCEPT ![e] = 0]
  /\ owner' = [owner EXCEPT ![e] = NoProc]
  /\ UNCHANGED <<rowVars, late, dispVars, procVars, effects>>
---------------------------------------------------------------------------
DispatchStep(w) == \/ ClaimOutboxBatch(w) \/ AddJob(w) \/ InspectJob(w)
                   \/ RetryJob(w) \/ MarkOutboxFailed(w)

ProcStep(p) == \/ StartJob(p) \/ RunHandler(p)
               \/ AcknowledgeOutboxEvent(p) \/ CompleteJob(p)

Next ==
  \/ \E e \in Events : \/ InsertOutboxEvent(e) \/ TimePasses(e)
                       \/ LockLost(e) \/ RecoverStalledJob(e)
                       \/ TrimJob(e) \/ QueueForgetsJob(e) \/ LateWrite(e)
  \/ \E w \in Workers : DispatchStep(w) \/ EnqueueFails(w) \/ DispatchAborts(w)
  \/ \E p \in Procs : ProcStep(p) \/ JobFails(p) \/ ProcessorCrashes(p)

Spec == Init /\ [][Next]_vars

\* The poll timer re-arms itself in a finally block, BullMQ keeps serving
\* jobs and checking for stalled ones, and time passes.
Fairness ==
  /\ \A w \in Workers : WF_vars(DispatchStep(w))
  /\ \A p \in Procs : WF_vars(ProcStep(p))
  /\ \A e \in Events : WF_vars(TimePasses(e)) /\ WF_vars(RecoverStalledJob(e))

FairSpec == Spec /\ Fairness
---------------------------------------------------------------------------
(* Properties. *)

\* Every column of system_outbox, every job, dispatcher and processor slot of
\* the worker keeps its range.
TypeOK ==
  /\ row \in [Events -> RowStates]
  /\ due \in [Events -> BOOLEAN]
  /\ lockedBy \in [Events -> Workers \cup {NoWorker}]
  /\ lease \in [Events -> Leases]
  /\ jobs \in [Events -> JobStates]
  /\ tries \in [Events -> 0..MaxAttempts]
  /\ owner \in [Events -> Procs \cup {NoProc}]
  /\ late \subseteq Events \X Writes
  /\ todo \in [Workers -> SUBSET Events]
  /\ at \in [Workers -> Events \cup {NoEvent}]
  /\ step \in [Workers -> Steps]
  /\ event \in [Procs -> Events \cup {NoEvent}]
  /\ phase \in [Procs -> Phases]
  /\ effects \subseteq Events
  /\ faults \in 0..MaxFaults

\* No event is lost by its acknowledgement: published_at is set only after the
\* event's own branch of the processor has committed, whatever crashes, stalls
\* and duplicate runs happen in between.
PublishedAfterEffect ==
  \A e \in Events : row[e] = "published" => e \in effects

\* BullMQ ignores an add under the id of a job it keeps, and the dispatcher
\* retries only failed jobs: a completed job of an unpublished row would strand
\* the row for as long as the job is kept.
CompletedJobPublished ==
  \A e \in Events : jobs[e] = "completed" => row[e] = "published"

\* A dispatcher whose lease ran out goes on with its batch, but it never takes
\* away the live lease of the worker that claimed the row after it.
LiveLeaseRespected ==
  [][\A e \in Events : \A w \in Workers :
       (lockedBy[e] = w /\ lease[e] = "live" /\ lockedBy'[e] # w)
         => row'[e] = "published" \/ (at[w] = e /\ step[w] = "markFailed")]_vars

\* An event is published after its effect and never behind a completed job
\* (acknowledgeOutboxEvent, the queue's duplicate check).
DeliveryIsSafe == TypeOK /\ PublishedAfterEffect /\ CompletedJobPublished
===============================================================================
