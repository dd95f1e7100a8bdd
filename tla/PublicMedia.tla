---------------------------- MODULE PublicMedia ----------------------------
(***************************************************************************)
(* Public media of creator pages: upload intents, the queue job that       *)
(* processes an asset, the processing attempts with their lease, the       *)
(* derivative objects in storage, and the retention cleanup                *)
(* (packages/public-media, packages/queue/src/media-queue.ts, migration    *)
(* 0021).  The row of an asset and its objects change in different steps:  *)
(* storage has no transaction.                                             *)
(*                                                                         *)
(* An expired upload intent, a paused or report-only cleanup and an        *)
(* idempotent replay change nothing and have no action.  Time appears as   *)
(* the lapse of a lease; the retention ages may always have been reached.  *)
(***************************************************************************)
EXTENDS Naturals, FiniteSets

CONSTANTS Assets,       \* the upload slots
          Workers,      \* media worker processes
          Variants,     \* the derivative objects of an asset
          MaxAttempts,  \* MAX_ATTEMPTS of media-worker.ts
          JobAttempts,  \* attempts of a queue job
          MaxStalls,    \* times the queue redelivers a job whose worker is gone
          Quota         \* source allocations a creator may hold

ASSUME MediaConstants == /\ MaxAttempts \in Nat \ {0}
                         /\ JobAttempts \in Nat \ {0}
                         /\ MaxStalls \in Nat
                         /\ Quota \in Nat

\* Both are eight in the code.
ASSUME LimitsAgree == MaxAttempts <= JobAttempts

VARIABLES asset,          \* public_media_assets.state, "none" before the row
          sourceDeleted,  \* assets with source_deleted_at
          attempt,        \* number of the latest processing attempt
          open,           \* assets whose latest attempt has no finished_at
          leased,         \* assets whose latest attempt is within its lease
          job,            \* state of the queue job of the asset
          tries,          \* failed deliveries of the job
          stalls,         \* redeliveries after a lost worker
          work,           \* what a worker process is doing
          stored,         \* derivative objects in storage
          cleanup,        \* the cleanup transaction in flight
          torn,           \* history: assets a cleanup left half deleted
          unrecorded      \* history: assets with a failed delivery no attempt shows

jobVars     == <<job, tries, stalls>>
historyVars == <<torn, unrecorded>>
mediaVars   == <<asset, sourceDeleted, attempt, open, leased, jobVars, work,
                 stored, cleanup, historyVars>>

AssetStates == {"none", "awaiting_upload", "pending", "processing", "ready",
                "failed", "deleted"}
Rules       == {"processed_source", "failed_quarantine",
                "ready_unreferenced", "superseded_derivative"}
Settled     == {"ready", "failed", "deleted"}

Idle      == [asset |-> "none"]
NoCleanup == [stage |-> "none"]

MediaInit ==
  /\ asset = [a \in Assets |-> "none"]
  /\ sourceDeleted = {} /\ open = {} /\ leased = {}
  /\ torn = {} /\ unrecorded = {}
  /\ attempt = [a \in Assets |-> 0]
  /\ job = [a \in Assets |-> "none"]
  /\ tries = [a \in Assets |-> 0] /\ stalls = [a \in Assets |-> 0]
  /\ work = [w \in Workers |-> Idle]
  /\ stored = [a \in Assets |-> {}]
  /\ cleanup = NoCleanup

-----------------------------------------------------------------------------
(* Uploads.                                                                *)

\* The allocations that count against the quota: a source that is not deleted,
\* whatever became of its upload.
allocated == {a \in Assets : asset[a] \notin {"none", "deleted"} /\ a \notin sourceDeleted}

createUploadIntent(a) ==
  /\ asset[a] = "none"
  /\ Cardinality(allocated) < Quota
  /\ asset' = [asset EXCEPT ![a] = "awaiting_upload"]
  /\ UNCHANGED <<sourceDeleted, attempt, open, leased, jobVars, work, stored, cleanup, historyVars>>

\* The outbox event of the completion enqueues the job under the asset's id.
completeUpload(a, owned) ==
  /\ owned
  /\ asset[a] = "awaiting_upload"
  /\ asset' = [asset EXCEPT ![a] = "pending"]
  /\ job' = [job EXCEPT ![a] = "waiting"]
  /\ UNCHANGED <<sourceDeleted, attempt, open, leased, tries, stalls, work, stored, cleanup, historyVars>>

-----------------------------------------------------------------------------
(* The queue job and the processing attempt.                               *)

\* A worker whose latest claim is the asset's latest unfinished attempt.
currentAttempt(w) ==
  LET a == work[w].asset IN
    asset[a] = "processing" /\ attempt[a] = work[w].attempt /\ a \in open

\* BullMQ counts a failed delivery of the job.
failJob(a) ==
  /\ tries' = [tries EXCEPT ![a] = @ + 1]
  /\ job' = [job EXCEPT ![a] = IF tries[a] + 1 >= JobAttempts THEN "failed" ELSE "waiting"]

\* The delivery ends; a worker that lost the job's lock cannot report on it.
endDelivery(w, failed) ==
  LET a == work[w].asset IN
  /\ work' = [work EXCEPT ![w] = Idle]
  /\ stalls' = stalls
  /\ IF ~work[w].locked THEN UNCHANGED <<job, tries>>
     ELSE IF failed THEN failJob(a)
     ELSE job' = [job EXCEPT ![a] = "completed"] /\ tries' = tries

\* A live lease delays the job; an asset that is settled ends it.
claimAssetSettled(a) ==
  /\ job[a] = "waiting"
  /\ asset[a] \notin {"pending", "processing"}
  /\ job' = [job EXCEPT ![a] = "completed"]
  /\ UNCHANGED <<asset, sourceDeleted, attempt, open, leased, tries, stalls, work, stored, cleanup, historyVars>>

\* The lease of the last attempt allowed has lapsed.
claimAssetExhausted(a) ==
  /\ job[a] = "waiting"
  /\ asset[a] \in {"pending", "processing"}
  /\ a \notin leased
  /\ attempt[a] >= MaxAttempts
  /\ asset' = [asset EXCEPT ![a] = "failed"]
  /\ open' = open \ {a}
  /\ job' = [job EXCEPT ![a] = "completed"]
  /\ UNCHANGED <<sourceDeleted, attempt, leased, tries, stalls, work, stored, cleanup, historyVars>>

\* Fault model of claimAsset: an attempt whose lease lapsed is not taken over.
claimAssetPendingOnly(w, a) ==
  /\ work[w] = Idle
  /\ job[a] = "waiting"
  /\ asset[a] = "pending"
  /\ a \notin leased
  /\ attempt[a] < MaxAttempts
  /\ asset' = [asset EXCEPT ![a] = "processing"]
  /\ attempt' = [attempt EXCEPT ![a] = @ + 1]
  /\ open' = open \cup {a}
  /\ leased' = leased \cup {a}
  /\ job' = [job EXCEPT ![a] = "active"]
  /\ work' = [work EXCEPT ![w] =
                [asset |-> a, attempt |-> attempt[a] + 1, locked |-> TRUE, done |-> {}]]
  /\ UNCHANGED <<sourceDeleted, tries, stalls, stored, cleanup, historyVars>>

\* A lapsed attempt is closed as retryable and the next one opened.
claimAsset(w, a) ==
  /\ work[w] = Idle
  /\ job[a] = "waiting"
  /\ asset[a] \in {"pending", "processing"}
  /\ a \notin leased
  /\ attempt[a] < MaxAttempts
  /\ asset' = [asset EXCEPT ![a] = "processing"]
  /\ attempt' = [attempt EXCEPT ![a] = @ + 1]
  /\ open' = open \cup {a}
  /\ leased' = leased \cup {a}
  /\ job' = [job EXCEPT ![a] = "active"]
  /\ work' = [work EXCEPT ![w] =
                [asset |-> a, attempt |-> attempt[a] + 1, locked |-> TRUE, done |-> {}]]
  /\ UNCHANGED <<sourceDeleted, tries, stalls, stored, cleanup, historyVars>>

\* The transaction of the claim throws, or the job cannot be delayed to the end
\* of a live lease: the delivery fails and no attempt is recorded.
claimFails(a) ==
  /\ job[a] = "waiting"
  /\ failJob(a)
  /\ unrecorded' = unrecorded \cup {a}
  /\ UNCHANGED <<asset, sourceDeleted, attempt, open, leased, stalls, work, stored, cleanup, torn>>

\* A create-only put under a key derived from the content: an object that an
\* earlier attempt left is taken over.
ensureDerivativeVersion(w, v) ==
  /\ work[w] # Idle
  /\ v \in Variants \ work[w].done
  /\ stored' = [stored EXCEPT ![work[w].asset] = @ \cup {v}]
  /\ work' = [work EXCEPT ![w].done = @ \cup {v}]
  /\ UNCHANGED <<asset, sourceDeleted, attempt, open, leased, jobVars, cleanup, historyVars>>

\* Fault model of finalizeReady: commits after the master object alone.
finalizeReadyEarly(w) ==
  LET a == work[w].asset IN
  /\ work[w] # Idle
  /\ work[w].done # {}
  /\ currentAttempt(w)
  /\ asset' = [asset EXCEPT ![a] = "ready"]
  /\ open' = open \ {a}
  /\ leased' = leased \ {a}
  /\ endDelivery(w, FALSE)
  /\ UNCHANGED <<sourceDeleted, attempt, stored, cleanup, historyVars>>

finalizeReady(w) ==
  LET a == work[w].asset IN
  /\ work[w] # Idle
  /\ work[w].done = Variants
  /\ currentAttempt(w)
  /\ asset' = [asset EXCEPT ![a] = "ready"]
  /\ open' = open \ {a}
  /\ leased' = leased \ {a}
  /\ endDelivery(w, FALSE)
  /\ UNCHANGED <<sourceDeleted, attempt, stored, cleanup, historyVars>>

\* A terminal verdict on the image, or a retryable error of the last attempt.
finalizeFailure(w) ==
  LET a == work[w].asset IN
  /\ work[w] # Idle
  /\ currentAttempt(w)
  /\ asset' = [asset EXCEPT ![a] = "failed"]
  /\ open' = open \ {a}
  /\ leased' = leased \ {a}
  /\ endDelivery(w, FALSE)
  /\ UNCHANGED <<sourceDeleted, attempt, stored, cleanup, historyVars>>

\* Storage or the processor failed: the attempt is closed, the error makes the
\* queue deliver the job again.
recordRetryableFailure(w) ==
  LET a == work[w].asset IN
  /\ work[w] # Idle
  /\ currentAttempt(w)
  /\ work[w].attempt < MaxAttempts
  /\ asset' = [asset EXCEPT ![a] = "pending"]
  /\ open' = open \ {a}
  /\ leased' = leased \ {a}
  /\ endDelivery(w, TRUE)
  /\ UNCHANGED <<sourceDeleted, attempt, stored, cleanup, historyVars>>

\* attempt_fenced: a second attempt took over, nothing is written.
attemptFenced(w) ==
  /\ work[w] # Idle
  /\ ~currentAttempt(w)
  /\ endDelivery(w, TRUE)
  /\ UNCHANGED <<asset, sourceDeleted, attempt, open, leased, stored, cleanup, historyVars>>

\* The transaction that records the failure throws: the attempt stays open until
\* its lease lapses.
failureUnrecorded(w) ==
  /\ work[w] # Idle
  /\ endDelivery(w, TRUE)
  /\ unrecorded' = IF work[w].locked THEN unrecorded \cup {work[w].asset} ELSE unrecorded
  /\ UNCHANGED <<asset, sourceDeleted, attempt, open, leased, stored, cleanup, torn>>

\* The process dies between two steps.
workerDies(w) ==
  /\ work[w] # Idle
  /\ work' = [work EXCEPT ![w] = Idle]
  /\ UNCHANGED <<asset, sourceDeleted, attempt, open, leased, jobVars, stored, cleanup, historyVars>>

\* The queue misses the lock of an active job, of a dead worker or of a slow one.
jobStalls(a) ==
  /\ job[a] = "active"
  /\ \A w \in Workers : work[w] # Idle => (work[w].asset = a => work[w].locked)
  /\ stalls' = [stalls EXCEPT ![a] = @ + 1]
  /\ job' = [job EXCEPT ![a] = IF stalls[a] < MaxStalls THEN "waiting" ELSE "failed"]
  /\ work' = [w \in Workers |->
                IF work[w] # Idle /\ work[w].asset = a
                THEN [work[w] EXCEPT !.locked = FALSE] ELSE work[w]]
  /\ UNCHANGED <<asset, sourceDeleted, attempt, open, leased, tries, stored, cleanup, historyVars>>

\* PROCESSING_LEASE_MS pass.
leaseLapses(a) ==
  /\ a \in leased
  /\ leased' = leased \ {a}
  /\ UNCHANGED <<asset, sourceDeleted, attempt, open, jobVars, work, stored, cleanup, historyVars>>

-----------------------------------------------------------------------------
(* Retention cleanup.  refs names the references the catalog holds.        *)

\* The four rules of claimCandidates and candidateStillEligible.
eligible(a, rule, refs) ==
  CASE rule = "processed_source"  -> asset[a] = "ready" /\ a \notin sourceDeleted
    [] rule = "failed_quarantine" -> asset[a] = "failed" /\ a \notin sourceDeleted
    [] rule = "ready_unreferenced" ->
         asset[a] = "ready" /\ a \notin refs.draft \cup refs.revisions
    [] rule = "superseded_derivative" ->
         /\ asset[a] = "ready"
         /\ a \in refs.revisions
         /\ a \notin refs.draft \cup refs.live

\* The statement that picks the candidates sees the references of its snapshot.
claimCandidates(a, rule, refs) ==
  /\ cleanup = NoCleanup
  /\ eligible(a, rule, refs)
  /\ cleanup' = [stage |-> "claimed", asset |-> a, rule |-> rule]
  /\ UNCHANGED <<asset, sourceDeleted, attempt, open, leased, jobVars, work, stored, historyVars>>

\* Fault model of candidateStillEligible: trusts the candidate's snapshot.
candidateStillEligibleStale(refs, held) ==
  /\ cleanup.stage = "claimed"
  /\ cleanup' = IF cleanup.asset \notin held
                THEN [cleanup EXCEPT !.stage = "checked"] ELSE NoCleanup
  /\ UNCHANGED <<asset, sourceDeleted, attempt, open, leased, jobVars, work, stored, historyVars>>

\* Under the page lock and the fence: eligibility and holds once more.
candidateStillEligible(refs, held) ==
  /\ cleanup.stage = "claimed"
  /\ cleanup' = IF eligible(cleanup.asset, cleanup.rule, refs) /\ cleanup.asset \notin held
                THEN [cleanup EXCEPT !.stage = "checked"] ELSE NoCleanup
  /\ UNCHANGED <<asset, sourceDeleted, attempt, open, leased, jobVars, work, stored, historyVars>>

deleteSource ==
  /\ cleanup.stage = "checked"
  /\ cleanup.rule \in {"processed_source", "failed_quarantine"}
  /\ sourceDeleted' = sourceDeleted \cup {cleanup.asset}
  /\ cleanup' = NoCleanup
  /\ UNCHANGED <<asset, attempt, open, leased, jobVars, work, stored, historyVars>>

\* One object of the loop; an object that is already gone is passed over.
deleteDerivative(v) ==
  /\ cleanup.stage = "checked"
  /\ cleanup.rule \in {"ready_unreferenced", "superseded_derivative"}
  /\ v \in stored[cleanup.asset]
  /\ stored' = [stored EXCEPT ![cleanup.asset] = @ \ {v}]
  /\ UNCHANGED <<asset, sourceDeleted, attempt, open, leased, jobVars, work, cleanup, historyVars>>

deleteDerivatives ==
  /\ cleanup.stage = "checked"
  /\ cleanup.rule \in {"ready_unreferenced", "superseded_derivative"}
  /\ stored[cleanup.asset] = {}
  /\ asset' = [asset EXCEPT ![cleanup.asset] = "deleted"]
  /\ cleanup' = NoCleanup
  /\ UNCHANGED <<sourceDeleted, attempt, open, leased, jobVars, work, stored, historyVars>>

\* Storage fails, or the transaction aborts: the objects deleted so far stay
\* deleted and the row stays ready.
cleanupFails ==
  /\ cleanup.stage = "checked"
  /\ cleanup' = NoCleanup
  /\ torn' = IF stored[cleanup.asset] = Variants THEN torn ELSE torn \cup {cleanup.asset}
  /\ UNCHANGED <<asset, sourceDeleted, attempt, open, leased, jobVars, work, stored, unrecorded>>

-----------------------------------------------------------------------------
processing(w) == \/ \E a \in Assets : claimAsset(w, a)
                 \/ \E v \in Variants : ensureDerivativeVersion(w, v)
                 \/ finalizeReady(w) \/ finalizeFailure(w)
                 \/ recordRetryableFailure(w) \/ attemptFenced(w)

processingFaults == \/ \E w \in Workers : failureUnrecorded(w) \/ workerDies(w)
                    \/ \E a \in Assets : claimFails(a) \/ jobStalls(a)

queueSteps == \E a \in Assets :
                claimAssetSettled(a) \/ claimAssetExhausted(a) \/ leaseLapses(a)

cleanupSteps(refs, held) ==
  \/ \E a \in Assets, rule \in Rules : claimCandidates(a, rule, refs)
  \/ candidateStillEligible(refs, held)
  \/ deleteSource \/ (\E v \in Variants : deleteDerivative(v))
  \/ deleteDerivatives \/ cleanupFails

-----------------------------------------------------------------------------
MediaTypeOK ==
  /\ asset \in [Assets -> AssetStates]
  /\ sourceDeleted \subseteq Assets /\ open \subseteq Assets
  /\ leased \subseteq Assets /\ torn \subseteq Assets /\ unrecorded \subseteq Assets
  /\ attempt \in [Assets -> 0 .. MaxAttempts]
  /\ job \in [Assets -> {"none", "waiting", "active", "completed", "failed"}]
  /\ tries \in [Assets -> 0 .. JobAttempts]
  /\ stalls \in [Assets -> 0 .. MaxStalls + 1]
  /\ stored \in [Assets -> SUBSET Variants]

\* The guard of migration 0021 on the row of an asset: failed and deleted are
\* final, ready leads to deleted only, a source is deleted once.
assetLifecycle(a) ==
  LET old == asset[a]
      new == asset'[a]
  IN /\ old # new =>
          CASE old = "none"            -> new = "awaiting_upload"
            [] old = "awaiting_upload" -> new \in {"pending", "failed"}
            [] old = "pending"         -> new \in {"processing", "failed"}
            [] old = "processing"      -> new \in {"pending", "ready", "failed"}
            [] old = "ready"           -> new = "deleted"
            [] OTHER                   -> FALSE
     /\ a \in sourceDeleted => a \in sourceDeleted'
     /\ a \in sourceDeleted' => new \in {"ready", "failed", "deleted"}

\* The guard on attempts: numbers grow by one, a finished attempt is closed for
\* good, an open attempt belongs to an asset in processing.
attemptLifecycle(a) ==
  /\ attempt'[a] \in {attempt[a], attempt[a] + 1}
  /\ (a \in open' /\ a \notin open) => attempt'[a] = attempt[a] + 1
  /\ (a \in open') <=> (asset'[a] = "processing")

\* Whatever order workers, redeliveries and the cleanup act in, every write
\* satisfies the lifecycle triggers of migration 0021: no step of the code is
\* rejected by the database for an asset that was settled or taken over
\* meanwhile (media-worker.ts, the fences of the three final transactions).
LifecycleGuardsAccept ==
  [][\A a \in Assets : assetLifecycle(a) /\ attemptLifecycle(a)]_mediaVars

\* A ready asset has all its derivative objects in storage, whichever attempts
\* put them there, unless a cleanup of it failed halfway
\* (media-worker.ts ensureDerivativeVersion and finalizeReady).
ReadyIsStored ==
  \A a \in Assets : (asset[a] = "ready" /\ cleanup.stage # "checked" /\ a \notin torn)
                      => stored[a] = Variants

\* The queue gives up on an asset while the database still allows an attempt
\* only if its worker was lost too often or one of the job's deliveries failed
\* without a record: as long as every failure is recorded, the two limits of
\* eight (media-worker.ts, media-queue.ts) agree.
JobsOutlastAttempts ==
  \A a \in Assets :
    job[a] = "failed" => asset[a] \in Settled \/ stalls[a] > MaxStalls \/ a \in unrecorded

\* Every completed upload is eventually ready or failed, through crashes, lapsed
\* leases and deliveries that fail without a record, unless the queue gives up
\* on its job (JobsOutlastAttempts says when it may).
AssetSettles ==
  \A a \in Assets : []<>(asset[a] \notin {"pending", "processing"} \/ job[a] = "failed")

\* A ready asset is complete in storage, and a job gives up only after the database has,
\* or after a lost worker or a failure that no attempt records (finalizeReady,
\* ensureDerivativeVersion, the limits of media-queue.ts).
MediaIsStored == MediaTypeOK /\ ReadyIsStored /\ JobsOutlastAttempts
=============================================================================
