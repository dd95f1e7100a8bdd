---------------------------- MODULE WorkerProofs ----------------------------
(***************************************************************************)
(* Proofs about the worker process: Outbox, its types and the order        *)
(* handler, acknowledgement, completion, for every number of events,       *)
(* workers, processor slots and faults; WorkerLoop, that scans do not      *)
(* overlap and that a shutdown closes what is used after its users, for    *)
(* every deployment; Notices, that committed events stay valid and that    *)
(* whoever must act is told, for every number of commits.                  *)
(***************************************************************************)
EXTENDS Outbox, WorkerLoop, Notices, TLAPS

-----------------------------------------------------------------------------
(* Outbox.                                                                 *)

\* What a processor slot knows in each phase: it holds an event from "running"
\* on, the event's work is committed from "handled" on, and its row is
\* published from "acked" on.  This is what makes the two properties inductive.
PhaseInv ==
  \A p \in Procs :
    /\ phase[p] # "idle" => event[p] \in Events
    /\ phase[p] \in {"handled", "acked"} => event[p] \in effects
    /\ phase[p] = "acked" => row[event[p]] = "published"

IInv == TypeOK /\ PhaseInv /\ PublishedAfterEffect /\ CompletedJobPublished

\* Every step keeps the shape of rows, jobs, dispatchers and processors.
LEMMA TypeStep == TypeOK /\ PhaseInv /\ [Next]_vars => TypeOK'
<1> SUFFICES ASSUME TypeOK, PhaseInv, [Next]_vars PROVE TypeOK'
  OBVIOUS
<1> USE OutboxAssumptions DEF TypeOK, PhaseInv, RowStates, Leases, JobStates,
        Phases, Steps, Writes, Fault, Advance, Release, Publish,
        rowVars, jobVars, dispVars, procVars
<1>1. ASSUME NEW e \in Events, InsertOutboxEvent(e) PROVE TypeOK'
  BY <1>1 DEF InsertOutboxEvent
<1>2. ASSUME NEW e \in Events, TimePasses(e) PROVE TypeOK'
  <2>1. CASE lease' = [lease EXCEPT ![e] = "expired"] /\ UNCHANGED due
    BY <1>2, <2>1 DEF TimePasses
  <2>2. CASE due' = [due EXCEPT ![e] = TRUE] /\ UNCHANGED lease
    BY <1>2, <2>2 DEF TimePasses
  <2> QED
    BY <1>2, <2>1, <2>2 DEF TimePasses
<1>3. ASSUME NEW e \in Events, LockLost(e) PROVE TypeOK'
  BY <1>3 DEF LockLost
<1>4. ASSUME NEW e \in Events, RecoverStalledJob(e) PROVE TypeOK'
  BY <1>4 DEF RecoverStalledJob
<1>5. ASSUME NEW e \in Events, TrimJob(e) PROVE TypeOK'
  BY <1>5 DEF TrimJob
<1>6. ASSUME NEW e \in Events, QueueForgetsJob(e) PROVE TypeOK'
  BY <1>6 DEF QueueForgetsJob
<1>7. ASSUME NEW e \in Events, LateWrite(e) PROVE TypeOK'
  BY <1>7 DEF LateWrite
<1>8. ASSUME NEW w \in Workers, ClaimOutboxBatch(w) PROVE TypeOK'
  BY <1>8 DEF ClaimOutboxBatch, OldestOf, Claimable
<1>9. ASSUME NEW w \in Workers, AddJob(w) PROVE TypeOK'
  BY <1>9 DEF AddJob
<1>10. ASSUME NEW w \in Workers, InspectJob(w) PROVE TypeOK'
  BY <1>10 DEF InspectJob
<1>11. ASSUME NEW w \in Workers, RetryJob(w) PROVE TypeOK'
  BY <1>11 DEF RetryJob
<1>12. ASSUME NEW w \in Workers, MarkOutboxFailed(w) PROVE TypeOK'
  <2>1. due' \in [Events -> BOOLEAN]
    <3>1. CASE due' = [due EXCEPT ![at[w]] = FALSE]
      BY <3>1
    <3>2. CASE due' = due
      BY <3>2
    <3> QED
      BY <1>12, <3>1, <3>2 DEF MarkOutboxFailed
  <2>2. lockedBy' \in [Events -> Workers \cup {NoWorker}]
    BY <1>12 DEF MarkOutboxFailed
  <2>3. lease' \in [Events -> Leases]
    BY <1>12 DEF MarkOutboxFailed
  <2>4. /\ todo' \in [Workers -> SUBSET Events]
        /\ at' \in [Workers -> Events \cup {NoEvent}]
        /\ step' \in [Workers -> Steps]
    BY <1>12 DEF MarkOutboxFailed
  <2>5. UNCHANGED <<row, jobs, tries, owner, late, event, phase, effects, faults>>
    BY <1>12 DEF MarkOutboxFailed
  <2> QED
    BY <2>1, <2>2, <2>3, <2>4, <2>5
<1>13. ASSUME NEW w \in Workers, EnqueueFails(w) PROVE TypeOK'
  <2>1. late' \subseteq Events \X Writes
    <3>1. ASSUME NEW e \in Events, NEW op \in Writes,
                 late' \in {late, late \cup {<<e, op>>}}
          PROVE  late' \subseteq Events \X Writes
      BY <3>1
    <3>2. /\ at[w] = NoEvent \/ at[w] \in Events
          /\ todo[w] \subseteq Events
      OBVIOUS
    <3> QED
      BY <1>13, <3>1, <3>2 DEF EnqueueFails
  <2>2. at' \in [Workers -> Events \cup {NoEvent}]
    BY <1>13 DEF EnqueueFails
  <2>3. step' \in [Workers -> Steps]
    BY <1>13 DEF EnqueueFails
  <2>4. faults' \in 0..MaxFaults
    BY <1>13 DEF EnqueueFails
  <2>5. UNCHANGED <<row, due, lockedBy, lease, jobs, tries, owner, todo, event, phase, effects>>
    BY <1>13 DEF EnqueueFails
  <2> QED
    BY <2>1, <2>2, <2>3, <2>4, <2>5
<1>14. ASSUME NEW w \in Workers, DispatchAborts(w) PROVE TypeOK'
  BY <1>14 DEF DispatchAborts
<1>15. ASSUME NEW p \in Procs, StartJob(p) PROVE TypeOK'
  BY <1>15 DEF StartJob
<1>16. ASSUME NEW p \in Procs, RunHandler(p) PROVE TypeOK'
  BY <1>16 DEF RunHandler
<1>17. ASSUME NEW p \in Procs, AcknowledgeOutboxEvent(p) PROVE TypeOK'
  BY <1>17 DEF AcknowledgeOutboxEvent
<1>18. ASSUME NEW p \in Procs, CompleteJob(p) PROVE TypeOK'
  BY <1>18 DEF CompleteJob
<1>19. ASSUME NEW p \in Procs, JobFails(p) PROVE TypeOK'
  BY <1>19 DEF JobFails
<1>20. ASSUME NEW p \in Procs, ProcessorCrashes(p) PROVE TypeOK'
  BY <1>20 DEF ProcessorCrashes
<1>21. CASE UNCHANGED vars
  BY <1>21 DEF vars
<1> QED
  BY <1>1, <1>2, <1>3, <1>4, <1>5, <1>6, <1>7, <1>8, <1>9, <1>10, <1>11,
     <1>12, <1>13, <1>14, <1>15, <1>16, <1>17, <1>18, <1>19, <1>20, <1>21
  DEF Next, DispatchStep, ProcStep

\* Handler, acknowledgement, completion: every step keeps the order.
LEMMA IInvStep == IInv /\ [Next]_vars => IInv'
<1> SUFFICES ASSUME IInv, [Next]_vars PROVE IInv'
  OBVIOUS
<1>0. TypeOK'
  BY TypeStep DEF IInv
<1> DEFINE Rest == PhaseInv /\ PublishedAfterEffect /\ CompletedJobPublished
<1> SUFFICES Rest'
  BY <1>0 DEF IInv
<1> USE <1>0, OutboxAssumptions DEF IInv, TypeOK, PhaseInv, PublishedAfterEffect,
        CompletedJobPublished, Phases, Fault, Release, Publish,
        rowVars, jobVars, dispVars, procVars
<1>1. ASSUME NEW e \in Events, InsertOutboxEvent(e) PROVE Rest'
  BY <1>1 DEF InsertOutboxEvent
<1>2. ASSUME NEW e \in Events, TimePasses(e) PROVE Rest'
  BY <1>2 DEF TimePasses
<1>3. ASSUME NEW e \in Events, LockLost(e) PROVE Rest'
  BY <1>3 DEF LockLost
<1>4. ASSUME NEW e \in Events, RecoverStalledJob(e) PROVE Rest'
  BY <1>4 DEF RecoverStalledJob
<1>5. ASSUME NEW e \in Events, TrimJob(e) PROVE Rest'
  BY <1>5 DEF TrimJob
<1>6. ASSUME NEW e \in Events, QueueForgetsJob(e) PROVE Rest'
  BY <1>6 DEF QueueForgetsJob
<1>7. ASSUME NEW e \in Events, LateWrite(e) PROVE Rest'
  BY <1>7 DEF LateWrite
<1>8. ASSUME NEW w \in Workers, ClaimOutboxBatch(w) PROVE Rest'
  BY <1>8 DEF ClaimOutboxBatch
<1>9. ASSUME NEW w \in Workers, AddJob(w) PROVE Rest'
  BY <1>9 DEF AddJob
<1>10. ASSUME NEW w \in Workers, InspectJob(w) PROVE Rest'
  BY <1>10 DEF InspectJob
<1>11. ASSUME NEW w \in Workers, RetryJob(w) PROVE Rest'
  BY <1>11 DEF RetryJob
<1>12. ASSUME NEW w \in Workers, MarkOutboxFailed(w) PROVE Rest'
  BY <1>12 DEF MarkOutboxFailed
<1>13. ASSUME NEW w \in Workers, EnqueueFails(w) PROVE Rest'
  BY <1>13 DEF EnqueueFails
<1>14. ASSUME NEW w \in Workers, DispatchAborts(w) PROVE Rest'
  BY <1>14 DEF DispatchAborts
<1>15. ASSUME NEW p \in Procs, StartJob(p) PROVE Rest'
  BY <1>15 DEF StartJob
<1>16. ASSUME NEW p \in Procs, RunHandler(p) PROVE Rest'
  BY <1>16 DEF RunHandler
<1>17. ASSUME NEW p \in Procs, AcknowledgeOutboxEvent(p) PROVE Rest'
  BY <1>17 DEF AcknowledgeOutboxEvent
<1>18. ASSUME NEW p \in Procs, CompleteJob(p) PROVE Rest'
  BY <1>18 DEF CompleteJob
<1>19. ASSUME NEW p \in Procs, JobFails(p) PROVE Rest'
  BY <1>19 DEF JobFails
<1>20. ASSUME NEW p \in Procs, ProcessorCrashes(p) PROVE Rest'
  BY <1>20 DEF ProcessorCrashes
<1>21. CASE UNCHANGED vars
  BY <1>21 DEF vars
<1> QED
  BY <1>1, <1>2, <1>3, <1>4, <1>5, <1>6, <1>7, <1>8, <1>9, <1>10, <1>11, <1>12, <1>13, <1>14, <1>15, <1>16, <1>17, <1>18, <1>19, <1>20, <1>21
  DEF Next, DispatchStep, ProcStep

LEMMA InitIInv == Init => IInv
  BY OutboxAssumptions
  DEF Init, IInv, TypeOK, PhaseInv, PublishedAfterEffect, CompletedJobPublished,
      RowStates, Leases, JobStates, Phases, Steps, Writes

LEMMA IInvHolds == Spec => []IInv
  BY InitIInv, IInvStep, PTL DEF Spec

\* The columns of the outbox, the jobs and the processes keep their ranges.
THEOREM OutboxTypeOK == Spec => []TypeOK
  BY IInvHolds, PTL DEF IInv

\* acknowledgeOutboxEvent never overtakes the work of the event.
THEOREM OutboxPublishedAfterEffect == Spec => []PublishedAfterEffect
  BY IInvHolds, PTL DEF IInv

\* A completed job never hides an unpublished row from the dispatcher.
THEOREM OutboxCompletedJobPublished == Spec => []CompletedJobPublished
  BY IInvHolds, PTL DEF IInv

\* A live lease leaves its holder only by publication or by the holder's own
\* markOutboxFailed: an expired dispatcher cannot release another's row.
THEOREM OutboxLiveLeaseRespected == Spec => LiveLeaseRespected
<1> DEFINE Kept == \A e \in Events : \A w \in Workers :
       (lockedBy[e] = w /\ lease[e] = "live" /\ lockedBy'[e] # w)
         => row'[e] = "published" \/ (at[w] = e /\ step[w] = "markFailed")
<1>1. IInv /\ [Next]_vars => [Kept]_vars
  <2> SUFFICES ASSUME IInv, Next PROVE Kept
    OBVIOUS
  <2> USE OutboxAssumptions DEF IInv, TypeOK, Fault, rowVars, jobVars, dispVars, procVars
  <2>1. ASSUME NEW v \in Workers, ClaimOutboxBatch(v) PROVE Kept
    BY <2>1 DEF ClaimOutboxBatch, OldestOf, Claimable
  <2>2. ASSUME NEW v \in Workers, MarkOutboxFailed(v) PROVE Kept
    BY <2>2 DEF MarkOutboxFailed
  <2>3. ASSUME NEW p \in Procs, AcknowledgeOutboxEvent(p) PROVE Kept
    BY <2>3 DEF AcknowledgeOutboxEvent, Publish, PhaseInv
  <2>4. ASSUME UNCHANGED lockedBy PROVE Kept
    BY <2>4
  <2>5. ASSUME NEW e \in Events,
               \/ InsertOutboxEvent(e) \/ TimePasses(e) \/ LockLost(e)
               \/ RecoverStalledJob(e) \/ TrimJob(e) \/ QueueForgetsJob(e)
               \/ LateWrite(e)
        PROVE  UNCHANGED lockedBy
    BY <2>5 DEF InsertOutboxEvent, TimePasses, LockLost, RecoverStalledJob,
       TrimJob, QueueForgetsJob, LateWrite
  <2>6. ASSUME NEW v \in Workers,
               AddJob(v) \/ InspectJob(v) \/ RetryJob(v) \/ EnqueueFails(v) \/ DispatchAborts(v)
        PROVE  UNCHANGED lockedBy
    BY <2>6 DEF AddJob, InspectJob, RetryJob, EnqueueFails, DispatchAborts
  <2>7. ASSUME NEW p \in Procs,
               \/ StartJob(p) \/ RunHandler(p) \/ CompleteJob(p)
               \/ JobFails(p) \/ ProcessorCrashes(p)
        PROVE  UNCHANGED lockedBy
    BY <2>7 DEF StartJob, RunHandler, CompleteJob, JobFails, ProcessorCrashes
  <2> QED
    BY <2>1, <2>2, <2>3, <2>4, <2>5, <2>6, <2>7 DEF Next, DispatchStep, ProcStep
<1>2. QED
  BY <1>1, IInvHolds, PTL DEF Spec, LiveLeaseRespected

\* No event is published before its effect or hidden by its job.
THEOREM OutboxDeliveryIsSafe == Spec => []DeliveryIsSafe
  BY IInvHolds, PTL DEF IInv, DeliveryIsSafe

-----------------------------------------------------------------------------
(* WorkerLoop.                                                             *)

\* A run of a scan that the poll awaits keeps the poll at its step; none is under way
\* before the process has started.
PollAwaits ==
  /\ \A s \in Inline : flights[s] > 0 => poll > 0 /\ PollSteps[poll] = s
  /\ stage = "starting" => poll = 0

\* How far a walk over the resources has come, and what it has left behind it.
WalkedSoFar ==
  /\ entry \in 1 .. 10
  /\ stage \in {"starting", "cleanup"} => entry \in 1 .. 9 /\ busy = {}
  /\ stage \in {"starting", "cleanup", "failed", "running"} => ~forced
  /\ stage \in {"starting", "running"} => stuck = {}
  /\ stage = "starting" /\ entry > 1 => "postgres" \in open
  /\ stage = "running" => "postgres" \in open
  /\ stage = "cleanup" => \A i \in 1 .. 9 : i < entry /\ CleanupOrder[i] \in open => CleanupOrder[i] \in stuck
  /\ stage = "failed" => open \subseteq stuck
  /\ stage \in {"stopping", "stopped"} /\ ~forced =>
       /\ \A i \in 1 .. 9 : i < entry /\ CloseOrder[i] \in open => CloseOrder[i] \in stuck
       /\ entry > 1 => settled
       /\ entry < 10 => "postgres" \in open
  /\ ~forced => busy \subseteq open

LoopInv == LoopTypeOK /\ OneRunAtATime /\ PollAwaits /\ WalkedSoFar

\* The lists have nine entries; both closing walks end with the database.
LEMMA Walks ==
  /\ Len(OpenOrder) = 9 /\ Len(CleanupOrder) = 9 /\ Len(CloseOrder) = 9 /\ Len(PollSteps) = 7
  /\ \A i \in 1 .. 9 : /\ OpenOrder[i] \in Resources /\ CleanupOrder[i] \in Resources
                       /\ CloseOrder[i] \in Resources
                       /\ i < 9 => CloseOrder[i] # "postgres" /\ CleanupOrder[i] # "postgres"
  /\ OpenOrder[1] = "postgres" /\ CloseOrder[9] = "postgres"
<1>1. Len(OpenOrder) = 9 /\ Len(CleanupOrder) = 9 /\ Len(CloseOrder) = 9 /\ Len(PollSteps) = 7
  BY DEF OpenOrder, CleanupOrder, CloseOrder, PollSteps
<1>2. ASSUME NEW i \in 1 .. 9
      PROVE  /\ OpenOrder[i] \in Resources /\ CleanupOrder[i] \in Resources
             /\ CloseOrder[i] \in Resources
             /\ i < 9 => CloseOrder[i] # "postgres" /\ CleanupOrder[i] # "postgres"
  <2>1. i = 1 \/ i = 2 \/ i = 3 \/ i = 4 \/ i = 5 \/ i = 6 \/ i = 7 \/ i = 8 \/ i = 9
    OBVIOUS
  <2> QED
    BY <2>1 DEF OpenOrder, CleanupOrder, CloseOrder, Resources, Consumers
<1>3. OpenOrder[1] = "postgres" /\ CloseOrder[9] = "postgres"
  BY DEF OpenOrder, CloseOrder
<1> QED
  BY <1>1, <1>2, <1>3

\* Every resource is in both closing walks.
LEMMA WalksAreComplete ==
  ASSUME NEW r \in Resources
  PROVE  (\E i \in 1 .. 9 : CloseOrder[i] = r) /\ (\E i \in 1 .. 9 : CleanupOrder[i] = r)
<1>1. /\ CloseOrder[1] = "mediaWorker" /\ CloseOrder[2] = "fileWorker" /\ CloseOrder[3] = "worker"
      /\ CloseOrder[4] = "mediaQueue" /\ CloseOrder[5] = "fileQueue" /\ CloseOrder[6] = "queue"
      /\ CloseOrder[7] = "producer" /\ CloseOrder[8] = "workerConnection" /\ CloseOrder[9] = "postgres"
  BY DEF CloseOrder
<1>2. /\ CleanupOrder[1] = "mediaWorker" /\ CleanupOrder[2] = "fileWorker" /\ CleanupOrder[3] = "worker"
      /\ CleanupOrder[4] = "mediaQueue" /\ CleanupOrder[5] = "fileQueue" /\ CleanupOrder[6] = "queue"
      /\ CleanupOrder[7] = "workerConnection" /\ CleanupOrder[8] = "producer"
      /\ CleanupOrder[9] = "postgres"
  BY DEF CleanupOrder
<1>3. \A n \in {1, 2, 3, 4, 5, 6, 7, 8, 9} : n \in 1 .. 9
  OBVIOUS
<1>4. \E i \in 1 .. 9 : CloseOrder[i] = r
  BY <1>1, <1>3 DEF Resources, Consumers
<1>5. \E i \in 1 .. 9 : CleanupOrder[i] = r
  BY <1>2, <1>3 DEF Resources, Consumers
<1> QED
  BY <1>4, <1>5

LEMMA ScanNames ==
  /\ Inline \subseteq Scans /\ Detached \subseteq Scans /\ Inline \cap Detached = {}
  /\ Scans = Inline \cup Detached
  /\ {"refund", "tip", "media", "retention", "oidc"} \subseteq Scans
  /\ "dispatch" \notin Inline /\ "launch" \notin Inline
  BY DEF Inline, Detached, Scans

\* A scan of the poll starts, or is skipped, at its step.
ScanSteps ==
  \/ scanRefundWindowsIfDue \/ scanTipExpiryIfDue \/ scanMediaCleanupIfDue
  \/ scanRetentionIfDue \/ scanOidcIfDue

LEMMA ScanStep ==
  ASSUME ScanSteps
  PROVE  \E s \in Scans, b \in BOOLEAN : scanOrSkip(s, b)
<1>1. running \in BOOLEAN
  BY DEF running
<1> QED
  BY <1>1, ScanNames DEF ScanSteps, scanRefundWindowsIfDue, scanTipExpiryIfDue,
     scanMediaCleanupIfDue, scanRetentionIfDue, scanOidcIfDue

\* What the loop keeps of itself keeps its type.
LEMMA LoopTypeStep ==
  ASSUME LoopTypeOK, WalkedSoFar, [LoopNext]_loopVars
  PROVE  LoopTypeOK'
<1> USE DEF process, work, clocks
<1>t. /\ poll \in 0 .. 7 /\ flights \in [Scans -> Nat] /\ since \in [Scans -> 0 .. 1]
      /\ ok \in [Scans -> 0 .. Never] /\ open \subseteq Resources /\ stuck \subseteq Resources
      /\ busy \subseteq Consumers /\ hung \subseteq Scans /\ Never \in Nat /\ Never >= 2
  BY Walks, LoopAssumption DEF LoopTypeOK, Never
<1>s. \A st \in {"starting", "cleanup", "failed", "running", "stopping", "stopped"} :
        st \in {"starting", "cleanup", "failed", "running", "stopping", "stopped"}
  OBVIOUS
<1>n. nextStep => poll' \in 0 .. 7
  BY <1>t, Walks DEF nextStep
<1>1. CASE openResource
  <2>1. OpenOrder[entry] \in Resources
    BY <1>1, Walks DEF openResource, WalkedSoFar
  <2> QED
    BY <1>t, <1>1, <2>1, Walks DEF openResource, LoopTypeOK
<1>2. CASE openFails
  <2>1. OpenOrder[entry] \in Resources
    BY <1>2, Walks DEF openFails, WalkedSoFar
  <2> QED
    BY <1>t, <1>2, <2>1, Walks DEF openFails, LoopTypeOK
<1>3. CASE startupCleanup
  <2>1. open' \subseteq open /\ stuck' \subseteq stuck \cup open
    BY <1>3 DEF startupCleanup, closeThrows
  <2>2. stage' \in {"failed", "cleanup"}
    BY <1>3 DEF startupCleanup
  <2> QED
    BY <1>t, <1>3, <2>1, <2>2 DEF startupCleanup, LoopTypeOK
<1>4. CASE ScanSteps
  <2>1. PICK s \in Scans, b \in BOOLEAN : scanOrSkip(s, b)
    BY <1>4, ScanStep
  <2>2. flights' \in [Scans -> Nat] /\ since' \in [Scans -> 0 .. 1] /\ poll' \in 0 .. 7
    BY <1>t, <1>n, <2>1 DEF scanOrSkip, start
  <2> QED
    BY <1>t, <2>1, <2>2, Walks DEF scanOrSkip, LoopTypeOK
<1>5. ASSUME NEW b \in BOOLEAN, dispatch(b) PROVE LoopTypeOK'
  <2>1. poll' \in 0 .. 7
    BY <1>5, <1>n DEF dispatch
  <2>2. pollFresh' \in BOOLEAN
    BY <1>5 DEF dispatch, LoopTypeOK, running
  <2> QED
    BY <1>t, <1>5, <2>1, <2>2, Walks DEF dispatch, LoopTypeOK
<1>6. CASE launch
  <2>1. poll' \in 0 .. 7 /\ flights' \in [Scans -> Nat] /\ since' \in [Scans -> 0 .. 1]
    BY <1>t, <1>n, <1>6 DEF launch
  <2> QED
    BY <1>t, <1>6, <2>1, Walks DEF launch, LoopTypeOK
<1>7. ASSUME NEW s \in Scans, NEW b \in BOOLEAN, ends(s, b) PROVE LoopTypeOK'
  <2>1. flights' \in [Scans -> Nat] /\ poll' \in 0 .. 7
    BY <1>t, <1>n, <1>7 DEF ends
  <2>2. Recorded(s) \in 0 .. Never
    BY <1>t DEF Recorded
  <2>3. ok' \in [Scans -> 0 .. Never]
    BY <1>t, <1>7, <2>2 DEF ends
  <2> QED
    BY <1>t, <1>7, <2>1, <2>3, Walks DEF ends, LoopTypeOK
<1>8. ASSUME NEW s \in Scans, hangs(s) PROVE LoopTypeOK'
  BY <1>t, <1>8, Walks DEF hangs, LoopTypeOK
<1>9. CASE runPoll \/ \E w \in Consumers : takeJob(w) \/ endJob(w)
  BY <1>t, <1>9, Walks DEF runPoll, takeJob, endJob, LoopTypeOK
<1>10. CASE interval \/ pollStale
  <2>1. since' \in [Scans -> 0 .. 1] /\ ok' \in [Scans -> 0 .. Never]
    BY <1>t, <1>10 DEF interval, pollStale, Older
  <2>2. UNCHANGED <<process, busy, work>> /\ pollFresh' \in BOOLEAN
    BY <1>10 DEF interval, pollStale, LoopTypeOK
  <2> QED
    BY <2>1, <2>2, Walks DEF LoopTypeOK, Never
<1>11. CASE stop
  <2>1. Never \in 0 .. Never
    BY <1>t
  <2>2. ok' \in [Scans -> 0 .. Never]
    BY <1>11, <2>1 DEF stop, Never
  <2> QED
    BY <1>t, <1>11, <2>2, Walks DEF stop, LoopTypeOK, Never
<1>12. CASE gracefulClose
  <2>1. open' \subseteq open /\ stuck' \subseteq stuck \cup open
    BY <1>12 DEF gracefulClose, closeThrows
  <2>2. stage' \in {"stopping", "stopped"}
    BY <1>12 DEF gracefulClose
  <2> QED
    BY <1>t, <1>12, <2>1, <2>2, Walks DEF gracefulClose, LoopTypeOK
<1>13. CASE shutdownTimeout
  <2>1. open' \subseteq open /\ stuck' \subseteq stuck \cup open
    BY <1>13 DEF shutdownTimeout
  <2> QED
    BY <1>t, <1>13, <2>1, Walks DEF shutdownTimeout, LoopTypeOK
<1>14. CASE UNCHANGED loopVars
  BY <1>14 DEF loopVars, LoopTypeOK, Never
<1> QED
  BY <1>1, <1>2, <1>3, <1>4, <1>5, <1>6, <1>7, <1>8, <1>9, <1>10, <1>11, <1>12, <1>13, <1>14
     DEF LoopNext, ScanSteps

\* No scan starts beside its own earlier run, and the poll waits for what it started.
LEMMA PollStep ==
  ASSUME LoopTypeOK, OneRunAtATime, PollAwaits, [LoopNext]_loopVars
  PROVE  OneRunAtATime' /\ PollAwaits'
<1> DEFINE Goal == OneRunAtATime' /\ PollAwaits'
<1> SUFFICES Goal
  OBVIOUS
<1> HIDE DEF Goal
<1> USE DEF process, work, clocks
<1>t. flights \in [Scans -> Nat] /\ poll \in 0 .. 7
  BY Walks DEF LoopTypeOK
<1>i. \A s \in Inline : flights[s] \in Nat
  BY <1>t, ScanNames
<1>1. CASE openResource
  <2>1. poll = 0 /\ UNCHANGED flights /\ (stage' = "starting" => poll' = 0)
    BY <1>1 DEF openResource, PollAwaits
  <2>2. \A s \in Inline : ~ (flights[s] > 0)
    BY <1>t, <2>1 DEF PollAwaits
  <2> QED
    BY <2>1, <2>2 DEF Goal, OneRunAtATime, PollAwaits
<1>2. CASE \/ openFails \/ startupCleanup \/ interval \/ pollStale \/ stop
           \/ gracefulClose \/ shutdownTimeout \/ UNCHANGED loopVars
  <2>1. UNCHANGED <<poll, flights>> /\ (stage' = "starting" => stage = "starting")
    <3>1. CASE openFails \/ startupCleanup
      BY <3>1 DEF openFails, startupCleanup
    <3>2. CASE interval \/ pollStale \/ UNCHANGED loopVars
      BY <3>2 DEF interval, pollStale, loopVars
    <3>3. CASE stop \/ gracefulClose \/ shutdownTimeout
      BY <3>3 DEF stop, gracefulClose, shutdownTimeout
    <3> QED
      BY <1>2, <3>1, <3>2, <3>3
  <2> QED
    BY <2>1 DEF Goal, OneRunAtATime, PollAwaits
<1>3. CASE ScanSteps
  <2>1. PICK s \in Scans, b \in BOOLEAN : scanOrSkip(s, b)
    BY <1>3, ScanStep
  <2>2. poll > 0 /\ PollSteps[poll] = s /\ flights[s] = 0 /\ UNCHANGED stage
    BY <2>1 DEF scanOrSkip, AtStep, Step
  <2>3. \A x \in Inline : ~ (flights[x] > 0)
    BY <1>t, <2>2 DEF PollAwaits
  <2>4. CASE start(s) /\ UNCHANGED poll
    <3>1. \A x \in Scans : flights'[x] = IF x = s THEN 1 ELSE flights[x]
      BY <1>t, <2>2, <2>4 DEF start
    <3>2. \A x \in Scans : flights'[x] <= 1
      BY <3>1 DEF OneRunAtATime
    <3>3. \A x \in Inline : flights'[x] > 0 => poll' > 0 /\ PollSteps[poll'] = x
      BY <2>2, <2>3, <2>4, <3>1, ScanNames
    <3>4. stage' = "starting" => poll' = 0
      BY <2>2, <2>4 DEF PollAwaits
    <3> QED
      BY <3>2, <3>3, <3>4 DEF Goal, OneRunAtATime, PollAwaits
  <2>5. CASE nextStep /\ UNCHANGED flights
    BY <1>t, <2>2, <2>3, <2>5 DEF Goal, OneRunAtATime, PollAwaits
  <2> QED
    BY <2>1, <2>4, <2>5 DEF scanOrSkip
<1>4. ASSUME NEW b \in BOOLEAN, dispatch(b) PROVE Goal
  <2>1. poll > 0 /\ PollSteps[poll] = "dispatch" /\ UNCHANGED <<stage, flights>>
    BY <1>4 DEF dispatch, AtStep, Step
  <2>2. \A x \in Inline : ~ (flights[x] > 0)
    BY <2>1, ScanNames DEF PollAwaits
  <2> QED
    BY <1>t, <2>1, <2>2 DEF Goal, OneRunAtATime, PollAwaits
<1>5. CASE launch
  <2>1. poll > 0 /\ PollSteps[poll] = "launch" /\ UNCHANGED stage
    BY <1>5 DEF launch, AtStep, Step
  <2>2. \A x \in Inline : ~ (flights[x] > 0)
    BY <2>1, ScanNames DEF PollAwaits
  <2>3. \A x \in Scans : flights'[x] = IF x \in launchDue THEN flights[x] + 1 ELSE flights[x]
    BY <1>5 DEF launch
  <2>4. \A x \in launchDue : x \in Detached /\ flights[x] = 0
    BY DEF launchDue
  <2>5. \A x \in Scans : flights'[x] <= 1
    BY <1>t, <2>3, <2>4 DEF OneRunAtATime
  <2>6. \A x \in Inline : ~ (flights'[x] > 0)
    BY <2>2, <2>3, <2>4, ScanNames
  <2> QED
    BY <1>t, <2>1, <2>5, <2>6 DEF Goal, OneRunAtATime, PollAwaits
<1>6. ASSUME NEW s \in Scans, NEW b \in BOOLEAN, ends(s, b) PROVE Goal
  <2>1. /\ flights[s] > 0 /\ flights' = [flights EXCEPT ![s] = @ - 1] /\ UNCHANGED stage
        /\ s \notin Inline => UNCHANGED poll
    BY <1>6 DEF ends
  <2>2. flights[s] = 1
    BY <1>t, <2>1 DEF OneRunAtATime
  <2>3. \A x \in Scans : flights'[x] = IF x = s THEN 0 ELSE flights[x]
    BY <1>t, <2>1, <2>2
  <2>4. \A x \in Scans : flights'[x] <= 1
    BY <2>3 DEF OneRunAtATime
  <2>5. CASE s \in Inline
    <3>1. poll > 0 /\ PollSteps[poll] = s
      BY <2>1, <2>5 DEF PollAwaits
    <3>2. \A x \in Inline : ~ (flights'[x] > 0)
      BY <2>3, <3>1, ScanNames DEF PollAwaits
    <3> QED
      BY <1>t, <2>1, <2>4, <3>1, <3>2 DEF Goal, OneRunAtATime, PollAwaits
  <2>6. CASE s \notin Inline
    <3>1. \A x \in Inline : flights'[x] = flights[x]
      BY <2>3, <2>6, ScanNames
    <3> QED
      BY <2>1, <2>4, <2>6, <3>1 DEF Goal, OneRunAtATime, PollAwaits
  <2> QED
    BY <2>5, <2>6
<1>7. ASSUME NEW s \in Scans, hangs(s) PROVE Goal
  BY <1>7 DEF Goal, hangs, OneRunAtATime, PollAwaits
<1>8. CASE runPoll
  <2>1. poll = 0 /\ UNCHANGED flights /\ stage' # "starting"
    BY <1>8 DEF runPoll, running
  <2>2. \A x \in Inline : ~ (flights[x] > 0)
    BY <1>t, <2>1 DEF PollAwaits
  <2> QED
    BY <2>1, <2>2 DEF Goal, OneRunAtATime, PollAwaits
<1>9. ASSUME NEW w \in Consumers, takeJob(w) \/ endJob(w) PROVE Goal
  BY <1>9 DEF Goal, takeJob, endJob, OneRunAtATime, PollAwaits
<1> QED
  BY <1>1, <1>2, <1>3, <1>4, <1>5, <1>6, <1>7, <1>8, <1>9 DEF LoopNext, ScanSteps

\* Steps of the poll, the scans, the consumers and the clocks leave the process alone.
Busywork ==
  \/ ScanSteps \/ launch \/ runPoll \/ interval \/ pollStale
  \/ \E b \in BOOLEAN : dispatch(b)
  \/ \E s \in Scans : hangs(s) \/ \E b \in BOOLEAN : ends(s, b)
  \/ \E w \in Consumers : takeJob(w) \/ endJob(w)
  \/ UNCHANGED loopVars

\* Once the poll and the scans have ended, a process that stops starts none.
LEMMA BusyworkStep ==
  ASSUME LoopTypeOK, PollAwaits, Busywork
  PROVE  /\ UNCHANGED process /\ busy' \subseteq busy \cup open
         /\ settled /\ stage \in {"stopping", "stopped"} => settled'
<1> DEFINE Goal == /\ UNCHANGED process /\ busy' \subseteq busy \cup open
                   /\ settled /\ stage \in {"stopping", "stopped"} => settled'
<1> SUFFICES Goal
  OBVIOUS
<1> HIDE DEF Goal
<1> USE DEF work, clocks
<1>t. flights \in [Scans -> Nat] /\ Detached \subseteq Scans
  BY ScanNames DEF LoopTypeOK
<1>1. CASE ScanSteps
  <2>1. PICK s \in Scans, b \in BOOLEAN : scanOrSkip(s, b)
    BY <1>1, ScanStep
  <2>2. poll > 0 /\ UNCHANGED <<process, busy>>
    BY <2>1 DEF scanOrSkip, AtStep
  <2> QED
    BY <2>2 DEF Goal, settled
<1>2. CASE launch \/ \E b \in BOOLEAN : dispatch(b)
  <2>1. poll > 0 /\ UNCHANGED <<process, busy>>
    BY <1>2 DEF launch, dispatch, AtStep
  <2> QED
    BY <2>1 DEF Goal, settled
<1>3. CASE runPoll
  <2>1. stage = "running" /\ UNCHANGED <<process, busy>>
    BY <1>3 DEF runPoll, running
  <2> QED
    BY <2>1 DEF Goal
<1>4. CASE interval \/ pollStale \/ UNCHANGED loopVars
  <2>1. UNCHANGED <<process, busy, poll, flights>>
    BY <1>4 DEF interval, pollStale, loopVars, process
  <2> QED
    BY <2>1 DEF Goal, settled
<1>5. ASSUME NEW s \in Scans, hangs(s) PROVE Goal
  BY <1>5 DEF Goal, hangs, settled
<1>6. ASSUME NEW s \in Scans, NEW b \in BOOLEAN, ends(s, b) PROVE Goal
  <2>1. /\ flights[s] > 0 /\ flights' = [flights EXCEPT ![s] = @ - 1]
        /\ UNCHANGED <<process, busy>> /\ (s \notin Inline => UNCHANGED poll)
    BY <1>6 DEF ends
  <2>2. ASSUME settled PROVE settled'
    <3>1. poll = 0 /\ \A x \in Detached \ {"probe"} : flights[x] = 0
      BY <2>2 DEF settled
    <3>2. s \notin Inline
      BY <2>1, <3>1 DEF PollAwaits
    <3>3. s \notin Detached \ {"probe"}
      BY <2>1, <3>1
    <3>4. \A x \in Detached \ {"probe"} : flights'[x] = flights[x]
      BY <1>t, <2>1, <3>3
    <3> QED
      BY <2>1, <3>1, <3>2, <3>4 DEF settled
  <2> QED
    BY <2>1, <2>2 DEF Goal
<1>7. ASSUME NEW w \in Consumers, takeJob(w) \/ endJob(w) PROVE Goal
  BY <1>7 DEF Goal, takeJob, endJob, settled
<1> QED
  BY <1>1, <1>2, <1>3, <1>4, <1>5, <1>6, <1>7 DEF Busywork

\* Consumers take jobs only while the process runs or stops.
LEMMA BusyStarts ==
  ASSUME Busywork, stage \in {"starting", "cleanup"}, busy = {}
  PROVE  busy' = {}
<1> USE DEF work, clocks
<1>1. CASE ScanSteps
  <2>1. PICK s \in Scans, b \in BOOLEAN : scanOrSkip(s, b)
    BY <1>1, ScanStep
  <2> QED
    BY <2>1 DEF scanOrSkip
<1>2. CASE launch \/ runPoll \/ interval \/ pollStale \/ UNCHANGED loopVars
  BY <1>2 DEF launch, runPoll, interval, pollStale, loopVars
<1>3. CASE (\E b \in BOOLEAN : dispatch(b)) \/ \E s \in Scans : hangs(s) \/ \E b \in BOOLEAN : ends(s, b)
  BY <1>3 DEF dispatch, hangs, ends
<1>4. CASE \E w \in Consumers : takeJob(w) \/ endJob(w)
  BY <1>4 DEF takeJob, endJob
<1> QED
  BY <1>1, <1>2, <1>3, <1>4 DEF Busywork

\* A walk leaves nothing open behind it but what it could not close.
LEMMA WalkStep ==
  ASSUME LoopTypeOK, PollAwaits, WalkedSoFar, [LoopNext]_loopVars
  PROVE  WalkedSoFar'
<1> USE DEF work, clocks
<1>1. CASE openResource
  <2>1. /\ stage = "starting" /\ entry \in 1 .. 9 /\ ~forced /\ stuck = {} /\ busy = {}
        /\ (entry > 1 => "postgres" \in open)
    BY <1>1 DEF openResource, WalkedSoFar
  <2>2. "postgres" \in open'
    <3>1. CASE entry = 1
      <4>1. Built("postgres") /\ OpenOrder[entry] = "postgres"
        BY <3>1, Walks DEF Built
      <4> QED
        BY <1>1, <4>1 DEF openResource
    <3>2. CASE entry # 1
      BY <1>1, <2>1, <3>2 DEF openResource
    <3> QED
      BY <3>1, <3>2
  <2>3. /\ stage' \in {"starting", "running"} /\ entry' \in 1 .. 10
        /\ (stage' = "starting" => entry' \in 1 .. 9)
        /\ UNCHANGED <<stuck, forced, busy>>
    BY <1>1, <2>1, Walks DEF openResource
  <2> QED
    BY <2>1, <2>2, <2>3 DEF WalkedSoFar
<1>2. CASE openFails
  <2>1. /\ stage = "starting" /\ ~forced /\ stuck = {} /\ busy = {}
    BY <1>2 DEF openFails, WalkedSoFar
  <2>2. stage' = "cleanup" /\ entry' = 1 /\ UNCHANGED <<stuck, forced, busy>>
    BY <1>2 DEF openFails
  <2> QED
    BY <2>1, <2>2 DEF WalkedSoFar
<1>3. CASE startupCleanup
  <2> DEFINE r == CleanupOrder[entry]
  <2>1. /\ stage = "cleanup" /\ entry \in 1 .. 9 /\ ~forced /\ busy = {}
        /\ \A i \in 1 .. 9 : i < entry /\ CleanupOrder[i] \in open => CleanupOrder[i] \in stuck
    BY <1>3 DEF startupCleanup, WalkedSoFar
  <2>2. /\ open' \subseteq open /\ stuck \subseteq stuck'
        /\ r \notin open' \/ r \in stuck'
        /\ UNCHANGED <<forced, busy>>
    BY <1>3 DEF startupCleanup, closeThrows
  <2>3. \A i \in 1 .. 9 : i <= entry /\ CleanupOrder[i] \in open' => CleanupOrder[i] \in stuck'
    <3>1. ASSUME NEW i \in 1 .. 9, i <= entry, CleanupOrder[i] \in open'
          PROVE  CleanupOrder[i] \in stuck'
      <4>1. CASE i = entry
        BY <2>2, <3>1, <4>1
      <4>2. CASE i # entry
        <5>1. i < entry
          BY <2>1, <3>1, <4>2
        <5> QED
          BY <2>1, <2>2, <3>1, <5>1
      <4> QED
        BY <4>1, <4>2
    <3> QED
      BY <3>1
  <2> HIDE DEF r
  <2>4. CASE entry = 9
    <3>1. stage' = "failed" /\ entry' = 1
      BY <1>3, <2>4, Walks DEF startupCleanup
    <3>2. open' \subseteq stuck'
      <4>1. ASSUME NEW x \in open' PROVE x \in stuck'
        <5>1. PICK i \in 1 .. 9 : CleanupOrder[i] = x
          BY <2>2, <4>1, WalksAreComplete DEF LoopTypeOK
        <5> QED
          BY <2>3, <2>4, <4>1, <5>1
      <4> QED
        BY <4>1
    <3> QED
      BY <2>1, <2>2, <3>1, <3>2 DEF WalkedSoFar
  <2>5. CASE entry # 9
    <3>1. stage' = "cleanup" /\ entry' = entry + 1 /\ entry' \in 1 .. 9
      BY <1>3, <2>1, <2>5, Walks DEF startupCleanup
    <3>2. \A i \in 1 .. 9 : i < entry' => i <= entry
      BY <2>1, <3>1
    <3> QED
      BY <2>1, <2>2, <2>3, <3>1, <3>2 DEF WalkedSoFar
  <2> QED
    BY <2>4, <2>5
<1>4. CASE Busywork
  <2>1. /\ UNCHANGED <<stage, entry, open, stuck, forced>> /\ busy' \subseteq busy \cup open
        /\ (settled /\ stage \in {"stopping", "stopped"} => settled')
    BY <1>4, BusyworkStep DEF process
  <2>2. stage \in {"starting", "cleanup"} => busy' = {}
    BY <1>4, BusyStarts DEF WalkedSoFar
  <2> QED
    BY <2>1, <2>2 DEF WalkedSoFar
<1>5. CASE stop
  <2>1. stage = "running" /\ "postgres" \in open /\ (~forced => busy \subseteq open)
    BY <1>5 DEF stop, running, WalkedSoFar
  <2>2. stage' = "stopping" /\ entry' = 1 /\ UNCHANGED <<open, stuck, forced, busy>>
    BY <1>5 DEF stop
  <2> QED
    BY <2>1, <2>2 DEF WalkedSoFar
<1>6. CASE gracefulClose
  <2> DEFINE r == CloseOrder[entry]
  <2>1. /\ stage \in {"stopping", "stopped"} /\ entry \in 1 .. 9 /\ settled
        /\ stage' \in {"stopping", "stopped"} /\ entry' = entry + 1 /\ UNCHANGED <<forced, busy, poll, flights>>
    BY <1>6, Walks DEF gracefulClose, WalkedSoFar
  <2>2. /\ open' \subseteq open /\ stuck \subseteq stuck' /\ open \ {r} \subseteq open'
        /\ r \notin open' \/ r \in stuck'
        /\ r \in busy => r \in open' \/ r \notin Consumers \/ r \notin open
    BY <1>6 DEF gracefulClose, closeThrows
  <2>3. settled'
    BY <2>1 DEF settled
  <2>4. ~forced => busy' \subseteq open'
    BY <2>1, <2>2 DEF WalkedSoFar, LoopTypeOK
  <2>5. ASSUME ~forced, NEW i \in 1 .. 9, i < entry', CloseOrder[i] \in open'
        PROVE  CloseOrder[i] \in stuck'
    <3>1. CASE i = entry
      BY <2>2, <2>5, <3>1
    <3>2. CASE i # entry
      <4>1. i < entry
        BY <2>1, <2>5, <3>2
      <4> QED
        BY <2>1, <2>2, <2>5, <4>1 DEF WalkedSoFar
    <3> QED
      BY <3>1, <3>2
  <2>6. entry' \in 1 .. 10
    BY <2>1
  <2>7. ~forced /\ entry' < 10 => "postgres" \in open'
    <3>1. entry' < 10 => entry < 9 /\ entry < 10
      BY <2>1
    <3>2. entry < 9 => r # "postgres"
      BY <2>1, Walks
    <3> QED
      BY <2>1, <2>2, <3>1, <3>2 DEF WalkedSoFar
  <2> HIDE DEF r
  <2> QED
    BY <2>1, <2>3, <2>4, <2>5, <2>6, <2>7 DEF WalkedSoFar
<1>7. CASE shutdownTimeout
  <2>1. stage' = "stopped" /\ forced' = TRUE /\ UNCHANGED entry
    BY <1>7 DEF shutdownTimeout
  <2> QED
    BY <2>1 DEF WalkedSoFar
<1> QED
  BY <1>1, <1>2, <1>3, <1>4, <1>5, <1>6, <1>7 DEF LoopNext, Busywork, ScanSteps

-----------------------------------------------------------------------------
LEMMA LoopInvInit == LoopInit => LoopInv
<1> SUFFICES ASSUME LoopInit PROVE LoopInv
  OBVIOUS
<1>1. Never \in 0 .. Never
  BY LoopAssumption DEF Never
<1>2. LoopTypeOK
  <2>1. /\ since \in [Scans -> 0 .. 1] /\ flights \in [Scans -> Nat] /\ poll \in 0 .. Len(PollSteps)
    BY Walks DEF LoopInit
  <2>2. ok \in [Scans -> 0 .. Never]
    BY <1>1 DEF LoopInit
  <2> QED
    BY <2>1, <2>2 DEF LoopInit, LoopTypeOK
<1>3. OneRunAtATime
  BY DEF LoopInit, OneRunAtATime
<1>4. PollAwaits
  BY ScanNames DEF LoopInit, PollAwaits
<1>5. WalkedSoFar
  BY DEF LoopInit, WalkedSoFar
<1> QED
  BY <1>2, <1>3, <1>4, <1>5 DEF LoopInv

LEMMA LoopInvStep == LoopInv /\ [LoopNext]_loopVars => LoopInv'
  BY LoopTypeStep, PollStep, WalkStep DEF LoopInv

\* What a closing walk has passed is closed or could not be closed, and the database comes
\* last, so a closed database means that everything before it was passed.
LEMMA LoopInvImplies == LoopInv => UsersCloseFirst
<1> SUFFICES ASSUME LoopInv PROVE UsersFinished
  BY DEF LoopInv, UsersCloseFirst
<1>t. open \subseteq Resources /\ flights \in [Scans -> Nat]
  BY DEF LoopInv, LoopTypeOK
<1>1. ASSUME stage \in {"stopping", "stopped"}, ~forced, "postgres" \notin open
      PROVE  /\ poll = 0 /\ \A s \in Scans \ {"probe"} : flights[s] = 0
             /\ busy \subseteq stuck
             /\ open \subseteq stuck
  <2>1. /\ entry \in 1 .. 10 /\ ~ (entry < 10) /\ (entry > 1 => settled) /\ busy \subseteq open
        /\ \A i \in 1 .. 9 : i < entry /\ CloseOrder[i] \in open => CloseOrder[i] \in stuck
    BY <1>1 DEF LoopInv, WalkedSoFar
  <2>2. entry = 10
    BY <2>1
  <2>3. settled
    BY <2>1, <2>2
  <2>4. ASSUME NEW x \in open PROVE x \in stuck
    <3>1. PICK i \in 1 .. 9 : CloseOrder[i] = x
      BY <1>t, <2>4, WalksAreComplete
    <3> QED
      BY <2>1, <2>2, <2>4, <3>1
  <2>5. ASSUME NEW s \in Scans \ {"probe"} PROVE flights[s] = 0
    <3>1. CASE s \in Inline
      <4>1. ~ (flights[s] > 0)
        BY <2>3, <3>1 DEF settled, LoopInv, PollAwaits
      <4> QED
        BY <1>t, <4>1
    <3>2. CASE s \in Detached
      BY <2>3, <2>5, <3>2 DEF settled
    <3> QED
      BY <2>5, <3>1, <3>2, ScanNames
  <2> QED
    BY <2>1, <2>3, <2>4, <2>5 DEF settled
<1>2. stage = "failed" => open \subseteq stuck
  BY DEF LoopInv, WalkedSoFar
<1> QED
  BY <1>1, <1>2 DEF UsersFinished

\* No scan runs beside itself, and a shutdown within its deadline closes the database and
\* the connections after everything that uses them, for every deployment and any bounds
\* (gracefulClose, startupCleanup).
THEOREM LoopClosesUsersFirst == LoopSpec => []UsersCloseFirst
  BY LoopInvInit, LoopInvStep, LoopInvImplies, PTL DEF LoopSpec

-----------------------------------------------------------------------------
(* Notices.  Rows only move on, every event says of a row what stays true of  *)
(* it, and the event that tells of a row's present state is the one committed *)
(* with it: so events stay valid and whoever must act has been told.          *)

\* A committed event: domainEvent at a given time.
Event(family, type, id, s, n) == [family |-> family, type |-> type, id |-> id, state |-> s, at |-> n]

\* The rows that events name, and what they say of them.
EventTyped(e) ==
  /\ e.id \in Ids
  /\ e.type = "case_opened" => e.family = "trust" /\ e.id \in Cases
  /\ e.type \in {"proposal_made", "proposal_ended"} => e.id \in Proposals
  /\ e.type \in {"dispute_opened", "dispute_closed", "ruling_recorded", "ruling_corrected"} => e.id = "dispute"
  /\ e.type \in {"late_claim_filed", "late_claim_ended"} => e.id = "claim"
  /\ e.type = "confirmed" => e.id = "intent"
  /\ e.type = "appeal_decided" => e.id = "appeal" /\ e.state \in {"upheld", "reversed"}

\* Rows that one transaction moves together.
RowsAgree ==
  /\ state["intent"] = "confirmed" => state["order"] \in {"in_progress", "delivered", "completed", "closed"}
  /\ state["dispute"] = "none" => state["disputeCase"] = "none"
  /\ state["claim"] \in {"none", "awaiting_creator"} => state["claimCase"] = "none"
  /\ state["appeal"] = "none" => state["appealCase"] = "none"

\* The states of rows, and who made them.
Status == {"none", "due", "requested", "quoted", "awaiting_payment", "in_progress", "delivered", "completed",
           "closed", "confirmed", "pending", "accepted", "declined", "withdrawn", "expired", "lapsed",
           "superseded", "open", "resolved", "settled", "ruled", "awaiting_creator", "refund_owed", "escalated",
           "rejected", "awaiting_destination", "awaiting_send", "sent", "received", "presumed",
           "not_received", "waived", "hidden", "released", "active", "ended", "upheld", "reversed"}
Party  == {"buyer", "creator", "none"}

NoticeTyped ==
  /\ clock \in Nat /\ story \in Stories
  /\ state \in [Ids -> Status] /\ by \in [Ids -> Party]
  /\ made \in [Ids -> Nat] /\ stateSince \in [Ids -> Nat]
  /\ done \subseteq outbox
  /\ \A e \in outbox : EventTyped(e)

\* The event that tells of a row's present state is the one committed with it.
Said(family, type, id, s, n) == Event(family, type, id, s, n) \in outbox

AnnouncedAt(i) ==
  LET said(family, type, id, s) == Said(family, type, id, s, stateSince[i])
  IN  /\ i = "order" /\ story = "order" =>
           /\ state[i] = "requested" => said("commission", "requested", i, "requested")
           /\ state[i] = "quoted" => said("commission", "quoted", i, "quoted")
           /\ state[i] = "awaiting_payment" => said("commission", "awaiting_payment", i, "awaiting_payment")
           /\ state[i] = "in_progress" => \/ said("commission", "confirmed", "intent", "confirmed")
                                          \/ said("commission", "submission_responded", i, "final")
           /\ state[i] = "delivered" => said("commission", "delivered", i, "delivered")
      /\ i \in Proposals /\ state[i] = "pending" => said("resolution", "proposal_made", i, "pending")
      /\ i = "dispute" /\ state[i] = "open" => said("resolution", "dispute_opened", i, "open")
      /\ i = "claim" /\ state[i] = "awaiting_creator" =>
           said("resolution", "late_claim_filed", i, "awaiting_creator")
      /\ i = "refund" =>
           /\ state[i] = "awaiting_destination" => said("refund", "event_recorded", i, "created")
           /\ state[i] = "awaiting_send" => \/ said("refund", "event_recorded", i, "destination_entered")
                                            \/ said("refund", "event_recorded", i, "resend_required")
           /\ state[i] = "sent" => said("refund", "event_recorded", i, "sent_recorded")
      /\ i \in Cases /\ state[i] = "open" => said("trust", "case_opened", i, "open")

\* A consumed event has all its notices.
Told(e) == \A n \in resolveNotices(e) : [event |-> e, who |-> n[1], kind |-> n[2]] \in told
AllTold == \A e \in done : Told(e)

NoticeInv == NoticeTyped /\ RowsAgree /\ EventsStayValid /\ (\A i \in Ids : AnnouncedAt(i)) /\ AllTold

---------------------------------------------------------------------------
\* What a transaction does, whatever it changes.
LEMMA Commits ==
  ASSUME NoticeTyped, NEW next, NEW news, NEW events, commits(next, news, events)
  PROVE  /\ state' = next /\ clock' = clock + 1 /\ clock' \in Nat /\ story' = story
         /\ done' = done /\ told' = told
         /\ outbox \subseteq outbox' /\ events \subseteq outbox' /\ outbox' = outbox \cup events
         /\ facts \subseteq facts' /\ \A f \in news : <<f, clock + 1>> \in facts'
         /\ made' \in [Ids -> Nat] /\ stateSince' \in [Ids -> Nat]
         /\ \A i \in Ids : /\ state[i] # "none" => made'[i] = made[i]
                           /\ state[i] = "none" /\ next[i] # "none" => made'[i] = clock + 1
                           /\ next[i] = state[i] => stateSince'[i] = stateSince[i]
                           /\ next[i] # state[i] => stateSince'[i] = clock + 1
<1> USE DEF commits, NoticeTyped
<1>1. \A f \in news : <<f, clock + 1>> \in facts'
  OBVIOUS
<1>2. made' \in [Ids -> Nat] /\ stateSince' \in [Ids -> Nat]
  OBVIOUS
<1> QED
  BY <1>1, <1>2

\* Rows only move on: what an event may have said of them stays true of them.
Forward ==
  /\ \A i \in Ids : state[i] # "none" => state'[i] # "none" /\ by'[i] = by[i]
  /\ \A c \in Cases : state[c] \in {"open", "resolved"} => state'[c] \in {"open", "resolved"}
  /\ \A p \in Proposals : state[p] \in proposalEnds => state'[p] = state[p]
  /\ state["dispute"] \in disputeEnds => state'["dispute"] = state["dispute"]
  /\ state["claim"] \in {"refund_owed", "rejected"} => state'["claim"] = state["claim"]
  /\ state["claim"] = "escalated" => state'["claim"] \in {"escalated", "refund_owed", "rejected"}
  /\ state["intent"] = "confirmed" => state'["intent"] = "confirmed"
  /\ state["appeal"] \in {"upheld", "reversed"} => state'["appeal"] = state["appeal"]

\* What the rows keep of their past.
Kept ==
  /\ facts \subseteq facts'
  /\ \A i \in Ids : /\ state[i] # "none" => made'[i] = made[i]
                    /\ state'[i] = state[i] => stateSince'[i] = stateSince[i]

\* An event that is valid stays valid.
LEMMA StaysValid ==
  ASSUME NEW e, EventTyped(e), valid(e), Forward, Kept, state' \in [Ids -> Status], state \in [Ids -> Status]
  PROVE  valid(e)'
<1> DEFINE A == resolvable(e)
<1>ids. Cases \subseteq Ids /\ Proposals \subseteq Ids /\ {"dispute", "claim", "intent", "appeal", "claimCase"} \subseteq Ids
  BY DEF Ids, Cases
<1>0. \A f : recorded(f, e) => recorded(f, e)'
  BY DEF recorded, Kept
<1>1. resolvable(e) => resolvable(e)'
  <2>1. CASE e.type = "penalty_applied"
    BY <2>1, <1>0 DEF resolvable
  <2>2. CASE e.type = "appeal_decided"
    BY <2>2 DEF resolvable, EventTyped, Forward
  <2>3. CASE e.type \notin {"penalty_applied", "appeal_decided"}
    BY <2>3 DEF resolvable, EventTyped, Forward
  <2> QED
    BY <2>1, <2>2, <2>3
<1>alive. e.type \in {"case_opened", "proposal_made", "proposal_ended", "dispute_opened", "dispute_closed",
                      "late_claim_filed", "late_claim_ended", "confirmed"} /\ resolvable(e)
          => state[e.id] # "none"
  BY DEF resolvable
<1>2. validateCommissionOutboxEvent(e) /\ resolvable(e) => validateCommissionOutboxEvent(e)'
  <2>1. CASE e.type = "confirmed"
    BY <2>1, <1>ids DEF validateCommissionOutboxEvent, Forward, Kept
  <2>2. CASE e.type # "confirmed"
    BY <2>2, <1>0 DEF validateCommissionOutboxEvent
  <2> QED
    BY <2>1, <2>2
<1>3. validateRefundOutboxEvent(e) => validateRefundOutboxEvent(e)'
  BY <1>0 DEF validateRefundOutboxEvent
<1>4. validateResolutionOutboxEvent(e) /\ resolvable(e) => validateResolutionOutboxEvent(e)'
  <2>1. CASE e.type = "case_opened"
    BY <2>1, <1>ids, <1>alive DEF validateResolutionOutboxEvent, EventTyped, Forward, Kept
  <2>2. CASE e.type \in {"proposal_made", "late_claim_filed", "dispute_opened"}
    BY <2>2, <1>ids, <1>alive DEF validateResolutionOutboxEvent, EventTyped, Kept
  <2>3. CASE e.type = "proposal_ended"
    BY <2>3, <1>ids, <1>alive DEF validateResolutionOutboxEvent, EventTyped, Forward, Kept
  <2>4. CASE e.type = "dispute_closed"
    BY <2>4, <1>ids, <1>alive DEF validateResolutionOutboxEvent, EventTyped, Forward, Kept
  <2>5. CASE e.type = "ruling_recorded"
    BY <2>5, <1>ids, <1>0 DEF validateResolutionOutboxEvent, Forward, disputeEnds
  <2>6. CASE e.type = "late_claim_ended"
    <3>1. lateClaimEnded(e) => lateClaimEnded(e)'
      BY <1>ids, <1>alive DEF lateClaimEnded, Forward, Kept
    <3> QED
      BY <2>6, <3>1 DEF validateResolutionOutboxEvent
  <2>7. CASE e.type = "dispute_statement_added"
    BY <2>7, <1>0 DEF validateResolutionOutboxEvent
  <2>8. CASE e.type = "ruling_corrected"
    BY <2>8, <1>0 DEF validateResolutionOutboxEvent
  <2>9. CASE e.type = "fulfillment_frozen"
    BY <2>9, <1>0 DEF validateResolutionOutboxEvent
  <2>10. CASE e.type \notin {"case_opened", "proposal_made", "late_claim_filed", "dispute_opened",
               "proposal_ended", "dispute_closed", "ruling_recorded", "late_claim_ended",
               "dispute_statement_added", "ruling_corrected", "fulfillment_frozen"}
    BY <2>10 DEF validateResolutionOutboxEvent
  <2> QED
    BY <2>1, <2>2, <2>3, <2>4, <2>5, <2>6, <2>7, <2>8, <2>9, <2>10
<1>5. CASE e.family = "resolution" \/ e.type = "case_opened"
  <2>1. e.family \notin {"commission", "refund"}
    BY <1>5 DEF EventTyped
  <2> QED
    BY <1>1, <1>4, <1>5, <2>1 DEF valid
<1>6. CASE e.family = "commission" /\ e.type # "case_opened"
  BY <1>1, <1>2, <1>6 DEF valid
<1>7. CASE e.family = "refund" /\ e.type # "case_opened"
  BY <1>1, <1>3, <1>7 DEF valid
<1>8. CASE e.family \notin {"resolution", "commission", "refund"} /\ e.type # "case_opened"
  BY <1>1, <1>8 DEF valid
<1> QED
  BY <1>5, <1>6, <1>7, <1>8

---------------------------------------------------------------------------
\* The parts of an event.
LEMMA Parts ==
  \A family, type, id, s, n :
    LET e == Event(family, type, id, s, n)
    IN  e.family = family /\ e.type = type /\ e.id = id /\ e.state = s /\ e.at = n
  BY DEF Event

\* An event that a transaction commits has the transaction's time.
LEMMA Committed ==
  \A family, type, id, s :
    domainEvent(family, type, id, s) = Event(family, type, id, s, clock + 1)
  BY DEF domainEvent, Event

\* What makes an event of each kind valid once it is committed.
LEMMA Verdicts ==
  ASSUME NEW e, state'[e.id] # "none"
  PROVE
    /\ e.family = "commission" /\ recorded(e.type, e)' /\
       e.type \in {"requested", "quoted", "awaiting_payment", "in_progress", "delivered", "completed",
                   "closed"} => valid(e)'
    /\ e.family = "commission" /\ e.type = "transfer_claimed" /\ recorded("claim", e)' => valid(e)'
    /\ e.family = "commission" /\ e.type = "submission_sent" /\ recorded("submission", e)' => valid(e)'
    /\ e.family = "commission" /\ e.type = "submission_responded" /\ recorded("response", e)' => valid(e)'
    /\ e.family = "commission" /\ e.type = "confirmed" /\ state'["intent"] = "confirmed"
         /\ stateSince'["intent"] = e.at => valid(e)'
    /\ e.family = "resolution" /\ e.type = "proposal_made" /\ made'[e.id] = e.at => valid(e)'
    /\ e.family = "resolution" /\ e.type = "proposal_ended" /\ state'[e.id] = e.state
         /\ e.state \in proposalEnds /\ stateSince'[e.id] = e.at => valid(e)'
    /\ e.family = "resolution" /\ e.type = "dispute_statement_added" /\ recorded(e.state, e)' => valid(e)'
    /\ e.family = "resolution" /\ e.type = "dispute_opened" /\ made'["dispute"] = e.at => valid(e)'
    /\ e.family = "resolution" /\ e.type = "dispute_closed" /\ state'[e.id] = e.state
         /\ e.state \in disputeEnds /\ stateSince'[e.id] = e.at => valid(e)'
    /\ e.family = "resolution" /\ e.type = "ruling_recorded" /\ state'["dispute"] = "ruled"
         /\ recorded("ruling", e)' => valid(e)'
    /\ e.family = "resolution" /\ e.type = "ruling_corrected" /\ recorded("correction", e)' => valid(e)'
    /\ e.family = "resolution" /\ e.type = "late_claim_filed" /\ made'["claim"] = e.at => valid(e)'
    /\ e.family = "resolution" /\ e.type = "late_claim_ended" /\ lateClaimEnded(e)' => valid(e)'
    /\ e.family = "resolution" /\ e.type = "fulfillment_frozen" /\ recorded("freeze", e)' => valid(e)'
    /\ e.family = "refund" /\ e.type = "event_recorded" /\ recorded(e.state, e)' => valid(e)'
    /\ e.family = "trust" /\ e.type = "case_opened" /\ state'[e.id] = "open" /\ made'[e.id] = e.at => valid(e)'
    /\ e.family = "trust" /\ e.type = "penalty_applied" /\ recorded(e.state, e)' => valid(e)'
    /\ e.family = "trust" /\ e.type = "appeal_decided" /\ state'["appeal"] = e.state => valid(e)'
    /\ e.family \in {"trust", "tip", "creator", "payments"}
         /\ e.type \notin {"case_opened", "penalty_applied", "appeal_decided"} => valid(e)'
<1> USE DEF valid, resolvable
<1>1. CASE e.family = "commission"
  BY <1>1 DEF validateCommissionOutboxEvent
<1>2. CASE e.family = "resolution"
  BY <1>2 DEF validateResolutionOutboxEvent
<1>3. CASE e.family = "refund"
  BY <1>3 DEF validateRefundOutboxEvent
<1>4. CASE e.family \in {"trust", "tip", "creator", "payments"}
  <2>1. e.type = "case_opened" /\ state'[e.id] = "open" /\ made'[e.id] = e.at
          => validateResolutionOutboxEvent(e)'
    BY DEF validateResolutionOutboxEvent
  <2> QED
    BY <1>4, <2>1
<1> QED
  BY <1>1, <1>2, <1>3, <1>4

\* The recipients of an event do not change: they are read from rows that exist since.
LEMMA RecipientsStay ==
  ASSUME NEW e, EventTyped(e), valid(e), Forward
  PROVE  resolveNotices(e)' = resolveNotices(e)
<1>1. e.type \in {"proposal_made", "dispute_opened"} => by'[e.id] = by[e.id]
  BY DEF valid, resolvable, Forward, EventTyped
<1>2. commissionNotices(e)' = commissionNotices(e) /\ refundNotices(e)' = refundNotices(e)
      /\ tipNotices(e)' = tipNotices(e) /\ accountNotices(e)' = accountNotices(e)
      /\ trustNotices(e)' = trustNotices(e)
  BY DEF commissionNotices, refundNotices, tipNotices, accountNotices, trustNotices, ORDER_NOTICES
<1>3. e.family = "resolution" => resolutionNotices(e)' = resolutionNotices(e)
  <2> SUFFICES ASSUME e.family = "resolution" PROVE resolutionNotices(e)' = resolutionNotices(e)
    OBVIOUS
  <2>1. e.type \in {"proposal_made", "proposal_ended", "dispute_statement_added", "dispute_opened",
                    "dispute_closed", "ruling_recorded", "ruling_corrected", "late_claim_filed",
                    "late_claim_ended", "fulfillment_frozen"}
    BY DEF valid, validateResolutionOutboxEvent, EventTyped
  <2>2. CASE e.type \in {"proposal_made", "dispute_opened"}
    BY <1>1, <2>2 DEF resolutionNotices
  <2>3. CASE e.type \notin {"proposal_made", "dispute_opened"}
    BY <2>1, <2>3 DEF resolutionNotices
  <2> QED
    BY <2>2, <2>3
<1> QED
  BY <1>2, <1>3 DEF resolveNotices

---------------------------------------------------------------------------
\* A transaction keeps the invariant if it moves rows forward, its events are
\* valid on commit, and every row that it moves is announced.
LEMMA CommitKeeps ==
  ASSUME NoticeInv, NEW next, NEW news, NEW events, commits(next, news, events),
         next \in [Ids -> Status], by' \in [Ids -> Party], Forward, RowsAgree',
         \A e \in events : EventTyped(e) /\ valid(e)',
         \A i \in Ids : next[i] # state[i] => AnnouncedAt(i)'
  PROVE  NoticeInv'
<1> NoticeTyped /\ RowsAgree /\ EventsStayValid /\ (\A i \in Ids : AnnouncedAt(i)) /\ AllTold
  BY DEF NoticeInv
<1>1. /\ state' = next /\ clock' \in Nat /\ story' = story
      /\ done' = done /\ told' = told
      /\ outbox \subseteq outbox' /\ outbox' = outbox \cup events
      /\ made' \in [Ids -> Nat] /\ stateSince' \in [Ids -> Nat]
  BY Commits
<1>2. Kept
  BY Commits DEF Kept
<1>3. state \in [Ids -> Status] /\ done \subseteq outbox /\ story \in Stories
      /\ \A e \in outbox : EventTyped(e)
  BY DEF NoticeTyped
<1>4. NoticeTyped'
  BY <1>1, <1>3 DEF NoticeTyped
<1>5. EventsStayValid'
  <2> SUFFICES ASSUME NEW e \in outbox' PROVE valid(e)'
    BY DEF EventsStayValid
  <2>1. CASE e \in outbox
    BY <1>1, <1>2, <1>3, <2>1, StaysValid DEF EventsStayValid
  <2>2. CASE e \in events
    BY <2>2
  <2> QED
    BY <1>1, <2>1, <2>2
<1>6. ASSUME NEW i \in Ids PROVE AnnouncedAt(i)'
  <2>1. CASE next[i] = state[i]
    <3>1. stateSince'[i] = stateSince[i] /\ state'[i] = state[i]
      BY <1>1, <1>2, <2>1 DEF Kept
    <3>2. \A family, type, id, s, n : Said(family, type, id, s, n) => Said(family, type, id, s, n)'
      BY <1>1 DEF Said, Event
    <3>3. AnnouncedAt(i)
      OBVIOUS
    <3> QED
      BY <1>1, <3>1, <3>2, <3>3 DEF AnnouncedAt
  <2> QED
    BY <2>1
<1>7. AllTold'
  <2>1. ASSUME NEW e \in done PROVE Told(e)'
    <3>1. Told(e) /\ EventTyped(e) /\ valid(e)
      BY <1>3 DEF AllTold, EventsStayValid
    <3>2. resolveNotices(e)' = resolveNotices(e)
      BY <3>1, RecipientsStay
    <3> QED
      BY <1>1, <3>1, <3>2 DEF Told
  <2> QED
    BY <1>1, <2>1 DEF AllTold
<1> QED
  BY <1>4, <1>5, <1>6, <1>7 DEF NoticeInv

\* Ids, told apart.
LEMMA IdsFact ==
  /\ {"order", "intent", "dispute", "claim", "refund", "hide", "penalty", "appeal", "tip", "account",
      "p1", "p2", "disputeCase", "claimCase", "reportCase", "deniedCase", "overdueCase",
      "appealCase"} \subseteq Ids
  /\ Proposals = {"p1", "p2"}
  /\ Cases = {"disputeCase", "claimCase", "reportCase", "deniedCase", "overdueCase", "appealCase"}
  BY DEF Ids, Proposals, Cases

\* A transaction that moves no row.
LEMMA NoRowMoves ==
  ASSUME NoticeInv, NEW news, NEW events, moves(state, news, events),
         \A e \in events : EventTyped(e) /\ valid(e)'
  PROVE  NoticeInv'
<1>1. commits(state, news, events) /\ by' = by
  BY DEF moves
<1>2. state' = state
  BY <1>1 DEF commits
<1>3. NoticeTyped /\ RowsAgree
  BY DEF NoticeInv
<1>4. Forward
  BY <1>1, <1>2, <1>3 DEF Forward, NoticeTyped
<1>5. RowsAgree'
  BY <1>2, <1>3 DEF RowsAgree
<1>6. state \in [Ids -> Status] /\ by' \in [Ids -> Party]
  BY <1>1, <1>3 DEF NoticeTyped
<1> QED
  BY <1>1, <1>4, <1>5, <1>6, CommitKeeps

\* The order's row moves, and the intent's with it when the payment is confirmed.
LEMMA OrderMoves ==
  ASSUME NoticeInv, NEW next, NEW news, NEW events, moves(next, news, events),
         next \in [Ids -> Status],
         \A i \in Ids : i \notin {"order", "intent"} => next[i] = state[i],
         next["order"] # "none",
         next["intent"] = state["intent"] \/ next["intent"] = "confirmed",
         next["intent"] = "confirmed" => next["order"] \in {"in_progress", "delivered", "completed", "closed"},
         state["intent"] # "none" => next["intent"] # "none",
         \A e \in events : EventTyped(e) /\ valid(e)',
         AnnouncedAt("order")'
  PROVE  NoticeInv'
<1>1. commits(next, news, events) /\ by' = by
  BY DEF moves
<1>2. state' = next
  BY <1>1 DEF commits
<1>3. NoticeTyped /\ RowsAgree
  BY DEF NoticeInv
<1>4. Forward
  BY <1>1, <1>2, <1>3, IdsFact DEF Forward, NoticeTyped
<1>5. RowsAgree'
  BY <1>2, <1>3, IdsFact DEF RowsAgree
<1>6. by' \in [Ids -> Party]
  BY <1>1, <1>3 DEF NoticeTyped
<1>7. AnnouncedAt("intent")'
  BY DEF AnnouncedAt, Proposals, Cases
<1> QED
  BY <1>1, <1>4, <1>5, <1>6, <1>7, CommitKeeps

LEMMA OrderMoveKeeps ==
  ASSUME NoticeInv, story = "order", NEW s \in {"requested", "quoted", "awaiting_payment", "completed", "closed"},
         orderMove(s), s # state["order"],
         s \in {"completed", "closed"} \/ state["order"] \in {"none", "requested", "quoted"}
  PROVE  NoticeInv'
<1>1. PICK next, e : /\ next = [state EXCEPT !["order"] = s]
                     /\ e = Event("commission", s, "order", s, clock + 1)
  OBVIOUS
<1>2. moves(next, {s}, {e}) /\ commits(next, {s}, {e})
  BY <1>1, Committed DEF orderMove, moves
<1>3. NoticeTyped /\ RowsAgree
  BY DEF NoticeInv
<1>4. state \in [Ids -> Status] /\ next \in [Ids -> Status] /\ next["order"] = s
      /\ \A i \in Ids \ {"order"} : next[i] = state[i]
  <2>1. state \in [Ids -> Status] /\ "order" \in Ids
    BY <1>3, IdsFact DEF NoticeTyped
  <2>2. s \in Status
    BY DEF Status
  <2> QED
    BY <1>1, <2>1, <2>2
<1>5. /\ state' = next /\ <<s, clock + 1>> \in facts' /\ e \in outbox' /\ story' = story
      /\ stateSince'["order"] = clock + 1
  BY <1>2, <1>3, <1>4, Commits, IdsFact
<1>6. e.family = "commission" /\ e.type = s /\ e.id = "order" /\ e.state = s /\ e.at = clock + 1
  BY <1>1, Parts
<1>7. EventTyped(e)
  BY <1>6, IdsFact DEF EventTyped
<1>8. valid(e)'
  BY <1>4, <1>5, <1>6, Verdicts DEF recorded
<1>9. AnnouncedAt("order")'
  BY <1>1, <1>4, <1>5 DEF AnnouncedAt, Said, Proposals, Cases
<1>10. next["intent"] = state["intent"]
       /\ (next["intent"] = "confirmed" => next["order"] \in {"completed", "closed"})
  BY <1>3, <1>4, IdsFact DEF RowsAgree
<1> QED
  BY <1>2, <1>4, <1>7, <1>8, <1>9, <1>10, OrderMoves

LEMMA AdvanceKeeps ==
  ASSUME NoticeInv, advance
  PROVE  NoticeInv'
<1>1. PICK s \in {"requested", "quoted", "awaiting_payment", "completed", "closed"} :
        /\ story = "order" /\ orderMove(s) /\ s # state["order"]
        /\ s \in {"completed", "closed"} \/ state["order"] \in {"none", "requested", "quoted"}
  BY DEF advance
<1> QED
  BY <1>1, OrderMoveKeeps

LEMMA DeliverKeeps ==
  ASSUME NoticeInv, deliver
  PROVE  NoticeInv'
<1>1. NoticeTyped /\ RowsAgree /\ story = "order" /\ state["order"] = "in_progress"
      /\ state \in [Ids -> Status] /\ "order" \in Ids /\ "intent" \in Ids
  BY IdsFact DEF NoticeInv, deliver, NoticeTyped
<1>2. CASE moves(state, {"submission"}, {domainEvent("commission", "submission_sent", "order", "draft")})
  <2>1. PICK e : e = Event("commission", "submission_sent", "order", "draft", clock + 1)
    OBVIOUS
  <2>2. moves(state, {"submission"}, {e}) /\ commits(state, {"submission"}, {e})
    BY <1>2, <2>1, Committed DEF moves
  <2>3. state' = state /\ <<"submission", clock + 1>> \in facts'
    BY <1>1, <2>2, Commits
  <2>4. e.family = "commission" /\ e.type = "submission_sent" /\ e.id = "order" /\ e.at = clock + 1
    BY <2>1, Parts
  <2>5. EventTyped(e) /\ valid(e)'
    BY <1>1, <2>3, <2>4, Verdicts DEF EventTyped, recorded
  <2> QED
    BY <2>2, <2>5, NoRowMoves
<1>3. CASE moves([state EXCEPT !["order"] = "delivered"], {"submission", "delivered"},
                 {domainEvent("commission", "submission_sent", "order", "final"),
                  domainEvent("commission", "delivered", "order", "delivered")})
  <2>1. PICK next, e, f :
          /\ next = [state EXCEPT !["order"] = "delivered"]
          /\ e = Event("commission", "submission_sent", "order", "final", clock + 1)
          /\ f = Event("commission", "delivered", "order", "delivered", clock + 1)
    OBVIOUS
  <2>2. moves(next, {"submission", "delivered"}, {e, f}) /\ commits(next, {"submission", "delivered"}, {e, f})
    BY <1>3, <2>1, Committed DEF moves
  <2>3. next \in [Ids -> Status] /\ next["order"] = "delivered"
        /\ \A i \in Ids \ {"order"} : next[i] = state[i]
    BY <1>1, <2>1 DEF Status
  <2>4. /\ state' = next /\ <<"submission", clock + 1>> \in facts' /\ <<"delivered", clock + 1>> \in facts'
        /\ f \in outbox' /\ story' = story /\ stateSince'["order"] = clock + 1
    BY <1>1, <2>2, <2>3, Commits
  <2>5. e.family = "commission" /\ e.type = "submission_sent" /\ e.id = "order" /\ e.at = clock + 1
        /\ f.family = "commission" /\ f.type = "delivered" /\ f.id = "order" /\ f.at = clock + 1
    BY <2>1, Parts
  <2>6. EventTyped(e) /\ valid(e)'
    BY <1>1, <2>3, <2>4, <2>5, Verdicts DEF EventTyped, recorded
  <2>7. EventTyped(f) /\ valid(f)'
    BY <1>1, <2>3, <2>4, <2>5, Verdicts DEF EventTyped, recorded
  <2>8. AnnouncedAt("order")'
    BY <2>1, <2>3, <2>4 DEF AnnouncedAt, Said, Proposals, Cases
  <2> QED
    BY <1>1, <2>2, <2>3, <2>6, <2>7, <2>8, OrderMoves
<1> QED
  BY <1>2, <1>3 DEF deliver

LEMMA ClaimTransferKeeps ==
  ASSUME NoticeInv, claimTransfer
  PROVE  NoticeInv'
<1>1. NoticeTyped /\ state["order"] = "awaiting_payment" /\ "order" \in Ids
  BY IdsFact DEF NoticeInv, claimTransfer
<1>2. PICK e : e = Event("commission", "transfer_claimed", "order", "claimed", clock + 1)
  OBVIOUS
<1>3. moves(state, {"claim"}, {e}) /\ commits(state, {"claim"}, {e})
  BY <1>2, Committed DEF claimTransfer, moves
<1>4. state' = state /\ <<"claim", clock + 1>> \in facts'
  BY <1>1, <1>3, Commits
<1>5. e.family = "commission" /\ e.type = "transfer_claimed" /\ e.id = "order" /\ e.at = clock + 1
  BY <1>2, Parts
<1>6. EventTyped(e) /\ valid(e)'
  BY <1>1, <1>4, <1>5, Verdicts DEF EventTyped, recorded
<1> QED
  BY <1>3, <1>6, NoRowMoves

LEMMA ConfirmPaymentKeeps ==
  ASSUME NoticeInv, confirmPayment
  PROVE  NoticeInv'
<1>1. NoticeTyped /\ RowsAgree /\ story = "order" /\ state["order"] = "awaiting_payment"
      /\ state \in [Ids -> Status] /\ "order" \in Ids /\ "intent" \in Ids
  BY IdsFact DEF NoticeInv, confirmPayment, NoticeTyped
<1>2. PICK next, e : /\ next = [state EXCEPT !["order"] = "in_progress", !["intent"] = "confirmed"]
                     /\ e = Event("commission", "confirmed", "intent", "confirmed", clock + 1)
  OBVIOUS
<1>3. moves(next, {"in_progress"}, {e}) /\ commits(next, {"in_progress"}, {e})
  BY <1>2, Committed DEF confirmPayment, moves
<1>4. /\ next \in [Ids -> Status] /\ next["order"] = "in_progress" /\ next["intent"] = "confirmed"
      /\ \A i \in Ids \ {"order", "intent"} : next[i] = state[i]
  BY <1>1, <1>2 DEF Status
<1>5. state["intent"] # "confirmed"
  BY <1>1 DEF RowsAgree
<1>6. /\ state' = next /\ e \in outbox' /\ story' = story
      /\ stateSince'["order"] = clock + 1 /\ stateSince'["intent"] = clock + 1
  BY <1>1, <1>3, <1>4, <1>5, Commits
<1>7. e.family = "commission" /\ e.type = "confirmed" /\ e.id = "intent" /\ e.at = clock + 1
  BY <1>2, Parts
<1>8. EventTyped(e) /\ valid(e)'
  BY <1>1, <1>4, <1>6, <1>7, Verdicts DEF EventTyped
<1>9. AnnouncedAt("order")'
  BY <1>2, <1>4, <1>6 DEF AnnouncedAt, Said, Proposals, Cases
<1> QED
  BY <1>3, <1>4, <1>8, <1>9, OrderMoves

LEMMA RespondKeeps ==
  ASSUME NoticeInv, respond
  PROVE  NoticeInv'
<1>1. NoticeTyped /\ RowsAgree /\ story = "order"
      /\ state \in [Ids -> Status] /\ "order" \in Ids /\ "intent" \in Ids
  BY IdsFact DEF NoticeInv, respond, NoticeTyped
<1>2. PICK kind \in {"draft", "final"} :
        /\ state["order"] = IF kind = "draft" THEN "in_progress" ELSE "delivered"
        /\ \/ kind = "draft" /\ moves(state, {"response"},
                                      {domainEvent("commission", "submission_responded", "order", kind)})
           \/ moves([state EXCEPT !["order"] = "in_progress"], {"response", "in_progress"},
                    {domainEvent("commission", "submission_responded", "order", kind),
                     domainEvent("commission", "in_progress", "order", "in_progress")})
  BY DEF respond
<1>3. PICK next, e, f :
        /\ next = [state EXCEPT !["order"] = "in_progress"]
        /\ e = Event("commission", "submission_responded", "order", kind, clock + 1)
        /\ f = Event("commission", "in_progress", "order", "in_progress", clock + 1)
  OBVIOUS
<1>4. e.family = "commission" /\ e.type = "submission_responded" /\ e.id = "order" /\ e.at = clock + 1
      /\ f.family = "commission" /\ f.type = "in_progress" /\ f.id = "order" /\ f.at = clock + 1
  BY <1>3, Parts
<1>5. EventTyped(e) /\ EventTyped(f)
  BY <1>1, <1>4 DEF EventTyped
<1>6. CASE moves(state, {"response"}, {domainEvent("commission", "submission_responded", "order", kind)})
  <2>1. moves(state, {"response"}, {e}) /\ commits(state, {"response"}, {e})
    BY <1>3, <1>6, Committed DEF moves
  <2>2. state' = state /\ <<"response", clock + 1>> \in facts' /\ state["order"] # "none"
    BY <1>1, <1>2, <2>1, Commits
  <2>3. valid(e)'
    BY <1>4, <2>2, Verdicts DEF recorded
  <2> QED
    BY <1>5, <2>1, <2>3, NoRowMoves
<1>7. CASE moves([state EXCEPT !["order"] = "in_progress"], {"response", "in_progress"},
                 {domainEvent("commission", "submission_responded", "order", kind),
                  domainEvent("commission", "in_progress", "order", "in_progress")})
  <2>1. moves(next, {"response", "in_progress"}, {e, f}) /\ commits(next, {"response", "in_progress"}, {e, f})
    BY <1>3, <1>7, Committed DEF moves
  <2>2. next \in [Ids -> Status] /\ next["order"] = "in_progress"
        /\ \A i \in Ids \ {"order"} : next[i] = state[i]
    BY <1>1, <1>3 DEF Status
  <2>3. /\ state' = next /\ <<"response", clock + 1>> \in facts' /\ <<"in_progress", clock + 1>> \in facts'
        /\ e \in outbox' /\ story' = story /\ outbox \subseteq outbox'
    BY <1>1, <2>1, <2>2, Commits
  <2>4. valid(e)' /\ valid(f)'
    BY <1>4, <2>2, <2>3, Verdicts DEF recorded
  <2>5. AnnouncedAt("order")'
    <3>1. CASE kind = "draft"
      <4>1. next["order"] = state["order"]
        BY <1>2, <2>2, <3>1
      <4>2. stateSince'["order"] = stateSince["order"] /\ state'["order"] = state["order"]
        BY <1>1, <2>1, <2>3, <4>1, Commits
      <4>3. \A family, type, id, s, n : Said(family, type, id, s, n) => Said(family, type, id, s, n)'
        BY <2>3 DEF Said, Event
      <4>4. AnnouncedAt("order")
        BY <1>1 DEF NoticeInv
      <4> QED
        BY <1>1, <2>2, <2>3, <4>2, <4>3, <4>4 DEF AnnouncedAt, Proposals, Cases
    <3>2. CASE kind = "final"
      <4>1. stateSince'["order"] = clock + 1
        BY <1>1, <1>2, <2>1, <2>2, <3>2, Commits
      <4> QED
        BY <1>3, <2>2, <2>3, <3>2, <4>1 DEF AnnouncedAt, Said, Proposals, Cases
    <3> QED
      BY <3>1, <3>2
  <2> QED
    BY <1>1, <1>5, <2>1, <2>2, <2>4, <2>5, OrderMoves
<1> QED
  BY <1>2, <1>6, <1>7

---------------------------------------------------------------------------
\* Proposals, the dispute and its case move, and the order may end with them.
LEMMA DisputeMoves ==
  ASSUME NoticeInv, NEW next, NEW news, NEW events, commits(next, news, events), story = "dispute",
         next \in [Ids -> Status], by' \in [Ids -> Party],
         \A i \in Ids : state[i] # "none" => by'[i] = by[i],
         \A i \in Ids : i \notin {"p1", "p2", "dispute", "disputeCase", "order"} => next[i] = state[i],
         next["order"] = state["order"] \/ next["order"] \in {"completed", "closed"},
         \A p \in Proposals : \/ next[p] = state[p]
                              \/ state[p] \notin proposalEnds /\ next[p] # "none" /\ AnnouncedAt(p)',
         \/ next["dispute"] = state["dispute"]
         \/ state["dispute"] \notin disputeEnds /\ next["dispute"] # "none" /\ AnnouncedAt("dispute")',
         \/ next["disputeCase"] = state["disputeCase"]
         \/ next["disputeCase"] = "open" /\ next["dispute"] # "none" /\ AnnouncedAt("disputeCase")'
         \/ next["disputeCase"] = "resolved" /\ next["dispute"] # "none",
         \A e \in events : EventTyped(e) /\ valid(e)'
  PROVE  NoticeInv'
<1>1. NoticeTyped /\ RowsAgree
  BY DEF NoticeInv
<1>2. state' = next /\ story' = story
  BY <1>1, Commits
<1>3. state \in [Ids -> Status] /\ Proposals \subseteq Ids /\ Cases \subseteq Ids
  BY <1>1, IdsFact DEF NoticeTyped
<1>4. Forward
  <2>1. \A i \in Ids : state[i] # "none" => next[i] # "none" /\ by'[i] = by[i]
    BY <1>3, IdsFact
  <2>2. \A c \in Cases : state[c] \in {"open", "resolved"} => next[c] \in {"open", "resolved"}
    BY <1>3, IdsFact
  <2>3. \A p \in Proposals : state[p] \in proposalEnds => next[p] = state[p]
    OBVIOUS
  <2>4. state["dispute"] \in disputeEnds => next["dispute"] = state["dispute"]
    OBVIOUS
  <2>5. next["claim"] = state["claim"] /\ next["intent"] = state["intent"] /\ next["appeal"] = state["appeal"]
    BY IdsFact
  <2> QED
    BY <1>2, <2>1, <2>2, <2>3, <2>4, <2>5 DEF Forward
<1>5. RowsAgree'
  <2>1. next["claim"] = state["claim"] /\ next["intent"] = state["intent"] /\ next["appeal"] = state["appeal"]
        /\ next["claimCase"] = state["claimCase"] /\ next["appealCase"] = state["appealCase"]
    BY IdsFact
  <2>2. next["dispute"] = "none" => next["disputeCase"] = "none"
    BY <1>1 DEF RowsAgree
  <2> QED
    BY <1>1, <1>2, <2>1, <2>2 DEF RowsAgree
<1>6. ASSUME NEW i \in Ids, next[i] # state[i] PROVE AnnouncedAt(i)'
  <2>1. i \in {"p1", "p2", "dispute", "disputeCase", "order"}
    BY <1>6
  <2>2. CASE i = "order"
    BY <1>2, <2>2 DEF AnnouncedAt, Proposals, Cases
  <2>3. CASE i = "disputeCase" /\ next[i] = "resolved"
    BY <1>2, <2>3 DEF AnnouncedAt, Proposals, Cases
  <2> QED
    BY <1>6, <2>1, <2>2, <2>3, IdsFact
<1> QED
  BY <1>4, <1>5, <1>6, CommitKeeps

LEMMA MakeProposalKeeps ==
  ASSUME NoticeInv, makeProposal
  PROVE  NoticeInv'
<1>1. NoticeTyped /\ story = "dispute" /\ state \in [Ids -> Status] /\ by \in [Ids -> Party]
  BY DEF NoticeInv, makeProposal, NoticeTyped
<1>2. PICK p \in Proposals, r \in BOTH :
        /\ state[p] = "none"
        /\ commits([state EXCEPT ![p] = "pending"], {},
                   {domainEvent("resolution", "proposal_made", p, "pending")})
        /\ by' = [by EXCEPT ![p] = r]
  BY DEF makeProposal
<1>3. PICK next, e : /\ next = [state EXCEPT ![p] = "pending"]
                     /\ e = Event("resolution", "proposal_made", p, "pending", clock + 1)
  OBVIOUS
<1>4. commits(next, {}, {e})
  BY <1>2, <1>3, Committed
<1>5. p \in {"p1", "p2"} /\ p \in Ids
  BY IdsFact
<1>6. r \in Party
  BY DEF BOTH, Party
<1>7. next \in [Ids -> Status] /\ next[p] = "pending" /\ (\A i \in Ids \ {p} : next[i] = state[i])
  BY <1>1, <1>3, <1>5 DEF Status
<1>8. by' \in [Ids -> Party] /\ (\A i \in Ids \ {p} : by'[i] = by[i])
  BY <1>1, <1>2, <1>5, <1>6
<1>9. /\ state' = next /\ e \in outbox' /\ stateSince'[p] = clock + 1 /\ made'[p] = clock + 1
  BY <1>1, <1>2, <1>4, <1>5, <1>7, Commits
<1>10. e.family = "resolution" /\ e.type = "proposal_made" /\ e.id = p /\ e.state = "pending" /\ e.at = clock + 1
  BY <1>3, Parts
<1>11. EventTyped(e) /\ valid(e)'
  BY <1>5, <1>7, <1>9, <1>10, Verdicts DEF EventTyped
<1>12. AnnouncedAt(p)'
  BY <1>3, <1>5, <1>9 DEF AnnouncedAt, Said, Cases
<1>13. next["dispute"] = state["dispute"] /\ next["disputeCase"] = state["disputeCase"]
       /\ next["order"] = state["order"]
       /\ \A i \in Ids : i \notin {"p1", "p2", "dispute", "disputeCase", "order"} => next[i] = state[i]
  BY <1>5, <1>7, IdsFact
<1>14. \A q \in Proposals : \/ next[q] = state[q]
                            \/ state[q] \notin proposalEnds /\ next[q] # "none" /\ AnnouncedAt(q)'
  <2> TAKE q \in Proposals
  <2>1. q \in Ids
    BY IdsFact
  <2>2. CASE q = p
    BY <1>2, <1>7, <1>12, <2>2 DEF proposalEnds
  <2>3. CASE q # p
    BY <1>7, <2>1, <2>3
  <2> QED
    BY <2>2, <2>3
<1>15. \A i \in Ids : state[i] # "none" => by'[i] = by[i]
  BY <1>2, <1>8
<1> QED
  BY <1>1, <1>4, <1>7, <1>8, <1>11, <1>13, <1>14, <1>15, DisputeMoves

LEMMA RecordEndKeeps ==
  ASSUME NoticeInv, recordEnd
  PROVE  NoticeInv'
<1>1. NoticeTyped /\ story = "dispute" /\ state \in [Ids -> Status] /\ by \in [Ids -> Party]
  BY DEF NoticeInv, recordEnd, NoticeTyped
<1>2. PICK p \in pending, s \in {"declined", "withdrawn", "expired", "lapsed"} :
        moves([state EXCEPT ![p] = s], {}, {endedProposal(p, s)})
  BY DEF recordEnd
<1>3. PICK next, e : /\ next = [state EXCEPT ![p] = s]
                     /\ e = Event("resolution", "proposal_ended", p, s, clock + 1)
  OBVIOUS
<1>4. commits(next, {}, {e}) /\ by' = by
  BY <1>2, <1>3, Committed DEF moves, endedProposal
<1>5. p \in Proposals /\ p \in {"p1", "p2"} /\ p \in Ids /\ state[p] = "pending"
  BY IdsFact DEF pending
<1>6. s \in Status /\ s \in proposalEnds /\ s # "pending" /\ s # "none"
  BY DEF Status, proposalEnds
<1>7. next \in [Ids -> Status] /\ next[p] = s /\ (\A i \in Ids \ {p} : next[i] = state[i])
  BY <1>1, <1>3, <1>5, <1>6
<1>8. /\ state' = next /\ stateSince'[p] = clock + 1
  BY <1>1, <1>4, <1>5, <1>6, <1>7, Commits
<1>9. e.family = "resolution" /\ e.type = "proposal_ended" /\ e.id = p /\ e.state = s /\ e.at = clock + 1
  BY <1>3, Parts
<1>10. EventTyped(e) /\ valid(e)'
  BY <1>5, <1>6, <1>7, <1>8, <1>9, Verdicts DEF EventTyped
<1>11. AnnouncedAt(p)'
  BY <1>5, <1>6, <1>7, <1>8 DEF AnnouncedAt, Cases
<1>12. next["dispute"] = state["dispute"] /\ next["disputeCase"] = state["disputeCase"]
       /\ next["order"] = state["order"]
       /\ \A i \in Ids : i \notin {"p1", "p2", "dispute", "disputeCase", "order"} => next[i] = state[i]
  BY <1>5, <1>7, IdsFact
<1>13. \A q \in Proposals : \/ next[q] = state[q]
                            \/ state[q] \notin proposalEnds /\ next[q] # "none" /\ AnnouncedAt(q)'
  <2> TAKE q \in Proposals
  <2>1. q \in Ids
    BY IdsFact
  <2>2. CASE q = p
    BY <1>5, <1>6, <1>7, <1>11, <2>2 DEF proposalEnds
  <2>3. CASE q # p
    BY <1>7, <2>1, <2>3
  <2> QED
    BY <2>2, <2>3
<1> QED
  BY <1>1, <1>4, <1>7, <1>10, <1>12, <1>13, DisputeMoves

LEMMA OpenDisputeKeeps ==
  ASSUME NoticeInv, openDispute
  PROVE  NoticeInv'
<1>1. NoticeTyped /\ RowsAgree /\ story = "dispute" /\ state \in [Ids -> Status] /\ by \in [Ids -> Party]
      /\ state["dispute"] = "none" /\ "dispute" \in Ids /\ "disputeCase" \in Ids /\ "disputeCase" \in Cases
  BY IdsFact DEF NoticeInv, openDispute, NoticeTyped
<1>2. PICK r \in BOTH :
        /\ commits([state EXCEPT !["dispute"] = "open", !["disputeCase"] = "open"], {},
                   {domainEvent("resolution", "dispute_opened", "dispute", "open"), opens("disputeCase")})
        /\ by' = [by EXCEPT !["dispute"] = r]
  BY DEF openDispute
<1>3. PICK next, e, f :
        /\ next = [state EXCEPT !["dispute"] = "open", !["disputeCase"] = "open"]
        /\ e = Event("resolution", "dispute_opened", "dispute", "open", clock + 1)
        /\ f = Event("trust", "case_opened", "disputeCase", "open", clock + 1)
  OBVIOUS
<1>4. commits(next, {}, {e, f})
  BY <1>2, <1>3, Committed DEF opens
<1>5. state["disputeCase"] = "none"
  BY <1>1 DEF RowsAgree
<1>6. r \in Party
  BY DEF BOTH, Party
<1>7. next \in [Ids -> Status] /\ next["dispute"] = "open" /\ next["disputeCase"] = "open"
      /\ (\A i \in Ids \ {"dispute", "disputeCase"} : next[i] = state[i])
  BY <1>1, <1>3 DEF Status
<1>8. by' \in [Ids -> Party] /\ (\A i \in Ids \ {"dispute"} : by'[i] = by[i])
  BY <1>1, <1>2, <1>6
<1>9. /\ state' = next /\ e \in outbox' /\ f \in outbox'
      /\ stateSince'["dispute"] = clock + 1 /\ made'["dispute"] = clock + 1
      /\ stateSince'["disputeCase"] = clock + 1 /\ made'["disputeCase"] = clock + 1
  BY <1>1, <1>4, <1>5, <1>7, Commits
<1>10. e.family = "resolution" /\ e.type = "dispute_opened" /\ e.id = "dispute" /\ e.at = clock + 1
       /\ f.family = "trust" /\ f.type = "case_opened" /\ f.id = "disputeCase" /\ f.at = clock + 1
  BY <1>3, Parts
<1>11. EventTyped(e) /\ valid(e)'
  BY <1>1, <1>7, <1>9, <1>10, Verdicts DEF EventTyped
<1>12. EventTyped(f) /\ valid(f)'
  BY <1>1, <1>7, <1>9, <1>10, Verdicts DEF EventTyped
<1>13. AnnouncedAt("dispute")' /\ AnnouncedAt("disputeCase")'
  BY <1>3, <1>9 DEF AnnouncedAt, Said, Proposals, Cases
<1>14. next["order"] = state["order"]
       /\ (\A i \in Ids : i \notin {"p1", "p2", "dispute", "disputeCase", "order"} => next[i] = state[i])
       /\ (\A q \in Proposals : next[q] = state[q])
  BY <1>7, IdsFact
<1>15. state["dispute"] \notin disputeEnds
  BY <1>1 DEF disputeEnds
<1>16. \A i \in Ids : state[i] # "none" => by'[i] = by[i]
  BY <1>1, <1>8
<1> QED
  BY <1>1, <1>4, <1>7, <1>8, <1>11, <1>12, <1>13, <1>14, <1>15, <1>16, DisputeMoves

LEMMA AddStatementKeeps ==
  ASSUME NoticeInv, addStatement
  PROVE  NoticeInv'
<1>1. NoticeTyped /\ state["dispute"] = "open" /\ "dispute" \in Ids
  BY IdsFact DEF NoticeInv, addStatement
<1>2. PICK r, e :
        /\ e = Event("resolution", "dispute_statement_added", "dispute", r, clock + 1)
        /\ moves(state, {r}, {e})
  BY Committed DEF addStatement
<1>3. commits(state, {r}, {e})
  BY <1>2 DEF moves
<1>4. state' = state /\ <<r, clock + 1>> \in facts'
  BY <1>1, <1>3, Commits
<1>5. e.family = "resolution" /\ e.type = "dispute_statement_added" /\ e.id = "dispute" /\ e.state = r
      /\ e.at = clock + 1
  BY <1>2, Parts
<1>6. EventTyped(e) /\ valid(e)'
  BY <1>1, <1>4, <1>5, Verdicts DEF EventTyped, recorded
<1> QED
  BY <1>2, <1>6, NoRowMoves

LEMMA CorrectRulingKeeps ==
  ASSUME NoticeInv, correctRuling
  PROVE  NoticeInv'
<1>1. NoticeTyped /\ state["dispute"] = "ruled" /\ "dispute" \in Ids
  BY IdsFact DEF NoticeInv, correctRuling
<1>2. PICK e :
        /\ e = Event("resolution", "ruling_corrected", "dispute", "ruled", clock + 1)
        /\ moves(state, {"correction"}, {e})
  BY Committed DEF correctRuling
<1>3. commits(state, {"correction"}, {e})
  BY <1>2 DEF moves
<1>4. state' = state /\ <<"correction", clock + 1>> \in facts'
  BY <1>1, <1>3, Commits
<1>5. e.family = "resolution" /\ e.type = "ruling_corrected" /\ e.id = "dispute" /\ e.at = clock + 1
  BY <1>2, Parts
<1>6. EventTyped(e) /\ valid(e)'
  BY <1>1, <1>4, <1>5, Verdicts DEF EventTyped, recorded
<1> QED
  BY <1>2, <1>6, NoRowMoves

\* What ends with the dispute.
LEMMA EndsWith ==
  ASSUME NEW s \in Status, state \in [Ids -> Status]
  PROVE  /\ endsWith(s) \in [Ids -> Status]
         /\ \A i \in Ids \ {"dispute", "disputeCase"} : endsWith(s)[i] = state[i]
         /\ endsWith(s)["dispute"] = IF state["dispute"] = "open" THEN s ELSE state["dispute"]
         /\ endsWith(s)["disputeCase"] = IF state["dispute"] = "open" THEN "resolved" ELSE state["disputeCase"]
<1>1. "resolved" \in Status
  BY DEF Status
<1>2. endsWith(s) \in [Ids -> Status]
  BY <1>1 DEF endsWith
<1>3. \A i \in Ids \ {"dispute", "disputeCase"} : endsWith(s)[i] = state[i]
  BY DEF endsWith
<1>4. "dispute" \in Ids /\ "disputeCase" \in Ids
  BY IdsFact
<1>5. endsWith(s)["dispute"] = IF state["dispute"] = "open" THEN s ELSE state["dispute"]
  BY <1>4 DEF endsWith
<1>6. endsWith(s)["disputeCase"] = IF state["dispute"] = "open" THEN "resolved" ELSE state["disputeCase"]
  BY <1>4 DEF endsWith
<1> QED
  BY <1>2, <1>3, <1>5, <1>6

LEMMA WithdrawDisputeKeeps ==
  ASSUME NoticeInv, withdrawDispute
  PROVE  NoticeInv'
<1>1. NoticeTyped /\ story = "dispute" /\ state \in [Ids -> Status] /\ by \in [Ids -> Party]
      /\ state["dispute"] = "open" /\ "dispute" \in Ids /\ "disputeCase" \in Ids
  BY IdsFact DEF NoticeInv, withdrawDispute, NoticeTyped
<1>2. PICK next, e :
        /\ next = endsWith("withdrawn")
        /\ e = Event("resolution", "dispute_closed", "dispute", "withdrawn", clock + 1)
  OBVIOUS
<1>3. commits(next, {}, {e}) /\ by' = by
  BY <1>2, Committed DEF withdrawDispute, closedDispute, moves
<1>4. "withdrawn" \in Status /\ "withdrawn" \in disputeEnds /\ state["dispute"] \notin disputeEnds
  BY <1>1 DEF Status, disputeEnds
<1>5. next \in [Ids -> Status] /\ next["dispute"] = "withdrawn" /\ next["disputeCase"] = "resolved"
      /\ (\A i \in Ids \ {"dispute", "disputeCase"} : next[i] = state[i])
  BY <1>1, <1>2, <1>4, EndsWith
<1>6. state' = next /\ stateSince'["dispute"] = clock + 1
  BY <1>1, <1>3, <1>5, Commits
<1>7. e.family = "resolution" /\ e.type = "dispute_closed" /\ e.id = "dispute" /\ e.state = "withdrawn"
      /\ e.at = clock + 1
  BY <1>2, Parts
<1>8. EventTyped(e) /\ valid(e)'
  BY <1>1, <1>4, <1>5, <1>6, <1>7, Verdicts DEF EventTyped
<1>9. AnnouncedAt("dispute")'
  BY <1>5, <1>6 DEF AnnouncedAt, Proposals, Cases
<1>10. next["order"] = state["order"]
       /\ (\A i \in Ids : i \notin {"p1", "p2", "dispute", "disputeCase", "order"} => next[i] = state[i])
       /\ (\A q \in Proposals : next[q] = state[q])
  BY <1>5, IdsFact
<1> QED
  BY <1>1, <1>3, <1>4, <1>5, <1>8, <1>9, <1>10, DisputeMoves

\* An open dispute that ends: the event says so, and nobody has to act on it.
LEMMA DisputeEnds ==
  ASSUME NoticeInv, NEW s \in disputeEnds, NEW next, NEW news, NEW events, commits(next, news, events),
         state["dispute"] = "open", next["dispute"] = s,
         NEW e, e = Event("resolution", "dispute_closed", "dispute", s, clock + 1)
  PROVE  EventTyped(e) /\ valid(e)' /\ AnnouncedAt("dispute")'
<1>1. NoticeTyped /\ "dispute" \in Ids
  BY IdsFact DEF NoticeInv
<1>2. s # "open" /\ s # "none"
  BY DEF disputeEnds
<1>3. state' = next /\ stateSince'["dispute"] = clock + 1
  BY <1>1, <1>2, Commits
<1>4. e.family = "resolution" /\ e.type = "dispute_closed" /\ e.id = "dispute" /\ e.state = s
      /\ e.at = clock + 1
  BY Parts
<1>5. EventTyped(e) /\ valid(e)'
  BY <1>1, <1>2, <1>3, <1>4, Verdicts DEF EventTyped
<1>6. AnnouncedAt("dispute")'
  BY <1>2, <1>3 DEF AnnouncedAt, Proposals, Cases
<1> QED
  BY <1>5, <1>6

\* A pending proposal that ends, likewise.
LEMMA ProposalEnds ==
  ASSUME NoticeInv, NEW s \in proposalEnds, NEW next, NEW news, NEW events, commits(next, news, events),
         NEW p \in pending, next[p] = s,
         NEW e, e = Event("resolution", "proposal_ended", p, s, clock + 1)
  PROVE  EventTyped(e) /\ valid(e)' /\ AnnouncedAt(p)'
<1>1. NoticeTyped /\ p \in Ids /\ p \in Proposals /\ p \in {"p1", "p2"} /\ state[p] = "pending"
  BY IdsFact DEF NoticeInv, pending
<1>2. s # "pending" /\ s # "none"
  BY DEF proposalEnds
<1>3. state' = next /\ stateSince'[p] = clock + 1
  BY <1>1, <1>2, Commits
<1>4. e.family = "resolution" /\ e.type = "proposal_ended" /\ e.id = p /\ e.state = s
      /\ e.at = clock + 1
  BY Parts
<1>5. EventTyped(e) /\ valid(e)'
  BY <1>1, <1>2, <1>3, <1>4, Verdicts DEF EventTyped
<1>6. AnnouncedAt(p)'
  BY <1>1, <1>2, <1>3 DEF AnnouncedAt, Cases
<1> QED
  BY <1>5, <1>6

\* An order that closes or completes: its event is valid.
LEMMA OrderEnds ==
  ASSUME NoticeInv, NEW s \in {"completed", "closed"}, NEW next, NEW news, NEW events, commits(next, news, events),
         next["order"] = s, s \in news,
         NEW e, e = Event("commission", s, "order", s, clock + 1)
  PROVE  EventTyped(e) /\ valid(e)'
<1>1. NoticeTyped /\ "order" \in Ids
  BY IdsFact DEF NoticeInv
<1>2. state' = next /\ <<s, clock + 1>> \in facts'
  BY <1>1, Commits
<1>3. e.family = "commission" /\ e.type = s /\ e.id = "order" /\ e.at = clock + 1
  BY Parts
<1> QED
  BY <1>1, <1>2, <1>3, Verdicts DEF EventTyped, recorded

LEMMA SettleDisputeKeeps ==
  ASSUME NoticeInv, settleDispute
  PROVE  NoticeInv'
<1>1. NoticeTyped /\ story = "dispute" /\ state \in [Ids -> Status] /\ by \in [Ids -> Party]
      /\ "dispute" \in Ids /\ "disputeCase" \in Ids /\ "order" \in Ids
  BY IdsFact DEF NoticeInv, settleDispute, NoticeTyped
<1>2. PICK p, next, events :
        /\ p \in pending
        /\ next = [endsWith("settled") EXCEPT ![p] = "accepted", !["order"] = "closed"]
        /\ events = {endedProposal(p, "accepted"), domainEvent("commission", "closed", "order", "closed")} \cup
                    (IF state["dispute"] = "open" THEN {closedDispute("settled")} ELSE {})
        /\ moves(next, {"closed"}, events)
  BY DEF settleDispute
<1>3. commits(next, {"closed"}, events) /\ by' = by
  BY <1>2 DEF moves
<1>4. p \in Proposals /\ p \in {"p1", "p2"} /\ p \in Ids /\ state[p] = "pending"
  BY <1>2, IdsFact DEF pending
<1>5. {"settled", "accepted", "closed"} \subseteq Status /\ "settled" \in disputeEnds /\ "accepted" \in proposalEnds
      /\ "pending" \notin proposalEnds /\ "open" \notin disputeEnds
  BY DEF Status, disputeEnds, proposalEnds
<1>6. /\ next \in [Ids -> Status] /\ next[p] = "accepted" /\ next["order"] = "closed"
      /\ \A i \in Ids \ {p, "order"} : next[i] = endsWith("settled")[i]
  BY <1>1, <1>2, <1>4, <1>5, EndsWith
<1>7. /\ \A i \in Ids \ {p, "order", "dispute", "disputeCase"} : next[i] = state[i]
      /\ next["dispute"] = IF state["dispute"] = "open" THEN "settled" ELSE state["dispute"]
      /\ next["disputeCase"] = IF state["dispute"] = "open" THEN "resolved" ELSE state["disputeCase"]
  BY <1>1, <1>4, <1>5, <1>6, EndsWith
<1>8. \A e \in events : EventTyped(e) /\ valid(e)'
  <2> TAKE e \in events
  <2>1. CASE e = endedProposal(p, "accepted")
    <3>1. e = Event("resolution", "proposal_ended", p, "accepted", clock + 1)
      BY <2>1, Committed DEF endedProposal
    <3> QED
      BY <1>2, <1>3, <1>5, <1>6, <3>1, ProposalEnds
  <2>2. CASE e = domainEvent("commission", "closed", "order", "closed")
    <3>1. e = Event("commission", "closed", "order", "closed", clock + 1)
      BY <2>2, Committed
    <3> QED
      BY <1>3, <1>6, <3>1, OrderEnds
  <2>3. CASE state["dispute"] = "open" /\ e = closedDispute("settled")
    <3>1. e = Event("resolution", "dispute_closed", "dispute", "settled", clock + 1)
      BY <2>3, Committed DEF closedDispute
    <3> QED
      BY <1>3, <1>5, <1>7, <2>3, <3>1, DisputeEnds
  <2> QED
    BY <1>2, <2>1, <2>2, <2>3
<1>9. AnnouncedAt(p)'
  BY <1>2, <1>3, <1>5, <1>6, ProposalEnds
<1>10. \/ next["dispute"] = state["dispute"]
       \/ state["dispute"] \notin disputeEnds /\ next["dispute"] # "none" /\ AnnouncedAt("dispute")'
  <2>1. CASE state["dispute"] = "open"
    <3>1. AnnouncedAt("dispute")'
      BY <1>3, <1>5, <1>7, <2>1, DisputeEnds
    <3> QED
      BY <1>5, <1>7, <2>1, <3>1
  <2> QED
    BY <1>7, <2>1
<1>11. \/ next["disputeCase"] = state["disputeCase"]
       \/ next["disputeCase"] = "resolved" /\ next["dispute"] # "none"
  BY <1>7
<1>12. \A i \in Ids : i \notin {"p1", "p2", "dispute", "disputeCase", "order"} => next[i] = state[i]
  BY <1>4, <1>7
<1>13. \A q \in Proposals : \/ next[q] = state[q]
                            \/ state[q] \notin proposalEnds /\ next[q] # "none" /\ AnnouncedAt(q)'
  <2> TAKE q \in Proposals
  <2>1. CASE q = p
    BY <1>4, <1>5, <1>6, <1>9, <2>1
  <2>2. CASE q # p
    BY <1>7, <2>2, IdsFact
  <2> QED
    BY <2>1, <2>2
<1> QED
  BY <1>1, <1>3, <1>6, <1>8, <1>10, <1>11, <1>12, <1>13, DisputeMoves

\* The order ends, with it the dispute and every pending proposal.
LEMMA SupersedeKeeps ==
  ASSUME NoticeInv, story = "dispute", NEW s \in {"ruled", "superseded"}, NEW o \in {"completed", "closed"},
         NEW next, NEW news, NEW events, NEW more,
         next = [supersede(s) EXCEPT !["order"] = o], moves(next, news, events),
         events \subseteq superseded(s) \cup more,
         \A e \in more : EventTyped(e) /\ valid(e)'
  PROVE  NoticeInv'
<1>1. NoticeTyped /\ state \in [Ids -> Status] /\ by \in [Ids -> Party]
      /\ "dispute" \in Ids /\ "disputeCase" \in Ids /\ "order" \in Ids
  BY IdsFact DEF NoticeInv, NoticeTyped
<1>2. commits(next, news, events) /\ by' = by
  BY DEF moves
<1>3. pending \subseteq {"p1", "p2"} /\ pending \subseteq Ids /\ pending \subseteq Proposals
      /\ \A p \in Proposals : p \in pending <=> state[p] = "pending"
  BY IdsFact DEF pending
<1>4. s \in Status /\ "superseded" \in Status /\ o \in Status /\ s \in disputeEnds /\ "superseded" \in proposalEnds
      /\ "pending" \notin proposalEnds /\ "open" \notin disputeEnds
  BY DEF Status, disputeEnds, proposalEnds
<1>5. supersede(s) \in [Ids -> Status]
      /\ \A i \in Ids : supersede(s)[i] = IF i \in pending THEN "superseded" ELSE endsWith(s)[i]
  BY <1>1, <1>4, EndsWith DEF supersede
<1>6. /\ next \in [Ids -> Status] /\ next["order"] = o
      /\ \A p \in pending : next[p] = "superseded"
      /\ \A i \in Ids : i # "order" /\ i \notin pending => next[i] = endsWith(s)[i]
  BY <1>1, <1>3, <1>4, <1>5
<1>7. /\ \A i \in Ids : i \notin pending \cup {"order", "dispute", "disputeCase"} => next[i] = state[i]
      /\ next["dispute"] = IF state["dispute"] = "open" THEN s ELSE state["dispute"]
      /\ next["disputeCase"] = IF state["dispute"] = "open" THEN "resolved" ELSE state["disputeCase"]
  BY <1>1, <1>3, <1>4, <1>6, EndsWith
<1>8. \A e \in events : EventTyped(e) /\ valid(e)'
  <2> TAKE e \in events
  <2>1. ASSUME NEW p \in pending, e = endedProposal(p, "superseded") PROVE EventTyped(e) /\ valid(e)'
    <3>1. e = Event("resolution", "proposal_ended", p, "superseded", clock + 1)
      BY <2>1, Committed DEF endedProposal
    <3> QED
      BY <1>2, <1>4, <1>6, <3>1, ProposalEnds
  <2>2. CASE state["dispute"] = "open" /\ e = closedDispute(s)
    <3>1. e = Event("resolution", "dispute_closed", "dispute", s, clock + 1)
      BY <2>2, Committed DEF closedDispute
    <3> QED
      BY <1>2, <1>4, <1>7, <2>2, <3>1, DisputeEnds
  <2> QED
    BY <2>1, <2>2 DEF superseded
<1>9. \/ next["dispute"] = state["dispute"]
      \/ state["dispute"] \notin disputeEnds /\ next["dispute"] # "none" /\ AnnouncedAt("dispute")'
  <2>1. CASE state["dispute"] = "open"
    <3>1. AnnouncedAt("dispute")'
      BY <1>2, <1>4, <1>7, <2>1, DisputeEnds
    <3> QED
      BY <1>4, <1>7, <2>1, <3>1
  <2> QED
    BY <1>7, <2>1
<1>10. \/ next["disputeCase"] = state["disputeCase"]
       \/ next["disputeCase"] = "resolved" /\ next["dispute"] # "none"
  BY <1>7
<1>11. \A i \in Ids : i \notin {"p1", "p2", "dispute", "disputeCase", "order"} => next[i] = state[i]
  BY <1>3, <1>7
<1>12. \A q \in Proposals : \/ next[q] = state[q]
                            \/ state[q] \notin proposalEnds /\ next[q] # "none" /\ AnnouncedAt(q)'
  <2> TAKE q \in Proposals
  <2>1. CASE q \in pending
    <3>1. AnnouncedAt(q)'
      BY <1>2, <1>4, <1>6, <2>1, ProposalEnds
    <3> QED
      BY <1>3, <1>4, <1>6, <2>1, <3>1
  <2>2. CASE q \notin pending
    BY <1>7, <2>2, IdsFact
  <2> QED
    BY <2>1, <2>2
<1>13. by' \in [Ids -> Party] /\ \A i \in Ids : state[i] # "none" => by'[i] = by[i]
  BY <1>1, <1>2
<1>14. next \in [Ids -> Status]
       /\ (next["order"] = state["order"] \/ next["order"] \in {"completed", "closed"})
  BY <1>6
<1> QED
  BY <1>2, <1>8, <1>9, <1>10, <1>11, <1>12, <1>13, <1>14, DisputeMoves

LEMMA RecordRulingKeeps ==
  ASSUME NoticeInv, recordRuling
  PROVE  NoticeInv'
<1>0. PICK o \in {"completed", "closed"} :
        /\ story = "dispute" /\ state["dispute"] = "open"
        /\ moves([supersede("ruled") EXCEPT !["order"] = o], {"ruling", o},
                 superseded("ruled") \cup {domainEvent("resolution", "ruling_recorded", "dispute", "ruled"),
                                           domainEvent("commission", o, "order", o)})
  BY DEF recordRuling
<1>1. PICK next, e, f, more, events, news :
        /\ story = "dispute" /\ state["dispute"] = "open"
        /\ next = [supersede("ruled") EXCEPT !["order"] = o]
        /\ e = Event("resolution", "ruling_recorded", "dispute", "ruled", clock + 1)
        /\ f = Event("commission", o, "order", o, clock + 1)
        /\ more = {e, f} /\ events = superseded("ruled") \cup more
        /\ news = {"ruling", o} /\ moves(next, news, events)
  BY <1>0, Committed
<1>2. NoticeTyped /\ state \in [Ids -> Status] /\ "dispute" \in Ids /\ "dispute" \notin pending /\ "order" \in Ids
  BY IdsFact DEF NoticeInv, NoticeTyped, pending
<1>3. commits(next, news, events) /\ o \in news
  BY <1>1 DEF moves
<1>4. "ruled" \in Status /\ "superseded" \in Status /\ o \in Status
  BY DEF Status
<1>5. supersede("ruled") \in [Ids -> Status] /\ supersede("ruled")["dispute"] = "ruled"
  BY <1>1, <1>2, <1>4, EndsWith DEF supersede
<1>6. next["dispute"] = "ruled" /\ next["order"] = o
  BY <1>1, <1>2, <1>5
<1>7. state' = next /\ <<"ruling", clock + 1>> \in facts'
  BY <1>1, <1>2, <1>3, Commits
<1>8. e.family = "resolution" /\ e.type = "ruling_recorded" /\ e.id = "dispute" /\ e.at = clock + 1
  BY <1>1, Parts
<1>9. EventTyped(e) /\ valid(e)'
  BY <1>2, <1>6, <1>7, <1>8, Verdicts DEF EventTyped, recorded
<1>10. EventTyped(f) /\ valid(f)'
  BY <1>1, <1>3, <1>6, OrderEnds
<1>11. \A x \in more : EventTyped(x) /\ valid(x)'
  BY <1>1, <1>9, <1>10
<1>12. events \subseteq superseded("ruled") \cup more
  BY <1>1
<1> QED
  BY <1>1, <1>11, <1>12, SupersedeKeeps

LEMMA CloseSuspendedKeeps ==
  ASSUME NoticeInv, closeSuspendedPaidOrder
  PROVE  NoticeInv'
<1>1. PICK freeze, next, e, f, events, news :
        /\ freeze \in {{}, {"freeze"}}
        /\ story = "dispute"
        /\ next = [supersede("superseded") EXCEPT !["order"] = "closed"]
        /\ e = Event("resolution", "fulfillment_frozen", "order", "closed", clock + 1)
        /\ f = Event("commission", "closed", "order", "closed", clock + 1)
        /\ events = superseded("superseded") \cup {f} \cup {e : x \in freeze}
        /\ news = {"closed"} \cup freeze
        /\ moves(next, news, events)
  BY Committed DEF closeSuspendedPaidOrder
<1>2. NoticeTyped /\ state \in [Ids -> Status] /\ "order" \in Ids
  BY IdsFact DEF NoticeInv, NoticeTyped
<1>3. commits(next, news, events) /\ "closed" \in news
  BY <1>1 DEF moves
<1>4. "superseded" \in Status /\ "closed" \in Status
  BY DEF Status
<1>5. supersede("superseded") \in [Ids -> Status]
  BY <1>2, <1>4, EndsWith DEF supersede
<1>6. next["order"] = "closed"
  BY <1>1, <1>2, <1>5
<1>7. state' = next /\ (freeze = {"freeze"} => <<"freeze", clock + 1>> \in facts')
  BY <1>1, <1>2, <1>3, Commits
<1>8. e.family = "resolution" /\ e.type = "fulfillment_frozen" /\ e.id = "order" /\ e.at = clock + 1
  BY <1>1, Parts
<1>9. freeze = {"freeze"} => EventTyped(e) /\ valid(e)'
  BY <1>2, <1>6, <1>7, <1>8, Verdicts DEF EventTyped, recorded
<1>10. EventTyped(f) /\ valid(f)'
  BY <1>1, <1>3, <1>6, OrderEnds
<1>11. PICK more : more = {f} \cup {e : x \in freeze}
  OBVIOUS
<1>12. \A x \in more : EventTyped(x) /\ valid(x)'
  BY <1>1, <1>9, <1>10, <1>11
<1> QED
  BY <1>1, <1>11, <1>12, SupersedeKeeps

---------------------------------------------------------------------------
LEMMA FileLateClaimKeeps ==
  ASSUME NoticeInv, fileLateClaim
  PROVE  NoticeInv'
<1>1. NoticeTyped /\ RowsAgree /\ state \in [Ids -> Status] /\ by \in [Ids -> Party]
      /\ state["claim"] = "none" /\ "claim" \in Ids
  BY IdsFact DEF NoticeInv, fileLateClaim, NoticeTyped
<1>2. PICK next, e :
        /\ next = [state EXCEPT !["claim"] = "awaiting_creator"]
        /\ e = Event("resolution", "late_claim_filed", "claim", "awaiting_creator", clock + 1)
  OBVIOUS
<1>3. commits(next, {}, {e}) /\ by' = by
  BY <1>2, Committed DEF fileLateClaim, moves
<1>4. next \in [Ids -> Status] /\ next["claim"] = "awaiting_creator"
      /\ (\A i \in Ids \ {"claim"} : next[i] = state[i])
  BY <1>1, <1>2 DEF Status
<1>5. state' = next /\ e \in outbox' /\ stateSince'["claim"] = clock + 1 /\ made'["claim"] = clock + 1
  BY <1>1, <1>3, <1>4, Commits
<1>6. e.family = "resolution" /\ e.type = "late_claim_filed" /\ e.id = "claim" /\ e.at = clock + 1
  BY <1>2, Parts
<1>7. EventTyped(e) /\ valid(e)'
  BY <1>1, <1>4, <1>5, <1>6, Verdicts DEF EventTyped
<1>8. AnnouncedAt("claim")'
  BY <1>2, <1>5 DEF AnnouncedAt, Said, Proposals, Cases
<1>9. Forward
  BY <1>1, <1>3, <1>4, <1>5, IdsFact DEF Forward
<1>10. RowsAgree'
  BY <1>1, <1>4, <1>5, IdsFact DEF RowsAgree
<1> QED
  BY <1>1, <1>3, <1>4, <1>7, <1>8, <1>9, <1>10, CommitKeeps

LEMMA RecordLateClaimKeeps ==
  ASSUME NoticeInv, recordLateClaimState
  PROVE  NoticeInv'
<1>1. NoticeTyped /\ RowsAgree /\ state \in [Ids -> Status] /\ by \in [Ids -> Party]
      /\ "claim" \in Ids /\ "claimCase" \in Ids /\ "claimCase" \in Cases
  BY IdsFact DEF NoticeInv, NoticeTyped
<1>2. CASE /\ state["claim"] = "awaiting_creator"
           /\ moves([state EXCEPT !["claim"] = "refund_owed"], {}, {endedClaim("refund_owed")})
  <2>1. PICK next, e :
          /\ next = [state EXCEPT !["claim"] = "refund_owed"]
          /\ e = Event("resolution", "late_claim_ended", "claim", "refund_owed", clock + 1)
    OBVIOUS
  <2>2. commits(next, {}, {e}) /\ by' = by
    BY <1>2, <2>1, Committed DEF endedClaim, moves
  <2>3. next \in [Ids -> Status] /\ next["claim"] = "refund_owed"
        /\ (\A i \in Ids \ {"claim"} : next[i] = state[i])
    BY <1>1, <2>1 DEF Status
  <2>4. state' = next /\ stateSince'["claim"] = clock + 1
    BY <1>1, <1>2, <2>2, <2>3, Commits
  <2>5. e.family = "resolution" /\ e.type = "late_claim_ended" /\ e.id = "claim" /\ e.state = "refund_owed"
        /\ e.at = clock + 1
    BY <2>1, Parts
  <2>6. lateClaimEnded(e)'
    BY <2>3, <2>4, <2>5 DEF lateClaimEnded
  <2>7. EventTyped(e) /\ valid(e)'
    BY <1>1, <2>3, <2>4, <2>5, <2>6, Verdicts DEF EventTyped
  <2>8. AnnouncedAt("claim")'
    BY <2>3, <2>4 DEF AnnouncedAt, Proposals, Cases
  <2>9. Forward
    BY <1>1, <1>2, <2>2, <2>3, <2>4, IdsFact DEF Forward
  <2>10. RowsAgree'
    BY <1>1, <2>3, <2>4, IdsFact DEF RowsAgree
  <2> QED
    BY <1>1, <2>2, <2>3, <2>7, <2>8, <2>9, <2>10, CommitKeeps
<1>3. CASE /\ state["claim"] = "awaiting_creator"
           /\ moves([state EXCEPT !["claim"] = "escalated", !["claimCase"] = "open"], {},
                    {endedClaim("escalated"), opens("claimCase")})
  <2>1. PICK next, e, f :
          /\ next = [state EXCEPT !["claim"] = "escalated", !["claimCase"] = "open"]
          /\ e = Event("resolution", "late_claim_ended", "claim", "escalated", clock + 1)
          /\ f = Event("trust", "case_opened", "claimCase", "open", clock + 1)
    OBVIOUS
  <2>2. commits(next, {}, {e, f}) /\ by' = by
    BY <1>3, <2>1, Committed DEF endedClaim, opens, moves
  <2>3. next \in [Ids -> Status] /\ next["claim"] = "escalated" /\ next["claimCase"] = "open"
        /\ (\A i \in Ids \ {"claim", "claimCase"} : next[i] = state[i])
    BY <1>1, <2>1 DEF Status
  <2>4. state["claimCase"] = "none"
    BY <1>1, <1>3 DEF RowsAgree
  <2>5. state' = next /\ stateSince'["claimCase"] = clock + 1 /\ made'["claimCase"] = clock + 1
        /\ f \in outbox'
    BY <1>1, <2>2, <2>3, <2>4, Commits
  <2>6. e.family = "resolution" /\ e.type = "late_claim_ended" /\ e.id = "claim" /\ e.state = "escalated"
        /\ e.at = clock + 1
        /\ f.family = "trust" /\ f.type = "case_opened" /\ f.id = "claimCase" /\ f.at = clock + 1
    BY <2>1, Parts
  <2>7. lateClaimEnded(e)'
    BY <2>3, <2>5, <2>6 DEF lateClaimEnded
  <2>8. EventTyped(e) /\ valid(e)'
    BY <1>1, <2>3, <2>5, <2>6, <2>7, Verdicts DEF EventTyped
  <2>9. EventTyped(f) /\ valid(f)'
    BY <1>1, <2>3, <2>5, <2>6, Verdicts DEF EventTyped
  <2>10. AnnouncedAt("claim")' /\ AnnouncedAt("claimCase")'
    BY <2>1, <2>3, <2>5 DEF AnnouncedAt, Said, Proposals, Cases
  <2>11. Forward
    BY <1>1, <1>3, <2>2, <2>3, <2>5, IdsFact DEF Forward
  <2>12. RowsAgree'
    BY <1>1, <2>3, <2>5, IdsFact DEF RowsAgree
  <2> QED
    BY <1>1, <2>2, <2>3, <2>8, <2>9, <2>10, <2>11, <2>12, CommitKeeps
<1>4. ASSUME state["claim"] = "escalated", NEW s \in {"refund_owed", "rejected"},
             moves([state EXCEPT !["claim"] = s, !["claimCase"] = "resolved"], {}, {endedClaim(s)})
      PROVE  NoticeInv'
  <2>1. PICK next, e :
          /\ next = [state EXCEPT !["claim"] = s, !["claimCase"] = "resolved"]
          /\ e = Event("resolution", "late_claim_ended", "claim", s, clock + 1)
    OBVIOUS
  <2>2. commits(next, {}, {e}) /\ by' = by
    BY <1>4, <2>1, Committed DEF endedClaim, moves
  <2>3. next \in [Ids -> Status] /\ next["claim"] = s /\ next["claimCase"] = "resolved"
        /\ (\A i \in Ids \ {"claim", "claimCase"} : next[i] = state[i])
    BY <1>1, <2>1 DEF Status
  <2>4. state' = next /\ stateSince'["claim"] = clock + 1
    BY <1>1, <1>4, <2>2, <2>3, Commits
  <2>5. e.family = "resolution" /\ e.type = "late_claim_ended" /\ e.id = "claim" /\ e.state = s
        /\ e.at = clock + 1
    BY <2>1, Parts
  <2>6. lateClaimEnded(e)'
    BY <2>3, <2>4, <2>5 DEF lateClaimEnded
  <2>7. EventTyped(e) /\ valid(e)'
    BY <1>1, <2>3, <2>4, <2>5, <2>6, Verdicts DEF EventTyped
  <2>8. AnnouncedAt("claim")' /\ AnnouncedAt("claimCase")'
    BY <2>3, <2>4 DEF AnnouncedAt, Proposals, Cases
  <2>9. Forward
    BY <1>1, <1>4, <2>2, <2>3, <2>4, IdsFact DEF Forward
  <2>10. RowsAgree'
    BY <1>1, <2>3, <2>4, IdsFact DEF RowsAgree
  <2> QED
    BY <1>1, <2>2, <2>3, <2>7, <2>8, <2>9, <2>10, CommitKeeps
<1> QED
  BY <1>2, <1>3, <1>4 DEF recordLateClaimState

---------------------------------------------------------------------------
\* A refund event moves the refund, and may open or resolve a case with it.
LEMMA RefundMoves ==
  ASSUME NoticeInv, NEW next, NEW action, NEW more, announceRefundEvent(action, next, more),
         next \in [Ids -> Status], next["refund"] # "none",
         \A i \in Ids : i \notin {"refund", "overdueCase", "deniedCase"} => next[i] = state[i],
         \A c \in {"overdueCase", "deniedCase"} :
           next[c] = state[c] \/ next[c] = "resolved" \/ (next[c] = "open" /\ AnnouncedAt(c)'),
         next["refund"] = "awaiting_destination" => action = "created" /\ state["refund"] = "due",
         next["refund"] = "awaiting_send" =>
           state["refund"] = "awaiting_send" \/ action \in {"destination_entered", "resend_required"},
         next["refund"] = "sent" => action = "sent_recorded" /\ state["refund"] = "awaiting_send",
         \A e \in more : EventTyped(e) /\ valid(e)'
  PROVE  NoticeInv'
<1>1. PICK e, events : /\ e = Event("refund", "event_recorded", "refund", action, clock + 1)
                       /\ events = {e} \cup more
  OBVIOUS
<1>2. commits(next, {action}, events) /\ by' = by
  BY <1>1, Committed DEF announceRefundEvent, moves
<1>3. NoticeTyped /\ RowsAgree /\ state \in [Ids -> Status] /\ by \in [Ids -> Party]
      /\ "refund" \in Ids /\ "overdueCase" \in Ids /\ "deniedCase" \in Ids
  BY IdsFact DEF NoticeInv, NoticeTyped
<1>4. /\ state' = next /\ <<action, clock + 1>> \in facts' /\ e \in outbox'
      /\ next["refund"] # state["refund"] => stateSince'["refund"] = clock + 1
  BY <1>1, <1>2, <1>3, Commits
<1>5. e.family = "refund" /\ e.type = "event_recorded" /\ e.id = "refund" /\ e.state = action /\ e.at = clock + 1
  BY <1>1, Parts
<1>6. EventTyped(e) /\ valid(e)'
  BY <1>3, <1>4, <1>5, Verdicts DEF EventTyped, recorded
<1>7. \A x \in events : EventTyped(x) /\ valid(x)'
  BY <1>1, <1>6
<1>8. next["refund"] # state["refund"] => AnnouncedAt("refund")'
  BY <1>1, <1>4 DEF AnnouncedAt, Said, Proposals, Cases
<1>9. \A c \in {"overdueCase", "deniedCase"} : next[c] = "resolved" => AnnouncedAt(c)'
  BY <1>4 DEF AnnouncedAt, Proposals
<1>10. \A i \in Ids : next[i] # state[i] => AnnouncedAt(i)'
  BY <1>8, <1>9
<1>11. Forward
  BY <1>2, <1>3, <1>4, IdsFact DEF Forward
<1>12. RowsAgree'
  BY <1>3, <1>4, IdsFact DEF RowsAgree
<1> QED
  BY <1>2, <1>3, <1>7, <1>10, <1>11, <1>12, CommitKeeps

\* Rows of a refund step.
LEMMA RefundTo ==
  ASSUME NEW s \in Status, state \in [Ids -> Status]
  PROVE  /\ refundTo(s) \in [Ids -> Status] /\ refundTo(s)["refund"] = s
         /\ \A i \in Ids \ {"refund"} : refundTo(s)[i] = state[i]
  BY IdsFact DEF refundTo

LEMMA Resolving ==
  ASSUME NEW s \in Status, NEW c \in {"overdueCase", "deniedCase"}, state \in [Ids -> Status]
  PROVE  /\ resolving(c, s) \in [Ids -> Status] /\ resolving(c, s)["refund"] = s
         /\ \A i \in Ids \ {"refund", c} : resolving(c, s)[i] = state[i]
         /\ resolving(c, s)[c] = IF state[c] = "open" THEN "resolved" ELSE state[c]
<1>1. "refund" \in Ids /\ c \in Ids /\ "resolved" \in Status /\ c # "refund"
  BY IdsFact DEF Status
<1>2. resolving(c, s) \in [Ids -> Status] /\ resolving(c, s)["refund"] = s
      /\ resolving(c, s)[c] = IF state[c] = "open" THEN "resolved" ELSE state[c]
  BY <1>1 DEF resolving
<1>3. \A i \in Ids \ {"refund", c} : resolving(c, s)[i] = state[i]
  BY <1>1 DEF resolving
<1> QED
  BY <1>2, <1>3

LEMMA RefundStepKeeps ==
  ASSUME NoticeInv, refundStep
  PROVE  NoticeInv'
<1>1. NoticeTyped /\ state \in [Ids -> Status] /\ "refund" \in Ids /\ "overdueCase" \in Ids /\ "deniedCase" \in Ids
      /\ "deniedCase" \in Cases
  BY IdsFact DEF NoticeInv, NoticeTyped
<1>2. ASSUME NEW s \in Status \ {"none"}, NEW action, announceRefundEvent(action, refundTo(s), {}),
             s = "awaiting_destination" => action = "created" /\ state["refund"] = "due",
             s = "awaiting_send" => action \in {"destination_entered", "resend_required"},
             s # "sent"
      PROVE  NoticeInv'
  <2>1. PICK next, more : next = refundTo(s) /\ more = {}
    OBVIOUS
  <2>2. next \in [Ids -> Status] /\ next["refund"] = s /\ (\A i \in Ids \ {"refund"} : next[i] = state[i])
    BY <1>1, <2>1, RefundTo
  <2>3. announceRefundEvent(action, next, more) /\ \A e \in more : EventTyped(e) /\ valid(e)'
    BY <1>2, <2>1
  <2>4. \A c \in {"overdueCase", "deniedCase"} : next[c] = state[c]
    BY <1>1, <2>2
  <2> QED
    BY <1>2, <2>2, <2>3, <2>4, RefundMoves
<1>3. ASSUME NEW s \in Status \ {"none"}, NEW c \in {"overdueCase", "deniedCase"}, NEW action,
             announceRefundEvent(action, resolving(c, s), {}),
             s # "awaiting_destination",
             s = "awaiting_send" => action \in {"destination_entered", "resend_required"},
             s = "sent" => action = "sent_recorded" /\ state["refund"] = "awaiting_send"
      PROVE  NoticeInv'
  <2>1. PICK next, more : next = resolving(c, s) /\ more = {}
    OBVIOUS
  <2>2. next \in [Ids -> Status] /\ next["refund"] = s /\ (\A i \in Ids \ {"refund", c} : next[i] = state[i])
        /\ (next[c] = state[c] \/ next[c] = "resolved")
    <3>1. s \in Status
      OBVIOUS
    <3>2. /\ resolving(c, s) \in [Ids -> Status] /\ resolving(c, s)["refund"] = s
          /\ \A i \in Ids \ {"refund", c} : resolving(c, s)[i] = state[i]
          /\ resolving(c, s)[c] = IF state[c] = "open" THEN "resolved" ELSE state[c]
      BY <1>1, <3>1, Resolving
    <3> QED
      BY <2>1, <3>2
  <2>3. announceRefundEvent(action, next, more) /\ \A e \in more : EventTyped(e) /\ valid(e)'
    BY <1>3, <2>1
  <2>4. (\A d \in {"overdueCase", "deniedCase"} : next[d] = state[d] \/ next[d] = "resolved")
        /\ (\A i \in Ids : i \notin {"refund", "overdueCase", "deniedCase"} => next[i] = state[i])
    BY <1>1, <2>2
  <2> QED
    BY <1>3, <2>2, <2>3, <2>4, RefundMoves
<1>4. CASE /\ state["refund"] = "sent" /\ state["deniedCase"] = "none"
           /\ announceRefundEvent("receipt_denied",
                [refundTo("not_received") EXCEPT !["deniedCase"] = "open"], {opens("deniedCase")})
  <2>1. PICK next, f, more :
          /\ next = [refundTo("not_received") EXCEPT !["deniedCase"] = "open"]
          /\ f = Event("trust", "case_opened", "deniedCase", "open", clock + 1)
          /\ more = {f}
    OBVIOUS
  <2>2. announceRefundEvent("receipt_denied", next, more)
    BY <1>4, <2>1, Committed DEF opens
  <2>3. "not_received" \in Status /\ "open" \in Status
    BY DEF Status
  <2>4. next \in [Ids -> Status] /\ next["refund"] = "not_received" /\ next["deniedCase"] = "open"
        /\ (\A i \in Ids \ {"refund", "deniedCase"} : next[i] = state[i])
    <3>1. refundTo("not_received") \in [Ids -> Status] /\ refundTo("not_received")["refund"] = "not_received"
          /\ (\A i \in Ids \ {"refund"} : refundTo("not_received")[i] = state[i])
      BY <1>1, <2>3, RefundTo
    <3> QED
      BY <1>1, <2>1, <2>3, <3>1
  <2>5. PICK events : commits(next, {"receipt_denied"}, events) /\ f \in events
    BY <2>1, <2>2 DEF announceRefundEvent, moves
  <2>6. state' = next /\ stateSince'["deniedCase"] = clock + 1 /\ made'["deniedCase"] = clock + 1 /\ f \in outbox'
    BY <1>1, <1>4, <2>4, <2>5, Commits
  <2>7. f.family = "trust" /\ f.type = "case_opened" /\ f.id = "deniedCase" /\ f.at = clock + 1
    BY <2>1, Parts
  <2>8. EventTyped(f) /\ valid(f)'
    BY <1>1, <2>4, <2>6, <2>7, Verdicts DEF EventTyped
  <2>9. AnnouncedAt("deniedCase")'
    BY <2>1, <2>6 DEF AnnouncedAt, Said, Proposals, Cases
  <2>10. (\A c \in {"overdueCase", "deniedCase"} :
            next[c] = state[c] \/ next[c] = "resolved" \/ (next[c] = "open" /\ AnnouncedAt(c)'))
         /\ (\A i \in Ids : i \notin {"refund", "overdueCase", "deniedCase"} => next[i] = state[i])
         /\ (\A e \in more : EventTyped(e) /\ valid(e)')
    BY <1>1, <2>1, <2>4, <2>8, <2>9
  <2> QED
    BY <2>2, <2>4, <2>10, RefundMoves
<1>5. {"awaiting_destination", "awaiting_send", "received", "presumed", "sent", "waived"} \subseteq Status
  BY DEF Status
<1>6. CASE \/ state["refund"] = "due" /\ announceRefundEvent("created", refundTo("awaiting_destination"), {})
           \/ announceRefundEvent("destination_entered", refundTo("awaiting_send"), {})
           \/ announceRefundEvent("receipt_confirmed", refundTo("received"), {})
           \/ announceRefundEvent("presumed_received", refundTo("presumed"), {})
  BY <1>2, <1>5, <1>6
<1>7. CASE \/ state["refund"] = "awaiting_send" /\ announceRefundEvent("sent_recorded", resolving("overdueCase", "sent"), {})
           \/ announceRefundEvent("resend_required", resolving("deniedCase", "awaiting_send"), {})
           \/ announceRefundEvent("waived", resolving("deniedCase", "waived"), {})
  BY <1>3, <1>5, <1>7
<1> QED
  BY <1>4, <1>6, <1>7 DEF refundStep

---------------------------------------------------------------------------
\* The rows of trust, tips and accounts, of which only cases ask for somebody.
LEMMA TrustMoves ==
  ASSUME NoticeInv, NEW next, NEW news, NEW events, moves(next, news, events),
         next \in [Ids -> Status],
         \A i \in Ids : \/ next[i] = state[i]
                        \/ /\ i \in {"hide", "penalty", "appeal", "tip", "account"} /\ next[i] # "none"
                           /\ i = "appeal" => state[i] \notin {"upheld", "reversed"}
                        \/ /\ i \in {"overdueCase", "reportCase", "appealCase"}
                           /\ next[i] = "resolved" \/ (next[i] = "open" /\ AnnouncedAt(i)'),
         next["appealCase"] = state["appealCase"] \/ next["appeal"] # "none",
         \A e \in events : EventTyped(e) /\ valid(e)'
  PROVE  NoticeInv'
<1>1. commits(next, news, events) /\ by' = by
  BY DEF moves
<1>2. NoticeTyped /\ RowsAgree /\ state \in [Ids -> Status] /\ by \in [Ids -> Party]
  BY DEF NoticeInv, NoticeTyped
<1>3. state' = next
  BY <1>1, <1>2, Commits
<1>4. Forward
  <2>1. \A i \in Ids : state[i] # "none" => state'[i] # "none" /\ by'[i] = by[i]
    BY <1>1, <1>3
  <2>2. \A c \in Cases : state[c] \in {"open", "resolved"} => state'[c] \in {"open", "resolved"}
    BY <1>3, IdsFact
  <2>3. \A p \in Proposals : state'[p] = state[p]
    BY <1>3, IdsFact
  <2>4. \A i \in {"dispute", "claim", "intent"} : state'[i] = state[i]
    BY <1>3, IdsFact
  <2>5. state["appeal"] \in {"upheld", "reversed"} => state'["appeal"] = state["appeal"]
    BY <1>3, IdsFact
  <2> QED
    BY <2>1, <2>2, <2>3, <2>4, <2>5 DEF Forward
<1>5. RowsAgree'
  <2>1. \A i \in {"dispute", "claim", "intent", "order", "disputeCase", "claimCase"} : state'[i] = state[i]
    BY <1>3, IdsFact
  <2>2. state'["appeal"] = "none" => state'["appealCase"] = "none"
    BY <1>2, <1>3, IdsFact DEF RowsAgree
  <2> QED
    BY <1>2, <2>1, <2>2 DEF RowsAgree
<1>6. ASSUME NEW i \in Ids, next[i] # state[i] PROVE AnnouncedAt(i)'
  <2>1. CASE i \in {"hide", "penalty", "appeal", "tip", "account"}
    BY <2>1 DEF AnnouncedAt, Proposals, Cases
  <2>2. CASE i \in {"overdueCase", "reportCase", "appealCase"} /\ next[i] = "resolved"
    BY <1>3, <2>2 DEF AnnouncedAt, Proposals, Cases
  <2> QED
    BY <1>6, <2>1, <2>2
<1> QED
  BY <1>1, <1>2, <1>4, <1>5, <1>6, CommitKeeps

\* A case that a transaction opens is announced by it.
LEMMA CaseOpens ==
  ASSUME NoticeInv, NEW c \in Cases, NEW next, NEW news, NEW events, commits(next, news, events),
         state[c] = "none", next[c] = "open",
         NEW f, f = Event("trust", "case_opened", c, "open", clock + 1), f \in events
  PROVE  EventTyped(f) /\ valid(f)' /\ AnnouncedAt(c)'
<1>1. NoticeTyped /\ c \in Ids /\ c \notin Proposals \cup {"order", "dispute", "claim", "refund"}
  BY IdsFact DEF NoticeInv
<1>2. state' = next /\ stateSince'[c] = clock + 1 /\ made'[c] = clock + 1 /\ f \in outbox'
  BY <1>1, Commits
<1>3. f.family = "trust" /\ f.type = "case_opened" /\ f.id = c /\ f.at = clock + 1
  BY Parts
<1>4. EventTyped(f) /\ valid(f)'
  BY <1>1, <1>2, <1>3, Verdicts DEF EventTyped
<1>5. AnnouncedAt(c)'
  BY <1>1, <1>2 DEF AnnouncedAt, Said
<1> QED
  BY <1>4, <1>5

\* An event whose validity only asks for its row.
LEMMA PlainEvent ==
  ASSUME NoticeInv, NEW next, NEW news, NEW events, commits(next, news, events),
         NEW family \in {"trust", "tip", "creator", "payments"},
         NEW type \in {"report_received", "report_case_closed", "content_hidden", "content_restored",
                       "penalty_ended", "appeal_submitted", "notification_available", "transfer_claimed",
                       "application_outcome_email", "capability_outcome_email",
                       "verification_deposit_refund_sent"},
         NEW i \in Ids, NEW s, next[i] # "none",
         NEW e, e = Event(family, type, i, s, clock + 1)
  PROVE  EventTyped(e) /\ valid(e)'
<1>1. NoticeTyped
  BY DEF NoticeInv
<1>2. state' = next
  BY <1>1, Commits
<1>3. e.family = family /\ e.type = type /\ e.id = i
  BY Parts
<1>4. EventTyped(e)
  BY <1>3 DEF EventTyped
<1>5. valid(e)'
  BY <1>2, <1>3, Verdicts
<1> QED
  BY <1>4, <1>5

LEMMA OverdueKeeps ==
  ASSUME NoticeInv, overdue
  PROVE  NoticeInv'
<1>1. NoticeTyped /\ state \in [Ids -> Status] /\ state["overdueCase"] = "none"
      /\ "overdueCase" \in Cases /\ "overdueCase" \in Ids /\ "appealCase" \in Ids /\ "appeal" \in Ids
  BY IdsFact DEF NoticeInv, NoticeTyped, overdue
<1>2. PICK next, f, events, news :
        /\ next = [state EXCEPT !["overdueCase"] = "open"]
        /\ f = Event("trust", "case_opened", "overdueCase", "open", clock + 1)
        /\ events = {f} /\ news = {}
  OBVIOUS
<1>3. moves(next, news, events) /\ commits(next, news, events)
  BY <1>2, Committed DEF overdue, opens, moves
<1>4. next \in [Ids -> Status] /\ next["overdueCase"] = "open"
      /\ (\A i \in Ids \ {"overdueCase"} : next[i] = state[i])
  BY <1>1, <1>2 DEF Status
<1>5. EventTyped(f) /\ valid(f)' /\ AnnouncedAt("overdueCase")'
  <2>1. f \in events
    BY <1>2
  <2> QED
    BY <1>1, <1>2, <1>3, <1>4, <2>1, CaseOpens
<1>6. next["appealCase"] = state["appealCase"]
      /\ \A i \in Ids : next[i] = state[i] \/ i = "overdueCase"
  BY <1>1, <1>4
<1>7. \A e \in events : EventTyped(e) /\ valid(e)'
  BY <1>2, <1>5
<1> QED
  BY <1>3, <1>4, <1>5, <1>6, <1>7, TrustMoves

LEMMA ReportKeeps ==
  ASSUME NoticeInv, report
  PROVE  NoticeInv'
<1>1. NoticeTyped /\ state \in [Ids -> Status] /\ state["reportCase"] \in {"none", "open"}
      /\ "reportCase" \in Cases /\ "reportCase" \in Ids /\ "appealCase" \in Ids /\ "appeal" \in Ids
  BY IdsFact DEF NoticeInv, NoticeTyped, report
<1>2. PICK next, e, f, events, news :
        /\ next = [state EXCEPT !["reportCase"] = "open"]
        /\ e = Event("trust", "report_received", "reportCase", "open", clock + 1)
        /\ f = Event("trust", "case_opened", "reportCase", "open", clock + 1)
        /\ events = {e} \cup (IF state["reportCase"] = "open" THEN {} ELSE {f})
        /\ news = {"report"}
  OBVIOUS
<1>3. moves(next, news, events) /\ commits(next, news, events)
  BY <1>2, Committed DEF report, opens, moves
<1>4. next \in [Ids -> Status] /\ next["reportCase"] = "open"
      /\ (\A i \in Ids \ {"reportCase"} : next[i] = state[i])
  BY <1>1, <1>2 DEF Status
<1>5. EventTyped(e) /\ valid(e)'
  BY <1>1, <1>2, <1>3, <1>4, PlainEvent
<1>6. state["reportCase"] = "none" => EventTyped(f) /\ valid(f)' /\ AnnouncedAt("reportCase")'
  <2> SUFFICES ASSUME state["reportCase"] = "none" PROVE EventTyped(f) /\ valid(f)' /\ AnnouncedAt("reportCase")'
    OBVIOUS
  <2>1. f \in events
    BY <1>2
  <2> QED
    BY <1>1, <1>2, <1>3, <1>4, <2>1, CaseOpens
<1>7. next["appealCase"] = state["appealCase"]
      /\ \A i \in Ids : \/ next[i] = state[i]
                        \/ i = "reportCase" /\ next[i] = "open" /\ AnnouncedAt(i)'
  BY <1>1, <1>4, <1>6
<1>8. \A x \in events : EventTyped(x) /\ valid(x)'
  BY <1>1, <1>2, <1>5, <1>6
<1> QED
  BY <1>3, <1>4, <1>7, <1>8, TrustMoves

\* One row of those moves, with one event.
LEMMA PlainMoves ==
  ASSUME NoticeInv, NEW i \in {"hide", "penalty", "tip", "account", "reportCase"}, NEW s \in Status \ {"none"},
         i = "reportCase" => s = "resolved",
         NEW news, NEW e, EventTyped(e), valid(e)', moves([state EXCEPT ![i] = s], news, {e})
  PROVE  NoticeInv'
<1>1. NoticeTyped /\ state \in [Ids -> Status] /\ i \in Ids /\ "appealCase" \in Ids
  BY IdsFact DEF NoticeInv, NoticeTyped
<1>2. PICK next, events : next = [state EXCEPT ![i] = s] /\ events = {e}
  OBVIOUS
<1>3. moves(next, news, events)
  BY <1>2
<1>4. next \in [Ids -> Status] /\ next[i] = s /\ (\A j \in Ids \ {i} : next[j] = state[j])
  BY <1>1, <1>2
<1>5. next["appealCase"] = state["appealCase"]
      /\ \A j \in Ids : next[j] = state[j] \/ (j = i /\ next[j] = s)
  BY <1>1, <1>4
<1>6. \A x \in events : EventTyped(x) /\ valid(x)'
  BY <1>2
<1> QED
  BY <1>3, <1>4, <1>5, <1>6, TrustMoves

LEMMA ModerateKeeps ==
  ASSUME NoticeInv, moderate
  PROVE  NoticeInv'
<1>1. NoticeTyped /\ state \in [Ids -> Status]
      /\ \A i \in {"hide", "penalty", "reportCase"} : i \in Ids
  BY IdsFact DEF NoticeInv, NoticeTyped
<1>2. {"hidden", "released", "active", "resolved"} \subseteq Status \ {"none"}
  BY DEF Status
<1>3. ASSUME NEW i \in {"hide", "reportCase"}, NEW s \in {"hidden", "released", "resolved"},
             i = "reportCase" => s = "resolved",
             NEW type \in {"content_hidden", "content_restored", "report_case_closed"}, NEW e,
             e = Event("trust", type, i, s, clock + 1), moves([state EXCEPT ![i] = s], {}, {e})
      PROVE  NoticeInv'
  <2>1. PICK next, news, events : next = [state EXCEPT ![i] = s] /\ news = {} /\ events = {e}
    OBVIOUS
  <2>2. moves(next, news, events) /\ commits(next, news, events)
    BY <1>3, <2>1 DEF moves
  <2>3. next[i] # "none" /\ i \in Ids
    BY <1>1, <2>1
  <2>4. EventTyped(e) /\ valid(e)'
    BY <1>3, <2>2, <2>3, PlainEvent
  <2> QED
    BY <1>2, <1>3, <2>4, PlainMoves
<1>4. ASSUME NEW k, moves([state EXCEPT !["penalty"] = "active"], {k},
                          {domainEvent("trust", "penalty_applied", "penalty", k)})
      PROVE  NoticeInv'
  <2>1. PICK next, news, e :
          /\ next = [state EXCEPT !["penalty"] = "active"] /\ news = {k}
          /\ e = Event("trust", "penalty_applied", "penalty", k, clock + 1)
    OBVIOUS
  <2>2. moves(next, news, {e}) /\ commits(next, news, {e})
    BY <1>4, <2>1, Committed DEF moves
  <2>3. state' = next /\ <<k, clock + 1>> \in facts' /\ next["penalty"] # "none"
    BY <1>1, <2>1, <2>2, Commits
  <2>4. e.family = "trust" /\ e.type = "penalty_applied" /\ e.id = "penalty" /\ e.state = k /\ e.at = clock + 1
    BY <2>1, Parts
  <2>5. EventTyped(e) /\ valid(e)'
    BY <1>1, <2>3, <2>4, Verdicts DEF EventTyped, recorded
  <2>6. moves([state EXCEPT !["penalty"] = "active"], news, {e})
    BY <2>1, <2>2
  <2> QED
    BY <1>2, <2>5, <2>6, PlainMoves
<1>5. CASE moves([state EXCEPT !["hide"] = "hidden"], {}, {domainEvent("trust", "content_hidden", "hide", "hidden")})
  BY <1>3, <1>5, Committed
<1>6. CASE moves([state EXCEPT !["hide"] = "released"], {},
                 {domainEvent("trust", "content_restored", "hide", "released")})
  BY <1>3, <1>6, Committed
<1>7. CASE moves([state EXCEPT !["reportCase"] = "resolved"], {},
                 {domainEvent("trust", "report_case_closed", "reportCase", "resolved")})
  BY <1>3, <1>7, Committed
<1> QED
  BY <1>4, <1>5, <1>6, <1>7 DEF moderate

LEMMA AppealKeeps ==
  ASSUME NoticeInv, appeal
  PROVE  NoticeInv'
<1>1. NoticeTyped /\ RowsAgree /\ state \in [Ids -> Status]
      /\ "appeal" \in Ids /\ "appealCase" \in Ids /\ "penalty" \in Ids /\ "appealCase" \in Cases
  BY IdsFact DEF NoticeInv, NoticeTyped
<1>2. CASE /\ state["penalty"] = "active" /\ state["appeal"] = "none"
           /\ moves([state EXCEPT !["appeal"] = "open", !["appealCase"] = "open"], {},
                    {domainEvent("trust", "appeal_submitted", "appeal", "open"), opens("appealCase")})
  <2>1. PICK next, e, f, events, news :
          /\ next = [state EXCEPT !["appeal"] = "open", !["appealCase"] = "open"]
          /\ e = Event("trust", "appeal_submitted", "appeal", "open", clock + 1)
          /\ f = Event("trust", "case_opened", "appealCase", "open", clock + 1)
          /\ events = {e, f} /\ news = {}
    OBVIOUS
  <2>2. moves(next, news, events) /\ commits(next, news, events) /\ f \in events
    BY <1>2, <2>1, Committed DEF opens, moves
  <2>3. next \in [Ids -> Status] /\ next["appeal"] = "open" /\ next["appealCase"] = "open"
        /\ (\A i \in Ids \ {"appeal", "appealCase"} : next[i] = state[i])
    BY <1>1, <2>1 DEF Status
  <2>4. EventTyped(e) /\ valid(e)'
    BY <1>1, <2>1, <2>2, <2>3, PlainEvent
  <2>5. state["appealCase"] = "none"
    BY <1>1, <1>2 DEF RowsAgree
  <2>6. EventTyped(f) /\ valid(f)' /\ AnnouncedAt("appealCase")'
    BY <1>1, <2>1, <2>2, <2>3, <2>5, CaseOpens
  <2>7. \A x \in events : EventTyped(x) /\ valid(x)'
    BY <2>1, <2>4, <2>6
  <2>8. \A i \in Ids : \/ next[i] = state[i]
                       \/ i = "appeal" /\ next[i] = "open" /\ state[i] = "none"
                       \/ i = "appealCase" /\ next[i] = "open" /\ AnnouncedAt(i)'
    BY <1>2, <2>3, <2>6
  <2> QED
    BY <2>2, <2>3, <2>7, <2>8, TrustMoves
<1>3. CASE /\ state["appeal"] = "open"
           /\ moves([state EXCEPT !["appeal"] = "upheld", !["appealCase"] = "resolved"], {},
                    {domainEvent("trust", "appeal_decided", "appeal", "upheld")})
  <2>1. PICK next, e, events, news :
          /\ next = [state EXCEPT !["appeal"] = "upheld", !["appealCase"] = "resolved"]
          /\ e = Event("trust", "appeal_decided", "appeal", "upheld", clock + 1)
          /\ events = {e} /\ news = {}
    OBVIOUS
  <2>2. moves(next, news, events) /\ commits(next, news, events)
    BY <1>3, <2>1, Committed DEF moves
  <2>3. next \in [Ids -> Status] /\ next["appeal"] = "upheld" /\ next["appealCase"] = "resolved"
        /\ (\A i \in Ids \ {"appeal", "appealCase"} : next[i] = state[i])
    BY <1>1, <2>1 DEF Status
  <2>4. state' = next
    BY <1>1, <2>2, Commits
  <2>5. e.family = "trust" /\ e.type = "appeal_decided" /\ e.id = "appeal" /\ e.state = "upheld"
    BY <2>1, Parts
  <2>6. EventTyped(e) /\ valid(e)'
    BY <1>1, <2>3, <2>4, <2>5, Verdicts DEF EventTyped
  <2>7. \A x \in events : EventTyped(x) /\ valid(x)'
    BY <2>1, <2>6
  <2>8. \A i \in Ids : \/ next[i] = state[i]
                       \/ i = "appeal" /\ next[i] = "upheld" /\ state[i] = "open"
                       \/ i = "appealCase" /\ next[i] = "resolved"
    BY <1>3, <2>3
  <2> QED
    BY <2>2, <2>3, <2>7, <2>8, TrustMoves
<1>4. CASE /\ state["appeal"] = "open"
           /\ moves([state EXCEPT !["appeal"] = "reversed", !["appealCase"] = "resolved", !["penalty"] = "ended"], {},
                    {domainEvent("trust", "appeal_decided", "appeal", "reversed"),
                     domainEvent("trust", "penalty_ended", "penalty", "ended")})
  <2>1. PICK next, e, f, events, news :
          /\ next = [state EXCEPT !["appeal"] = "reversed", !["appealCase"] = "resolved", !["penalty"] = "ended"]
          /\ e = Event("trust", "appeal_decided", "appeal", "reversed", clock + 1)
          /\ f = Event("trust", "penalty_ended", "penalty", "ended", clock + 1)
          /\ events = {e, f} /\ news = {}
    OBVIOUS
  <2>2. moves(next, news, events) /\ commits(next, news, events)
    BY <1>4, <2>1, Committed DEF moves
  <2>3. next \in [Ids -> Status] /\ next["appeal"] = "reversed" /\ next["appealCase"] = "resolved"
        /\ next["penalty"] = "ended"
        /\ (\A i \in Ids \ {"appeal", "appealCase", "penalty"} : next[i] = state[i])
    BY <1>1, <2>1 DEF Status
  <2>4. state' = next
    BY <1>1, <2>2, Commits
  <2>5. e.family = "trust" /\ e.type = "appeal_decided" /\ e.id = "appeal" /\ e.state = "reversed"
    BY <2>1, Parts
  <2>6. EventTyped(e) /\ valid(e)'
    BY <1>1, <2>3, <2>4, <2>5, Verdicts DEF EventTyped
  <2>7. EventTyped(f) /\ valid(f)'
    BY <1>1, <2>1, <2>2, <2>3, PlainEvent
  <2>8. \A x \in events : EventTyped(x) /\ valid(x)'
    BY <2>1, <2>6, <2>7
  <2>9. \A i \in Ids : \/ next[i] = state[i]
                       \/ i = "appeal" /\ next[i] = "reversed" /\ state[i] = "open"
                       \/ i = "penalty" /\ next[i] = "ended"
                       \/ i = "appealCase" /\ next[i] = "resolved"
    BY <1>4, <2>3
  <2> QED
    BY <2>2, <2>3, <2>8, <2>9, TrustMoves
<1> QED
  BY <1>2, <1>3, <1>4 DEF appeal

LEMMA OtherEventsKeep ==
  ASSUME NoticeInv, otherEvents
  PROVE  NoticeInv'
<1>1. NoticeTyped /\ state \in [Ids -> Status] /\ (\A i \in {"tip", "account"} : i \in Ids)
      /\ "open" \in Status \ {"none"}
  BY IdsFact DEF NoticeInv, NoticeTyped, Status
<1>2. ASSUME NEW i \in {"tip", "account"}, NEW family \in {"tip", "creator", "payments"},
             NEW type \in {"notification_available", "application_outcome_email", "capability_outcome_email",
                           "verification_deposit_refund_sent"},
             NEW s, moves([state EXCEPT ![i] = "open"], {}, {domainEvent(family, type, i, s)})
      PROVE  NoticeInv'
  <2>1. PICK next, news, e : /\ next = [state EXCEPT ![i] = "open"] /\ news = {}
                             /\ e = Event(family, type, i, s, clock + 1)
    OBVIOUS
  <2>2. moves(next, news, {e}) /\ commits(next, news, {e})
    BY <1>2, <2>1, Committed DEF moves
  <2>3. next[i] # "none" /\ i \in Ids
    BY <1>1, <2>1
  <2>4. EventTyped(e) /\ valid(e)'
    BY <2>1, <2>2, <2>3, PlainEvent
  <2>5. moves([state EXCEPT ![i] = "open"], news, {e})
    BY <2>1, <2>2
  <2> QED
    BY <1>1, <2>4, <2>5, PlainMoves
<1>3. CASE state["tip"] = "open" /\ moves(state, {}, {domainEvent("tip", "transfer_claimed", "tip", "claimed")})
  <2>1. PICK e : e = Event("tip", "transfer_claimed", "tip", "claimed", clock + 1)
    OBVIOUS
  <2>2. moves(state, {}, {e}) /\ commits(state, {}, {e})
    BY <1>3, <2>1, Committed DEF moves
  <2>3. state["tip"] # "none" /\ "tip" \in Ids
    BY <1>1, <1>3
  <2>4. EventTyped(e) /\ valid(e)'
    BY <2>1, <2>2, <2>3, PlainEvent
  <2> QED
    BY <2>2, <2>4, NoRowMoves
<1> QED
  BY <1>2, <1>3 DEF otherEvents

---------------------------------------------------------------------------
LEMMA NoticeInitHolds ==
  ASSUME NoticeInit
  PROVE  NoticeInv
<1>1. story \in Stories /\ clock = 0 /\ outbox = {} /\ done = {} /\ told = {}
      /\ made = [i \in Ids |-> 0] /\ stateSince = [i \in Ids |-> 0] /\ by = [i \in Ids |-> "none"]
      /\ state = [i \in Ids |-> IF i = "refund" /\ story = "refund" THEN "due" ELSE "none"]
  BY DEF NoticeInit
<1>2. state \in [Ids -> Status] /\ by \in [Ids -> Party]
  BY <1>1 DEF Status, Party
<1>3. \A i \in Ids : state[i] \in {"due", "none"} /\ (i # "refund" => state[i] = "none")
  BY <1>1
<1>4. NoticeTyped
  BY <1>1, <1>2 DEF NoticeTyped
<1>5. RowsAgree
  BY <1>3, IdsFact DEF RowsAgree
<1>6. \A i \in Ids : AnnouncedAt(i)
  BY <1>3 DEF AnnouncedAt
<1>7. EventsStayValid /\ AllTold
  BY <1>1 DEF EventsStayValid, AllTold
<1> QED
  BY <1>4, <1>5, <1>6, <1>7 DEF NoticeInv

\* A step that moves no row and commits nothing.
LEMMA RowsRest ==
  ASSUME NoticeInv, told \subseteq told', done' \subseteq outbox,
         UNCHANGED <<story, clock, state, made, stateSince, by, facts, outbox>>,
         \A e \in done' \ done : Told(e)'
  PROVE  NoticeInv'
<1>1. NoticeTyped /\ RowsAgree /\ EventsStayValid /\ (\A i \in Ids : AnnouncedAt(i)) /\ AllTold
  BY DEF NoticeInv
<1>2. NoticeTyped'
  BY <1>1 DEF NoticeTyped
<1>3. RowsAgree'
  BY <1>1 DEF RowsAgree
<1>4. Forward /\ Kept
  BY DEF Forward, Kept
<1>5. \A e \in outbox : EventTyped(e) /\ valid(e) /\ resolveNotices(e)' = resolveNotices(e)
  BY <1>1, <1>4, RecipientsStay DEF NoticeTyped, EventsStayValid
<1>6. EventsStayValid'
  <2>1. state \in [Ids -> Status]
    BY <1>1 DEF NoticeTyped
  <2>2. \A e \in outbox : valid(e)'
    BY <1>4, <1>5, <2>1, StaysValid
  <2> QED
    BY <2>2 DEF EventsStayValid
<1>7. \A i \in Ids : AnnouncedAt(i)'
  BY <1>1 DEF AnnouncedAt, Said
<1>8. AllTold'
  <2>1. ASSUME NEW e \in done PROVE Told(e)'
    <3>1. Told(e) /\ e \in outbox
      BY <1>1 DEF AllTold, NoticeTyped
    <3>2. resolveNotices(e)' = resolveNotices(e)
      BY <1>5, <3>1
    <3> QED
      BY <3>1, <3>2 DEF Told
  <2> QED
    BY <2>1 DEF AllTold
<1> QED
  BY <1>2, <1>3, <1>6, <1>7, <1>8 DEF NoticeInv

LEMMA ConsumeKeeps ==
  ASSUME NoticeInv, NEW e \in outbox, consume(e)
  PROVE  NoticeInv'
<1>1. NoticeTyped /\ EventsStayValid
  BY DEF NoticeInv
<1>2. /\ UNCHANGED <<story, clock, state, made, stateSince, by, facts, outbox>> /\ done' = done \cup {e}
      /\ told' = told \cup {[event |-> e, who |-> n[1], kind |-> n[2]] : n \in resolveNotices(e)}
  BY DEF consume, writeNotice
<1>3. Forward
  BY <1>2 DEF Forward
<1>4. resolveNotices(e)' = resolveNotices(e)
  BY <1>1, <1>3, RecipientsStay DEF NoticeTyped, EventsStayValid
<1>5. Told(e)'
  BY <1>2, <1>4 DEF Told
<1>6. \A x \in done' \ done : Told(x)'
  BY <1>2, <1>5
<1>7. done' \subseteq outbox
  BY <1>1, <1>2 DEF NoticeTyped
<1> QED
  BY <1>2, <1>6, <1>7, RowsRest

LEMMA NoticeStep ==
  ASSUME NoticeInv, [NoticeNext]_noticeVars
  PROVE  NoticeInv'
<1>1. CASE NoticeNext
  BY <1>1, AdvanceKeeps, DeliverKeeps, RespondKeeps, ClaimTransferKeeps, ConfirmPaymentKeeps,
     MakeProposalKeeps, RecordEndKeeps, SettleDisputeKeeps, OpenDisputeKeeps, AddStatementKeeps,
     WithdrawDisputeKeeps, RecordRulingKeeps, CorrectRulingKeeps, CloseSuspendedKeeps,
     FileLateClaimKeeps, RecordLateClaimKeeps, RefundStepKeeps, OverdueKeeps, ReportKeeps,
     ModerateKeeps, AppealKeeps, OtherEventsKeep, ConsumeKeeps DEF NoticeNext
<1>2. CASE UNCHANGED noticeVars
  BY <1>2, RowsRest DEF noticeVars, NoticeInv, NoticeTyped
<1> QED
  BY <1>1, <1>2

---------------------------------------------------------------------------
\* A duty is about the state that its row is in.
LEMMA When ==
  ASSUME NEW i, NEW s, NEW who, NEW kinds, NEW d \in when(i, s, who, kinds)
  PROVE  state[i] = s /\ d.id = i /\ d.who = who /\ d.kinds = kinds
  BY DEF when

\* Somebody has a notice of the transaction of a given time.
Heard(who, kind, n) == \E t \in told : t.who = who /\ t.kind = kind /\ t.event.at = n

LEMMA Hears ==
  ASSUME AllTold, NEW e \in done, NEW who, NEW kind, <<who, kind>> \in resolveNotices(e)
  PROVE  Heard(who, kind, e.at)
<1>1. [event |-> e, who |-> who, kind |-> kind] \in told
  BY DEF AllTold, Told
<1> QED
  BY <1>1 DEF Heard

\* Who is told of which event.
LEMMA Recipients ==
  ASSUME NEW e
  PROVE
    /\ e.family = "commission" /\ e.type = "requested" => <<"creator", "order_requested">> \in resolveNotices(e)
    /\ e.family = "commission" /\ e.type = "quoted" => <<"buyer", "order_quoted">> \in resolveNotices(e)
    /\ e.family = "commission" /\ e.type = "awaiting_payment" =>
         <<"buyer", "order_payment_due">> \in resolveNotices(e)
    /\ e.family = "commission" /\ e.type = "confirmed" =>
         <<"creator", "order_in_progress">> \in resolveNotices(e)
    /\ e.family = "commission" /\ e.type = "submission_responded" =>
         <<"creator", "draft_responded">> \in resolveNotices(e)
    /\ e.family = "commission" /\ e.type = "delivered" => <<"buyer", "order_delivered">> \in resolveNotices(e)
    /\ e.family = "resolution" /\ e.type = "proposal_made" =>
         <<opposite(by[e.id]), "proposal_received">> \in resolveNotices(e)
    /\ e.family = "resolution" /\ e.type = "dispute_opened" =>
         <<opposite(by[e.id]), "dispute_opened">> \in resolveNotices(e)
    /\ e.family = "resolution" /\ e.type = "late_claim_filed" =>
         <<"creator", "late_claim_filed">> \in resolveNotices(e)
    /\ e.family = "refund" /\ e.state = "created" => <<"buyer", "refund_account_needed">> \in resolveNotices(e)
    /\ e.family = "refund" /\ e.state = "destination_entered" =>
         <<"creator", "refund_send_due">> \in resolveNotices(e)
    /\ e.family = "refund" /\ e.state = "resend_required" =>
         <<"creator", "refund_resend_required">> \in resolveNotices(e)
    /\ e.family = "refund" /\ e.state = "sent_recorded" => <<"buyer", "refund_sent">> \in resolveNotices(e)
    /\ e.family = "trust" /\ e.type = "case_opened" => <<"owner", "owner_case_opened">> \in resolveNotices(e)
<1> USE DEF resolveNotices
<1>1. CASE e.family = "commission"
  BY <1>1 DEF commissionNotices, ORDER_NOTICES, toRoles, BOTH
<1>2. CASE e.family = "resolution"
  BY <1>2 DEF resolutionNotices, toRoles
<1>3. CASE e.family = "refund"
  BY <1>3 DEF refundNotices, toRoles
<1>4. CASE e.family = "trust"
  BY <1>4 DEF trustNotices
<1> QED
  BY <1>1, <1>2, <1>3, <1>4

LEMMA EverybodyIsTold ==
  ASSUME NoticeInv, outbox = done, NEW d \in Duties
  PROVE  \E k \in d.kinds : Heard(d.who, k, stateSince[d.id])
<1>1. AllTold /\ (\A i \in Ids : AnnouncedAt(i))
  BY DEF NoticeInv
<1>2. ASSUME story = "order" /\ state["order"] = "requested"
      PROVE  Heard("creator", "order_requested", stateSince["order"])
  <2>1. AnnouncedAt("order")
    BY <1>1, IdsFact
  <2>2. Said("commission", "requested", "order", "requested", stateSince["order"])
    BY <1>2, <2>1 DEF AnnouncedAt
  <2>3. PICK e \in done : /\ e.family = "commission" /\ e.type = "requested"
                          /\ e.id = "order" /\ e.state = "requested"
                         /\ e.at = stateSince["order"]
    BY <2>2, Parts DEF Said
  <2>4. <<"creator", "order_requested">> \in resolveNotices(e)
    BY <2>3, Recipients
  <2> QED
    BY <1>1, <2>3, <2>4, Hears
<1>3. ASSUME story = "order" /\ state["order"] = "quoted"
      PROVE  Heard("buyer", "order_quoted", stateSince["order"])
  <2>1. AnnouncedAt("order")
    BY <1>1, IdsFact
  <2>2. Said("commission", "quoted", "order", "quoted", stateSince["order"])
    BY <1>3, <2>1 DEF AnnouncedAt
  <2>3. PICK e \in done : /\ e.family = "commission" /\ e.type = "quoted"
                          /\ e.id = "order" /\ e.state = "quoted"
                         /\ e.at = stateSince["order"]
    BY <2>2, Parts DEF Said
  <2>4. <<"buyer", "order_quoted">> \in resolveNotices(e)
    BY <2>3, Recipients
  <2> QED
    BY <1>1, <2>3, <2>4, Hears
<1>4. ASSUME story = "order" /\ state["order"] = "awaiting_payment"
      PROVE  Heard("buyer", "order_payment_due", stateSince["order"])
  <2>1. AnnouncedAt("order")
    BY <1>1, IdsFact
  <2>2. Said("commission", "awaiting_payment", "order", "awaiting_payment", stateSince["order"])
    BY <1>4, <2>1 DEF AnnouncedAt
  <2>3. PICK e \in done : /\ e.family = "commission" /\ e.type = "awaiting_payment"
                          /\ e.id = "order" /\ e.state = "awaiting_payment"
                         /\ e.at = stateSince["order"]
    BY <2>2, Parts DEF Said
  <2>4. <<"buyer", "order_payment_due">> \in resolveNotices(e)
    BY <2>3, Recipients
  <2> QED
    BY <1>1, <2>3, <2>4, Hears
<1>5. ASSUME story = "order" /\ state["order"] = "in_progress"
      PROVE  \/ Heard("creator", "order_in_progress", stateSince["order"])
             \/ Heard("creator", "draft_responded", stateSince["order"])
  <2>1. AnnouncedAt("order")
    BY <1>1, IdsFact
  <2>2. \/ Said("commission", "confirmed", "intent", "confirmed", stateSince["order"])
          \/ Said("commission", "submission_responded", "order", "final", stateSince["order"])
    BY <1>5, <2>1 DEF AnnouncedAt
  <2>3. CASE Said("commission", "confirmed", "intent", "confirmed", stateSince["order"])
    <3>1. PICK e \in done : /\ e.family = "commission" /\ e.type = "confirmed"
                            /\ e.id = "intent" /\ e.state = "confirmed"
                           /\ e.at = stateSince["order"]
      BY <2>3, Parts DEF Said
    <3>2. <<"creator", "order_in_progress">> \in resolveNotices(e)
      BY <3>1, Recipients
    <3> QED
      BY <1>1, <3>1, <3>2, Hears
  <2>4. CASE Said("commission", "submission_responded", "order", "final", stateSince["order"])
    <3>1. PICK e \in done : /\ e.family = "commission" /\ e.type = "submission_responded"
                            /\ e.id = "order" /\ e.state = "final"
                           /\ e.at = stateSince["order"]
      BY <2>4, Parts DEF Said
    <3>2. <<"creator", "draft_responded">> \in resolveNotices(e)
      BY <3>1, Recipients
    <3> QED
      BY <1>1, <3>1, <3>2, Hears
  <2> QED
    BY <2>2, <2>3, <2>4
<1>6. ASSUME story = "order" /\ state["order"] = "delivered"
      PROVE  Heard("buyer", "order_delivered", stateSince["order"])
  <2>1. AnnouncedAt("order")
    BY <1>1, IdsFact
  <2>2. Said("commission", "delivered", "order", "delivered", stateSince["order"])
    BY <1>6, <2>1 DEF AnnouncedAt
  <2>3. PICK e \in done : /\ e.family = "commission" /\ e.type = "delivered"
                          /\ e.id = "order" /\ e.state = "delivered"
                         /\ e.at = stateSince["order"]
    BY <2>2, Parts DEF Said
  <2>4. <<"buyer", "order_delivered">> \in resolveNotices(e)
    BY <2>3, Recipients
  <2> QED
    BY <1>1, <2>3, <2>4, Hears
<1>7. ASSUME NEW p \in Proposals, state[p] = "pending"
      PROVE  Heard(opposite(by[p]), "proposal_received", stateSince[p])
  <2>1. AnnouncedAt(p)
    BY <1>1, IdsFact
  <2>2. Said("resolution", "proposal_made", p, "pending", stateSince[p])
    BY <1>7, <2>1 DEF AnnouncedAt
  <2>3. PICK e \in done : /\ e.family = "resolution" /\ e.type = "proposal_made"
                          /\ e.id = p /\ e.state = "pending"
                         /\ e.at = stateSince[p]
    BY <2>2, Parts DEF Said
  <2>4. <<opposite(by[p]), "proposal_received">> \in resolveNotices(e)
    BY <2>3, Recipients
  <2> QED
    BY <1>1, <2>3, <2>4, Hears
<1>8. ASSUME state["dispute"] = "open"
      PROVE  Heard(opposite(by["dispute"]), "dispute_opened", stateSince["dispute"])
  <2>1. AnnouncedAt("dispute")
    BY <1>1, IdsFact
  <2>2. Said("resolution", "dispute_opened", "dispute", "open", stateSince["dispute"])
    BY <1>8, <2>1 DEF AnnouncedAt
  <2>3. PICK e \in done : /\ e.family = "resolution" /\ e.type = "dispute_opened"
                          /\ e.id = "dispute" /\ e.state = "open"
                         /\ e.at = stateSince["dispute"]
    BY <2>2, Parts DEF Said
  <2>4. <<opposite(by["dispute"]), "dispute_opened">> \in resolveNotices(e)
    BY <2>3, Recipients
  <2> QED
    BY <1>1, <2>3, <2>4, Hears
<1>9. ASSUME state["claim"] = "awaiting_creator"
      PROVE  Heard("creator", "late_claim_filed", stateSince["claim"])
  <2>1. AnnouncedAt("claim")
    BY <1>1, IdsFact
  <2>2. Said("resolution", "late_claim_filed", "claim", "awaiting_creator", stateSince["claim"])
    BY <1>9, <2>1 DEF AnnouncedAt
  <2>3. PICK e \in done : /\ e.family = "resolution" /\ e.type = "late_claim_filed"
                          /\ e.id = "claim" /\ e.state = "awaiting_creator"
                         /\ e.at = stateSince["claim"]
    BY <2>2, Parts DEF Said
  <2>4. <<"creator", "late_claim_filed">> \in resolveNotices(e)
    BY <2>3, Recipients
  <2> QED
    BY <1>1, <2>3, <2>4, Hears
<1>10. ASSUME state["refund"] = "awaiting_destination"
      PROVE  Heard("buyer", "refund_account_needed", stateSince["refund"])
  <2>1. AnnouncedAt("refund")
    BY <1>1, IdsFact
  <2>2. Said("refund", "event_recorded", "refund", "created", stateSince["refund"])
    BY <1>10, <2>1 DEF AnnouncedAt
  <2>3. PICK e \in done : /\ e.family = "refund" /\ e.type = "event_recorded"
                          /\ e.id = "refund" /\ e.state = "created"
                         /\ e.at = stateSince["refund"]
    BY <2>2, Parts DEF Said
  <2>4. <<"buyer", "refund_account_needed">> \in resolveNotices(e)
    BY <2>3, Recipients
  <2> QED
    BY <1>1, <2>3, <2>4, Hears
<1>11. ASSUME state["refund"] = "awaiting_send"
      PROVE  \/ Heard("creator", "refund_send_due", stateSince["refund"])
             \/ Heard("creator", "refund_resend_required", stateSince["refund"])
  <2>1. AnnouncedAt("refund")
    BY <1>1, IdsFact
  <2>2. \/ Said("refund", "event_recorded", "refund", "destination_entered", stateSince["refund"])
          \/ Said("refund", "event_recorded", "refund", "resend_required", stateSince["refund"])
    BY <1>11, <2>1 DEF AnnouncedAt
  <2>3. CASE Said("refund", "event_recorded", "refund", "destination_entered", stateSince["refund"])
    <3>1. PICK e \in done : /\ e.family = "refund" /\ e.type = "event_recorded"
                            /\ e.id = "refund" /\ e.state = "destination_entered"
                           /\ e.at = stateSince["refund"]
      BY <2>3, Parts DEF Said
    <3>2. <<"creator", "refund_send_due">> \in resolveNotices(e)
      BY <3>1, Recipients
    <3> QED
      BY <1>1, <3>1, <3>2, Hears
  <2>4. CASE Said("refund", "event_recorded", "refund", "resend_required", stateSince["refund"])
    <3>1. PICK e \in done : /\ e.family = "refund" /\ e.type = "event_recorded"
                            /\ e.id = "refund" /\ e.state = "resend_required"
                           /\ e.at = stateSince["refund"]
      BY <2>4, Parts DEF Said
    <3>2. <<"creator", "refund_resend_required">> \in resolveNotices(e)
      BY <3>1, Recipients
    <3> QED
      BY <1>1, <3>1, <3>2, Hears
  <2> QED
    BY <2>2, <2>3, <2>4
<1>12. ASSUME state["refund"] = "sent"
      PROVE  Heard("buyer", "refund_sent", stateSince["refund"])
  <2>1. AnnouncedAt("refund")
    BY <1>1, IdsFact
  <2>2. Said("refund", "event_recorded", "refund", "sent_recorded", stateSince["refund"])
    BY <1>12, <2>1 DEF AnnouncedAt
  <2>3. PICK e \in done : /\ e.family = "refund" /\ e.type = "event_recorded"
                          /\ e.id = "refund" /\ e.state = "sent_recorded"
                         /\ e.at = stateSince["refund"]
    BY <2>2, Parts DEF Said
  <2>4. <<"buyer", "refund_sent">> \in resolveNotices(e)
    BY <2>3, Recipients
  <2> QED
    BY <1>1, <2>3, <2>4, Hears
<1>13. ASSUME NEW c \in Cases, state[c] = "open"
      PROVE  Heard("owner", "owner_case_opened", stateSince[c])
  <2>1. AnnouncedAt(c)
    BY <1>1, IdsFact
  <2>2. Said("trust", "case_opened", c, "open", stateSince[c])
    BY <1>13, <2>1 DEF AnnouncedAt
  <2>3. PICK e \in done : /\ e.family = "trust" /\ e.type = "case_opened" /\ e.id = c /\ e.state = "open"
                         /\ e.at = stateSince[c]
    BY <2>2, Parts DEF Said
  <2>4. <<"owner", "owner_case_opened">> \in resolveNotices(e)
    BY <2>3, Recipients
  <2> QED
    BY <1>1, <2>3, <2>4, Hears
<1>14. ASSUME story = "order", d \in when("order", "requested", "creator", {"order_requested"})
      PROVE  \E k \in d.kinds : Heard(d.who, k, stateSince[d.id])
  BY <1>2, <1>14, When
<1>15. ASSUME story = "order", d \in when("order", "quoted", "buyer", {"order_quoted"})
      PROVE  \E k \in d.kinds : Heard(d.who, k, stateSince[d.id])
  BY <1>3, <1>15, When
<1>16. ASSUME story = "order", d \in when("order", "awaiting_payment", "buyer", {"order_payment_due"})
      PROVE  \E k \in d.kinds : Heard(d.who, k, stateSince[d.id])
  BY <1>4, <1>16, When
<1>17. ASSUME story = "order", d \in when("order", "in_progress", "creator", {"order_in_progress", "draft_responded"})
      PROVE  \E k \in d.kinds : Heard(d.who, k, stateSince[d.id])
  BY <1>5, <1>17, When
<1>18. ASSUME story = "order", d \in when("order", "delivered", "buyer", {"order_delivered"})
      PROVE  \E k \in d.kinds : Heard(d.who, k, stateSince[d.id])
  BY <1>6, <1>18, When
<1>19. ASSUME NEW p \in Proposals, d \in when(p, "pending", opposite(by[p]), {"proposal_received"})
      PROVE  \E k \in d.kinds : Heard(d.who, k, stateSince[d.id])
  BY <1>7, <1>19, When
<1>20. ASSUME d \in when("dispute", "open", opposite(by["dispute"]), {"dispute_opened"})
      PROVE  \E k \in d.kinds : Heard(d.who, k, stateSince[d.id])
  BY <1>8, <1>20, When
<1>21. ASSUME d \in when("claim", "awaiting_creator", "creator", {"late_claim_filed"})
      PROVE  \E k \in d.kinds : Heard(d.who, k, stateSince[d.id])
  BY <1>9, <1>21, When
<1>22. ASSUME d \in when("refund", "awaiting_destination", "buyer", {"refund_account_needed"})
      PROVE  \E k \in d.kinds : Heard(d.who, k, stateSince[d.id])
  BY <1>10, <1>22, When
<1>23. ASSUME d \in when("refund", "awaiting_send", "creator", {"refund_send_due", "refund_resend_required"})
      PROVE  \E k \in d.kinds : Heard(d.who, k, stateSince[d.id])
  BY <1>11, <1>23, When
<1>24. ASSUME d \in when("refund", "sent", "buyer", {"refund_sent"})
      PROVE  \E k \in d.kinds : Heard(d.who, k, stateSince[d.id])
  BY <1>12, <1>24, When
<1>25. ASSUME NEW c \in Cases, d \in when(c, "open", "owner", {"owner_case_opened"})
      PROVE  \E k \in d.kinds : Heard(d.who, k, stateSince[d.id])
  BY <1>13, <1>25, When
<1>26. \/ story = "order" /\ d \in when("order", "requested", "creator", {"order_requested"})
       \/ story = "order" /\ d \in when("order", "quoted", "buyer", {"order_quoted"})
       \/ story = "order" /\ d \in when("order", "awaiting_payment", "buyer", {"order_payment_due"})
       \/ story = "order" /\ d \in when("order", "in_progress", "creator", {"order_in_progress", "draft_responded"})
       \/ story = "order" /\ d \in when("order", "delivered", "buyer", {"order_delivered"})
       \/ \E p \in Proposals : d \in when(p, "pending", opposite(by[p]), {"proposal_received"})
       \/ d \in when("dispute", "open", opposite(by["dispute"]), {"dispute_opened"})
       \/ d \in when("claim", "awaiting_creator", "creator", {"late_claim_filed"})
       \/ d \in when("refund", "awaiting_destination", "buyer", {"refund_account_needed"})
       \/ d \in when("refund", "awaiting_send", "creator", {"refund_send_due", "refund_resend_required"})
       \/ d \in when("refund", "sent", "buyer", {"refund_sent"})
       \/ \E c \in Cases : d \in when(c, "open", "owner", {"owner_case_opened"})
  <2> DEFINE O == when("order", "requested", "creator", {"order_requested"}) \cup
                  when("order", "quoted", "buyer", {"order_quoted"}) \cup
                  when("order", "awaiting_payment", "buyer", {"order_payment_due"}) \cup
                  when("order", "in_progress", "creator", {"order_in_progress", "draft_responded"}) \cup
                  when("order", "delivered", "buyer", {"order_delivered"})
             P == UNION {when(p, "pending", opposite(by[p]), {"proposal_received"}) : p \in Proposals}
             C == UNION {when(c, "open", "owner", {"owner_case_opened"}) : c \in Cases}
             R == when("dispute", "open", opposite(by["dispute"]), {"dispute_opened"}) \cup
                  when("claim", "awaiting_creator", "creator", {"late_claim_filed"}) \cup
                  when("refund", "awaiting_destination", "buyer", {"refund_account_needed"}) \cup
                  when("refund", "awaiting_send", "creator", {"refund_send_due", "refund_resend_required"}) \cup
                  when("refund", "sent", "buyer", {"refund_sent"})
  <2>1. d \in (IF story # "order" THEN {} ELSE O) \/ d \in P \/ d \in R \/ d \in C
    <3>1. Duties = (IF story # "order" THEN {} ELSE O) \cup P \cup
            when("dispute", "open", opposite(by["dispute"]), {"dispute_opened"}) \cup
            when("claim", "awaiting_creator", "creator", {"late_claim_filed"}) \cup
            when("refund", "awaiting_destination", "buyer", {"refund_account_needed"}) \cup
            when("refund", "awaiting_send", "creator", {"refund_send_due", "refund_resend_required"}) \cup
            when("refund", "sent", "buyer", {"refund_sent"}) \cup C
      BY DEF Duties
    <3> HIDE DEF O, P, C
    <3> QED
      BY <3>1
  <2> QED
    BY <2>1
<1> QED
  BY <1>14, <1>15, <1>16, <1>17, <1>18, <1>19, <1>20, <1>21, <1>22, <1>23, <1>24, <1>25, <1>26

\* However the domain moves and however late its events are consumed, every committed event
\* is still borne out by its rows, and once all are consumed whoever has to act next has the
\* notice of the transaction that made it so (recipients, resolution-events).
THEOREM NoticesSound == NoticeSpec => []NoticesAreRight
<1>1. NoticeInit => NoticeInv
  BY NoticeInitHolds
<1>2. NoticeInv /\ [NoticeNext]_noticeVars => NoticeInv'
  BY NoticeStep
<1>3. NoticeInv => NoticesAreRight
  BY EverybodyIsTold DEF NoticesAreRight, WhoeverMustActIsTold, NoticeInv, Heard
<1> QED
  BY <1>1, <1>2, <1>3, PTL DEF NoticeSpec
=============================================================================
