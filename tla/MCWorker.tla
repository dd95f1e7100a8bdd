------------------------------- MODULE MCWorker -------------------------------
(***************************************************************************)
(* The worker process for TLC: the outbox with its queue, and the loop     *)
(* that schedules the scans and shuts the process down.  They share no     *)
(* state, so `part` chooses the one a behaviour is about, the other stays  *)
(* as it begins, and their state spaces add instead of multiply.           *)
(*   batch:    two events, two dispatchers, one job processor              *)
(*   delivery: one event, two processors and more faults, under fairness   *)
(*   loop:     deployments that differ in what they configure: each has    *)
(*             the media cleanup readiness asks for and some other scans   *)
(***************************************************************************)
EXTENDS Outbox, WorkerLoop

CONSTANTS w1, w2, p1, p2

VARIABLE part

mcVars == <<part, vars, loopVars>>

MCInit ==
  /\ part \in {"batch", "delivery", "loop"}
  /\ Init /\ LoopInit
  /\ part # "loop" => configured = {"media", "commission"}

BatchBound    == faults' <= 1 /\ phase'[p2] = "idle"
DeliveryBound == row'[2] = "absent"

OutboxOnly == UNCHANGED <<part, loopVars>>
LoopOnly == part = "loop" /\ UNCHANGED <<part, vars>>
Delivers(A) == part = "delivery" /\ A /\ OutboxOnly
Loops(A) == LoopOnly /\ A

MCNext ==
  \/ part = "batch" /\ Next /\ BatchBound /\ OutboxOnly
  \/ part = "delivery" /\ Next /\ DeliveryBound /\ OutboxOnly
  \/ LoopNext /\ LoopOnly

\* The fairness of Outbox and of WorkerLoop: a behaviour is about one of them,
\* so a conjunct may name one action of either.
MCSpec ==
  /\ MCInit /\ [][MCNext]_mcVars
  /\ WF_mcVars(Delivers(DispatchStep(w1)) \/ Loops(interval))
  /\ WF_mcVars(Delivers(DispatchStep(w2)) \/ Loops(pollStale))
  /\ WF_mcVars(Delivers(ProcStep(p1)) \/ Loops(shutdownTimeout))
  /\ WF_mcVars(Delivers(ProcStep(p2)))
  /\ WF_mcVars(Delivers(TimePasses(1)))
  /\ WF_mcVars(Delivers(RecoverStalledJob(1)))

\* At-least-once delivery, under the fairness of Outbox.
EventIsPublished == []<>(part = "delivery" => row[1] # "pending")

\* Work goes on or is seen to hang: every event is published in the end, and a scan
\* that hangs makes the worker not ready and restart (dispatchBatch, recoverOutbox,
\* isFresh).
WorkGoesOn == EventIsPublished /\ HangsAreNoticed
=============================================================================
