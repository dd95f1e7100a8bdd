----------------------------- MODULE WorkerLoop -----------------------------
(***************************************************************************)
(* The worker process (apps/worker/src/worker-runtime.ts): it opens its    *)
(* resources, polls, runs its maintenance scans beside the poll or inside  *)
(* it, reports its readiness (worker-health.ts) and closes on SIGTERM.     *)
(*                                                                         *)
(* What a scan does is modelled elsewhere; here a scan starts, and then    *)
(* succeeds, fails, or hangs.  Time is counted in scan intervals.          *)
(***************************************************************************)
EXTENDS Naturals, FiniteSets, Sequences

CONSTANTS
  Configurations,   \* the scans and features a deployment may configure
  MaxAge,           \* intervals a success keeps a scan "up" (scanIntervalMs * 3)
  MaxStuck,         \* bound: closes that throw
  MaxJobs           \* bound: consumers with a job under way

(* Scans the poll awaits, and scans it starts and leaves behind in a       *)
(* `current...` promise.  The scanner probe touches no database.           *)
Inline   == {"refund", "tip", "media", "retention", "oidc"}
Detached == {"commission", "fulfilment", "resolution", "trust",
             "notification", "files", "probe", "sepay"}
Scans    == Inline \cup Detached

\* What the constants stand for: the optional queues are configured apart from the scans.
ASSUME LoopAssumption ==
  /\ Configurations \subseteq SUBSET (Scans \cup {"publicMedia"})
  /\ MaxAge \in Nat \ {0} /\ MaxStuck \in Nat /\ MaxJobs \in Nat

(* One poll: what it awaits in turn.  "launch" starts the detached scans.  *)
PollSteps == <<"refund", "dispatch", "tip", "launch", "media", "retention", "oidc">>

Consumers == {"worker", "mediaWorker", "fileWorker"}
Resources == {"postgres", "producer", "workerConnection", "queue", "mediaQueue", "fileQueue"}
             \cup Consumers

VARIABLES
  configured,   \* what this deployment configures
  stage,        \* of the process: starting, cleanup, failed, running, stopping, stopped
  entry,        \* next entry of the list startup, cleanup or gracefulClose walks
  open,         \* resources that are open
  stuck,        \* resources whose close threw
  forced,       \* the shutdown deadline has passed
  busy,         \* consumers with a job under way
  poll,         \* 0: no poll under way; else the position in PollSteps
  flights,      \* how many runs of each scan are under way
  hung,         \* scans whose run will never return
  since,        \* intervals since the scan last started (last...ScanAt), capped
  ok,           \* intervals since the last success (health state), capped
  pollFresh     \* lastPollSucceededAt is at most ten seconds old

process == <<configured, stage, entry, open, stuck, forced>>
work    == <<poll, flights, hung>>
clocks  == <<since, ok, pollFresh>>
loopVars == <<configured, stage, entry, open, stuck, forced, busy, poll, flights, hung,
              since, ok, pollFresh>>

Has(s) == s \in configured
Never  == MaxAge + 1            \* also the age of a success that has not happened
running == stage = "running"

(* The resources in the order startWorker opens them, the one in which     *)
(* gracefulClose closes them and the one of startupCleanup.  A deployment  *)
(* builds the optional ones it configures; the walks pass over the others. *)
Built(r)     == /\ r \in {"mediaQueue", "mediaWorker"} => Has("publicMedia")
                /\ r \in {"fileQueue", "fileWorker"} => Has("files")
OpenOrder    == <<"postgres", "producer", "workerConnection", "queue", "mediaQueue",
                  "fileQueue", "worker", "mediaWorker", "fileWorker">>
CleanupOrder == <<"mediaWorker", "fileWorker", "worker", "mediaQueue", "fileQueue",
                  "queue", "workerConnection", "producer", "postgres">>
CloseOrder   == <<"mediaWorker", "fileWorker", "worker", "mediaQueue", "fileQueue",
                  "queue", "producer", "workerConnection", "postgres">>

LoopInit ==
  /\ configured \in Configurations
  /\ stage = "starting" /\ entry = 1
  /\ open = {} /\ stuck = {} /\ forced = FALSE /\ busy = {}
  /\ poll = 0 /\ flights = [s \in Scans |-> 0] /\ hung = {}
  /\ since = [s \in Scans |-> 1]
  /\ ok = [s \in Scans |-> Never]
  /\ pollFresh = FALSE

---------------------------------------------------------------------------
(* Startup.                                                                *)

(* The next resource is created and, for the two connections, connected.   *)
openResource ==
  /\ stage = "starting"
  /\ open' = IF Built(OpenOrder[entry]) THEN open \cup {OpenOrder[entry]} ELSE open
  /\ IF entry = Len(OpenOrder) THEN stage' = "running" /\ entry' = 1 /\ poll' = 1
                               ELSE entry' = entry + 1 /\ UNCHANGED <<stage, poll>>
  /\ UNCHANGED <<configured, stuck, forced, busy, flights, hung, clocks>>

(* A constructor throws, or a connection that exists cannot connect.       *)
openFails ==
  /\ stage = "starting" /\ Built(OpenOrder[entry])
  /\ \/ UNCHANGED open
     \/ /\ OpenOrder[entry] \in {"producer", "workerConnection"}
        /\ open' = open \cup {OpenOrder[entry]}
  /\ stage' = "cleanup" /\ entry' = 1
  /\ UNCHANGED <<configured, stuck, forced, busy, work, clocks>>

(* A close throws: the resource stays.                                     *)
closeThrows(r) == /\ r \in open /\ Cardinality(stuck) < MaxStuck
                  /\ stuck' = stuck \cup {r} /\ UNCHANGED open

(* Each resource that was created is disconnected; a failure is swallowed  *)
(* and the walk goes on, then startWorker throws.                          *)
startupCleanup ==
  /\ stage = "cleanup"
  /\ LET r == CleanupOrder[entry] IN
       \/ open' = open \ {r} /\ UNCHANGED stuck
       \/ closeThrows(r)
  /\ IF entry = Len(CleanupOrder) THEN stage' = "failed" /\ entry' = 1
                                  ELSE entry' = entry + 1 /\ UNCHANGED stage
  /\ UNCHANGED <<configured, forced, busy, work, clocks>>

---------------------------------------------------------------------------
(* The poll.                                                               *)

Step == PollSteps[poll]
AtStep(s) == poll > 0 /\ Step = s

(* Due, for a scan that asks whether the worker is still running.          *)
isDue(s)   == Has(s) /\ since[s] >= 1
start(s)   == flights' = [flights EXCEPT ![s] = @ + 1] /\ since' = [since EXCEPT ![s] = 0]
nextStep   == IF poll < Len(PollSteps) THEN poll' = poll + 1 ELSE poll' = 0

(* A scan of the poll starts when it is due; otherwise the poll goes on.   *)
scanOrSkip(s, mayRun) ==
  /\ AtStep(s) /\ flights[s] = 0
  /\ IF isDue(s) /\ mayRun THEN start(s) /\ UNCHANGED poll
                           ELSE nextStep /\ UNCHANGED <<flights, since>>
  /\ UNCHANGED <<process, busy, hung, ok, pollFresh>>

(* The refund scan does not ask, nor do media cleanup and retention: a     *)
(* poll overtaken by a stop still runs them.                               *)
scanRefundWindowsIfDue == scanOrSkip("refund", TRUE)
scanTipExpiryIfDue     == scanOrSkip("tip", running)
scanMediaCleanupIfDue  == scanOrSkip("media", TRUE)
scanRetentionIfDue     == scanOrSkip("retention", TRUE)
scanOidcIfDue          == scanOrSkip("oidc", running)

(* Dispatch and the backlog readings; a failure leaves the poll's own      *)
(* success time where it was.                                              *)
dispatch(succeeds) ==
  /\ AtStep("dispatch")
  /\ pollFresh' = (pollFresh \/ (succeeds /\ running))
  /\ nextStep
  /\ UNCHANGED <<process, busy, flights, hung, since, ok>>

(* The detached scans the poll starts: due, the worker not stopping, and   *)
(* no earlier run of the scan still under way (`if (!current...)`).        *)
launchDue == {s \in Detached : isDue(s) /\ running /\ flights[s] = 0}

launch ==
  /\ AtStep("launch")
  /\ flights' = [s \in Scans |-> IF s \in launchDue THEN flights[s] + 1 ELSE flights[s]]
  /\ since' = [s \in Scans |-> IF s \in launchDue THEN 0 ELSE since[s]]
  /\ nextStep
  /\ UNCHANGED <<process, busy, hung, ok, pollFresh>>

---------------------------------------------------------------------------
(* How a run of a scan ends.                                               *)

(* Inline scans record the time they started as the time of success, the   *)
(* detached ones the time they ended; the others leave no health record.   *)
Recorded(s) == CASE s \in {"retention", "probe"} -> ok[s]
                 [] s \in Inline -> since[s]
                 [] OTHER -> 0

ends(s, succeeds) ==
  /\ flights[s] > 0 /\ s \notin hung
  /\ flights' = [flights EXCEPT ![s] = @ - 1]
  /\ ok' = IF succeeds /\ running THEN [ok EXCEPT ![s] = Recorded(s)] ELSE ok
  /\ IF s \in Inline THEN nextStep ELSE UNCHANGED poll
  /\ UNCHANGED <<process, busy, hung, since, pollFresh>>

(* A run waits for an answer that never comes.                             *)
hangs(s) ==
  /\ flights[s] > 0 /\ hung = {}
  /\ hung' = {s}
  /\ UNCHANGED <<process, busy, poll, flights, clocks>>

(* setTimeout(runPoll, POLL_INTERVAL_MS), armed only while running.        *)
runPoll ==
  /\ running /\ poll = 0
  /\ poll' = 1
  /\ UNCHANGED <<process, busy, flights, hung, clocks>>

(* A consumer takes a job and finishes it (BullMQ).                        *)
takeJob(w) == /\ w \in open \ busy /\ stage \in {"running", "stopping"}
              /\ Cardinality(busy) < MaxJobs
              /\ busy' = busy \cup {w} /\ UNCHANGED <<process, work, clocks>>
endJob(w)  == w \in busy /\ busy' = busy \ {w} /\ UNCHANGED <<process, work, clocks>>

---------------------------------------------------------------------------
(* Time and readiness.                                                     *)

Older(age, cap) == IF age < cap THEN age + 1 ELSE cap

interval ==
  /\ running
  /\ since' = [s \in Scans |-> Older(since[s], 1)]
  /\ ok' = [s \in Scans |-> IF Has(s) THEN Older(ok[s], Never) ELSE ok[s]]
  /\ <<since', ok'>> # <<since, ok>>
  /\ UNCHANGED <<process, busy, work, pollFresh>>

(* Ten seconds pass in which no poll succeeds.                             *)
pollStale ==
  /\ running /\ pollFresh /\ pollFresh' = FALSE
  /\ UNCHANGED <<process, busy, work, since, ok>>

isFresh(s) == ok[s] <= MaxAge

(* The scans whose health record readiness asks for.                       *)
ReadinessScans == Scans \ {"retention", "probe", "notification"}

(* initialized && poll up && every configured scan up; media cleanup must  *)
(* be up, not merely not down.                                             *)
ready ==
  /\ running /\ pollFresh
  /\ \A s \in ReadinessScans : Has(s) => isFresh(s)
  /\ Has("media")

---------------------------------------------------------------------------
(* Shutdown.                                                               *)

(* SIGTERM or stop(): later calls share the first one's promise.  The      *)
(* poll timer is cleared and the scanner probe aborted.  Readiness is down *)
(* from here on (stopping), so the health records are forgotten.           *)
stop ==
  /\ running
  /\ stage' = "stopping" /\ entry' = 1
  /\ ok' = [s \in Scans |-> Never] /\ pollFresh' = FALSE
  /\ UNCHANGED <<configured, open, stuck, forced, busy, work, since>>

(* Fault model of settled: the commission file scan is not awaited.        *)
settledButFiles == poll = 0 /\ \A s \in Detached \ {"probe", "files"} : flights[s] = 0

(* gracefulClose first awaits the poll and then every detached scan but    *)
(* the probe, which it has aborted.                                        *)
settled == poll = 0 /\ \A s \in Detached \ {"probe"} : flights[s] = 0

(* The next resource is closed; a consumer's close waits for its job.      *)
(* A close that throws is logged and the walk goes on.                     *)
gracefulClose ==
  /\ stage \in {"stopping", "stopped"} /\ entry <= Len(CloseOrder)
  /\ settled
  /\ LET r == CloseOrder[entry] IN
       \/ /\ r \in Consumers => r \notin busy
          /\ open' = open \ {r} /\ UNCHANGED stuck
       \/ closeThrows(r)
  /\ entry' = entry + 1
  /\ stage' = IF entry = Len(CloseOrder) THEN "stopped" ELSE stage
  /\ UNCHANGED <<configured, forced, busy, work, clocks>>

(* The deadline: everything is disconnected at once, without waiting; a    *)
(* disconnect that throws leaves its resource.                             *)
shutdownTimeout ==
  /\ stage = "stopping"
  /\ stage' = "stopped" /\ forced' = TRUE
  /\ \E left \in {{}} \cup {{r} : r \in open} :
       /\ Cardinality(stuck \cup left) <= MaxStuck
       /\ open' = left /\ stuck' = stuck \cup left
  /\ UNCHANGED <<configured, entry, busy, work, clocks>>

LoopNext ==
  \/ openResource \/ openFails \/ startupCleanup
  \/ scanRefundWindowsIfDue \/ scanTipExpiryIfDue \/ scanMediaCleanupIfDue
  \/ scanRetentionIfDue \/ scanOidcIfDue
  \/ \E b \in BOOLEAN : dispatch(b)
  \/ launch \/ runPoll
  \/ \E s \in Scans : hangs(s) \/ \E b \in BOOLEAN : ends(s, b)
  \/ \E w \in Consumers : takeJob(w) \/ endJob(w)
  \/ interval \/ pollStale
  \/ stop \/ gracefulClose \/ shutdownTimeout

(* Fairness: timers fire (the event loop is never blocked: every wait is a *)
(* promise), so time passes and the shutdown deadline comes.               *)
LoopSpec == /\ LoopInit /\ [][LoopNext]_loopVars
            /\ WF_loopVars(interval) /\ WF_loopVars(pollStale) /\ WF_loopVars(shutdownTimeout)

---------------------------------------------------------------------------
\* Every variable of the loop keeps its range, whatever is opened, scanned or closed.
LoopTypeOK ==
  /\ configured \in Configurations
  /\ stage \in {"starting", "cleanup", "failed", "running", "stopping", "stopped"}
  /\ open \cup stuck \subseteq Resources /\ forced \in BOOLEAN
  /\ busy \subseteq Consumers /\ hung \subseteq Scans
  /\ poll \in 0 .. Len(PollSteps) /\ flights \in [Scans -> Nat] /\ pollFresh \in BOOLEAN
  /\ since \in [Scans -> 0 .. 1] /\ ok \in [Scans -> 0 .. Never]

(* No scan runs beside itself, in the poll or behind it, whatever is slow: *)
(* the sweeps are written to be restarted, not to be run twice at once.    *)
OneRunAtATime == \A s \in Scans : flights[s] <= 1

(* A shutdown within its deadline closes a resource only after its users:  *)
(* the database closes after every poll, scan and job; a connection after  *)
(* its queues and consumers, unless closing one of those threw.  And a     *)
(* startup that fails leaves nothing open but what it could not close.     *)
UsersFinished ==
  /\ stage \in {"stopping", "stopped"} /\ ~forced /\ "postgres" \notin open =>
       /\ poll = 0 /\ \A s \in Scans \ {"probe"} : flights[s] = 0
       /\ busy \subseteq stuck
       /\ open \subseteq stuck
  /\ stage = "failed" => open \subseteq stuck

\* A schedule runs once at a time, and what a consumer uses is closed after it
\* (launchDue, shutdown).
UsersCloseFirst == LoopTypeOK /\ OneRunAtATime /\ UsersFinished

(* stop() ends, whatever hangs; and a scan that hangs takes the worker's   *)
(* readiness away for good, so that the platform replaces the process: no  *)
(* later poll restarts a scan whose promise never settles.                 *)
HangsAreNoticed ==
  /\ []<>(stage # "stopping")
  /\ <>[](hung \cap ReadinessScans = {} \/ ~ready)
=============================================================================
