------------------------------- MODULE MCSePay -------------------------------
(***************************************************************************)
(* What has to end, for TLC: a connection to SePay and its token refresh,  *)
(* the review of receipts, and the processing of a creator's media.  They  *)
(* share no state, so `part` chooses the one a behaviour is about, the     *)
(* others stay as they begin, and their state spaces add.                  *)
(*   connection: two refreshing workers and one binding                    *)
(*   review:     a scanner and a creator's decisions on two receipts, one  *)
(*               of them foreign to the intent                             *)
(*   media:      one asset, two workers, no catalog page that refers to it *)
(***************************************************************************)
EXTENDS SePayConnection, PublicMedia

CONSTANTS r1, r2, x, y, e1, e2, n, s1, d1, NoProc, NoItem, a1, w1, w2

VARIABLES
  part,
  booked, receipt, attempts, owner, claimLease, order, conflicts, intent, reserved, connection,
  automated, fresh, step, item, todo, inboxFaults, changes, decisions

Inbox == INSTANCE SePayInbox WITH
  status <- receipt, lease <- claimLease, automation <- automated, pc <- step,
  faults <- inboxFaults,
  Items <- {e1, e2}, Intents <- {n}, IntentOf <- [i \in {e1, e2} |-> n], Ignored <- {e2},
  Exact <- {e1}, Scanners <- {s1}, Jobs <- {}, Reviewers <- {d1}, MaxAttempts <- 1,
  AttemptCap <- 6, MaxFaults <- 1, MaxChanges <- 1, MaxDecisions <- 2

inboxVars == <<booked, receipt, attempts, owner, claimLease, order, conflicts, intent, reserved,
               connection, automated, fresh, step, item, todo, inboxFaults, changes, decisions>>
mcVars == <<part, vars, inboxVars, mediaVars>>

MCRuns == {r1, r2}
MCAccounts == {x, y}
MCWorkers == {w1, w2}

MCInit ==
  /\ part \in {"connection", "review", "media"}
  /\ Init /\ Inbox!Init /\ MediaInit
  /\ part # "review" => automated = "on"

NoRefs == [draft |-> {}, revisions |-> {}, live |-> {}]
MediaNext ==
  \/ \E a \in Assets : createUploadIntent(a) \/ completeUpload(a, TRUE)
  \/ \E w \in Workers : processing(w)
  \/ processingFaults \/ queueSteps \/ cleanupSteps(NoRefs, {})

Connects(A) == part = "connection" /\ A /\ UNCHANGED <<part, inboxVars, mediaVars>>
Reviews(A)  == part = "review" /\ A /\ UNCHANGED <<part, vars, mediaVars>>
Processes(A) == part = "media" /\ A /\ UNCHANGED <<part, vars, inboxVars>>

MCNext ==
  \/ part = "connection" /\ Next /\ UNCHANGED <<part, inboxVars, mediaVars>>
  \/ part = "review" /\ Inbox!Next /\ UNCHANGED <<part, vars, mediaVars>>
  \/ part = "media" /\ MediaNext /\ UNCHANGED <<part, vars, inboxVars>>

\* The fairness of SePayConnection, of SePayInbox and of the media workers: they
\* go on with what they do, the queue delivers, leases lapse, and a job whose
\* worker died is found by the stall check.  A behaviour is about one of them,
\* so a conjunct may name one action of each.
MCSpec ==
  /\ MCInit /\ [][MCNext]_mcVars
  /\ WF_mcVars(\/ Connects(LeaseExpires) \/ Reviews(Inbox!LeaseExpires(e1))
               \/ Processes(leaseLapses(a1)))
  /\ WF_mcVars(\/ Connects(Prepare(r1)) \/ Reviews(Inbox!LeaseExpires(e2))
               \/ Processes(processing(w1)))
  /\ WF_mcVars(\/ Connects(Prepare(r2)) \/ Reviews(Inbox!RecoverDue(s1))
               \/ Processes(processing(w2)))
  /\ WF_mcVars(\/ Connects(Present(r1) \/ Store(r1) \/ Abandon(r1))
               \/ Reviews(Inbox!RecoverNext(s1))
               \/ Processes(claimAssetSettled(a1) \/ claimAssetExhausted(a1)))
  /\ WF_mcVars(\/ Connects(Present(r2) \/ Store(r2) \/ Abandon(r2))
               \/ Reviews(Inbox!Lookup(s1) \/ Inbox!Confirm(s1) \/ Inbox!Disposition(s1))
               \/ Processes(jobStalls(a1) /\ \A w \in Workers : work[w] = Idle))
  /\ WF_mcVars(Reviews(Inbox!Lookup(d1) \/ Inbox!Confirm(d1) \/ Inbox!Disposition(d1)))
  /\ WF_mcVars(Reviews(Inbox!DelayPasses(e1))) /\ WF_mcVars(Reviews(Inbox!DelayPasses(e2)))

\* The triggers accept every step on connections and assets, also of runs and attempts
\* that come back late, and a dismissed receipt stays dismissed (sepay-service,
\* sepay-reconciliation, media-worker).
StepsAreAccepted ==
  ConnectionGuardsAccept /\ Inbox!DismissalStands /\ LifecycleGuardsAccept

\* Work that was taken on resolves: a dead renewal's lease, a receipt under way and an
\* asset in processing (access, recoverDue, claimAsset, recoverStalled).
WorkResolves == DeadLeaseResolves /\ Inbox!ReceiptsStayRecoverable /\ AssetSettles
=============================================================================
