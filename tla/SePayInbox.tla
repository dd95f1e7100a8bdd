------------------------------- MODULE SePayInbox -------------------------------
(***************************************************************************)
(* Bank transfers reported by SePay: the durable inbox of webhook events,   *)
(* the reconciliation of an event with its payment intent by the worker's   *)
(* jobs and recovery scan and by the creator's review, and the decisions of *)
(* the creator.                                                            *)
(*                                                                         *)
(* A reconciliation is a claim, a lookup at the provider and a confirming    *)
(* or disposing transaction; everything else runs in between.  Versions of   *)
(* rows and the idempotency record only refuse commands.  All rows belong    *)
(* to one connection.                                                       *)
(***************************************************************************)
EXTENDS Naturals, Sequences

CONSTANTS Items,         \* provider events, by provider event id
          Intents,       \* payment intents in the provider lane
          IntentOf,      \* the intent whose reference an event carries
          Ignored,       \* events that are outgoing, mock, or without a reference of ours
          Exact,         \* events whose amount, destination and time match their intent
          Scanners, Jobs, Reviewers,  \* runs of process()
          MaxAttempts,   \* maxAttempts of automatic retries
          AttemptCap,    \* the 100 attempts of a row
          MaxFaults,     \* bound on crashes
          MaxChanges,    \* bound on changes of the connection
          MaxDecisions,  \* bound on the creator's commands
          NoProc, NoItem

Procs == Scanners \cup Jobs \cup Reviewers

ASSUME SePayAssumptions ==
  /\ IntentOf \in [Items -> Intents] /\ Ignored \subseteq Items /\ Exact \subseteq Items
  /\ NoProc \notin Procs /\ NoItem \notin Items
  /\ Scanners \cap (Jobs \cup Reviewers) = {} /\ Jobs \cap Reviewers = {}
  /\ MaxAttempts \in Nat \ {0} /\ AttemptCap \in Nat \ {0}
  /\ MaxFaults \in Nat /\ MaxChanges \in Nat /\ MaxDecisions \in Nat

VARIABLES
  booked,       \* transfers that the provider shows
  status,       \* paymentsSepayProcessing, "none" before the event was received
  attempts, owner, lease,
  order,        \* rows whose availableAt has come, oldest first
  conflicts,    \* rows with a contradictory replay
  intent,       \* payment intents
  reserved,     \* paymentsSepayTransactions: the transfers that were used
  connection, automation,
  fresh,        \* runs whose connection version and revision are still current
  pc, item,     \* the runs of process()
  todo,         \* the rows a recovery scan has selected
  faults, changes, decisions

rowVars  == <<status, attempts, owner, lease, order>>
connVars == <<connection, automation, changes>>
payVars  == <<intent, reserved>>
procVars == <<fresh, pc, item, todo>>
vars == <<booked, rowVars, conflicts, payVars, connVars, procVars, faults, decisions>>

Init ==
  /\ booked = {} /\ conflicts = {} /\ reserved = {} /\ order = <<>>
  /\ status = [i \in Items |-> "none"] /\ attempts = [i \in Items |-> 0]
  /\ owner = [i \in Items |-> NoProc] /\ lease = [i \in Items |-> "none"]
  /\ intent = [n \in Intents |-> "awaiting_transfer"]
  /\ connection = "ready" /\ automation \in {"on", "off"}
  /\ fresh = {} /\ pc = [p \in Procs |-> "idle"] /\ item = [p \in Procs |-> NoItem]
  /\ todo = [s \in Scanners |-> <<>>]
  /\ faults = 0 /\ changes = 0 /\ decisions = 0

Without(i) == SelectSeq(order, LAMBDA j : j # i)
DueNow(i)  == order' = Append(Without(i), i)
DueLater(i) == order' = Without(i)
IsDue(i) == \E k \in 1..Len(order) : order[k] = i
---------------------------------------------------------------------------
(* Ingress. *)

\* The bank books a transfer.
Transfer(i) ==
  /\ i \notin Ignored /\ i \notin booked /\ booked' = booked \cup {i}
  /\ UNCHANGED <<rowVars, conflicts, payVars, connVars, procVars, faults, decisions>>

\* receive: first evidence of an event; equal repetitions change nothing.
Receive(i) ==
  /\ connection # "disconnected" /\ status[i] = "none" /\ i \in booked \cup Ignored
  /\ status' = [status EXCEPT ![i] = IF i \in Ignored THEN "ignored" ELSE "pending"]
  /\ DueNow(i)
  /\ UNCHANGED <<booked, attempts, owner, lease, conflicts, payVars, connVars, procVars, faults,
                 decisions>>

\* Fault model of ReceiveContradiction: settled rows are reopened as well.
ReceiveContradictionAlways(i) ==
  /\ connection # "disconnected" /\ status[i] # "none"
  /\ conflicts' = conflicts \cup {i}
  /\ status' = [status EXCEPT ![i] = "review_required"]
  /\ owner' = [owner EXCEPT ![i] = NoProc] /\ lease' = [lease EXCEPT ![i] = "none"]
  /\ UNCHANGED <<attempts, order>>
  /\ UNCHANGED <<booked, payVars, connVars, procVars, faults, decisions>>

\* receive: another payload under the same provider id, new or repeated.
ReceiveContradiction(i) ==
  /\ connection # "disconnected" /\ status[i] # "none"
  /\ conflicts' = conflicts \cup {i}
  /\ IF status[i] \in {"confirmed", "dismissed"}
     THEN UNCHANGED rowVars
     ELSE /\ status' = [status EXCEPT ![i] = "review_required"]
          /\ owner' = [owner EXCEPT ![i] = NoProc] /\ lease' = [lease EXCEPT ![i] = "none"]
          /\ UNCHANGED <<attempts, order>>
  /\ UNCHANGED <<booked, payVars, connVars, procVars, faults, decisions>>
---------------------------------------------------------------------------
(* Reconciliation: process(). *)

\* The row may be claimed: pending and due, or left behind by a run that is gone;
\* in review only by the creator.
Takeable(p, i) ==
  /\ i \notin Ignored
  /\ \/ status[i] = "pending" /\ (IsDue(i) \/ p \in Reviewers)
     \/ status[i] = "processing" /\ lease[i] = "expired" /\ (IsDue(i) \/ p \in Reviewers)
     \/ status[i] = "review_required" /\ p \in Reviewers

\* The claiming transaction; the connection is judged as it is now.
Claim(p, i) ==
  /\ attempts[i] < AttemptCap
  /\ status' = [status EXCEPT ![i] = "processing"]
  /\ owner' = [owner EXCEPT ![i] = p] /\ lease' = [lease EXCEPT ![i] = "live"]
  /\ attempts' = [attempts EXCEPT ![i] = @ + 1]
  /\ item' = [item EXCEPT ![p] = i]
  /\ pc' = [pc EXCEPT ![p] =
              IF connection = "ready" /\ (automation = "on" \/ p \in Reviewers)
              THEN "claimed" ELSE "refused"]
  /\ UNCHANGED <<order, fresh>>

\* processInbox: the outbox delivers the event of an accepted row, at least once.
ProcessInbox(p, i) ==
  /\ p \in Jobs /\ pc[p] = "idle" /\ Takeable(p, i) /\ Claim(p, i)
  /\ UNCHANGED <<booked, conflicts, payVars, connVars, todo, faults, decisions>>

\* confirmReviewed: the creator attests and a fresh lookup has to agree.
ConfirmReviewed(p, i) ==
  /\ p \in Reviewers /\ pc[p] = "idle" /\ Takeable(p, i) /\ Claim(p, i)
  /\ decisions < MaxDecisions /\ decisions' = decisions + 1
  /\ UNCHANGED <<booked, conflicts, payVars, connVars, todo, faults>>

\* recoverDue selects the due rows, the oldest first.
RecoverDue(s) ==
  /\ pc[s] = "idle" /\ todo[s] = <<>>
  /\ LET Selected(i) == \/ status[i] = "pending"
                        \/ status[i] = "processing" /\ lease[i] = "expired"
         rows == SelectSeq(order, Selected)
     IN rows # <<>> /\ todo' = [todo EXCEPT ![s] = rows]
  /\ UNCHANGED <<booked, rowVars, conflicts, payVars, connVars, fresh, pc, item, faults, decisions>>

\* Fault model of RecoverNext: a row is claimed on the word of the selection.
RecoverNextUnchecked(s) ==
  /\ pc[s] = "idle" /\ todo[s] # <<>>
  /\ \E i \in {Head(todo[s])} :
       \/ attempts[i] < AttemptCap /\ Claim(s, i) /\ todo' = [todo EXCEPT ![s] = Tail(@)]
       \/ attempts[i] >= AttemptCap
          /\ todo' = [todo EXCEPT ![s] = <<>>] /\ UNCHANGED <<rowVars, fresh, pc, item>>
  /\ UNCHANGED <<booked, conflicts, payVars, connVars, faults, decisions>>

\* recoverDue takes its next row: a row that changed is skipped, a row at its cap
\* throws and ends the scan, and the time budget ends it after any row.
RecoverNext(s) ==
  /\ pc[s] = "idle" /\ todo[s] # <<>>
  /\ \E i \in Items :
       /\ i = Head(todo[s])
       /\ \/ /\ Takeable(s, i) /\ Claim(s, i)
             /\ \E rest \in {Tail(todo[s]), <<>>} : todo' = [todo EXCEPT ![s] = rest]
          \/ /\ Takeable(s, i) /\ attempts[i] >= AttemptCap
             /\ todo' = [todo EXCEPT ![s] = <<>>] /\ UNCHANGED <<rowVars, fresh, pc, item>>
          \/ /\ ~Takeable(s, i)
             /\ todo' = [todo EXCEPT ![s] = Tail(@)] /\ UNCHANGED <<rowVars, fresh, pc, item>>
  /\ UNCHANGED <<booked, conflicts, payVars, connVars, faults, decisions>>

\* matchSePayTip on the lookup: the event's transfer, and no other with its reference.
Matched(i) ==
  /\ i \in Exact
  /\ {j \in booked : j = i \/ IntentOf[j] = IntentOf[i]} = {i}

\* The intent is pending, the connection gives access, the provider answers or fails.
Lookup(p) ==
  /\ pc[p] = "claimed"
  /\ \/ /\ connection = "ready" /\ intent[IntentOf[item[p]]] = "awaiting_transfer"
        /\ Matched(item[p])
        /\ pc' = [pc EXCEPT ![p] = "matched"] /\ fresh' = fresh \cup {p}
     \/ /\ \/ connection # "ready" \/ intent[IntentOf[item[p]]] # "awaiting_transfer"
           \/ ~Matched(item[p])
        /\ pc' = [pc EXCEPT ![p] = "refused"] /\ UNCHANGED fresh
     \/ \E outcome \in {"retry", "refused"} :
          pc' = [pc EXCEPT ![p] = outcome] /\ UNCHANGED fresh
  /\ UNCHANGED <<booked, rowVars, conflicts, payVars, connVars, item, todo, faults, decisions>>

\* Fault model of MayConfirm: the intent is taken as it was at the lookup.
MayConfirmStale(p, i) ==
  /\ p \in fresh /\ connection = "ready" /\ (automation = "on" \/ p \in Reviewers)
  /\ i \notin conflicts /\ i \notin reserved
  /\ status[i] = "processing" /\ owner[i] = p /\ lease[i] = "live"

\* What the confirming transaction checks again under its locks.
MayConfirm(p, i) ==
  /\ p \in fresh /\ connection = "ready" /\ (automation = "on" \/ p \in Reviewers)
  /\ intent[IntentOf[i]] = "awaiting_transfer" /\ i \notin conflicts /\ i \notin reserved
  /\ status[i] = "processing" /\ owner[i] = p /\ lease[i] = "live"

\* The confirming transaction: reservation, confirmation, intent and row together;
\* otherwise nothing, and the run disposes of the row.
Confirm(p) ==
  /\ pc[p] = "matched" /\ fresh' = fresh \ {p}
  /\ \/ /\ MayConfirm(p, item[p])
        /\ reserved' = reserved \cup {item[p]}
        /\ intent' = [intent EXCEPT ![IntentOf[item[p]]] = "confirmed"]
        /\ status' = [status EXCEPT ![item[p]] = "confirmed"]
        /\ owner' = [owner EXCEPT ![item[p]] = NoProc]
        /\ lease' = [lease EXCEPT ![item[p]] = "none"]
        /\ pc' = [pc EXCEPT ![p] = "idle"] /\ item' = [item EXCEPT ![p] = NoItem]
     \/ /\ ~MayConfirm(p, item[p])
        /\ pc' = [pc EXCEPT ![p] = "refused"]
        /\ UNCHANGED <<payVars, status, owner, lease, item>>
     \/ /\ faults < MaxFaults \* the database fails
        /\ pc' = [pc EXCEPT ![p] = "retry"]
        /\ UNCHANGED <<payVars, status, owner, lease, item>>
  /\ UNCHANGED <<booked, attempts, order, conflicts, connVars, todo, faults, decisions>>

\* Fault model of Holds: the row is written by anyone who once claimed it.
HoldsStatus(p, i) == status[i] = "processing"

\* The condition of disposition's update.
Holds(p, i) == status[i] = "processing" /\ owner[i] = p

\* disposition: retry later while attempts are left, else review.  A run that lost
\* the row changes nothing.
Disposition(p) ==
  /\ pc[p] \in {"refused", "retry"}
  /\ LET i == item[p]
         again == pc[p] = "retry" /\ attempts[i] < MaxAttempts /\ p \notin Reviewers
     IN IF Holds(p, i)
        THEN /\ status' = [status EXCEPT ![i] = IF again THEN "pending" ELSE "review_required"]
             /\ owner' = [owner EXCEPT ![i] = NoProc] /\ lease' = [lease EXCEPT ![i] = "none"]
             /\ IF pc[p] = "retry" THEN DueLater(i) ELSE DueNow(i)
             /\ UNCHANGED attempts
        ELSE UNCHANGED rowVars
  /\ pc' = [pc EXCEPT ![p] = "idle"] /\ item' = [item EXCEPT ![p] = NoItem]
  /\ UNCHANGED <<booked, conflicts, payVars, connVars, fresh, todo, faults, decisions>>

\* A process dies, or an update of its own throws: the row keeps its lease.
Crash(p) ==
  /\ faults < MaxFaults /\ faults' = faults + 1
  /\ pc[p] # "idle"
  /\ pc' = [pc EXCEPT ![p] = "idle"] /\ item' = [item EXCEPT ![p] = NoItem]
  /\ fresh' = fresh \ {p}
  /\ todo' = [s \in Scanners |-> IF s = p THEN <<>> ELSE todo[s]]
  /\ UNCHANGED <<booked, rowVars, conflicts, payVars, connVars, decisions>>
---------------------------------------------------------------------------
(* The creator's decisions. *)

\* decide: retry and dismiss what is in review, reopen what was dismissed.
Decide(i, action) ==
  /\ decisions < MaxDecisions /\ decisions' = decisions + 1
  /\ i \notin Ignored
  /\ status[i] = IF action = "reopen" THEN "dismissed" ELSE "review_required"
  /\ status' = [status EXCEPT ![i] =
                  CASE action = "retry" -> "pending"
                    [] action = "dismiss" -> "dismissed"
                    [] action = "reopen" -> "review_required"]
  /\ DueNow(i)
  /\ UNCHANGED <<booked, attempts, owner, lease, conflicts, payVars, connVars, procVars, faults>>
---------------------------------------------------------------------------
(* Everything else moves on. *)

\* change, start, and refresh: every change of the connection has a new version.
ConnectionChanges ==
  /\ changes < MaxChanges /\ changes' = changes + 1
  /\ connection' \in {"ready", "paused", "disconnected"}
  /\ automation' \in IF automation = "on" THEN {"on"} ELSE {"on", "off"}
  /\ fresh' = {}
  /\ UNCHANGED <<booked, rowVars, conflicts, payVars, pc, item, todo, faults, decisions>>

\* expireDue of the intents.
IntentExpires(n) ==
  /\ intent[n] = "awaiting_transfer" /\ intent' = [intent EXCEPT ![n] = "expired"]
  /\ UNCHANGED <<booked, rowVars, conflicts, reserved, connVars, procVars, faults, decisions>>

\* leaseExpiresAt passes, whatever the run is doing.
LeaseExpires(i) ==
  /\ lease[i] = "live" /\ lease' = [lease EXCEPT ![i] = "expired"]
  /\ UNCHANGED <<booked, status, attempts, owner, order, conflicts, payVars, connVars, procVars,
                 faults, decisions>>

\* availableAt of a deferred row comes.
DelayPasses(i) ==
  /\ status[i] # "none" /\ ~IsDue(i) /\ DueNow(i)
  /\ UNCHANGED <<booked, status, attempts, owner, lease, conflicts, payVars, connVars, procVars,
                 faults, decisions>>

Next ==
  \/ \E i \in Items :
       \/ Transfer(i) \/ Receive(i) \/ ReceiveContradiction(i)
       \/ LeaseExpires(i) \/ DelayPasses(i)
       \/ \E a \in {"retry", "dismiss", "reopen"} : Decide(i, a)
       \/ \E p \in Procs : ProcessInbox(p, i) \/ ConfirmReviewed(p, i)
  \/ \E s \in Scanners : RecoverDue(s) \/ RecoverNext(s)
  \/ \E p \in Procs : Lookup(p) \/ Confirm(p) \/ Disposition(p) \/ Crash(p)
  \/ \E n \in Intents : IntentExpires(n)
  \/ ConnectionChanges

Spec == Init /\ [][Next]_vars

\* Scans repeat, a run goes on unless it crashes, leases and delays run out; the
\* bank, the provider and the creator owe nothing.
FairSpec ==
  /\ Spec
  /\ \A s \in Scanners : WF_vars(RecoverDue(s)) /\ WF_vars(RecoverNext(s))
  /\ \A p \in Procs : WF_vars(Lookup(p) \/ Confirm(p) \/ Disposition(p))
  /\ \A i \in Items : WF_vars(LeaseExpires(i)) /\ WF_vars(DelayPasses(i))
---------------------------------------------------------------------------
(* Properties. *)

\* The columns of the row and the runs.
TypeOK ==
  /\ booked \subseteq Items /\ conflicts \subseteq Items /\ reserved \subseteq Items
  /\ status \in [Items -> {"none", "pending", "processing", "review_required", "confirmed",
                           "ignored", "dismissed"}]
  /\ attempts \in [Items -> 0..AttemptCap]
  /\ owner \in [Items -> Procs \cup {NoProc}] /\ lease \in [Items -> {"none", "live", "expired"}]
  /\ order \in Seq(Items)
  /\ intent \in [Intents -> {"awaiting_transfer", "confirmed", "expired"}]
  /\ connection \in {"ready", "paused", "disconnected"} /\ automation \in {"on", "off"}
  /\ fresh \subseteq Procs
  /\ pc \in [Procs -> {"idle", "claimed", "matched", "refused", "retry"}]
  /\ item \in [Procs -> Items \cup {NoItem}]
  /\ todo \in [Scanners -> Seq(Items)]
  /\ faults \in Nat /\ changes \in Nat /\ decisions \in Nat

\* One transfer settles one intent: an intent is confirmed exactly when one transfer
\* is reserved for it, and that transfer's row says so, whoever raced for it.
OneTransferPerIntent ==
  /\ \A n \in Intents :
       LET used == {i \in reserved : IntentOf[i] = n} IN
         /\ intent[n] = "confirmed" <=> used # {}
         /\ \A i, j \in used : i = j
  /\ \A i \in Items : status[i] = "confirmed" <=> i \in reserved

\* An intent that was confirmed or expired during a lookup is not confirmed by the
\* answer that comes back late.
ClosedIntentStays ==
  [][\A n \in Intents : intent[n] # "awaiting_transfer" => intent'[n] = intent[n]]_vars

\* A lease names the run that may write the row, and only while it is processed.
LeaseFollowsStatus ==
  \A i \in Items :
    /\ status[i] = "processing" <=> owner[i] # NoProc
    /\ status[i] = "processing" <=> lease[i] # "none"

\* Contradicted evidence settles nothing afterwards, not even with the creator's word.
ContradictionBlocks ==
  [][\A i \in Items : i \in conflicts /\ i \notin reserved => i \notin reserved']_vars

\* A run that lost its row to another run, a contradiction or a decision leaves the
\* row alone, also when its lookup comes back late.
LateRunChangesNothing ==
  [][\A p \in Procs :
       /\ pc[p] \in {"matched", "refused", "retry"} /\ pc'[p] = "idle" /\ owner[item[p]] # p
       => UNCHANGED <<rowVars, payVars>>]_vars

\* The creator's dismissal stands until the creator reopens it.
DismissalStands ==
  [][\A i \in Items : status[i] = "dismissed" => status'[i] = "dismissed" \/ decisions' = decisions + 1]_vars

\* Every accepted receipt is decided or waits for the creator in the end.
ReceiptsStayRecoverable ==
  \A i \in Items :
    []<>(status[i] \notin {"pending", "processing"})

\* Transfers, intents and rows agree: an intent and its transfer are confirmed
\* together, and a row has an owner exactly while a run may write it (process,
\* disposition, receive).
TransfersAgree == OneTransferPerIntent /\ LeaseFollowsStatus

\* What was settled or contradicted stays so: late answers, lost leases and repeated
\* evidence change neither intents nor rows (process, disposition, receive).
SettledStaysSettled == ContradictionBlocks /\ ClosedIntentStays /\ LateRunChangesNothing
---------------------------------------------------------------------------
(* What the database demands of SePay receipts: the triggers of the transactions,
   confirmations and processing rows, and the CHECK constraints of the processing
   rows. *)

\* sepay_guard_transaction on INSERT of the reservation of transfer i: the evidence is
\* that of the connection as it is now, and nothing contradicts it.
guard_transaction(i) ==
  /\ intent[IntentOf[i]] = "awaiting_transfer" /\ connection = "ready"
  /\ \E p \in fresh : item[p] = i
  /\ i \notin Ignored /\ i \notin conflicts /\ i \in Exact
  /\ {j \in reserved : IntentOf[j] = IntentOf[i]} = {}

\* payment_guard_confirmation_insert: automatic confirmation needs the automation.
guard_confirmation(i) ==
  /\ intent[IntentOf[i]] \in {"awaiting_transfer", "confirmed"}
  /\ owner[i] \notin Reviewers => automation = "on"

\* sepay_check_transaction_completion at commit.
check_transaction_completion(i) == intent[IntentOf[i]] = "confirmed"

\* sepay_guard_processing on UPDATE.
guard_processing(i) ==
  /\ attempts'[i] >= attempts[i]
  /\ status[i] = "confirmed" => status'[i] = "confirmed"

\* The CHECK constraints of payments_sepay_processing: the attempts, and a lease exactly
\* while the row is processed.
processing_checks(i) ==
  /\ attempts[i] <= AttemptCap
  /\ status[i] = "processing" <=> owner[i] # NoProc
  /\ status[i] = "processing" <=> lease[i] # "none"

\* The database accepts every write of ingress, reconciliation and review, whatever
\* replays, takeovers and changes of the connection came in between: a transfer is used
\* on evidence that is current, uncontradicted and unused at the commit.
SePayGuardsAccept ==
  [][\A i \in Items :
       /\ i \in reserved' \ reserved =>
            guard_transaction(i) /\ guard_confirmation(i) /\ check_transaction_completion(i)'
       /\ guard_processing(i) /\ processing_checks(i)']_vars
===============================================================================
