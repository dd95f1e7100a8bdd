----------------------------- MODULE InboxProofs -----------------------------
(***************************************************************************)
(* Proofs about SePayInbox for any number of events, intents and runs,     *)
(* about Retention for any number of applications and accounts, and about  *)
(* SecurityEmail for any number of workers and faults.                     *)
(*                                                                         *)
(* The order of the due rows and the selections of the scans play no part: *)
(* a scan judges a row when it takes it.  Retention judges an account once *)
(* more when it has its row.  The schedules of the security mail fit: the  *)
(* waits of its job double, so each wait of the row is over when the next  *)
(* attempt that could be the last one looks at it.                         *)
(***************************************************************************)
EXTENDS SePayInbox, Retention, SecurityEmail, FiniteSetTheorems, TLAPS

Statuses == {"none", "pending", "processing", "review_required", "confirmed", "ignored", "dismissed"}

\* The columns that decide who may write, and the row that a run under way works on.
RowsTyped ==
  /\ status \in [Items -> Statuses]
  /\ owner \in [Items -> Procs \cup {NoProc}] /\ lease \in [Items -> {"none", "live", "expired"}]
  /\ intent \in [Intents -> {"awaiting_transfer", "confirmed", "expired"}]
  /\ reserved \subseteq Items
  /\ pc \in [Procs -> {"idle", "claimed", "matched", "refused", "retry"}]
  /\ item \in [Procs -> Items \cup {NoItem}]
  /\ \A p \in Procs : pc[p] # "idle" => item[p] \in Items

InboxInv == RowsTyped /\ LeaseFollowsStatus /\ OneTransferPerIntent

---------------------------------------------------------------------------
\* A claim comes from a row that may be taken, whoever takes it.
LEMMA Claims ==
  ASSUME NEW p \in Procs, NEW i \in Items,
         ProcessInbox(p, i) \/ ConfirmReviewed(p, i)
  PROVE  Takeable(p, i) /\ Claim(p, i) /\ UNCHANGED <<conflicts, payVars>>
  BY DEF ProcessInbox, ConfirmReviewed

\* A step of the recovery scan is a claim of a row that may be taken, or leaves rows alone.
LEMMA Scans ==
  ASSUME NEW s \in Scanners, RecoverNext(s)
  PROVE  /\ UNCHANGED <<conflicts, payVars>>
         /\ \/ \E i \in Items : Takeable(s, i) /\ Claim(s, i)
            \/ UNCHANGED <<rowVars, fresh, pc, item>>
  BY DEF RecoverNext

\* What a claim does to the invariant.
LEMMA ClaimKeeps ==
  ASSUME InboxInv, NEW p \in Procs, NEW i \in Items, Takeable(p, i), Claim(p, i), UNCHANGED payVars
  PROVE  InboxInv'
<1> USE SePayAssumptions DEF InboxInv
<1>1. status[i] \in {"pending", "processing", "review_required"}
  BY DEF Takeable
<1>2. RowsTyped'
  BY DEF RowsTyped, Claim, payVars, Statuses
<1>3. LeaseFollowsStatus'
  BY DEF RowsTyped, LeaseFollowsStatus, Claim
<1>4. OneTransferPerIntent'
  BY <1>1 DEF RowsTyped, OneTransferPerIntent, Claim, payVars
<1> QED
  BY <1>2, <1>3, <1>4

\* Every step keeps the invariant.
LEMMA InboxStep ==
  ASSUME InboxInv, [Next]_vars
  PROVE  InboxInv'
<1> USE SePayAssumptions DEF InboxInv
<1>1. CASE UNCHANGED vars
  BY <1>1 DEF vars, rowVars, payVars, procVars, RowsTyped, LeaseFollowsStatus, OneTransferPerIntent
<1>2. ASSUME NEW i \in Items, Transfer(i) \/ DelayPasses(i) PROVE InboxInv'
  BY <1>2 DEF Transfer, DelayPasses, rowVars, payVars, procVars, RowsTyped, LeaseFollowsStatus,
              OneTransferPerIntent
<1>3. ASSUME NEW i \in Items, Receive(i) PROVE InboxInv'
  <2>1. UNCHANGED <<owner, lease, intent, reserved, pc, item>>
    BY <1>3 DEF Receive, payVars, procVars
  <2>2. \E new \in {"ignored", "pending"} : status' = [status EXCEPT ![i] = new]
    BY <1>3 DEF Receive
  <2>3. status[i] = "none"
    BY <1>3 DEF Receive
  <2>4. RowsTyped'
    BY <2>1, <2>2 DEF RowsTyped, Statuses
  <2>5. LeaseFollowsStatus'
    BY <2>1, <2>2, <2>3 DEF RowsTyped, LeaseFollowsStatus
  <2>6. OneTransferPerIntent'
    BY <2>1, <2>2, <2>3 DEF RowsTyped, OneTransferPerIntent
  <2> QED
    BY <2>4, <2>5, <2>6
<1>4. ASSUME NEW i \in Items, ReceiveContradiction(i) PROVE InboxInv'
  <2>1. CASE UNCHANGED rowVars
    BY <1>4, <2>1 DEF ReceiveContradiction, rowVars, payVars, procVars, RowsTyped,
                      LeaseFollowsStatus, OneTransferPerIntent
  <2>2. CASE ~(UNCHANGED rowVars)
    <3>1. /\ status[i] # "confirmed" /\ status' = [status EXCEPT ![i] = "review_required"]
          /\ owner' = [owner EXCEPT ![i] = NoProc] /\ lease' = [lease EXCEPT ![i] = "none"]
          /\ UNCHANGED <<intent, reserved, pc, item>>
      BY <1>4, <2>2 DEF ReceiveContradiction, payVars, procVars
    <3>2. RowsTyped'
      BY <3>1 DEF RowsTyped, Statuses
    <3>3. LeaseFollowsStatus'
      BY <3>1 DEF RowsTyped, LeaseFollowsStatus
    <3>4. OneTransferPerIntent'
      BY <3>1 DEF RowsTyped, OneTransferPerIntent
    <3> QED
      BY <3>2, <3>3, <3>4
  <2> QED
    BY <2>1, <2>2
<1>5. ASSUME NEW i \in Items, LeaseExpires(i) PROVE InboxInv'
  BY <1>5 DEF LeaseExpires, payVars, procVars, RowsTyped, LeaseFollowsStatus, OneTransferPerIntent
<1>6. ASSUME NEW i \in Items, NEW a \in {"retry", "dismiss", "reopen"}, Decide(i, a) PROVE InboxInv'
  <2>1. UNCHANGED <<owner, lease, intent, reserved, pc, item>>
    BY <1>6 DEF Decide, payVars, procVars
  <2>2. \E new \in {"pending", "dismissed", "review_required"} : status' = [status EXCEPT ![i] = new]
    BY <1>6 DEF Decide
  <2>3. status[i] \in {"review_required", "dismissed"}
    BY <1>6 DEF Decide
  <2>4. RowsTyped'
    BY <2>1, <2>2 DEF RowsTyped, Statuses
  <2>5. LeaseFollowsStatus'
    BY <2>1, <2>2, <2>3 DEF RowsTyped, LeaseFollowsStatus
  <2>6. OneTransferPerIntent'
    BY <2>1, <2>2, <2>3 DEF RowsTyped, OneTransferPerIntent
  <2> QED
    BY <2>4, <2>5, <2>6
<1>7. ASSUME NEW p \in Procs, NEW i \in Items, ProcessInbox(p, i) \/ ConfirmReviewed(p, i)
      PROVE  InboxInv'
  BY <1>7, Claims, ClaimKeeps
<1>8. ASSUME NEW s \in Scanners, RecoverDue(s) PROVE InboxInv'
  BY <1>8 DEF RecoverDue, rowVars, payVars, RowsTyped, LeaseFollowsStatus, OneTransferPerIntent
<1>9. ASSUME NEW s \in Scanners, RecoverNext(s) PROVE InboxInv'
  <2>1. CASE \E i \in Items : Takeable(s, i) /\ Claim(s, i)
    BY <1>9, <2>1, Scans, ClaimKeeps DEF Procs
  <2>2. CASE UNCHANGED <<rowVars, fresh, pc, item>>
    BY <1>9, <2>2, Scans DEF rowVars, payVars, RowsTyped, LeaseFollowsStatus, OneTransferPerIntent
  <2> QED
    BY <1>9, <2>1, <2>2, Scans
<1>10. ASSUME NEW p \in Procs, Lookup(p) PROVE InboxInv'
  <2>1. UNCHANGED <<status, owner, lease, intent, reserved, item>>
    BY <1>10 DEF Lookup, rowVars, payVars
  <2>2. /\ pc[p] = "claimed"
        /\ \E new \in {"matched", "refused", "retry"} : pc' = [pc EXCEPT ![p] = new]
    BY <1>10 DEF Lookup
  <2> QED
    BY <2>1, <2>2 DEF RowsTyped, LeaseFollowsStatus, OneTransferPerIntent
<1>11. ASSUME NEW p \in Procs, Confirm(p) PROVE InboxInv'
  <2>1. CASE UNCHANGED <<payVars, status, owner, lease, item>>
    BY <1>11, <2>1 DEF Confirm, payVars, RowsTyped, LeaseFollowsStatus, OneTransferPerIntent
  <2>2. CASE ~(UNCHANGED <<payVars, status, owner, lease, item>>)
    <3> DEFINE i == item[p]  n == IntentOf[i]
    <3>0. i \in Items /\ n \in Intents
      BY <1>11 DEF Confirm, RowsTyped
    <3>1. /\ MayConfirm(p, i) /\ reserved' = reserved \cup {i}
          /\ intent' = [intent EXCEPT ![n] = "confirmed"]
          /\ status' = [status EXCEPT ![i] = "confirmed"]
          /\ owner' = [owner EXCEPT ![i] = NoProc] /\ lease' = [lease EXCEPT ![i] = "none"]
          /\ pc' = [pc EXCEPT ![p] = "idle"] /\ item' = [item EXCEPT ![p] = NoItem]
      BY <1>11, <2>2 DEF Confirm
    <3>2. intent[n] = "awaiting_transfer" /\ i \notin reserved
      BY <3>1 DEF MayConfirm
    <3> HIDE DEF i, n
    <3>3. RowsTyped'
      BY <3>0, <3>1 DEF RowsTyped, Statuses
    <3>4. LeaseFollowsStatus'
      BY <3>0, <3>1 DEF RowsTyped, LeaseFollowsStatus
    <3>5. OneTransferPerIntent'
      BY <3>0, <3>1, <3>2 DEF RowsTyped, OneTransferPerIntent, n
    <3> QED
      BY <3>3, <3>4, <3>5
  <2> QED
    BY <2>1, <2>2
<1>12. ASSUME NEW p \in Procs, Disposition(p) PROVE InboxInv'
  <2>1. pc' = [pc EXCEPT ![p] = "idle"] /\ item' = [item EXCEPT ![p] = NoItem]
        /\ UNCHANGED <<intent, reserved>>
    BY <1>12 DEF Disposition, payVars
  <2>2. CASE UNCHANGED rowVars
    BY <2>1, <2>2 DEF rowVars, RowsTyped, LeaseFollowsStatus, OneTransferPerIntent
  <2>3. CASE Holds(p, item[p])
    <3> DEFINE i == item[p]
    <3>1. i \in Items
      BY <1>12 DEF Disposition, RowsTyped
    <3>2. /\ \E new \in {"pending", "review_required"} : status' = [status EXCEPT ![i] = new]
          /\ owner' = [owner EXCEPT ![i] = NoProc] /\ lease' = [lease EXCEPT ![i] = "none"]
      BY <1>12, <2>3 DEF Disposition
    <3>3. status[i] = "processing"
      BY <2>3 DEF Holds
    <3> HIDE DEF i
    <3>4. RowsTyped'
      BY <2>1, <3>1, <3>2 DEF RowsTyped, Statuses
    <3>5. LeaseFollowsStatus'
      BY <3>1, <3>2 DEF RowsTyped, LeaseFollowsStatus
    <3>6. OneTransferPerIntent'
      BY <2>1, <3>1, <3>2, <3>3 DEF RowsTyped, OneTransferPerIntent
    <3> QED
      BY <3>4, <3>5, <3>6
  <2> QED
    BY <1>12, <2>2, <2>3 DEF Disposition
<1>13. ASSUME NEW p \in Procs, Crash(p) PROVE InboxInv'
  BY <1>13 DEF Crash, rowVars, payVars, RowsTyped, LeaseFollowsStatus, OneTransferPerIntent
<1>14. ASSUME NEW n \in Intents, IntentExpires(n) PROVE InboxInv'
  BY <1>14 DEF IntentExpires, rowVars, procVars, RowsTyped, LeaseFollowsStatus, OneTransferPerIntent
<1>15. CASE ConnectionChanges
  BY <1>15 DEF ConnectionChanges, rowVars, payVars, RowsTyped, LeaseFollowsStatus,
               OneTransferPerIntent
<1> QED
  BY <1>1, <1>2, <1>3, <1>4, <1>5, <1>6, <1>7, <1>8, <1>9, <1>10, <1>11, <1>12, <1>13, <1>14, <1>15
  DEF Next

LEMMA InboxInvariant == Spec => []InboxInv
<1>1. Init => InboxInv
  BY SePayAssumptions
  DEF Init, InboxInv, RowsTyped, Statuses, LeaseFollowsStatus, OneTransferPerIntent
<1>2. InboxInv /\ [Next]_vars => InboxInv'
  BY InboxStep
<1> QED
  BY <1>1, <1>2, PTL DEF Spec
---------------------------------------------------------------------------
\* One transfer settles one intent and its row says so (process, receive, decide).
THEOREM InboxOneTransferPerIntent == Spec => []OneTransferPerIntent
<1>1. InboxInv => OneTransferPerIntent
  BY DEF InboxInv
<1> QED
  BY <1>1, InboxInvariant, PTL

\* A row has a lease and an owner exactly while it is processed.
THEOREM InboxLeaseFollowsStatus == Spec => []LeaseFollowsStatus
<1>1. InboxInv => LeaseFollowsStatus
  BY DEF InboxInv
<1> QED
  BY <1>1, InboxInvariant, PTL

\* Only Confirm reserves a transfer, and only one that may be confirmed.
LEMMA OnlyConfirmReserves ==
  ASSUME [Next]_vars
  PROVE  \/ UNCHANGED reserved
         \/ \E p \in Procs : MayConfirm(p, item[p]) /\ reserved' = reserved \cup {item[p]}
  BY Scans, Claims
  DEF Next, vars, payVars, Transfer, Receive, ReceiveContradiction, LeaseExpires, DelayPasses, Decide,
      RecoverDue, Lookup, Confirm, Disposition, Crash, IntentExpires, ConnectionChanges

\* Contradicted evidence is never reserved afterwards (the conflict check of process).
THEOREM InboxContradictionBlocks == Spec => ContradictionBlocks
<1>1. [Next]_vars => [\A i \in Items : i \in conflicts /\ i \notin reserved => i \notin reserved']_vars
  BY OnlyConfirmReserves DEF MayConfirm
<1> QED
  BY <1>1, PTL DEF Spec, ContradictionBlocks

\* A closed intent stays as it is, whatever lookup comes back late.
THEOREM InboxClosedIntentStays == Spec => ClosedIntentStays
<1>1. InboxInv /\ [Next]_vars =>
        [\A n \in Intents : intent[n] # "awaiting_transfer" => intent'[n] = intent[n]]_vars
  <2> SUFFICES ASSUME InboxInv, Next,
                      NEW n \in Intents, intent[n] # "awaiting_transfer"
               PROVE  intent'[n] = intent[n]
    BY DEF vars
  <2>1. CASE UNCHANGED intent
    BY <2>1
  <2>2. ASSUME NEW m \in Intents, IntentExpires(m) PROVE intent'[n] = intent[n]
    BY <2>2 DEF IntentExpires, InboxInv, RowsTyped
  <2>3. ASSUME NEW p \in Procs, MayConfirm(p, item[p]),
               intent' = [intent EXCEPT ![IntentOf[item[p]]] = "confirmed"]
        PROVE  intent'[n] = intent[n]
    BY <2>3 DEF MayConfirm, InboxInv, RowsTyped
  <2> QED
    BY <2>1, <2>2, <2>3, Scans, Claims
    DEF Next, payVars, Transfer, Receive, ReceiveContradiction, LeaseExpires, DelayPasses, Decide,
        RecoverDue, Lookup, Confirm, Disposition, Crash, ConnectionChanges
<1> QED
  BY <1>1, InboxInvariant, PTL DEF Spec, ClosedIntentStays

\* A run that lost its row ends without writing rows, intents or reservations
\* (the conditions of disposition and of the confirming transaction).
THEOREM InboxLateRunChangesNothing == Spec => LateRunChangesNothing
<1>1. InboxInv /\ [Next]_vars =>
        [\A p \in Procs :
           /\ pc[p] \in {"matched", "refused", "retry"} /\ pc'[p] = "idle" /\ owner[item[p]] # p
           => UNCHANGED <<rowVars, payVars>>]_vars
  <2> SUFFICES ASSUME InboxInv, Next, NEW p \in Procs,
                      pc[p] \in {"matched", "refused", "retry"}, pc'[p] = "idle", owner[item[p]] # p
               PROVE  UNCHANGED <<rowVars, payVars>>
    BY DEF vars
  <2> USE SePayAssumptions DEF InboxInv, RowsTyped
  <2>1. CASE UNCHANGED pc
    BY <2>1
  <2>2. ASSUME NEW q \in Procs, q # p, NEW v, pc' = [pc EXCEPT ![q] = v]
        PROVE  UNCHANGED <<rowVars, payVars>>
    BY <2>2
  <2>3. CASE Confirm(p)
    BY <2>3 DEF Confirm, MayConfirm
  <2>4. CASE Disposition(p)
    BY <2>4 DEF Disposition, Holds
  <2>5. CASE Crash(p)
    BY <2>5 DEF Crash
  <2>6. ASSUME NEW q \in Procs, Lookup(q) \/ Confirm(q) \/ Disposition(q) \/ Crash(q)
        PROVE  UNCHANGED <<rowVars, payVars>>
    BY <2>2, <2>3, <2>4, <2>5, <2>6 DEF Lookup, Confirm, Disposition, Crash
  <2>7. ASSUME NEW q \in Procs, NEW i \in Items, Claim(q, i), pc[q] = "idle"
        PROVE  UNCHANGED <<rowVars, payVars>>
    BY <2>7 DEF Claim
  <2> QED
    BY <2>1, <2>6, <2>7
    DEF Next, procVars, Transfer, Receive, ReceiveContradiction, LeaseExpires, DelayPasses, Decide,
        RecoverDue, RecoverNext, ProcessInbox, ConfirmReviewed, IntentExpires, ConnectionChanges,
        Procs
<1> QED
  BY <1>1, InboxInvariant, PTL DEF Spec, LateRunChangesNothing

\* Transfers, intents and rows agree at every moment.
THEOREM InboxTransfersAgree == Spec => []TransfersAgree
  BY InboxOneTransferPerIntent, InboxLeaseFollowsStatus, PTL DEF TransfersAgree

\* Late answers, lost leases and repeated evidence change nothing that is settled.
THEOREM InboxSettledStaysSettled == Spec => SettledStaysSettled
  BY InboxContradictionBlocks, InboxClosedIntentStays, InboxLateRunChangesNothing
  DEF SettledStaysSettled

\* A dismissed receipt stays dismissed until the creator decides again (decide, process).
THEOREM InboxDismissalStands == Spec => DismissalStands
<1>1. InboxInv /\ [Next]_vars =>
        [\A i \in Items : status[i] = "dismissed"
                            => status'[i] = "dismissed" \/ decisions' = decisions + 1]_vars
  <2> SUFFICES ASSUME InboxInv, Next, NEW i \in Items, status[i] = "dismissed"
               PROVE  status'[i] = "dismissed" \/ decisions' = decisions + 1
    BY DEF vars
  <2> USE SePayAssumptions DEF InboxInv, RowsTyped
  <2>1. ASSUME NEW p \in Procs, NEW j \in Items, Takeable(p, j), Claim(p, j)
        PROVE  status'[i] = "dismissed"
    BY <2>1 DEF Takeable, Claim
  <2>2. ASSUME NEW p \in Procs, NEW j \in Items, ProcessInbox(p, j) \/ ConfirmReviewed(p, j)
        PROVE  status'[i] = "dismissed"
    BY <2>1, <2>2, Claims
  <2>3. ASSUME NEW s \in Scanners, RecoverNext(s) PROVE status'[i] = "dismissed"
    BY <2>1, <2>3, Scans DEF rowVars, Procs
  <2>4. ASSUME NEW j \in Items, Receive(j) \/ ReceiveContradiction(j) PROVE status'[i] = "dismissed"
    BY <2>4 DEF Receive, ReceiveContradiction, rowVars
  <2>5. ASSUME NEW p \in Procs, Confirm(p) \/ Disposition(p) PROVE status'[i] = "dismissed"
    BY <2>5 DEF Confirm, MayConfirm, Disposition, Holds, rowVars
  <2>6. ASSUME NEW j \in Items, NEW a \in {"retry", "dismiss", "reopen"}, Decide(j, a)
        PROVE  decisions' = decisions + 1
    BY <2>6 DEF Decide
  <2> QED
    BY <2>2, <2>3, <2>4, <2>5, <2>6
    DEF Next, rowVars, Transfer, LeaseExpires, DelayPasses, RecoverDue, Lookup, Crash, IntentExpires,
        ConnectionChanges
<1> QED
  BY <1>1, InboxInvariant, PTL DEF Spec, DismissalStands

---------------------------------------------------------------------------
(* What the triggers demand. *)

\* A run works on an event of ours, and has seen it match before it confirms it.
RunsMatched ==
  /\ attempts \in [Items -> 0..AttemptCap]
  /\ \A p \in Procs : pc[p] # "idle" => item[p] \notin Ignored
  /\ \A p \in Procs : pc[p] = "matched" => item[p] \in Exact

GuardInv == InboxInv /\ RunsMatched

LEMMA RunsMatchedStep ==
  ASSUME GuardInv, [Next]_vars
  PROVE  RunsMatched'
<1> USE SePayAssumptions DEF GuardInv, RunsMatched, InboxInv, RowsTyped
<1>1. CASE UNCHANGED <<attempts, pc, item>>
  BY <1>1
<1>2. ASSUME NEW p \in Procs, NEW i \in Items, Takeable(p, i), Claim(p, i) PROVE RunsMatched'
  <2>1. i \notin Ignored
    BY <1>2 DEF Takeable
  <2>2. attempts' = [attempts EXCEPT ![i] = @ + 1] /\ attempts[i] < AttemptCap
    BY <1>2 DEF Claim
  <2>3. /\ item' = [item EXCEPT ![p] = i]
        /\ \E new \in {"claimed", "refused"} : pc' = [pc EXCEPT ![p] = new]
    BY <1>2 DEF Claim
  <2> QED
    BY <2>1, <2>2, <2>3
<1>3. ASSUME NEW p \in Procs, Lookup(p) PROVE RunsMatched'
  BY <1>3 DEF Lookup, Matched, rowVars
<1>4. ASSUME NEW p \in Procs, Confirm(p) \/ Disposition(p) \/ Crash(p) PROVE RunsMatched'
  <2>1. UNCHANGED attempts
    BY <1>4 DEF Confirm, Disposition, Crash, rowVars
  <2>2. CASE pc' = [pc EXCEPT ![p] = "idle"] /\ item' = [item EXCEPT ![p] = NoItem]
    BY <2>1, <2>2
  <2>3. ASSUME pc[p] = "matched", NEW new \in {"refused", "retry"},
               pc' = [pc EXCEPT ![p] = new], UNCHANGED item
        PROVE  RunsMatched'
    BY <2>1, <2>3
  <2> QED
    BY <1>4, <2>2, <2>3 DEF Confirm, Disposition, Crash
<1>5. ASSUME NEW p \in Procs, NEW i \in Items, ProcessInbox(p, i) \/ ConfirmReviewed(p, i)
      PROVE  RunsMatched'
  BY <1>2, <1>5, Claims
<1>6. ASSUME NEW s \in Scanners, RecoverNext(s) PROVE RunsMatched'
  BY <1>1, <1>2, <1>6, Scans DEF rowVars, Procs
<1> QED
  BY <1>1, <1>3, <1>4, <1>5, <1>6
  DEF Next, vars, rowVars, procVars, Transfer, Receive, ReceiveContradiction, LeaseExpires,
      DelayPasses, Decide, RecoverDue, IntentExpires, ConnectionChanges

LEMMA GuardInvHolds == Spec => []GuardInv
<1>1. Init => InboxInv /\ RunsMatched
  BY SePayAssumptions
  DEF Init, InboxInv, RowsTyped, Statuses, LeaseFollowsStatus, OneTransferPerIntent, RunsMatched
<1>2. GuardInv /\ [Next]_vars => InboxInv' /\ RunsMatched'
  BY InboxStep, RunsMatchedStep DEF GuardInv
<1> QED
  BY <1>1, <1>2, PTL DEF Spec, GuardInv

\* A transfer is used on evidence that the triggers accept, or not at all.
LEMMA ReservationAccepted ==
  ASSUME GuardInv, [Next]_vars, NEW i \in Items, i \in reserved' \ reserved
  PROVE  guard_transaction(i) /\ guard_confirmation(i) /\ check_transaction_completion(i)'
<1> USE SePayAssumptions DEF GuardInv, InboxInv, RowsTyped
<1>1. PICK p \in Procs : Confirm(p) /\ UNCHANGED connVars
  BY Scans, Claims
  DEF Next, vars, payVars, Transfer, Receive, ReceiveContradiction, LeaseExpires, DelayPasses, Decide,
      RecoverDue, Lookup, Confirm, Disposition, Crash, IntentExpires, ConnectionChanges
<1>2. /\ pc[p] = "matched" /\ MayConfirm(p, item[p]) /\ i = item[p]
      /\ intent' = [intent EXCEPT ![IntentOf[i]] = "confirmed"]
  BY <1>1 DEF Confirm, payVars
<1>3. {j \in reserved : IntentOf[j] = IntentOf[i]} = {}
  <2>1. IntentOf[i] \in Intents /\ intent[IntentOf[i]] # "confirmed"
    BY <1>2 DEF MayConfirm
  <2> QED
    BY <2>1 DEF OneTransferPerIntent
<1>4. guard_transaction(i)
  BY <1>2, <1>3 DEF guard_transaction, MayConfirm, RunsMatched
<1>5. guard_confirmation(i) /\ check_transaction_completion(i)'
  BY <1>2 DEF guard_confirmation, check_transaction_completion, MayConfirm
<1> QED
  BY <1>4, <1>5

\* Attempts only grow and a confirmed row stays confirmed.
LEMMA RowsAccepted ==
  ASSUME GuardInv, [Next]_vars, NEW i \in Items
  PROVE  guard_processing(i)
<1> USE SePayAssumptions DEF GuardInv, InboxInv, RowsTyped, RunsMatched, guard_processing
<1>1. CASE UNCHANGED <<status, attempts>>
  BY <1>1
<1>2. ASSUME NEW p \in Procs, NEW j \in Items, Takeable(p, j), Claim(p, j) PROVE guard_processing(i)
  BY <1>2 DEF Takeable, Claim
<1>3. ASSUME NEW j \in Items,
             Receive(j) \/ ReceiveContradiction(j) \/ \E a \in {"retry", "dismiss", "reopen"} : Decide(j, a)
      PROVE  guard_processing(i)
  BY <1>3 DEF Receive, ReceiveContradiction, Decide, rowVars
<1>4. ASSUME NEW p \in Procs, Confirm(p) \/ Disposition(p) PROVE guard_processing(i)
  BY <1>4 DEF Confirm, Disposition, Holds, rowVars
<1>5. ASSUME NEW p \in Procs, NEW j \in Items, ProcessInbox(p, j) \/ ConfirmReviewed(p, j)
      PROVE  guard_processing(i)
  BY <1>2, <1>5, Claims
<1>6. ASSUME NEW s \in Scanners, RecoverNext(s) PROVE guard_processing(i)
  BY <1>1, <1>2, <1>6, Scans DEF rowVars, Procs
<1> QED
  BY <1>1, <1>3, <1>4, <1>5, <1>6
  DEF Next, vars, rowVars, Transfer, LeaseExpires, DelayPasses, RecoverDue, Lookup, Crash,
      IntentExpires, ConnectionChanges

\* The triggers and constraints of the receipt tables never refuse what ingress,
\* reconciliation or review writes.
THEOREM InboxGuardsAccept == Spec => SePayGuardsAccept
<1>1. GuardInv /\ GuardInv' /\ [Next]_vars =>
        [\A i \in Items :
           /\ i \in reserved' \ reserved =>
                guard_transaction(i) /\ guard_confirmation(i) /\ check_transaction_completion(i)'
           /\ guard_processing(i) /\ processing_checks(i)']_vars
  <2> SUFFICES ASSUME GuardInv, GuardInv', [Next]_vars, NEW i \in Items
               PROVE  /\ i \in reserved' \ reserved =>
                           /\ guard_transaction(i) /\ guard_confirmation(i)
                           /\ check_transaction_completion(i)'
                      /\ guard_processing(i) /\ processing_checks(i)'
    BY DEF check_transaction_completion, processing_checks
  <2>1. processing_checks(i)'
    BY SePayAssumptions DEF GuardInv, InboxInv, RunsMatched, LeaseFollowsStatus, processing_checks
  <2> QED
    BY <2>1, ReservationAccepted, RowsAccepted
<1> QED
  BY <1>1, GuardInvHolds, PTL DEF Spec, SePayGuardsAccept

---------------------------------------------------------------------------
(* Retention *)

Marks == {"free", "sweep", "writer"}

RetentionTypes ==
  /\ app \in [Apps -> {"none", "open", "sent", "closed", "approved"}] /\ age \in [Apps -> 0..2]
  /\ link \in [Apps -> Accounts \cup {NoAccount}]
  /\ content \subseteq Apps /\ number \subseteq Accounts /\ picked \subseteq Accounts
  /\ fence \in [Accounts -> Marks] /\ row \in [Accounts -> Marks]
  /\ writer \in [at : {"idle", "fence", "row"}, on : Accounts]
  /\ rows \in [Plain -> {"young", "past", "gone"}]
  /\ at \in {"idle", "counted", "selected", "fenced", "locked"}
  /\ counts \in [candidates : Nat, protected : Int]

\* Only an enforcing sweep of the receiving accounts gets past the count.
OnlyAccountsArePicked ==
  at \in {"selected", "fenced", "locked"} => Dataset = "receiving_accounts" /\ Enforcing

\* The sweep has the fence before the row, a writer both before its intent.
LocksAreOrdered ==
  /\ at \in {"fenced", "locked"} => \A p \in picked : fence[p] = "sweep"
  /\ \A p \in Accounts : row[p] = "sweep" <=> at = "locked" /\ p \in picked
  /\ writer.at = "row" => row[writer.on] = "writer"

\* What LockAccounts read stands until the transaction commits: the locked row keeps
\* submissions and challenges away, the advisory lock holds.
LockedStayEligible ==
  at = "locked" => \A p \in picked :
    /\ p \notin intents \cup challenged
    /\ \A x \in Apps : link[x] = p => app[x] # "sent"
    /\ ~activeHold("receiving_accounts", p) /\ ~activeHold("receiving_accounts", User)

\* Nothing becomes a candidate while its dataset is swept.
CountCovers ==
  /\ at # "idle" => Cardinality(Candidates(Dataset)) <= counts.candidates
  /\ at # "idle" /\ Dataset = "tip_claims" => counts.protected = counts.candidates
  /\ at \in {"selected", "fenced", "locked"} => Cardinality(picked) <= counts.candidates

RetentionInv ==
  /\ RetentionTypes
  /\ OnlyAccountsArePicked
  /\ LocksAreOrdered
  /\ LockedStayEligible
  /\ CountCovers
  /\ NeededNumberIsKept
  /\ RunsAreRecordable

---------------------------------------------------------------------------
\* A dataset has finitely many candidates.
LEMMA CandidatesFinite ==
  ASSUME RetentionTypes, NEW d
  PROVE  IsFiniteSet(Candidates(d))
<1>1. CASE d = "receiving_accounts"
  <2>1. Candidates(d) \subseteq Accounts
    BY <1>1 DEF Candidates, RetentionTypes
  <2> QED
    BY <2>1, RetentionAssumption, FS_Subset DEF RetentionAssumption
<1>2. CASE d = "application_content"
  <2>1. Candidates(d) \subseteq Apps
    BY <1>2 DEF Candidates, RetentionTypes
  <2> QED
    BY <2>1, RetentionAssumption, FS_Subset DEF RetentionAssumption
<1>3. CASE d \notin {"receiving_accounts", "application_content"}
  <2>1. Candidates(d) \subseteq {d}
    BY <1>3 DEF Candidates
  <2> QED
    BY <2>1, FS_Singleton, FS_Subset
<1> QED
  BY <1>1, <1>2, <1>3

\* Only candidates are eligible, and a batch has no more of them than there are.
LEMMA BatchOfCandidates ==
  ASSUME RetentionTypes, NEW d, NEW T \in Batches(Eligible(d))
  PROVE  /\ T \subseteq Eligible(d) /\ Eligible(d) \subseteq Candidates(d)
         /\ Cardinality(T) \in Nat /\ Cardinality(Candidates(d)) \in Nat
         /\ Cardinality(T) <= Cardinality(Candidates(d))
<1>1. T \subseteq Eligible(d)
  BY DEF Batches
<1>2. Eligible(d) \subseteq Candidates(d)
  <2>1. CASE d = "receiving_accounts"
    BY <2>1 DEF Eligible, receivingAccountRetentionEligibility
  <2>2. CASE d # "receiving_accounts"
    BY <2>2 DEF Eligible
  <2> QED
    BY <2>1, <2>2
<1>3. IsFiniteSet(Candidates(d))
  BY CandidatesFinite
<1>4. IsFiniteSet(T)
  BY <1>1, <1>2, <1>3, FS_Subset
<1> QED
  BY <1>1, <1>2, <1>3, <1>4, FS_Subset, FS_CardinalityType

\* A step that erases numbers, and reopens, closes or renames an application by touching
\* it, makes no candidate: the age starts anew.
LEMMA NoNewCandidate ==
  ASSUME RetentionTypes, NEW CONSTANT d, number' \subseteq number, rows' = rows,
         \A x \in Apps : app'[x] = "closed" /\ age'[x] >= 1 =>
                            /\ app'[x] = app[x] /\ age'[x] = age[x] /\ link'[x] = link[x]
                            /\ x \in content' => x \in content,
         content' \subseteq Apps, age' \in [Apps -> 0..2]
  PROVE  Candidates(d)' \subseteq Candidates(d)
<1>1. \A x \in Apps : Ended(x, d)' => /\ Ended(x, d) /\ link'[x] = link[x]
                                      /\ x \in content' => x \in content
  BY DEF Ended, cutoffFor, RetentionTypes
<1>2. CASE d = "receiving_accounts"
  BY <1>1, <1>2 DEF Candidates
<1>3. CASE d = "application_content"
  BY <1>1, <1>3 DEF Candidates
<1>4. CASE d \notin {"receiving_accounts", "application_content"}
  BY <1>4 DEF Candidates
<1> QED
  BY <1>2, <1>3, <1>4

\* So the count goes on covering them.
LEMMA StillCovered ==
  ASSUME RetentionInv, UNCHANGED sweepVars,
         at # "idle" => Candidates(Dataset)' \subseteq Candidates(Dataset)
  PROVE  CountCovers'
<1>1. /\ RetentionTypes /\ CountCovers
  BY DEF RetentionInv
<1>2. Dataset' = Dataset /\ UNCHANGED <<at, counts, picked>>
  BY DEF sweepVars, Dataset
<1>3. IsFiniteSet(Candidates(Dataset))
  BY <1>1, CandidatesFinite
<1>4. at # "idle" => Cardinality(Candidates(Dataset)') <= Cardinality(Candidates(Dataset))
  BY <1>3, FS_Subset
<1>5. /\ Cardinality(Candidates(Dataset)) \in Nat
      /\ at # "idle" => Cardinality(Candidates(Dataset)') \in Nat
  BY <1>3, FS_Subset, FS_CardinalityType
<1>6. counts.candidates \in Nat
  BY <1>1 DEF RetentionTypes
<1>7. at # "idle" => Cardinality(Candidates(Dataset)') <= counts.candidates
  BY <1>1, <1>4, <1>5, <1>6 DEF CountCovers
<1> QED
  BY <1>1, <1>2, <1>7 DEF CountCovers
\* What countCandidates returns.
LEMMA CountOf ==
  ASSUME RetentionTypes, NEW d
  PROVE  /\ countCandidates(d) \in [candidates : Nat, protected : Int]
         /\ countCandidates(d).candidates = Cardinality(Candidates(d))
         /\ d = "tip_claims" => countCandidates(d).protected = countCandidates(d).candidates
<1>1. IsFiniteSet(Candidates(d))
  BY CandidatesFinite
<1>2. Eligible(d) \subseteq Candidates(d)
  BY DEF Eligible, receivingAccountRetentionEligibility
<1>3. Cardinality(Candidates(d)) \in Nat /\ Cardinality(Eligible(d)) \in Nat
  BY <1>1, <1>2, FS_Subset, FS_CardinalityType
<1>4. d = "tip_claims" => Cardinality(Eligible(d)) = 0
  BY FS_EmptySet DEF Eligible
<1> QED
  BY <1>3, <1>4 DEF countCandidates

\* The statements between the count and the update leave the candidates alone and take
\* accounts out of the batch only.
LEMMA BatchShrinks ==
  ASSUME RetentionInv, at \in {"selected", "fenced"}, at' \in {"fenced", "locked"},
         UNCHANGED <<ds, counts, appVars, accountVars, plainVars>>, picked' \subseteq picked
  PROVE  CountCovers'
<1>1. RetentionTypes /\ CountCovers /\ OnlyAccountsArePicked
  BY DEF RetentionInv
<1>2. Dataset' = Dataset /\ Candidates(Dataset)' = Candidates(Dataset)
  BY DEF Candidates, Ended, Dataset, appVars, accountVars, plainVars
<1>3. IsFiniteSet(picked)
  BY <1>1, RetentionAssumption, FS_Subset DEF RetentionTypes, RetentionAssumption
<1>4. /\ Cardinality(picked') <= Cardinality(picked)
      /\ Cardinality(picked') \in Nat /\ Cardinality(picked) \in Nat
  BY <1>3, FS_Subset, FS_CardinalityType
<1>5. Cardinality(picked) <= counts.candidates /\ counts.candidates \in Nat
  BY <1>1 DEF CountCovers, RetentionTypes
<1>6. Cardinality(picked') <= counts'.candidates
  BY <1>4, <1>5
<1> QED
  BY <1>1, <1>2, <1>6 DEF CountCovers, OnlyAccountsArePicked

\* Every step keeps the invariant and what is held.
LEMMA RetentionStep ==
  ASSUME RetentionInv, SweepNext
  PROVE  RetentionInv' /\ KeepsHeld
<1> DEFINE Goal == RetentionInv' /\ KeepsHeld
<1> SUFFICES Goal
  OBVIOUS
<1> HIDE DEF Goal
<1>0. /\ RetentionTypes /\ OnlyAccountsArePicked /\ LocksAreOrdered /\ LockedStayEligible
      /\ CountCovers /\ NeededNumberIsKept /\ RunsAreRecordable
  BY DEF RetentionInv
<1>1. ASSUME NEW x \in Apps, NEW p \in Accounts, NEW s \in {"open", "sent"},
             NameAccount(x, p, s)
      PROVE  Goal
  <2>1. RetentionTypes' /\ OnlyAccountsArePicked' /\ RunsAreRecordable'
    BY <1>0, <1>1 DEF NameAccount, appVars, accountVars, plainVars, lockVars, sweepVars,
       RetentionTypes, Marks, OnlyAccountsArePicked, Enforcing, ModeOf, Dataset, RunsAreRecordable,
       CountCovers
  <2>2. LocksAreOrdered' /\ LockedStayEligible' /\ NeededNumberIsKept' /\ KeepsHeld
    BY <1>0, <1>1 DEF NameAccount, appVars, accountVars, plainVars, lockVars, sweepVars,
       LocksAreOrdered, RetentionTypes, Marks, OnlyAccountsArePicked, LockedStayEligible,
       activeHold, NeededNumberIsKept, KeepsHeld, Dataset
  <2>3. CountCovers'
    <3>1. Candidates(Dataset)' \subseteq Candidates(Dataset)
      <4>1. Dataset' = Dataset
        BY <1>1 DEF NameAccount, sweepVars, Dataset
      <4>2. \A d : Candidates(d)' \subseteq Candidates(d)
        BY <1>0, <1>1, <2>1, NoNewCandidate DEF NameAccount, appVars, accountVars, plainVars,
           lockVars, sweepVars, RetentionTypes
      <4> QED
        BY <4>1, <4>2
    <3> QED
      BY <1>1, <3>1, StillCovered DEF NameAccount
  <2> QED
    BY <2>1, <2>2, <2>3 DEF Goal, RetentionInv
<1>2. ASSUME NEW x \in Apps, NEW s \in {"open", "closed"}, CloseOrReopen(x, s) PROVE Goal
  <2>1. RetentionTypes' /\ OnlyAccountsArePicked' /\ RunsAreRecordable'
    BY <1>0, <1>2 DEF CloseOrReopen, appVars, accountVars, plainVars, lockVars, sweepVars,
       RetentionTypes, Marks, OnlyAccountsArePicked, Enforcing, ModeOf, Dataset, RunsAreRecordable,
       CountCovers
  <2>2. LocksAreOrdered' /\ LockedStayEligible' /\ NeededNumberIsKept' /\ KeepsHeld
    BY <1>0, <1>2 DEF CloseOrReopen, appVars, accountVars, plainVars, lockVars, sweepVars,
       LocksAreOrdered, RetentionTypes, Marks, OnlyAccountsArePicked, LockedStayEligible,
       activeHold, NeededNumberIsKept, KeepsHeld, Dataset
  <2>3. CountCovers'
    <3>1. Candidates(Dataset)' \subseteq Candidates(Dataset)
      <4>1. Dataset' = Dataset
        BY <1>2 DEF CloseOrReopen, sweepVars, Dataset
      <4>2. \A d : Candidates(d)' \subseteq Candidates(d)
        BY <1>0, <1>2, <2>1, NoNewCandidate DEF CloseOrReopen, appVars, accountVars, plainVars,
           lockVars, sweepVars, RetentionTypes
      <4> QED
        BY <4>1, <4>2
    <3> QED
      BY <1>2, <3>1, StillCovered DEF CloseOrReopen
  <2> QED
    BY <2>1, <2>2, <2>3 DEF Goal, RetentionInv
<1>3. ASSUME NEW x \in Apps, Approve(x) PROVE Goal
  <2>1. RetentionTypes' /\ OnlyAccountsArePicked' /\ RunsAreRecordable'
    BY <1>0, <1>3 DEF Approve, appVars, accountVars, plainVars, lockVars, sweepVars,
       RetentionTypes, Marks, OnlyAccountsArePicked, Enforcing, ModeOf, Dataset, RunsAreRecordable,
       CountCovers
  <2>2. LocksAreOrdered' /\ LockedStayEligible' /\ NeededNumberIsKept' /\ KeepsHeld
    BY <1>0, <1>3 DEF Approve, appVars, accountVars, plainVars, lockVars, sweepVars,
       LocksAreOrdered, RetentionTypes, Marks, OnlyAccountsArePicked, LockedStayEligible,
       activeHold, NeededNumberIsKept, KeepsHeld, Dataset
  <2>3. CountCovers'
    <3>1. Candidates(Dataset)' \subseteq Candidates(Dataset)
      <4>1. Dataset' = Dataset
        BY <1>3 DEF Approve, sweepVars, Dataset
      <4>2. \A d : Candidates(d)' \subseteq Candidates(d)
        BY <1>0, <1>3, <2>1, NoNewCandidate DEF Approve, appVars, accountVars, plainVars,
           lockVars, sweepVars, RetentionTypes
      <4> QED
        BY <4>1, <4>2
    <3> QED
      BY <1>3, <3>1, StillCovered DEF Approve
  <2> QED
    BY <2>1, <2>2, <2>3 DEF Goal, RetentionInv
<1>4. ASSUME NEW x \in Apps, Challenge(x) \/ Deposit(x) PROVE Goal
  <2>1. RetentionTypes' /\ OnlyAccountsArePicked' /\ RunsAreRecordable'
    BY <1>0, <1>4 DEF Challenge, Deposit, appVars, accountVars, plainVars, lockVars, sweepVars,
       RetentionTypes, Marks, OnlyAccountsArePicked, Enforcing, ModeOf, Dataset, RunsAreRecordable,
       CountCovers
  <2>2. LocksAreOrdered' /\ LockedStayEligible' /\ NeededNumberIsKept' /\ KeepsHeld
    BY <1>0, <1>4 DEF Challenge, Deposit, appVars, accountVars, plainVars, lockVars, sweepVars,
       LocksAreOrdered, RetentionTypes, Marks, OnlyAccountsArePicked, LockedStayEligible,
       activeHold, NeededNumberIsKept, KeepsHeld, Dataset
  <2>3. CountCovers'
    <3>1. UNCHANGED <<sweepVars, app, age, link, content, number, rows>>
      BY <1>4 DEF Challenge, Deposit, appVars, accountVars, plainVars, lockVars, sweepVars
    <3>2. Candidates(Dataset)' = Candidates(Dataset)
      BY <3>1 DEF Candidates, Ended, Dataset, sweepVars
    <3> QED
      BY <3>1, <3>2, StillCovered
  <2> QED
    BY <2>1, <2>2, <2>3 DEF Goal, RetentionInv
<1>5. ASSUME NEW o \in owed, Refund(o) PROVE Goal
  <2>1. RetentionTypes' /\ OnlyAccountsArePicked' /\ RunsAreRecordable'
    BY <1>0, <1>5 DEF Refund, appVars, accountVars, plainVars, lockVars, sweepVars,
       RetentionTypes, Marks, OnlyAccountsArePicked, Enforcing, ModeOf, Dataset, RunsAreRecordable,
       CountCovers
  <2>2. LocksAreOrdered' /\ LockedStayEligible' /\ NeededNumberIsKept' /\ KeepsHeld
    BY <1>0, <1>5 DEF Refund, appVars, accountVars, plainVars, lockVars, sweepVars,
       LocksAreOrdered, RetentionTypes, Marks, OnlyAccountsArePicked, LockedStayEligible,
       activeHold, NeededNumberIsKept, KeepsHeld, Dataset
  <2>3. CountCovers'
    <3>1. UNCHANGED <<sweepVars, app, age, link, content, number, rows>>
      BY <1>5 DEF Refund, appVars, accountVars, plainVars, lockVars, sweepVars
    <3>2. Candidates(Dataset)' = Candidates(Dataset)
      BY <3>1 DEF Candidates, Ended, Dataset, sweepVars
    <3> QED
      BY <3>1, <3>2, StillCovered
  <2> QED
    BY <2>1, <2>2, <2>3 DEF Goal, RetentionInv
<1>6. ASSUME NEW p \in Accounts, WriterFence(p) PROVE Goal
  <2>1. RetentionTypes' /\ OnlyAccountsArePicked' /\ RunsAreRecordable'
    BY <1>0, <1>6 DEF WriterFence, appVars, accountVars, plainVars, lockVars, sweepVars,
       RetentionTypes, Marks, OnlyAccountsArePicked, Enforcing, ModeOf, Dataset, RunsAreRecordable,
       CountCovers
  <2>2. LocksAreOrdered' /\ LockedStayEligible' /\ NeededNumberIsKept' /\ KeepsHeld
    BY <1>0, <1>6 DEF WriterFence, appVars, accountVars, plainVars, lockVars, sweepVars,
       LocksAreOrdered, RetentionTypes, Marks, OnlyAccountsArePicked, LockedStayEligible,
       activeHold, NeededNumberIsKept, KeepsHeld, Dataset
  <2>3. CountCovers'
    <3>1. UNCHANGED <<sweepVars, app, age, link, content, number, rows>>
      BY <1>6 DEF WriterFence, appVars, accountVars, plainVars, lockVars, sweepVars
    <3>2. Candidates(Dataset)' = Candidates(Dataset)
      BY <3>1 DEF Candidates, Ended, Dataset, sweepVars
    <3> QED
      BY <3>1, <3>2, StillCovered
  <2> QED
    BY <2>1, <2>2, <2>3 DEF Goal, RetentionInv
<1>7. CASE WriterRow
  <2>1. RetentionTypes' /\ OnlyAccountsArePicked' /\ RunsAreRecordable'
    BY <1>0, <1>7 DEF WriterRow, appVars, accountVars, plainVars, lockVars, sweepVars,
       RetentionTypes, Marks, OnlyAccountsArePicked, Enforcing, ModeOf, Dataset, RunsAreRecordable,
       CountCovers
  <2>2. LocksAreOrdered' /\ LockedStayEligible' /\ NeededNumberIsKept' /\ KeepsHeld
    BY <1>0, <1>7 DEF WriterRow, appVars, accountVars, plainVars, lockVars, sweepVars,
       LocksAreOrdered, RetentionTypes, Marks, OnlyAccountsArePicked, LockedStayEligible,
       activeHold, NeededNumberIsKept, KeepsHeld, Dataset
  <2>3. CountCovers'
    <3>1. UNCHANGED <<sweepVars, app, age, link, content, number, rows>>
      BY <1>7 DEF WriterRow, appVars, accountVars, plainVars, lockVars, sweepVars
    <3>2. Candidates(Dataset)' = Candidates(Dataset)
      BY <3>1 DEF Candidates, Ended, Dataset, sweepVars
    <3> QED
      BY <3>1, <3>2, StillCovered
  <2> QED
    BY <2>1, <2>2, <2>3 DEF Goal, RetentionInv
<1>8. CASE WriterCommit
  <2>1. RetentionTypes' /\ OnlyAccountsArePicked' /\ RunsAreRecordable'
    BY <1>0, <1>8 DEF WriterCommit, Unlocked, appVars, accountVars, plainVars, lockVars,
       sweepVars, RetentionTypes, Marks, OnlyAccountsArePicked, Enforcing, ModeOf, Dataset,
       RunsAreRecordable, CountCovers
  <2>2. LocksAreOrdered' /\ LockedStayEligible' /\ NeededNumberIsKept' /\ KeepsHeld
    BY <1>0, <1>8 DEF WriterCommit, Unlocked, appVars, accountVars, plainVars, lockVars,
       sweepVars, LocksAreOrdered, RetentionTypes, Marks, OnlyAccountsArePicked, LockedStayEligible,
       activeHold, NeededNumberIsKept, KeepsHeld, Dataset
  <2>3. CountCovers'
    <3>1. UNCHANGED <<sweepVars, app, age, link, content, number, rows>>
      BY <1>8 DEF WriterCommit, Unlocked, appVars, accountVars, plainVars, lockVars, sweepVars
    <3>2. Candidates(Dataset)' = Candidates(Dataset)
      BY <3>1 DEF Candidates, Ended, Dataset, sweepVars
    <3> QED
      BY <3>1, <3>2, StillCovered
  <2> QED
    BY <2>1, <2>2, <2>3 DEF Goal, RetentionInv
<1>9. ASSUME NEW h \in Holdable, PlaceHold(h) PROVE Goal
  <2>1. RetentionTypes' /\ OnlyAccountsArePicked' /\ RunsAreRecordable'
    BY <1>0, <1>9 DEF PlaceHold, HoldWaits, appVars, accountVars, plainVars, lockVars, sweepVars,
       RetentionTypes, Marks, OnlyAccountsArePicked, Enforcing, ModeOf, Dataset, RunsAreRecordable,
       CountCovers
  <2>2. LocksAreOrdered' /\ LockedStayEligible' /\ NeededNumberIsKept' /\ KeepsHeld
    BY <1>0, <1>9 DEF PlaceHold, HoldWaits, appVars, accountVars, plainVars, lockVars, sweepVars,
       LocksAreOrdered, RetentionTypes, Marks, OnlyAccountsArePicked, LockedStayEligible,
       activeHold, NeededNumberIsKept, KeepsHeld, Dataset
  <2>3. CountCovers'
    <3>1. UNCHANGED <<sweepVars, app, age, link, content, number, rows>>
      BY <1>9 DEF PlaceHold, HoldWaits, appVars, accountVars, plainVars, lockVars, sweepVars
    <3>2. Candidates(Dataset)' = Candidates(Dataset)
      BY <3>1 DEF Candidates, Ended, Dataset, sweepVars
    <3> QED
      BY <3>1, <3>2, StillCovered
  <2> QED
    BY <2>1, <2>2, <2>3 DEF Goal, RetentionInv
<1>10. ASSUME NEW h \in holds, ReleaseHold(h) PROVE Goal
  <2>1. RetentionTypes' /\ OnlyAccountsArePicked' /\ RunsAreRecordable'
    BY <1>0, <1>10 DEF ReleaseHold, appVars, accountVars, plainVars, lockVars, sweepVars,
       RetentionTypes, Marks, OnlyAccountsArePicked, Enforcing, ModeOf, Dataset, RunsAreRecordable,
       CountCovers
  <2>2. LocksAreOrdered' /\ LockedStayEligible' /\ NeededNumberIsKept' /\ KeepsHeld
    BY <1>0, <1>10 DEF ReleaseHold, appVars, accountVars, plainVars, lockVars, sweepVars,
       LocksAreOrdered, RetentionTypes, Marks, OnlyAccountsArePicked, LockedStayEligible,
       activeHold, NeededNumberIsKept, KeepsHeld, Dataset
  <2>3. CountCovers'
    <3>1. UNCHANGED <<sweepVars, app, age, link, content, number, rows>>
      BY <1>10 DEF ReleaseHold, appVars, accountVars, plainVars, lockVars, sweepVars
    <3>2. Candidates(Dataset)' = Candidates(Dataset)
      BY <3>1 DEF Candidates, Ended, Dataset, sweepVars
    <3> QED
      BY <3>1, <3>2, StillCovered
  <2> QED
    BY <2>1, <2>2, <2>3 DEF Goal, RetentionInv
<1>11. ASSUME NEW d \in Plain, Refer(d) PROVE Goal
  <2>1. RetentionTypes' /\ OnlyAccountsArePicked' /\ RunsAreRecordable'
    BY <1>0, <1>11 DEF Refer, appVars, accountVars, plainVars, lockVars, sweepVars,
       RetentionTypes, Marks, OnlyAccountsArePicked, Enforcing, ModeOf, Dataset, RunsAreRecordable,
       CountCovers
  <2>2. LocksAreOrdered' /\ LockedStayEligible' /\ NeededNumberIsKept' /\ KeepsHeld
    BY <1>0, <1>11 DEF Refer, appVars, accountVars, plainVars, lockVars, sweepVars,
       LocksAreOrdered, RetentionTypes, Marks, OnlyAccountsArePicked, LockedStayEligible,
       activeHold, NeededNumberIsKept, KeepsHeld, Dataset
  <2>3. CountCovers'
    <3>1. UNCHANGED <<sweepVars, app, age, link, content, number, rows>>
      BY <1>11 DEF Refer, appVars, accountVars, plainVars, lockVars, sweepVars
    <3>2. Candidates(Dataset)' = Candidates(Dataset)
      BY <3>1 DEF Candidates, Ended, Dataset, sweepVars
    <3> QED
      BY <3>1, <3>2, StillCovered
  <2> QED
    BY <2>1, <2>2, <2>3 DEF Goal, RetentionInv
<1>12. CASE Ages
  <2>1. RetentionTypes'
    BY <1>0, <1>12 DEF Ages, appVars, accountVars, plainVars, lockVars, sweepVars,
       RetentionTypes, Marks
  <2>2. OnlyAccountsArePicked'
    BY <1>0, <1>12 DEF Ages, appVars, accountVars, plainVars, lockVars, sweepVars,
       OnlyAccountsArePicked, Enforcing, ModeOf, Dataset
  <2>3. LocksAreOrdered'
    BY <1>0, <1>12 DEF Ages, appVars, accountVars, plainVars, lockVars, sweepVars,
       LocksAreOrdered, RetentionTypes, Marks, OnlyAccountsArePicked
  <2>4. LockedStayEligible'
    BY <1>0, <1>12 DEF Ages, appVars, accountVars, plainVars, lockVars, sweepVars,
       LockedStayEligible, LocksAreOrdered, activeHold, RetentionTypes, OnlyAccountsArePicked
  <2>5. CountCovers'
    BY <1>0, <1>12 DEF Ages, sweepVars, CountCovers
  <2>6. NeededNumberIsKept'
    BY <1>0, <1>12 DEF Ages, appVars, accountVars, plainVars, lockVars, sweepVars,
       NeededNumberIsKept, RetentionTypes, LockedStayEligible, LocksAreOrdered
  <2>7. RunsAreRecordable'
    BY <1>0, <1>12 DEF Ages, appVars, accountVars, plainVars, lockVars, sweepVars,
       RunsAreRecordable, CountCovers, OnlyAccountsArePicked, Enforcing, ModeOf
  <2>8. KeepsHeld
    BY <1>0, <1>12 DEF Ages, appVars, accountVars, plainVars, lockVars, sweepVars, KeepsHeld,
       activeHold, LockedStayEligible, RetentionTypes, Dataset, OnlyAccountsArePicked
  <2> QED
    BY <2>1, <2>2, <2>3, <2>4, <2>5, <2>6, <2>7, <2>8 DEF Goal, RetentionInv
<1>13. ASSUME NEW m \in {"report_only", "paused", "enforce"}, Configure(m) PROVE Goal
  <2>1. RetentionTypes'
    BY <1>0, <1>13 DEF Configure, NoRun, appVars, accountVars, plainVars, lockVars, sweepVars,
       RetentionTypes, Marks
  <2>2. OnlyAccountsArePicked'
    BY <1>0, <1>13 DEF Configure, NoRun, appVars, accountVars, plainVars, lockVars, sweepVars,
       OnlyAccountsArePicked, Enforcing, ModeOf, Dataset
  <2>3. LocksAreOrdered'
    BY <1>0, <1>13 DEF Configure, NoRun, appVars, accountVars, plainVars, lockVars, sweepVars,
       LocksAreOrdered, RetentionTypes, Marks, OnlyAccountsArePicked
  <2>4. LockedStayEligible'
    BY <1>0, <1>13 DEF Configure, NoRun, appVars, accountVars, plainVars, lockVars, sweepVars,
       LockedStayEligible, LocksAreOrdered, activeHold, RetentionTypes, OnlyAccountsArePicked
  <2>5. CountCovers'
    BY <1>0, <1>13 DEF Configure, NoRun, sweepVars, CountCovers
  <2>6. NeededNumberIsKept'
    BY <1>0, <1>13 DEF Configure, NoRun, appVars, accountVars, plainVars, lockVars, sweepVars,
       NeededNumberIsKept, RetentionTypes, LockedStayEligible, LocksAreOrdered
  <2>7. RunsAreRecordable'
    BY <1>0, <1>13 DEF Configure, NoRun, appVars, accountVars, plainVars, lockVars, sweepVars,
       RunsAreRecordable, CountCovers, OnlyAccountsArePicked, Enforcing, ModeOf
  <2>8. KeepsHeld
    BY <1>0, <1>13 DEF Configure, NoRun, appVars, accountVars, plainVars, lockVars, sweepVars,
       KeepsHeld, activeHold, LockedStayEligible, RetentionTypes, Dataset, OnlyAccountsArePicked
  <2> QED
    BY <2>1, <2>2, <2>3, <2>4, <2>5, <2>6, <2>7, <2>8 DEF Goal, RetentionInv
<1>14. CASE Count
  <2>1. RetentionTypes'
    BY <1>0, <1>14, CountOf DEF Count, appVars, accountVars, plainVars, lockVars, sweepVars,
       RetentionTypes, Marks
  <2>2. OnlyAccountsArePicked'
    BY <1>0, <1>14 DEF Count, NoRun, appVars, accountVars, plainVars, lockVars, sweepVars,
       OnlyAccountsArePicked, Enforcing, ModeOf, Dataset
  <2>3. LocksAreOrdered'
    BY <1>0, <1>14 DEF Count, NoRun, appVars, accountVars, plainVars, lockVars, sweepVars,
       LocksAreOrdered, RetentionTypes, Marks, OnlyAccountsArePicked
  <2>4. LockedStayEligible'
    BY <1>0, <1>14 DEF Count, NoRun, appVars, accountVars, plainVars, lockVars, sweepVars,
       LockedStayEligible, LocksAreOrdered, activeHold, RetentionTypes, OnlyAccountsArePicked
  <2>5. CountCovers'
    <3>1. Dataset' = Dataset /\ Candidates(Dataset)' = Candidates(Dataset)
      BY <1>14 DEF Count, appVars, accountVars, plainVars, lockVars, sweepVars, Candidates,
         Ended, Dataset
    <3> QED
      BY <1>0, <1>14, <3>1, CountOf DEF Count, CountCovers
  <2>6. NeededNumberIsKept'
    BY <1>0, <1>14 DEF Count, NoRun, appVars, accountVars, plainVars, lockVars, sweepVars,
       NeededNumberIsKept, RetentionTypes, LockedStayEligible, LocksAreOrdered
  <2>7. RunsAreRecordable'
    BY <1>0, <1>14 DEF Count, NoRun, appVars, accountVars, plainVars, lockVars, sweepVars,
       RunsAreRecordable, CountCovers, OnlyAccountsArePicked, Enforcing, ModeOf
  <2>8. KeepsHeld
    BY <1>0, <1>14 DEF Count, NoRun, appVars, accountVars, plainVars, lockVars, sweepVars,
       KeepsHeld, activeHold, LockedStayEligible, RetentionTypes, Dataset, OnlyAccountsArePicked
  <2> QED
    BY <2>1, <2>2, <2>3, <2>4, <2>5, <2>6, <2>7, <2>8 DEF Goal, RetentionInv
<1>15. CASE Report
  <2>1. RetentionTypes'
    BY <1>0, <1>15 DEF Report, recordRun, NextDataset, NoCounts, appVars, accountVars, plainVars,
       lockVars, sweepVars, RetentionTypes, Marks
  <2>2. OnlyAccountsArePicked'
    BY <1>0, <1>15 DEF Report, recordRun, NextDataset, NoCounts, appVars, accountVars, plainVars,
       lockVars, sweepVars, OnlyAccountsArePicked, Enforcing, ModeOf, Dataset
  <2>3. LocksAreOrdered'
    BY <1>0, <1>15 DEF Report, recordRun, NextDataset, NoCounts, appVars, accountVars, plainVars,
       lockVars, sweepVars, LocksAreOrdered, RetentionTypes, Marks, OnlyAccountsArePicked
  <2>4. LockedStayEligible'
    BY <1>0, <1>15 DEF Report, recordRun, NextDataset, NoCounts, appVars, accountVars, plainVars,
       lockVars, sweepVars, LockedStayEligible, LocksAreOrdered, activeHold, RetentionTypes,
       OnlyAccountsArePicked
  <2>5. CountCovers'
    BY <1>0, <1>15 DEF Report, recordRun, NextDataset, NoCounts, sweepVars, CountCovers
  <2>6. NeededNumberIsKept'
    BY <1>0, <1>15 DEF Report, recordRun, NextDataset, NoCounts, appVars, accountVars, plainVars,
       lockVars, sweepVars, NeededNumberIsKept, RetentionTypes, LockedStayEligible, LocksAreOrdered
  <2>7. RunsAreRecordable'
    BY <1>0, <1>15 DEF Report, recordRun, RunsAreRecordable, CountCovers, ModeOf, RetentionTypes
  <2>8. KeepsHeld
    BY <1>0, <1>15 DEF Report, recordRun, NextDataset, NoCounts, appVars, accountVars, plainVars,
       lockVars, sweepVars, KeepsHeld, activeHold, LockedStayEligible, RetentionTypes, Dataset,
       OnlyAccountsArePicked
  <2> QED
    BY <2>1, <2>2, <2>3, <2>4, <2>5, <2>6, <2>7, <2>8 DEF Goal, RetentionInv
<1>16. CASE enforceDataset
  <2> PICK S \in Batches(Eligible(Dataset)) :
        /\ \/ /\ Dataset = "application_content"
              /\ content' = content \ S
              /\ link' = [x \in Apps |-> IF x \in S THEN NoAccount ELSE link[x]]
              /\ UNCHANGED rows
           \/ /\ Dataset # "application_content"
              /\ rows' = [d \in Plain |-> IF d \in S THEN "gone" ELSE rows[d]]
              /\ UNCHANGED <<content, link>>
        /\ recordRun(counts, Cardinality(S), "completed")
    BY <1>16 DEF enforceDataset
  <2>a. /\ S \subseteq Eligible(Dataset) /\ S \subseteq Candidates(Dataset)
        /\ Cardinality(S) \in Nat /\ Cardinality(Candidates(Dataset)) \in Nat
        /\ Cardinality(S) <= Cardinality(Candidates(Dataset))
    BY <1>0, BatchOfCandidates
  <2>b. /\ at = "counted" /\ ModeOf(Dataset) = "enforce"
        /\ Dataset \notin {"tip_claims", "receiving_accounts"}
    BY <1>16 DEF enforceDataset, Enforcing, ModeOf
  <2>c. /\ Dataset = "application_content" => S \subseteq Apps /\ \A x \in S : app[x] = "closed"
        /\ Dataset # "application_content" => S \subseteq {Dataset}
    BY <1>0, <2>a, <2>b DEF Candidates, Ended, RetentionTypes
  <2>d. /\ S # {} => ~activeHold(Dataset, User)
        /\ Dataset = "application_content" => \A x \in S : ~activeHold(Dataset, x)
    BY <2>a, <2>b DEF Eligible
  <2>1. RetentionTypes'
    BY <1>0, <1>16 DEF enforceDataset, NextDataset, NoCounts, accountVars, lockVars, RetentionTypes,
       Marks
  <2>2. OnlyAccountsArePicked'
    BY <1>0, <1>16 DEF enforceDataset, recordRun, NextDataset, NoCounts, appVars, accountVars,
       plainVars, lockVars, sweepVars, OnlyAccountsArePicked, Enforcing, ModeOf, Dataset
  <2>3. LocksAreOrdered'
    BY <1>0, <1>16 DEF enforceDataset, recordRun, NextDataset, NoCounts, appVars, accountVars,
       plainVars, lockVars, sweepVars, LocksAreOrdered, RetentionTypes, Marks, OnlyAccountsArePicked
  <2>4. LockedStayEligible'
    BY <1>0, <1>16 DEF enforceDataset, recordRun, NextDataset, NoCounts, appVars, accountVars,
       plainVars, lockVars, sweepVars, LockedStayEligible, LocksAreOrdered, activeHold,
       RetentionTypes, OnlyAccountsArePicked
  <2>5. CountCovers'
    BY <1>16 DEF enforceDataset, NextDataset, CountCovers
  <2>6. NeededNumberIsKept'
    BY <1>0, <1>16, <2>c DEF enforceDataset, accountVars, NeededNumberIsKept, RetentionTypes
  <2>7. RunsAreRecordable'
    <3>1. /\ Cardinality(Candidates(Dataset)) <= counts.candidates /\ counts.candidates \in Nat
      BY <1>0, <2>b DEF CountCovers, RetentionTypes
    <3>2. Cardinality(S) <= counts.candidates
      BY <2>a, <3>1
    <3> QED
      BY <2>b, <3>2 DEF recordRun, RunsAreRecordable
  <2>8. KeepsHeld
    BY <1>0, <1>16, <2>c, <2>d DEF enforceDataset, accountVars, KeepsHeld, RetentionTypes
  <2> QED
    BY <2>1, <2>2, <2>3, <2>4, <2>5, <2>6, <2>7, <2>8 DEF Goal, RetentionInv
<1>17. CASE SelectAccounts
  <2>1. RetentionTypes'
    <3>1. picked' \subseteq Candidates("receiving_accounts")
      BY <1>0, <1>17, BatchOfCandidates DEF SelectAccounts
    <3>2. picked' \subseteq Accounts
      BY <1>0, <3>1 DEF Candidates, RetentionTypes
    <3> QED
      BY <1>0, <1>17, <3>2 DEF SelectAccounts, appVars, accountVars, plainVars, lockVars,
         sweepVars, RetentionTypes, Marks
  <2>2. OnlyAccountsArePicked'
    BY <1>0, <1>17 DEF SelectAccounts, appVars, accountVars, plainVars, lockVars, sweepVars,
       OnlyAccountsArePicked, Enforcing, ModeOf, Dataset
  <2>3. LocksAreOrdered'
    BY <1>0, <1>17 DEF SelectAccounts, appVars, accountVars, plainVars, lockVars, sweepVars,
       LocksAreOrdered, RetentionTypes, Marks, OnlyAccountsArePicked
  <2>4. LockedStayEligible'
    BY <1>0, <1>17 DEF SelectAccounts, appVars, accountVars, plainVars, lockVars, sweepVars,
       LockedStayEligible, LocksAreOrdered, activeHold, RetentionTypes, OnlyAccountsArePicked
  <2>5. CountCovers'
    <3>1. Dataset' = Dataset /\ Candidates(Dataset)' = Candidates(Dataset)
      BY <1>17 DEF SelectAccounts, appVars, accountVars, plainVars, lockVars, sweepVars,
         Candidates, Ended, Dataset
    <3>2. /\ Cardinality(picked') <= Cardinality(Candidates(Dataset))
          /\ Cardinality(picked') \in Nat /\ Cardinality(Candidates(Dataset)) \in Nat
      BY <1>0, <1>17, BatchOfCandidates DEF SelectAccounts
    <3>3. /\ Cardinality(Candidates(Dataset)) <= counts.candidates
          /\ counts.candidates \in Nat /\ counts' = counts
      BY <1>0, <1>17 DEF SelectAccounts, CountCovers, RetentionTypes
    <3>4. Cardinality(picked') <= counts'.candidates
      BY <3>2, <3>3
    <3> QED
      BY <1>0, <1>17, <3>1, <3>3, <3>4 DEF SelectAccounts, CountCovers
  <2>6. NeededNumberIsKept'
    BY <1>0, <1>17 DEF SelectAccounts, appVars, accountVars, plainVars, lockVars, sweepVars,
       NeededNumberIsKept, RetentionTypes, LockedStayEligible, LocksAreOrdered
  <2>7. RunsAreRecordable'
    BY <1>0, <1>17 DEF SelectAccounts, appVars, accountVars, plainVars, lockVars, sweepVars,
       RunsAreRecordable, CountCovers, OnlyAccountsArePicked, Enforcing, ModeOf
  <2>8. KeepsHeld
    BY <1>0, <1>17 DEF SelectAccounts, appVars, accountVars, plainVars, lockVars, sweepVars,
       KeepsHeld, activeHold, LockedStayEligible, RetentionTypes, Dataset, OnlyAccountsArePicked
  <2> QED
    BY <2>1, <2>2, <2>3, <2>4, <2>5, <2>6, <2>7, <2>8 DEF Goal, RetentionInv
<1>18. CASE FenceAccounts
  <2>1. RetentionTypes'
    BY <1>0, <1>18 DEF FenceAccounts, Fenced, appVars, accountVars, plainVars, lockVars,
       sweepVars, RetentionTypes, Marks
  <2>2. OnlyAccountsArePicked'
    BY <1>0, <1>18 DEF FenceAccounts, Fenced, appVars, accountVars, plainVars, lockVars,
       sweepVars, OnlyAccountsArePicked, Enforcing, ModeOf, Dataset
  <2>3. LocksAreOrdered'
    BY <1>0, <1>18 DEF FenceAccounts, Fenced, appVars, accountVars, plainVars, lockVars,
       sweepVars, LocksAreOrdered, RetentionTypes, Marks, OnlyAccountsArePicked
  <2>4. LockedStayEligible'
    BY <1>0, <1>18 DEF FenceAccounts, Fenced, appVars, accountVars, plainVars, lockVars,
       sweepVars, LockedStayEligible, LocksAreOrdered, activeHold, RetentionTypes,
       OnlyAccountsArePicked
  <2>5. CountCovers'
    BY <1>18, BatchShrinks DEF FenceAccounts, Fenced, appVars, accountVars, plainVars
  <2>6. NeededNumberIsKept'
    BY <1>0, <1>18 DEF FenceAccounts, Fenced, appVars, accountVars, plainVars, lockVars,
       sweepVars, NeededNumberIsKept, RetentionTypes, LockedStayEligible, LocksAreOrdered
  <2>7. RunsAreRecordable'
    BY <1>0, <1>18 DEF FenceAccounts, Fenced, appVars, accountVars, plainVars, lockVars,
       sweepVars, RunsAreRecordable, CountCovers, OnlyAccountsArePicked, Enforcing, ModeOf
  <2>8. KeepsHeld
    BY <1>0, <1>18 DEF FenceAccounts, Fenced, appVars, accountVars, plainVars, lockVars,
       sweepVars, KeepsHeld, activeHold, LockedStayEligible, RetentionTypes, Dataset,
       OnlyAccountsArePicked
  <2> QED
    BY <2>1, <2>2, <2>3, <2>4, <2>5, <2>6, <2>7, <2>8 DEF Goal, RetentionInv
<1>19. CASE LockAccounts
  <2>1. RetentionTypes'
    BY <1>0, <1>19 DEF LockAccounts, receivingAccountRetentionEligibility, appVars, accountVars,
       plainVars, lockVars, sweepVars, RetentionTypes, Marks
  <2>2. OnlyAccountsArePicked'
    BY <1>0, <1>19 DEF LockAccounts, receivingAccountRetentionEligibility, appVars, accountVars,
       plainVars, lockVars, sweepVars, OnlyAccountsArePicked, Enforcing, ModeOf, Dataset
  <2>3. LocksAreOrdered'
    BY <1>0, <1>19 DEF LockAccounts, receivingAccountRetentionEligibility, appVars, accountVars,
       plainVars, lockVars, sweepVars, LocksAreOrdered, RetentionTypes, Marks, OnlyAccountsArePicked
  <2>4. LockedStayEligible'
    BY <1>0, <1>19 DEF LockAccounts, receivingAccountRetentionEligibility, appVars, accountVars,
       plainVars, lockVars, sweepVars, LockedStayEligible, LocksAreOrdered, activeHold,
       RetentionTypes, OnlyAccountsArePicked
  <2>5. CountCovers'
    BY <1>19, BatchShrinks DEF LockAccounts, appVars, accountVars, plainVars
  <2>6. NeededNumberIsKept'
    BY <1>0, <1>19 DEF LockAccounts, receivingAccountRetentionEligibility, appVars, accountVars,
       plainVars, lockVars, sweepVars, NeededNumberIsKept, RetentionTypes, LockedStayEligible,
       LocksAreOrdered
  <2>7. RunsAreRecordable'
    BY <1>0, <1>19 DEF LockAccounts, receivingAccountRetentionEligibility, appVars, accountVars,
       plainVars, lockVars, sweepVars, RunsAreRecordable, CountCovers, OnlyAccountsArePicked,
       Enforcing, ModeOf
  <2>8. KeepsHeld
    BY <1>0, <1>19 DEF LockAccounts, receivingAccountRetentionEligibility, appVars, accountVars,
       plainVars, lockVars, sweepVars, KeepsHeld, activeHold, LockedStayEligible, RetentionTypes,
       Dataset, OnlyAccountsArePicked
  <2> QED
    BY <2>1, <2>2, <2>3, <2>4, <2>5, <2>6, <2>7, <2>8 DEF Goal, RetentionInv
<1>20. CASE MinimizeAccounts
  <2>1. RetentionTypes'
    BY <1>0, <1>20 DEF MinimizeAccounts, recordRun, NextDataset, NoCounts, Unlocked, appVars,
       accountVars, plainVars, lockVars, sweepVars, RetentionTypes, Marks
  <2>2. OnlyAccountsArePicked'
    BY <1>0, <1>20 DEF MinimizeAccounts, recordRun, NextDataset, NoCounts, Unlocked, appVars,
       accountVars, plainVars, lockVars, sweepVars, OnlyAccountsArePicked, Enforcing, ModeOf,
       Dataset
  <2>3. LocksAreOrdered'
    BY <1>0, <1>20 DEF MinimizeAccounts, recordRun, NextDataset, NoCounts, Unlocked, appVars,
       accountVars, plainVars, lockVars, sweepVars, LocksAreOrdered, RetentionTypes, Marks,
       OnlyAccountsArePicked
  <2>4. LockedStayEligible'
    BY <1>0, <1>20 DEF MinimizeAccounts, recordRun, NextDataset, NoCounts, Unlocked, appVars,
       accountVars, plainVars, lockVars, sweepVars, LockedStayEligible, LocksAreOrdered, activeHold,
       RetentionTypes, OnlyAccountsArePicked
  <2>5. CountCovers'
    BY <1>20 DEF MinimizeAccounts, NextDataset, CountCovers
  <2>6. NeededNumberIsKept'
    BY <1>0, <1>20 DEF MinimizeAccounts, recordRun, NextDataset, NoCounts, Unlocked, appVars,
       accountVars, plainVars, lockVars, sweepVars, NeededNumberIsKept, RetentionTypes,
       LockedStayEligible, LocksAreOrdered
  <2>7. RunsAreRecordable'
    BY <1>0, <1>20 DEF MinimizeAccounts, recordRun, NextDataset, NoCounts, Unlocked, appVars,
       accountVars, plainVars, lockVars, sweepVars, RunsAreRecordable, CountCovers,
       OnlyAccountsArePicked, Enforcing, ModeOf
  <2>8. KeepsHeld
    BY <1>0, <1>20 DEF MinimizeAccounts, recordRun, NextDataset, NoCounts, Unlocked, appVars,
       accountVars, plainVars, lockVars, sweepVars, KeepsHeld, activeHold, LockedStayEligible,
       RetentionTypes, Dataset, OnlyAccountsArePicked
  <2> QED
    BY <2>1, <2>2, <2>3, <2>4, <2>5, <2>6, <2>7, <2>8 DEF Goal, RetentionInv
<1>21. CASE FailDataset
  <2>1. RetentionTypes'
    BY <1>0, <1>21 DEF FailDataset, recordRun, NextDataset, NoCounts, Unlocked, appVars,
       accountVars, plainVars, lockVars, sweepVars, RetentionTypes, Marks
  <2>2. OnlyAccountsArePicked'
    BY <1>0, <1>21 DEF FailDataset, recordRun, NextDataset, NoCounts, Unlocked, appVars,
       accountVars, plainVars, lockVars, sweepVars, OnlyAccountsArePicked, Enforcing, ModeOf,
       Dataset
  <2>3. LocksAreOrdered'
    BY <1>0, <1>21 DEF FailDataset, recordRun, NextDataset, NoCounts, Unlocked, appVars,
       accountVars, plainVars, lockVars, sweepVars, LocksAreOrdered, RetentionTypes, Marks,
       OnlyAccountsArePicked
  <2>4. LockedStayEligible'
    BY <1>0, <1>21 DEF FailDataset, recordRun, NextDataset, NoCounts, Unlocked, appVars,
       accountVars, plainVars, lockVars, sweepVars, LockedStayEligible, LocksAreOrdered, activeHold,
       RetentionTypes, OnlyAccountsArePicked
  <2>5. CountCovers'
    BY <1>21 DEF FailDataset, NextDataset, CountCovers
  <2>6. NeededNumberIsKept'
    BY <1>0, <1>21 DEF FailDataset, recordRun, NextDataset, NoCounts, Unlocked, appVars,
       accountVars, plainVars, lockVars, sweepVars, NeededNumberIsKept, RetentionTypes,
       LockedStayEligible, LocksAreOrdered
  <2>7. RunsAreRecordable'
    BY <1>0, <1>21 DEF FailDataset, recordRun, NextDataset, NoCounts, Unlocked, appVars,
       accountVars, plainVars, lockVars, sweepVars, RunsAreRecordable, CountCovers,
       OnlyAccountsArePicked, Enforcing, ModeOf
  <2>8. KeepsHeld
    BY <1>0, <1>21 DEF FailDataset, recordRun, NextDataset, NoCounts, Unlocked, appVars,
       accountVars, plainVars, lockVars, sweepVars, KeepsHeld, activeHold, LockedStayEligible,
       RetentionTypes, Dataset, OnlyAccountsArePicked
  <2> QED
    BY <2>1, <2>2, <2>3, <2>4, <2>5, <2>6, <2>7, <2>8 DEF Goal, RetentionInv
<1> QED
  BY <1>1, <1>2, <1>3, <1>4, <1>5, <1>6, <1>7, <1>8, <1>9, <1>10, <1>11, <1>12, <1>13, <1>14,
     <1>15, <1>16, <1>17, <1>18, <1>19, <1>20, <1>21 DEF SweepNext, Sweep, Applicant


LEMMA RetentionBegins == SweepInit => RetentionInv
<1> SUFFICES ASSUME SweepInit PROVE RetentionInv
  OBVIOUS
<1> USE DEF SweepInit
<1>1. RetentionTypes
  BY DEF RetentionTypes, Marks, NoCounts
<1>2. OnlyAccountsArePicked /\ LockedStayEligible /\ CountCovers
  BY DEF OnlyAccountsArePicked, LockedStayEligible, CountCovers
<1>3. LocksAreOrdered
  <2>1. writer.at = "idle"
    OBVIOUS
  <2> QED
    BY <2>1 DEF LocksAreOrdered
<1>4. NeededNumberIsKept /\ RunsAreRecordable
  BY DEF NeededNumberIsKept, RunsAreRecordable, NoRun
<1> QED
  BY <1>1, <1>2, <1>3, <1>4 DEF RetentionInv

\* The invariant of the retention sweep: what it read under its locks stands until it
\* commits, and the count covers what it removes.
LEMMA RetentionInvariant == SweepSpec => []RetentionInv
<1>1. SweepInit => RetentionInv
  BY RetentionBegins
<1>2. RetentionInv /\ [SweepNext]_retentionVars => RetentionInv'
  <2>1. RetentionInv /\ UNCHANGED retentionVars => RetentionInv'
    BY DEF retentionVars, appVars, accountVars, plainVars, lockVars, sweepVars, RetentionInv,
           RetentionTypes, OnlyAccountsArePicked, LocksAreOrdered, LockedStayEligible, CountCovers,
           NeededNumberIsKept, RunsAreRecordable, Dataset, Enforcing, ModeOf, activeHold,
           Candidates, Ended
  <2> QED
    BY <2>1, RetentionStep
<1> QED
  BY <1>1, <1>2, PTL DEF SweepSpec

\* minimizeReceivingAccounts erases no number that a payment intent, a submitted application
\* or an active challenge needs.
THEOREM RetentionKeepsNeededNumbers == SweepSpec => []NeededNumberIsKept
<1>1. RetentionInv => NeededNumberIsKept
  BY DEF RetentionInv
<1> QED
  BY <1>1, RetentionInvariant, PTL

\* A payment writer with the fence and the sweep with the row never wait for one another.
THEOREM RetentionLocksDoNotCycle == SweepSpec => []NoLockCycle
<1>1. RetentionInv => NoLockCycle
  BY DEF RetentionInv, LocksAreOrdered, NoLockCycle
<1> QED
  BY <1>1, RetentionInvariant, PTL

\* system_guard_retention_hold_change: what an owner holds is kept while the hold stands,
\* also when the hold comes in the middle of a sweep.
THEOREM RetentionKeepsWhatIsHeld == SweepSpec => HeldIsKept
<1>1. RetentionInv /\ [SweepNext]_retentionVars => [KeepsHeld]_retentionVars
  BY RetentionStep
<1> QED
  BY <1>1, RetentionInvariant, PTL DEF SweepSpec, HeldIsKept

\* The whole promise of the sweep: numbers, locks, recorded runs and holds.
THEOREM RetentionSafe == SweepSpec => RetentionIsSafe
<1>1. RetentionInv => NeededNumberIsKept /\ NoLockCycle /\ RunsAreRecordable
  BY DEF RetentionInv, LocksAreOrdered, NoLockCycle
<1>2. SweepSpec => [](NeededNumberIsKept /\ NoLockCycle /\ RunsAreRecordable)
  BY <1>1, RetentionInvariant, PTL
<1> QED
  BY <1>2, RetentionKeepsWhatIsHeld, PTL DEF RetentionIsSafe

---------------------------------------------------------------------------
(* The security mail.                                                      *)

Phases == {"idle", "retire", "recover", "claim", "send", "unknown", "delivered"}
Attempts == [phase : Phases, at : Nat, attempt : Nat]
JobRows == [state : {"none", "waiting", "active", "completed", "failed"}, made : Nat, readyAt : Nat,
            owner : Workers \cup {NoWorker}, lockedUntil : Nat, stalls : Nat]

MailRows == [status : {"none", "pending", "processing", "failed"} \cup Final, attempts : Nat,
             availableAt : Nat, lockedAt : Nat, lease : Nat]

\* What each statement of an attempt may find: the row, the job, the workers.
MailTyped ==
  /\ now \in Nat /\ purpose \in {"notice", "credential"}
  /\ mailRow \in MailRows
  /\ job \in JobRows
  /\ act \in [Workers -> Attempts]
  /\ mailWriter \in [Workers -> {"idle", "absent", "done"}]
  /\ requests \in Nat /\ sends \in Nat /\ mailFaults \in Nat
  /\ job.state \in {"none", "waiting", "active"} => job.made < JobAttempts

\* The event leads to the request, the request to the job and the job to the attempts.
OriginKnown ==
  /\ requests <= 1
  /\ requests > 0 => mailRow.status # "none"
  /\ mailRow.status = "none" => mailRow.attempts = 0
  /\ job.state # "none" => requests > 0
  /\ \A w \in Workers : act[w].phase # "idle" => job.state # "none"

Contacting == {w \in Workers : act[w].phase = "send"}

\* A contact with the provider is paid for by an attempt of the row before it is made.
SendsArePaid ==
  /\ sends + Cardinality(Contacting) <= mailRow.attempts
  /\ mailRow.attempts <= SendLimit
  /\ \A w \in Workers : act[w].phase = "delivered" => act[w].attempt \in accepted

\* A credential row is never claimed.
CredentialsRest ==
  purpose = "credential" =>
    /\ mailRow.attempts = 0 /\ mailRow.lease = 0
    /\ \A w \in Workers : /\ act[w].phase \in {"idle", "retire", "recover", "claim"}
                          /\ act[w].phase \in {"recover", "claim"} => mailRow.status \in Final

Contact == {"send", "unknown", "delivered"}

\* Without faults the job has one worker, and the row is leased while that worker is at the
\* provider and only then.
OneAttempt ==
  /\ \A w \in Workers : act[w].phase # "idle" => job.state = "active" /\ job.owner = w
  /\ job.state = "active" =>
       job.owner \in Workers /\ act[job.owner].phase # "idle" /\ act[job.owner].at <= now
  /\ mailRow.status = "processing" \/ mailRow.lease # 0 =>
       job.state = "active" /\ act[job.owner].phase \in Contact
  /\ \A w \in Workers : act[w].phase \in Contact => owns(w)

\* When the job looks at the row next, or did.
look == IF job.state = "active" THEN act[job.owner].at ELSE job.readyAt

\* How far the job and the row have come: the n-th wait of the row for a send is shorter than
\* what the job's remaining attempts wait.
OnSchedule ==
  /\ job.state = "none" => mailRow.attempts = 0 /\ job.made = 0 /\ mailRow.availableAt <= now
  /\ job.state \in {"completed", "failed"} => mailRow.status \in Final
  /\ job.state \in {"waiting", "active"} /\ mailRow.status \notin Final \cup {"processing"} =>
       \/ mailRow.attempts = 0 /\ job.made = 0 /\ mailRow.availableAt <= look
       \/ /\ mailRow.attempts = 1 /\ job.made \in 1..6
          /\ mailRow.availableAt + backoff(job.made + 1) <= look + 61
       \/ /\ mailRow.attempts = 2 /\ job.made \in 2..7
          /\ mailRow.availableAt + backoff(job.made) <= look + 60
  /\ mailRow.status = "processing" =>
       \/ mailRow.attempts = 1 /\ job.made = 0
       \/ mailRow.attempts = 2 /\ job.made \in 1..6
       \/ mailRow.attempts = 3 /\ job.made \in 2..7

MailInv ==
  /\ MailTyped /\ OriginKnown /\ SendsArePaid /\ CredentialsRest
  /\ mailFaults = 0 => OneAttempt /\ OnSchedule

---------------------------------------------------------------------------
\* The waits of the job, attempt by attempt.
LEMMA Backoffs ==
  /\ backoff(1) = 1 /\ backoff(2) = 2 /\ backoff(3) = 4 /\ backoff(4) = 8
  /\ backoff(5) = 16 /\ backoff(6) = 32 /\ backoff(7) = 64 /\ backoff(8) = 128
  BY DEF backoff

\* Every wait is twice the one before, and all are numbers.
LEMMA WaitsDouble ==
  \A k \in 1..7 : backoff(k) \in Nat /\ backoff(k + 1) \in Nat /\ backoff(k + 1) = 2 * backoff(k)
<1> SUFFICES ASSUME NEW k \in 1..7
    PROVE backoff(k) \in Nat /\ backoff(k + 1) \in Nat /\ backoff(k + 1) = 2 * backoff(k)
  OBVIOUS
<1>1. k = 1 \/ k = 2 \/ k = 3 \/ k = 4 \/ k = 5 \/ k = 6 \/ k = 7
  OBVIOUS
<1> QED
  BY <1>1, Backoffs

\* What the statement after an attempt's statement finds: only the phase has moved.
LEMMA Goes ==
  ASSUME MailTyped, NEW w \in Workers,
         NEW phase \in Phases,
         go(w, phase)
  PROVE  /\ job' = job
         /\ act' \in [Workers -> Attempts]
         /\ act'[w].phase = phase /\ act'[w].at = act[w].at /\ act'[w].attempt = act[w].attempt
         /\ \A v \in Workers \ {w} : act'[v] = act[v]
<1>1. act[w] \in Attempts
  BY DEF MailTyped
<1>2. [act[w] EXCEPT !.phase = phase]
        = [phase |-> phase, at |-> act[w].at, attempt |-> act[w].attempt]
  BY <1>1 DEF Attempts
<1>3. act' = [act EXCEPT ![w] = [phase |-> phase, at |-> act[w].at, attempt |-> act[w].attempt]]
  BY <1>2 DEF go
<1>4. [phase |-> phase, at |-> act[w].at, attempt |-> act[w].attempt] \in Attempts
  BY <1>1 DEF Attempts
<1> QED
  BY <1>3, <1>4 DEF go, MailTyped

\* The end of an attempt, for the worker that still has the job.
LEMMA Finishes ==
  ASSUME MailTyped, NEW w \in Workers, NEW ok \in BOOLEAN, finish(w, ok)
  PROVE  /\ act' \in [Workers -> Attempts]
         /\ act'[w].phase = "idle" /\ \A v \in Workers \ {w} : act'[v] = act[v]
         /\ job' \in JobRows
         /\ job'.state \in {"none", "waiting", "active"} => job'.made < JobAttempts
         /\ (job.state = "none") <=> (job'.state = "none")
         /\ job.state = "active" /\ job.owner = w =>
              \/ ok /\ job'.state = "completed"
              \/ ~ok /\ job.made = 7 /\ job'.state = "failed"
              \/ /\ ~ok /\ job.made \in 0..6 /\ job'.state = "waiting" /\ job'.made = job.made + 1
                 /\ job'.readyAt = now + backoff(job.made + 1)
<1> USE SchedulesAssumption, MailAssumption
<1>1. act' = [act EXCEPT ![w] = [phase |-> "idle", at |-> 0, attempt |-> 0]]
  BY DEF finish, Idle
<1>2. /\ act' \in [Workers -> Attempts]
      /\ act'[w].phase = "idle" /\ \A v \in Workers \ {w} : act'[v] = act[v]
  <2>1. [phase |-> "idle", at |-> 0, attempt |-> 0] \in Attempts
    BY DEF Attempts, Phases
  <2> QED
    BY <1>1, <2>1 DEF MailTyped
<1> job \in JobRows /\ now \in Nat
  BY DEF MailTyped
<1>3. job' = ended(w, ok)
  BY DEF finish
<1>4. CASE job.state # "active" \/ job.owner # w
  <2>1. job' = job
    BY <1>3, <1>4 DEF ended
  <2> QED
    BY <1>2, <1>4, <2>1 DEF MailTyped
<1>5. CASE job.state = "active" /\ job.owner = w /\ ok
  <2>1. job' = [job EXCEPT !.state = "completed", !.owner = NoWorker]
    BY <1>3, <1>5 DEF ended
  <2>2. job'.state = "completed" /\ job' \in JobRows
    BY <2>1 DEF JobRows
  <2> QED
    BY <1>2, <1>5, <2>2
<1>6. CASE job.state = "active" /\ job.owner = w /\ ~ok /\ job.made = 7
  <2> DEFINE m == job.made + 1
  <2>0. m \in Nat
    BY DEF JobRows
  <2> HIDE DEF m
  <2>1. job' = [job EXCEPT !.state = "failed", !.owner = NoWorker, !.made = m]
    BY <1>3, <1>6 DEF ended, m
  <2>2. job'.state = "failed" /\ job' \in JobRows
    BY <2>0, <2>1 DEF JobRows
  <2> QED
    BY <1>2, <1>6, <2>2
<1>7. CASE job.state = "active" /\ job.owner = w /\ ~ok /\ job.made # 7
  <2>1. job.made \in 0..6
    BY <1>7 DEF MailTyped, JobRows
  <2>2. backoff(job.made + 1) \in Nat
    BY <2>1, WaitsDouble
  <2> DEFINE m == job.made + 1
             r == now + backoff(job.made + 1)
  <2>3. m \in Nat /\ r \in Nat
    BY <2>1, <2>2
  <2>4. job' = [job EXCEPT !.state = "waiting", !.owner = NoWorker, !.made = m, !.readyAt = r]
    BY <1>3, <1>7, <2>1 DEF ended
  <2> HIDE DEF m, r
  <2>5. job'.state = "waiting" /\ job'.made = m /\ job'.readyAt = r /\ job' \in JobRows
    BY <2>3, <2>4 DEF JobRows
  <2> QED
    BY <1>2, <1>7, <2>1, <2>5 DEF m, r
<1> QED
  BY <1>4, <1>5, <1>6, <1>7

---------------------------------------------------------------------------
\* Every step keeps the rows and the attempts what they are.
LEMMA MailTypedStep ==
  ASSUME MailTyped, [MailNext]_mailVars
  PROVE  MailTyped'
<1> USE SchedulesAssumption, MailAssumption
<1>0. /\ now \in Nat /\ mailRow \in MailRows /\ job \in JobRows /\ act \in [Workers -> Attempts]
      /\ requests \in Nat /\ sends \in Nat /\ mailFaults \in Nat
      /\ mailWriter \in [Workers -> {"idle", "absent", "done"}]
      /\ job.state \in {"none", "waiting", "active"} => job.made < JobAttempts
  BY DEF MailTyped
<1>rows. \A w \in Workers : act[w] \in Attempts /\ act[w].at \in Nat /\ act[w].attempt \in Nat
  BY <1>0 DEF Attempts
<1>att. toAttention \in MailRows
  BY <1>0 DEF toAttention, MailRows, Final
<1>1. CASE UNCHANGED mailVars
  BY <1>1 DEF mailVars, MailTyped
<1>2. CASE pass
  <2>1. Deadlines \subseteq Nat
    BY <1>0 DEF Deadlines, JobRows, MailRows
  <2> QED
    BY <1>2, <2>1 DEF pass, MailTyped
<1>3. CASE publish
  <2>1. job' \in JobRows /\ job'.state = "waiting" /\ job'.made = job.made
    BY <1>0, <1>3 DEF publish, JobRows
  <2> QED
    BY <1>0, <1>3, <2>1 DEF publish, MailTyped
<1>4. ASSUME NEW w \in Workers, findExisting(w) PROVE MailTyped'
  BY <1>4 DEF findExisting, MailTyped
<1>5. ASSUME NEW w \in Workers, materialize(w) PROVE MailTyped'
  <2>1. [NoRow EXCEPT !.status = "attention_required"] \in MailRows
    BY DEF NoRow, MailRows, Final
  <2>2. [NoRow EXCEPT !.status = "pending", !.availableAt = now] \in MailRows
    BY <1>0 DEF NoRow, MailRows
  <2>3. mailRow' \in MailRows /\ requests' \in Nat
    BY <1>0, <1>5, <2>1, <2>2
    DEF materialize, queueSecurityEmailHandoff, recordSecurityEmailAttentionRequired
  <2> QED
    BY <1>0, <1>5, <2>3 DEF materialize, MailTyped
<1>6. ASSUME NEW w \in Workers, pick(w) PROVE MailTyped'
  <2>1. now + LockDuration \in Nat
    BY <1>0
  <2>2. job' \in JobRows /\ job'.state = "active" /\ job'.made = job.made
    <3> DEFINE until == now + LockDuration
    <3>1. until \in Nat
      BY <2>1
    <3>2. job' = [job EXCEPT !.state = "active", !.owner = w, !.lockedUntil = until]
      BY <1>6 DEF pick
    <3> HIDE DEF until
    <3> QED
      BY <1>0, <3>1, <3>2 DEF JobRows
  <2>3. [phase |-> "retire", at |-> now, attempt |-> 0] \in Attempts
    BY <1>0 DEF Attempts, Phases
  <2>4. act' \in [Workers -> Attempts]
    BY <1>0, <1>6, <2>3 DEF pick
  <2> QED
    BY <1>0, <1>6, <2>2, <2>4 DEF pick, MailTyped
<1>7. ASSUME NEW w \in Workers, stall(w) PROVE MailTyped'
  <2>1. job' \in JobRows /\ (job'.state = "waiting" => job'.made = job.made) /\ job'.state \in {"waiting", "failed"}
    BY <1>0, <1>7 DEF stall, JobRows
  <2>2. Idle \in Attempts
    BY DEF Idle, Attempts, Phases
  <2>3. act' \in [Workers -> Attempts]
    BY <1>0, <1>7, <2>2 DEF stall
  <2> QED
    BY <1>0, <1>7, <2>1, <2>3 DEF stall, MailTyped
<1>8. ASSUME NEW w \in Workers, throw(w) PROVE MailTyped'
  <2>1. finish(w, FALSE)
    BY <1>8 DEF throw
  <2>2. mailFaults' \in Nat
    BY <1>0, <1>8 DEF throw
  <2> QED
    BY <1>8, <2>1, <2>2, Finishes DEF throw, MailTyped
<1>9. ASSUME NEW w \in Workers, retire(w) PROVE MailTyped'
  <2>1. mailRow' \in MailRows /\ (finish(w, TRUE) \/ go(w, "recover")) /\ "recover" \in Phases
    BY <1>0, <1>9, <1>att DEF retire, Phases
  <2> QED
    BY <1>9, <2>1, Finishes, Goes DEF retire, MailTyped
<1>10. ASSUME NEW w \in Workers, recover(w) PROVE MailTyped'
  <2>1. mailRow' \in MailRows /\ (finish(w, TRUE) \/ go(w, "claim")) /\ "claim" \in Phases
    BY <1>0, <1>10, <1>att DEF recover, Phases
  <2> QED
    BY <1>10, <2>1, Finishes, Goes DEF recover, MailTyped
<1>11. ASSUME NEW w \in Workers, claim(w) PROVE MailTyped'
  <2>1. CASE claimable(w)
    <3> DEFINE k == mailRow.attempts + 1
               until == act[w].at + Lease
    <3>1. k \in Nat /\ until \in Nat /\ act[w].at \in Nat
      BY <1>0, <1>rows DEF MailRows
    <3>2. mailRow' = [mailRow EXCEPT !.status = "processing", !.attempts = k,
                                     !.lockedAt = act[w].at, !.lease = until]
      BY <1>11, <2>1 DEF claim
    <3>3. act' = [act EXCEPT ![w].phase = "send", ![w].attempt = k] /\ job' = job
      BY <1>11, <2>1 DEF claim
    <3> HIDE DEF k, until
    <3>4. mailRow' \in MailRows
      BY <1>0, <3>1, <3>2 DEF MailRows
    <3>5. [[act[w] EXCEPT !.phase = "send"] EXCEPT !.attempt = k] \in Attempts
      BY <1>rows, <3>1 DEF Attempts, Phases
    <3>6. act' \in [Workers -> Attempts]
      BY <1>0, <3>3, <3>5
    <3> QED
      BY <1>0, <1>11, <3>3, <3>4, <3>6 DEF claim, MailTyped
  <2>2. CASE ~claimable(w)
    <3>1. finish(w, mailRow.status \in Final) /\ mailRow' = mailRow
      BY <1>11, <2>2 DEF claim
    <3>2. (mailRow.status \in Final) \in BOOLEAN
      OBVIOUS
    <3> QED
      BY <1>11, <3>1, <3>2, Finishes DEF claim, MailTyped
  <2> QED
    BY <2>1, <2>2
<1>12. ASSUME NEW w \in Workers, send(w) PROVE MailTyped'
  <2>1. (go(w, "delivered") \/ go(w, "unknown")) /\ {"delivered", "unknown"} \subseteq Phases /\ sends' \in Nat
    BY <1>0, <1>12 DEF send, Phases
  <2> QED
    BY <1>12, <2>1, Goes DEF send, MailTyped
<1>13. ASSUME NEW w \in Workers, sendFailed(w) PROVE MailTyped'
  <2> DEFINE over == act[w].attempt >= SendLimit
             next == act[w].at + RetryDelay
  <2>1. finish(w, owns(w) /\ over) /\ (owns(w) /\ over) \in BOOLEAN
    BY <1>13 DEF sendFailed, owns
  <2>2. next \in Nat
    BY <1>rows
  <2>3. \/ mailRow' = mailRow \/ mailRow' = toAttention
        \/ mailRow' = [mailRow EXCEPT !.status = "failed", !.lockedAt = 0, !.lease = 0,
                                      !.availableAt = next]
    BY <1>13 DEF sendFailed
  <2> HIDE DEF next
  <2>4. [mailRow EXCEPT !.status = "failed", !.lockedAt = 0, !.lease = 0, !.availableAt = next]
          \in MailRows
    BY <1>0, <2>2 DEF MailRows
  <2>5. mailRow' \in MailRows
    BY <1>0, <1>att, <2>3, <2>4
  <2> QED
    BY <1>13, <2>1, <2>5, Finishes DEF sendFailed, MailTyped
<1>14. ASSUME NEW w \in Workers, markSent(w) PROVE MailTyped'
  <2>1. finish(w, owns(w)) /\ owns(w) \in BOOLEAN
    BY <1>14 DEF markSent, owns
  <2>2. mailRow' \in MailRows
    BY <1>0, <1>14 DEF markSent, MailRows, Final
  <2> QED
    BY <1>14, <2>1, <2>2, Finishes DEF markSent, MailTyped
<1> QED
  BY <1>1, <1>2, <1>3, <1>4, <1>5, <1>6, <1>7, <1>8, <1>9, <1>10, <1>11, <1>12, <1>13, <1>14
  DEF MailNext

\* What a step of an attempt leaves alone.
LEMMA AttemptSteps ==
  ASSUME MailTyped, NEW w \in Workers,
         \/ throw(w) \/ retire(w) \/ recover(w) \/ claim(w) \/ send(w) \/ sendFailed(w) \/ markSent(w)
  PROVE  /\ act[w].phase # "idle" /\ \A v \in Workers \ {w} : act'[v] = act[v]
         /\ now' = now /\ purpose' = purpose /\ requests' = requests
         /\ (job.state = "none") <=> (job'.state = "none")
         /\ mailRow.status # "none" => mailRow'.status # "none"
         /\ ~claim(w) => mailRow'.attempts = mailRow.attempts
         /\ mailRow' = mailRow \/ mailRow' = toAttention \/ mailRow'.status = "processing"
            \/ mailRow.status = "processing"
<1> mailRow \in MailRows
  BY DEF MailTyped
<1>1. CASE throw(w)
  BY <1>1, Finishes DEF throw
<1>2. CASE retire(w)
  <2>1. "recover" \in Phases
    BY DEF Phases
  <2> QED
    BY <1>2, <2>1, Finishes, Goes DEF retire, toAttention, MailRows
<1>3. CASE recover(w)
  <2>1. "claim" \in Phases
    BY DEF Phases
  <2> QED
    BY <1>3, <2>1, Finishes, Goes DEF recover, toAttention, MailRows
<1>4. CASE claim(w)
  <2>1. CASE claimable(w)
    BY <1>4, <2>1 DEF claim, MailTyped, MailRows
  <2>2. CASE ~claimable(w)
    <3>1. finish(w, mailRow.status \in Final) /\ (mailRow.status \in Final) \in BOOLEAN
      BY <1>4, <2>2 DEF claim
    <3> QED
      BY <1>4, <2>2, <3>1, Finishes DEF claim
  <2> QED
    BY <2>1, <2>2
<1>5. CASE send(w)
  <2>1. {"delivered", "unknown"} \subseteq Phases
    BY DEF Phases
  <2> QED
    BY <1>5, <2>1, Goes DEF send
<1>6. CASE sendFailed(w)
  <2>1. finish(w, owns(w) /\ act[w].attempt >= SendLimit)
        /\ (owns(w) /\ act[w].attempt >= SendLimit) \in BOOLEAN
    BY <1>6 DEF sendFailed, owns
  <2>2. \/ mailRow' = mailRow
        \/ owns(w) /\ mailRow' = toAttention
        \/ /\ owns(w)
           /\ mailRow' = [mailRow EXCEPT !.status = "failed", !.lockedAt = 0, !.lease = 0,
                                      !.availableAt = act[w].at + RetryDelay]
    <3>1. CASE ~owns(w)
      BY <1>6, <3>1 DEF sendFailed
    <3>2. CASE owns(w) /\ act[w].attempt >= SendLimit
      BY <1>6, <3>2 DEF sendFailed
    <3>3. CASE owns(w) /\ ~(act[w].attempt >= SendLimit)
      BY <1>6, <3>3 DEF sendFailed
    <3> QED
      BY <3>1, <3>2, <3>3
  <2>3. /\ mailRow.status # "none" => mailRow'.status # "none"
        /\ mailRow'.attempts = mailRow.attempts
        /\ mailRow' = mailRow \/ mailRow.status = "processing"
    BY <2>2 DEF toAttention, MailRows, owns
  <2> QED
    BY <1>6, <2>1, <2>3, Finishes DEF sendFailed
<1>7. CASE markSent(w)
  <2>1. finish(w, owns(w)) /\ owns(w) \in BOOLEAN
    BY <1>7 DEF markSent, owns
  <2> QED
    BY <1>7, <2>1, Finishes DEF markSent, owns, MailRows
<1> QED
  BY <1>1, <1>2, <1>3, <1>4, <1>5, <1>6, <1>7

\* One request, whoever holds the event; no attempt without it.
LEMMA OriginStep ==
  ASSUME MailTyped, OriginKnown, [MailNext]_mailVars
  PROVE  OriginKnown'
<1>0. mailRow \in MailRows /\ job \in JobRows /\ act \in [Workers -> Attempts] /\ requests \in Nat
  BY DEF MailTyped
<1>1. CASE UNCHANGED mailVars
  BY <1>1 DEF mailVars, OriginKnown
<1>2. CASE pass
  BY <1>2 DEF pass, OriginKnown
<1>3. CASE publish
  BY <1>0, <1>3 DEF publish, OriginKnown, JobRows
<1>4. ASSUME NEW w \in Workers, findExisting(w) PROVE OriginKnown'
  BY <1>4 DEF findExisting, OriginKnown
<1>5. ASSUME NEW w \in Workers, materialize(w) PROVE OriginKnown'
  <2>1. CASE mailRow.status = "none"
    <3>1. /\ mailRow'.status # "none" /\ mailRow'.attempts = 0
      BY <1>5, <2>1
      DEF materialize, queueSecurityEmailHandoff, recordSecurityEmailAttentionRequired, NoRow
    <3>2. requests = 0 /\ requests' \in {requests, requests + 1}
      BY <1>0, <1>5, <2>1
      DEF materialize, queueSecurityEmailHandoff, recordSecurityEmailAttentionRequired, OriginKnown
    <3> QED
      BY <1>0, <1>5, <3>1, <3>2 DEF materialize, OriginKnown
  <2>2. CASE mailRow.status # "none"
    BY <1>5, <2>2
    DEF materialize, queueSecurityEmailHandoff, recordSecurityEmailAttentionRequired, OriginKnown
  <2> QED
    BY <2>1, <2>2
<1>6. ASSUME NEW w \in Workers, pick(w) PROVE OriginKnown'
  <2>1. job.state = "waiting" /\ job'.state = "active"
    BY <1>0, <1>6 DEF pick, JobRows
  <2> QED
    BY <1>0, <1>6, <2>1 DEF pick, OriginKnown
<1>7. ASSUME NEW w \in Workers, stall(w) PROVE OriginKnown'
  <2>1. job.state = "active" /\ job'.state \in {"waiting", "failed"}
    BY <1>0, <1>7 DEF stall, JobRows
  <2> QED
    BY <1>7, <2>1 DEF stall, OriginKnown
<1>8. ASSUME NEW w \in Workers,
             throw(w) \/ retire(w) \/ recover(w) \/ claim(w) \/ send(w) \/ sendFailed(w) \/ markSent(w)
      PROVE  OriginKnown'
  <2>1. mailRow.status # "none" /\ job.state # "none" /\ requests > 0
    BY <1>8, AttemptSteps DEF OriginKnown
  <2> QED
    BY <1>8, <2>1, AttemptSteps DEF OriginKnown
<1> QED
  BY <1>1, <1>2, <1>3, <1>4, <1>5, <1>6, <1>7, <1>8 DEF MailNext

\* Every contact with the provider has its attempt, and a worker that heard the provider
\* accept a message knows which attempt it was.
LEMMA PaidStep ==
  ASSUME MailTyped, OriginKnown, SendsArePaid, [MailNext]_mailVars
  PROVE  SendsArePaid'
<1> USE SchedulesAssumption, MailAssumption
<1>0. /\ mailRow \in MailRows /\ mailRow.attempts \in Nat /\ sends \in Nat
      /\ act \in [Workers -> Attempts]
  BY DEF MailTyped, MailRows
<1>card. IsFiniteSet(Contacting) /\ Cardinality(Contacting) \in Nat
  BY FS_Subset, FS_CardinalityType DEF Contacting
<1>less. ASSUME Contacting' \subseteq Contacting
         PROVE  Cardinality(Contacting') \in Nat /\ Cardinality(Contacting') <= Cardinality(Contacting)
  BY <1>card, <1>less, FS_Subset, FS_CardinalityType
<1>same. ASSUME act' = act, sends' = sends, mailRow'.attempts = mailRow.attempts, accepted' = accepted
         PROVE  SendsArePaid'
  BY <1>same DEF SendsArePaid, Contacting
<1>rest. ASSUME NEW w \in Workers, \A v \in Workers \ {w} : act'[v] = act[v],
                act'[w].phase \notin {"send", "delivered"}, sends' = sends,
                mailRow'.attempts = mailRow.attempts, accepted' = accepted
         PROVE  SendsArePaid'
  <2>1. Contacting' \subseteq Contacting
    BY <1>rest DEF Contacting
  <2> QED
    BY <1>0, <1>card, <1>less, <1>rest, <2>1 DEF SendsArePaid
<1>1. CASE UNCHANGED mailVars
  BY <1>1, <1>same DEF mailVars
<1>2. CASE pass
  BY <1>2, <1>same DEF pass
<1>3. CASE publish
  BY <1>3, <1>same DEF publish
<1>4. ASSUME NEW w \in Workers, findExisting(w) PROVE SendsArePaid'
  BY <1>4, <1>same DEF findExisting
<1>5. ASSUME NEW w \in Workers, materialize(w) PROVE SendsArePaid'
  <2>1. mailRow'.attempts = mailRow.attempts
    BY <1>0, <1>5 DEF materialize, queueSecurityEmailHandoff, recordSecurityEmailAttentionRequired,
                      NoRow, OriginKnown
  <2> QED
    BY <1>5, <1>same, <2>1 DEF materialize
<1>6. ASSUME NEW w \in Workers, pick(w) PROVE SendsArePaid'
  <2>1. act'[w].phase = "retire" /\ \A v \in Workers \ {w} : act'[v] = act[v]
    BY <1>0, <1>6 DEF pick
  <2> QED
    BY <1>6, <1>rest, <2>1 DEF pick
<1>7. ASSUME NEW w \in Workers, stall(w) PROVE SendsArePaid'
  <2>1. CASE act' = act
    BY <1>7, <1>same, <2>1 DEF stall
  <2>2. CASE act' = [act EXCEPT ![w] = Idle]
    <3>1. act'[w].phase = "idle" /\ \A v \in Workers \ {w} : act'[v] = act[v]
      BY <1>0, <2>2 DEF Idle
    <3> QED
      BY <1>7, <1>rest, <3>1 DEF stall
  <2> QED
    BY <1>7, <2>1, <2>2 DEF stall
<1>8. ASSUME NEW w \in Workers, throw(w) PROVE SendsArePaid'
  <2>1. finish(w, FALSE)
    BY <1>8 DEF throw
  <2> QED
    BY <1>8, <1>rest, <2>1, Finishes DEF throw
<1>9. ASSUME NEW w \in Workers, retire(w) PROVE SendsArePaid'
  <2>1. (finish(w, TRUE) \/ go(w, "recover")) /\ "recover" \in Phases
    BY <1>9 DEF retire, Phases
  <2>2. act'[w].phase \in {"idle", "recover"}
    BY <2>1, Finishes, Goes
  <2>3. /\ sends' = sends /\ accepted' = accepted /\ mailRow'.attempts = mailRow.attempts
        /\ \A v \in Workers \ {w} : act'[v] = act[v]
    <3>1. sends' = sends /\ accepted' = accepted /\ ~claim(w)
      BY <1>9 DEF retire, claim
    <3> QED
      BY <1>9, <3>1, AttemptSteps
  <2> QED
    BY <1>9, <1>rest, <2>2, <2>3
<1>10. ASSUME NEW w \in Workers, recover(w) PROVE SendsArePaid'
  <2>1. (finish(w, TRUE) \/ go(w, "claim")) /\ "claim" \in Phases
    BY <1>10 DEF recover, Phases
  <2>2. act'[w].phase \in {"idle", "claim"}
    BY <2>1, Finishes, Goes
  <2>3. /\ sends' = sends /\ accepted' = accepted /\ mailRow'.attempts = mailRow.attempts
        /\ \A v \in Workers \ {w} : act'[v] = act[v]
    <3>1. sends' = sends /\ accepted' = accepted /\ ~claim(w)
      BY <1>10 DEF recover, claim
    <3> QED
      BY <1>10, <3>1, AttemptSteps
  <2> QED
    BY <1>10, <1>rest, <2>2, <2>3
<1>11. ASSUME NEW w \in Workers, claim(w) PROVE SendsArePaid'
  <2>1. CASE claimable(w)
    <3>1. mailRow'.attempts = mailRow.attempts + 1 /\ mailRow.attempts < SendLimit
      BY <1>0, <1>11, <2>1 DEF claim, claimable, MailRows
    <3>2. \A v \in Workers \ {w} : act'[v] = act[v]
      BY <1>11, AttemptSteps
    <3>3. act'[w].phase = "send" /\ act[w].phase = "claim"
      BY <1>0, <1>11, <2>1 DEF claim, Attempts
    <3>4. Contacting' = Contacting \cup {w} /\ w \notin Contacting
      BY <3>2, <3>3 DEF Contacting
    <3>5. Cardinality(Contacting') = Cardinality(Contacting) + 1
      BY <1>card, <3>4, FS_AddElement
    <3>6. sends' = sends /\ accepted' = accepted
      BY <1>11 DEF claim
    <3> QED
      BY <1>0, <1>card, <3>1, <3>2, <3>3, <3>5, <3>6 DEF SendsArePaid
  <2>2. CASE ~claimable(w)
    <3>1. finish(w, mailRow.status \in Final) /\ (mailRow.status \in Final) \in BOOLEAN
      BY <1>11, <2>2 DEF claim
    <3>2. act'[w].phase = "idle"
      BY <3>1, Finishes
    <3>3. sends' = sends /\ accepted' = accepted /\ mailRow' = mailRow
      BY <1>11, <2>2 DEF claim
    <3> QED
      BY <1>11, <1>rest, <3>2, <3>3, AttemptSteps
  <2> QED
    BY <2>1, <2>2
<1>12. ASSUME NEW w \in Workers, send(w) PROVE SendsArePaid'
  <2>1. (go(w, "delivered") /\ act[w].attempt \in accepted') \/ go(w, "unknown")
    BY <1>12 DEF send
  <2>2. {"delivered", "unknown"} \subseteq Phases
    BY DEF Phases
  <2>3. /\ act'[w].phase \in {"delivered", "unknown"} /\ act'[w].attempt = act[w].attempt
        /\ act'[w].phase = "delivered" => act'[w].attempt \in accepted'
        /\ \A v \in Workers \ {w} : act'[v] = act[v]
    BY <2>1, <2>2, Goes
  <2>4. act[w].phase = "send" /\ sends' = sends + 1 /\ accepted \subseteq accepted' /\ mailRow' = mailRow
    BY <1>12 DEF send
  <2>5. Contacting' = Contacting \ {w} /\ w \in Contacting
    BY <2>3, <2>4 DEF Contacting
  <2>6. Cardinality(Contacting') = Cardinality(Contacting) - 1
    BY <1>card, <2>5, FS_RemoveElement
  <2> QED
    BY <1>0, <1>card, <2>3, <2>4, <2>6 DEF SendsArePaid
<1>13. ASSUME NEW w \in Workers, sendFailed(w) PROVE SendsArePaid'
  <2>1. finish(w, owns(w) /\ act[w].attempt >= SendLimit)
        /\ (owns(w) /\ act[w].attempt >= SendLimit) \in BOOLEAN
    BY <1>13 DEF sendFailed, owns
  <2>2. act'[w].phase = "idle"
    BY <2>1, Finishes
  <2>3. /\ sends' = sends /\ accepted' = accepted /\ mailRow'.attempts = mailRow.attempts
        /\ \A v \in Workers \ {w} : act'[v] = act[v]
    <3>1. sends' = sends /\ accepted' = accepted /\ ~claim(w)
      BY <1>13 DEF sendFailed, claim
    <3> QED
      BY <1>13, <3>1, AttemptSteps
  <2> QED
    BY <1>13, <1>rest, <2>2, <2>3
<1>14. ASSUME NEW w \in Workers, markSent(w) PROVE SendsArePaid'
  <2>1. finish(w, owns(w)) /\ owns(w) \in BOOLEAN
    BY <1>14 DEF markSent, owns
  <2>2. act'[w].phase = "idle"
    BY <2>1, Finishes
  <2>3. /\ sends' = sends /\ accepted' = accepted /\ mailRow'.attempts = mailRow.attempts
        /\ \A v \in Workers \ {w} : act'[v] = act[v]
    <3>1. sends' = sends /\ accepted' = accepted /\ ~claim(w)
      BY <1>14 DEF markSent, claim
    <3> QED
      BY <1>14, <3>1, AttemptSteps
  <2> QED
    BY <1>14, <1>rest, <2>2, <2>3
<1> QED
  BY <1>1, <1>2, <1>3, <1>4, <1>5, <1>6, <1>7, <1>8, <1>9, <1>10, <1>11, <1>12, <1>13, <1>14
  DEF MailNext

\* A row of a credential link is retired before anything else is done with it.
LEMMA CredentialStep ==
  ASSUME MailTyped, OriginKnown, CredentialsRest, [MailNext]_mailVars
  PROVE  CredentialsRest'
<1> SUFFICES ASSUME purpose' = "credential" PROVE CredentialsRest'
  BY DEF CredentialsRest
<1>0. /\ mailRow \in MailRows /\ act \in [Workers -> Attempts]
      /\ purpose = "credential" /\ mailRow.attempts = 0 /\ mailRow.lease = 0
      /\ \A w \in Workers : act[w].at \in Nat
  <2>1. purpose' = purpose
    <3>1. CASE pass \/ publish \/ UNCHANGED mailVars
      BY <3>1 DEF pass, publish, mailVars
    <3>2. ASSUME NEW w \in Workers, findExisting(w) \/ materialize(w) \/ pick(w) \/ stall(w)
          PROVE  purpose' = purpose
      BY <3>2 DEF findExisting, materialize, pick, stall
    <3> QED
      BY <3>1, <3>2, AttemptSteps DEF MailNext
  <2> QED
    BY <2>1 DEF MailTyped, CredentialsRest, Attempts
<1>same. ASSUME act' = act, mailRow' = mailRow
         PROVE  CredentialsRest'
  BY <1>0, <1>same DEF CredentialsRest
<1>rest. ASSUME NEW w \in Workers, \A v \in Workers \ {w} : act'[v] = act[v],
                mailRow' = mailRow \/ mailRow' = toAttention,
                \/ act'[w].phase \in {"idle", "retire"}
                \/ act'[w].phase \in {"recover", "claim"} /\ mailRow'.status \in Final
         PROVE  CredentialsRest'
  <2>1. /\ mailRow'.attempts = 0 /\ mailRow'.lease = 0
        /\ mailRow.status \in Final => mailRow'.status \in Final
    BY <1>0, <1>rest DEF toAttention, MailRows, Final
  <2> QED
    BY <1>0, <1>rest, <2>1 DEF CredentialsRest
<1>1. CASE UNCHANGED mailVars
  BY <1>1, <1>same DEF mailVars
<1>2. CASE pass
  BY <1>2, <1>same DEF pass
<1>3. CASE publish
  BY <1>3, <1>same DEF publish
<1>4. ASSUME NEW w \in Workers, findExisting(w) PROVE CredentialsRest'
  BY <1>4, <1>same DEF findExisting
<1>5. ASSUME NEW w \in Workers, materialize(w) PROVE CredentialsRest'
  <2>1. mailRow' = mailRow \/ /\ mailRow.status = "none" /\ mailRow'.attempts = 0 /\ mailRow'.lease = 0
    BY <1>5 DEF materialize, queueSecurityEmailHandoff, recordSecurityEmailAttentionRequired, NoRow
  <2>2. mailRow.status = "none" => mailRow.status \notin Final
    BY DEF Final
  <2> QED
    BY <1>0, <1>5, <2>1, <2>2 DEF materialize, CredentialsRest
<1>6. ASSUME NEW w \in Workers, pick(w) PROVE CredentialsRest'
  <2>1. act'[w].phase = "retire" /\ \A v \in Workers \ {w} : act'[v] = act[v]
    BY <1>0, <1>6 DEF pick
  <2> QED
    BY <1>6, <1>rest, <2>1 DEF pick
<1>7. ASSUME NEW w \in Workers, stall(w) PROVE CredentialsRest'
  <2>1. CASE act' = act
    BY <1>7, <1>same, <2>1 DEF stall
  <2>2. CASE act' = [act EXCEPT ![w] = Idle]
    <3>1. act'[w].phase = "idle" /\ \A v \in Workers \ {w} : act'[v] = act[v]
      BY <1>0, <2>2 DEF Idle
    <3> QED
      BY <1>7, <1>rest, <3>1 DEF stall
  <2> QED
    BY <1>7, <2>1, <2>2 DEF stall
<1>8. ASSUME NEW w \in Workers, throw(w) PROVE CredentialsRest'
  <2>1. finish(w, FALSE)
    BY <1>8 DEF throw
  <2> QED
    BY <1>8, <1>rest, <2>1, Finishes DEF throw
<1>9. ASSUME NEW w \in Workers, retire(w) PROVE CredentialsRest'
  <2>0. unleased(w)
    BY <1>0 DEF unleased
  <2>1. CASE mailRow.status \notin Final
    <3>1. mailRow' = toAttention /\ finish(w, TRUE)
      BY <1>0, <1>9, <2>0, <2>1 DEF retire
    <3> QED
      BY <1>rest, <3>1, Finishes
  <2>2. CASE mailRow.status \in Final
    <3>1. mailRow' = mailRow /\ go(w, "recover") /\ "recover" \in Phases
      BY <1>9, <2>2 DEF retire, Phases
    <3> QED
      BY <1>rest, <2>2, <3>1, Goes
  <2> QED
    BY <2>1, <2>2
<1>10. ASSUME NEW w \in Workers, recover(w) PROVE CredentialsRest'
  <2>1. mailRow.status \in Final
    BY <1>0, <1>10 DEF recover, CredentialsRest
  <2>2. mailRow' = mailRow /\ go(w, "claim") /\ "claim" \in Phases
    BY <1>10, <2>1 DEF recover, Phases
  <2> QED
    BY <1>rest, <2>1, <2>2, Goes
<1>11. ASSUME NEW w \in Workers, claim(w) PROVE CredentialsRest'
  <2>1. mailRow.status \in Final
    BY <1>0, <1>11 DEF claim, CredentialsRest
  <2>2. mailRow' = mailRow /\ finish(w, mailRow.status \in Final) /\ (mailRow.status \in Final) \in BOOLEAN
    BY <1>11, <2>1 DEF claim, claimable
  <2> QED
    BY <1>rest, <2>2, Finishes
<1>12. ASSUME NEW w \in Workers, send(w) \/ sendFailed(w) \/ markSent(w) PROVE CredentialsRest'
  BY <1>0, <1>12 DEF send, sendFailed, markSent, CredentialsRest
<1> QED
  BY <1>1, <1>2, <1>3, <1>4, <1>5, <1>6, <1>7, <1>8, <1>9, <1>10, <1>11, <1>12 DEF MailNext

\* What the one worker of the job may rely on.
LEMMA Alone ==
  ASSUME MailTyped, OneAttempt, NEW w \in Workers, act[w].phase # "idle"
  PROVE  /\ job.state = "active" /\ job.owner = w /\ look = act[w].at
         /\ act[w].at \in Nat /\ now \in Nat /\ act[w].at <= now
         /\ \A v \in Workers \ {w} : act[v].phase = "idle"
         /\ act[w].phase \in Contact => owns(w)
         /\ act[w].phase \notin Contact => mailRow.status # "processing" /\ mailRow.lease = 0
  BY DEF MailTyped, OneAttempt, look, Attempts

\* The statements of an attempt, one worker at a time.
LEMMA OneAttemptStep ==
  ASSUME MailTyped, OriginKnown, OneAttempt, [MailNext]_mailVars, mailFaults = 0, mailFaults' = 0
  PROVE  OneAttempt'
<1> USE SchedulesAssumption, MailAssumption
<1>0. /\ mailRow \in MailRows /\ act \in [Workers -> Attempts] /\ now \in Nat /\ job \in JobRows
      /\ \A w \in Workers : act[w].at \in Nat
  BY DEF MailTyped, Attempts
<1>same. ASSUME act' = act, mailRow' = mailRow, job' = job, now' \in Nat, now' >= now
         PROVE  OneAttempt'
  BY <1>0, <1>same DEF OneAttempt, owns
<1>done. ASSUME NEW w \in Workers, act[w].phase # "idle", NEW ok \in BOOLEAN, finish(w, ok),
                mailRow'.status # "processing", mailRow'.lease = 0
         PROVE  OneAttempt'
  <2>1. \A v \in Workers : act'[v].phase = "idle"
    BY <1>done, Alone, Finishes
  <2>2. job'.state # "active"
    BY <1>done, Alone, Finishes
  <2> QED
    BY <1>done, <2>1, <2>2 DEF OneAttempt, Contact
<1>goes. ASSUME NEW w \in Workers, act[w].phase # "idle", NEW phase \in Phases, go(w, phase),
                phase # "idle", mailRow' = mailRow, now' = now,
                phase \in Contact <=> act[w].phase \in Contact
         PROVE  OneAttempt'
  <2>1. /\ job' = job /\ act'[w].phase = phase /\ act'[w].at = act[w].at
        /\ act'[w].attempt = act[w].attempt /\ \A v \in Workers \ {w} : act'[v] = act[v]
    BY <1>goes, Goes
  <2> QED
    BY <1>0, <1>goes, <2>1, Alone DEF OneAttempt, owns
<1>1. CASE UNCHANGED mailVars
  BY <1>0, <1>1, <1>same DEF mailVars
<1>2. CASE pass
  <2>1. now' \in Nat /\ now' >= now
    BY <1>0, <1>2 DEF pass, Deadlines, JobRows, MailRows
  <2> QED
    BY <1>2, <1>same, <2>1 DEF pass
<1>3. CASE publish
  <2>1. job.state = "none" /\ job'.state = "waiting"
    BY <1>0, <1>3 DEF publish, JobRows
  <2>2. /\ \A v \in Workers : act[v].phase = "idle"
        /\ mailRow.status # "processing" /\ mailRow.lease = 0
    BY <2>1 DEF OneAttempt
  <2> QED
    BY <1>3, <2>1, <2>2 DEF publish, OneAttempt, Contact
<1>4. ASSUME NEW w \in Workers, findExisting(w) PROVE OneAttempt'
  BY <1>0, <1>4, <1>same DEF findExisting
<1>5. ASSUME NEW w \in Workers, materialize(w) PROVE OneAttempt'
  <2>1. CASE mailRow.status # "none"
    BY <1>0, <1>5, <1>same, <2>1
    DEF materialize, queueSecurityEmailHandoff, recordSecurityEmailAttentionRequired
  <2>2. CASE mailRow.status = "none"
    <3>1. job.state = "none" /\ \A v \in Workers : act[v].phase = "idle"
      BY <1>0, <2>2 DEF OriginKnown, OneAttempt
    <3>2. mailRow'.status # "processing" /\ mailRow'.lease = 0
      BY <1>5, <2>2
      DEF materialize, queueSecurityEmailHandoff, recordSecurityEmailAttentionRequired, NoRow
    <3> QED
      BY <1>5, <3>1, <3>2 DEF materialize, OneAttempt, Contact
  <2> QED
    BY <2>1, <2>2
<1>6. ASSUME NEW w \in Workers, pick(w) PROVE OneAttempt'
  <2>1. job.state = "waiting" /\ job'.state = "active" /\ job'.owner = w /\ now' = now
    BY <1>0, <1>6 DEF pick, JobRows
  <2>2. act'[w].phase = "retire" /\ act'[w].at = now /\ \A v \in Workers \ {w} : act'[v] = act[v]
    BY <1>0, <1>6 DEF pick
  <2>3. /\ \A v \in Workers : act[v].phase = "idle"
        /\ mailRow.status # "processing" /\ mailRow.lease = 0 /\ mailRow' = mailRow
    BY <1>6, <2>1 DEF OneAttempt, pick
  <2> QED
    BY <1>0, <2>1, <2>2, <2>3 DEF OneAttempt, Contact
<1>7. ASSUME NEW w \in Workers, stall(w) \/ throw(w) PROVE OneAttempt'
  BY <1>7 DEF stall, throw
<1>8. ASSUME NEW w \in Workers, retire(w) PROVE OneAttempt'
  <2>1. act[w].phase = "retire" /\ act[w].phase \notin Contact
    BY <1>8 DEF retire, Contact
  <2>2. mailRow.status # "processing" /\ mailRow.lease = 0
    BY <2>1, Alone
  <2>3. CASE finish(w, TRUE) /\ mailRow' = toAttention
    <3>1. mailRow'.status # "processing" /\ mailRow'.lease = 0
      BY <1>0, <2>3 DEF toAttention, MailRows
    <3> QED
      BY <1>done, <2>1, <2>3, <3>1
  <2>4. CASE go(w, "recover") /\ mailRow' = mailRow
    <3>1. now' = now /\ "recover" \in Phases /\ "recover" \notin Contact
      BY <1>8 DEF retire, Phases, Contact
    <3> QED
      BY <1>goes, <2>1, <2>4, <3>1
  <2> QED
    BY <1>8, <2>3, <2>4 DEF retire
<1>9. ASSUME NEW w \in Workers, recover(w) PROVE OneAttempt'
  <2>1. act[w].phase = "recover" /\ act[w].phase \notin Contact
    BY <1>9 DEF recover, Contact
  <2>3. CASE finish(w, TRUE) /\ mailRow' = toAttention
    <3>1. mailRow'.status # "processing" /\ mailRow'.lease = 0
      BY <1>0, <2>3 DEF toAttention, MailRows
    <3> QED
      BY <1>done, <2>1, <2>3, <3>1
  <2>4. CASE go(w, "claim") /\ mailRow' = mailRow
    <3>1. now' = now /\ "claim" \in Phases /\ "claim" \notin Contact
      BY <1>9 DEF recover, Phases, Contact
    <3> QED
      BY <1>goes, <2>1, <2>4, <3>1
  <2> QED
    BY <1>9, <2>3, <2>4 DEF recover
<1>10. ASSUME NEW w \in Workers, claim(w) PROVE OneAttempt'
  <2>1. act[w].phase = "claim" /\ act[w].phase \notin Contact /\ now' = now
    BY <1>10 DEF claim, Contact
  <2>2. mailRow.status # "processing" /\ mailRow.lease = 0
    BY <2>1, Alone
  <2>3. CASE claimable(w)
    <3>1. job' = job /\ mailRow'.status = "processing" /\ mailRow'.attempts = mailRow.attempts + 1
          /\ mailRow'.lockedAt = act[w].at
      BY <1>0, <1>10, <2>3 DEF claim, MailRows
    <3>2. /\ act'[w].phase = "send" /\ act'[w].at = act[w].at
          /\ act'[w].attempt = mailRow.attempts + 1 /\ \A v \in Workers \ {w} : act'[v] = act[v]
      BY <1>0, <1>10, <2>3 DEF claim, Attempts
    <3>3. job.state = "active" /\ job.owner = w /\ \A v \in Workers \ {w} : act[v].phase = "idle"
      BY <2>1, Alone
    <3>4. owns(w)' /\ act'[w].at <= now'
      BY <2>1, <3>1, <3>2, Alone DEF owns
    <3> QED
      BY <3>1, <3>2, <3>3, <3>4 DEF OneAttempt, Contact
  <2>4. CASE ~claimable(w)
    <3>1. finish(w, mailRow.status \in Final) /\ (mailRow.status \in Final) \in BOOLEAN
          /\ mailRow' = mailRow
      BY <1>10, <2>4 DEF claim
    <3> QED
      BY <1>done, <2>1, <2>2, <3>1
  <2> QED
    BY <2>3, <2>4
<1>11. ASSUME NEW w \in Workers, send(w) PROVE OneAttempt'
  <2>1. /\ act[w].phase = "send" /\ now' = now /\ mailRow' = mailRow
        /\ go(w, "delivered") \/ go(w, "unknown")
    BY <1>11 DEF send
  <2>2. {"delivered", "unknown"} \subseteq Phases \cap Contact /\ act[w].phase \in Contact
    BY <2>1 DEF Phases, Contact
  <2> QED
    BY <1>goes, <2>1, <2>2
<1>12. ASSUME NEW w \in Workers, sendFailed(w) PROVE OneAttempt'
  <2>1. act[w].phase = "unknown" /\ act[w].phase \in Contact
    BY <1>12 DEF sendFailed, Contact
  <2>2. owns(w)
    BY <2>1, Alone
  <2>3. finish(w, owns(w) /\ act[w].attempt >= SendLimit)
        /\ (owns(w) /\ act[w].attempt >= SendLimit) \in BOOLEAN
    BY <1>12 DEF sendFailed, owns
  <2>4. mailRow'.status # "processing" /\ mailRow'.lease = 0
    BY <1>0, <1>12, <2>2 DEF sendFailed, toAttention, MailRows
  <2> QED
    BY <1>done, <2>1, <2>3, <2>4
<1>13. ASSUME NEW w \in Workers, markSent(w) PROVE OneAttempt'
  <2>1. act[w].phase = "delivered" /\ act[w].phase \in Contact
    BY <1>13 DEF markSent, Contact
  <2>2. owns(w)
    BY <2>1, Alone
  <2>3. finish(w, owns(w)) /\ owns(w) \in BOOLEAN
    BY <1>13 DEF markSent, owns
  <2>4. mailRow'.status # "processing" /\ mailRow'.lease = 0
    BY <1>0, <1>13, <2>2 DEF markSent, MailRows
  <2> QED
    BY <1>done, <2>1, <2>3, <2>4
<1> QED
  BY <1>1, <1>2, <1>3, <1>4, <1>5, <1>6, <1>7, <1>8, <1>9, <1>10, <1>11, <1>12, <1>13 DEF MailNext

\* The row is due again before the job's attempts run out, three times over.
LEMMA ScheduleStep ==
  ASSUME MailTyped, OriginKnown, OneAttempt, OnSchedule, SendsArePaid, [MailNext]_mailVars,
         mailFaults = 0, mailFaults' = 0
  PROVE  OnSchedule'
<1> USE SchedulesAssumption, MailAssumption
<1>0. /\ mailRow \in MailRows /\ act \in [Workers -> Attempts] /\ now \in Nat /\ job \in JobRows
      /\ mailRow.attempts \in Nat /\ mailRow.availableAt \in Nat /\ job.made \in Nat
      /\ \A w \in Workers : act[w].at \in Nat
  BY DEF MailTyped, Attempts, JobRows, MailRows
<1>same. ASSUME act' = act, mailRow' = mailRow, job' = job, now' \in Nat, now' >= now
         PROVE  OnSchedule'
  <2>1. look' = look
    BY <1>same DEF look
  <2> QED
    BY <1>0, <1>same, <2>1 DEF OnSchedule
<1>goes. ASSUME NEW w \in Workers, act[w].phase # "idle", NEW phase \in Phases, go(w, phase),
                mailRow' = mailRow, now' = now
         PROVE  OnSchedule'
  <2>1. job' = job /\ act'[w].at = act[w].at
    BY <1>goes, Goes
  <2>2. look' = look
    BY <1>goes, <2>1, Alone DEF look
  <2> QED
    BY <1>goes, <2>1, <2>2 DEF OnSchedule
<1>over. ASSUME NEW w \in Workers, act[w].phase # "idle", finish(w, TRUE), mailRow'.status \in Final
         PROVE  OnSchedule'
  <2>1. job'.state = "completed"
    BY <1>over, Alone, Finishes
  <2> QED
    BY <1>over, <2>1 DEF OnSchedule, Final
<1>1. CASE UNCHANGED mailVars
  BY <1>0, <1>1, <1>same DEF mailVars
<1>2. CASE pass
  <2>1. now' \in Nat /\ now' >= now
    BY <1>0, <1>2 DEF pass, Deadlines, JobRows, MailRows
  <2> QED
    BY <1>2, <1>same, <2>1 DEF pass
<1>3. CASE publish
  <2>1. job.state = "none" /\ job'.state = "waiting" /\ job'.made = job.made /\ job'.readyAt = now
        /\ mailRow' = mailRow
    BY <1>0, <1>3 DEF publish, JobRows
  <2>2. look' = now /\ mailRow.status # "processing"
    BY <2>1 DEF look, OneAttempt
  <2> QED
    BY <1>0, <2>1, <2>2 DEF OnSchedule
<1>4. ASSUME NEW w \in Workers, findExisting(w) PROVE OnSchedule'
  BY <1>0, <1>4, <1>same DEF findExisting
<1>5. ASSUME NEW w \in Workers, materialize(w) PROVE OnSchedule'
  <2>1. CASE mailRow.status # "none"
    BY <1>0, <1>5, <1>same, <2>1
    DEF materialize, queueSecurityEmailHandoff, recordSecurityEmailAttentionRequired
  <2>2. CASE mailRow.status = "none"
    <3>1. job.state = "none" /\ job' = job /\ now' = now
      BY <1>0, <1>5, <2>2 DEF OriginKnown, materialize
    <3>2. mailRow'.status # "processing" /\ mailRow'.attempts = 0 /\ mailRow'.availableAt \in {0, now}
      BY <1>5, <2>2
      DEF materialize, queueSecurityEmailHandoff, recordSecurityEmailAttentionRequired, NoRow
    <3> QED
      BY <1>0, <3>1, <3>2 DEF OnSchedule
  <2> QED
    BY <2>1, <2>2
<1>6. ASSUME NEW w \in Workers, pick(w) PROVE OnSchedule'
  <2>1. job.state = "waiting" /\ job'.state = "active" /\ job'.owner = w /\ job'.made = job.made
        /\ job.readyAt <= now /\ mailRow' = mailRow /\ job.readyAt \in Nat
    BY <1>0, <1>6 DEF pick, JobRows
  <2>2. act'[w].at = now
    BY <1>0, <1>6 DEF pick
  <2>3. look = job.readyAt /\ look' = now /\ mailRow.status # "processing"
    BY <2>1, <2>2 DEF look, OneAttempt
  <2>4. job.made \in 0..7
    BY <1>0, <2>1 DEF MailTyped
  <2>5. backoff(job.made) \in Nat \/ job.made = 0
    BY <2>4, WaitsDouble
  <2>6. backoff(job.made + 1) \in Nat
    BY <2>4, WaitsDouble, Backoffs
  <2> QED
    BY <1>0, <2>1, <2>3, <2>5, <2>6 DEF OnSchedule
<1>7. ASSUME NEW w \in Workers, stall(w) \/ throw(w) PROVE OnSchedule'
  BY <1>7 DEF stall, throw
<1>8. ASSUME NEW w \in Workers, retire(w) PROVE OnSchedule'
  <2>1. act[w].phase # "idle" /\ now' = now /\ "recover" \in Phases
    BY <1>8 DEF retire, Phases
  <2>2. toAttention.status \in Final
    BY <1>0 DEF toAttention, MailRows, Final
  <2> QED
    BY <1>8, <1>goes, <1>over, <2>1, <2>2 DEF retire
<1>9. ASSUME NEW w \in Workers, recover(w) PROVE OnSchedule'
  <2>1. act[w].phase # "idle" /\ now' = now /\ "claim" \in Phases
    BY <1>9 DEF recover, Phases
  <2>2. toAttention.status \in Final
    BY <1>0 DEF toAttention, MailRows, Final
  <2> QED
    BY <1>9, <1>goes, <1>over, <2>1, <2>2 DEF recover
<1>10. ASSUME NEW w \in Workers, claim(w) PROVE OnSchedule'
  <2>1. /\ job.state = "active" /\ job.owner = w /\ look = act[w].at /\ act[w].at <= now
        /\ mailRow.status # "processing" /\ mailRow.lease = 0 /\ act[w].phase # "idle"
    <3>1. act[w].phase = "claim" /\ act[w].phase \notin Contact
      BY <1>10 DEF claim, Contact
    <3> QED
      BY <3>1, Alone
  <2>2. CASE mailRow.status \in Final
    BY <1>10, <1>over, <2>1, <2>2 DEF claim, claimable
  <2>3. mailRow.status \notin Final =>
          \/ mailRow.attempts = 0 /\ job.made = 0 /\ mailRow.availableAt <= act[w].at
          \/ /\ mailRow.attempts = 1 /\ job.made \in 1..6
             /\ mailRow.availableAt + backoff(job.made + 1) <= act[w].at + 61
          \/ /\ mailRow.attempts = 2 /\ job.made \in 2..7
             /\ mailRow.availableAt + backoff(job.made) <= act[w].at + 60
    BY <2>1 DEF OnSchedule
  <2>4. CASE claimable(w)
    <3>1. job' = job /\ mailRow'.status = "processing" /\ mailRow'.attempts = mailRow.attempts + 1
      BY <1>0, <1>10, <2>4 DEF claim, MailRows
    <3>2. mailRow.status \notin Final
      BY <2>4 DEF claimable
    <3> QED
      BY <1>0, <2>1, <2>3, <3>1, <3>2 DEF OnSchedule, Final
  <2>5. CASE ~claimable(w) /\ mailRow.status \notin Final
    <3>1. /\ finish(w, mailRow.status \in Final) /\ (mailRow.status \in Final) \in BOOLEAN
          /\ mailRow' = mailRow /\ now' = now
      BY <1>10, <2>5 DEF claim
    <3>2. mailRow.attempts < SendLimit => mailRow.availableAt > act[w].at
      BY <1>0, <2>1, <2>5 DEF claimable, unleased
    <3>3. \/ /\ mailRow.attempts = 1 /\ job.made \in 1..5
             /\ mailRow.availableAt + backoff(job.made + 1) <= act[w].at + 61
          \/ /\ mailRow.attempts = 2 /\ job.made \in 2..6
             /\ mailRow.availableAt + backoff(job.made) <= act[w].at + 60
      <4>1. ~(mailRow.attempts = 1 /\ job.made = 6)
        BY <1>0, <2>3, <2>5, <3>2, Backoffs
      <4>2. ~(mailRow.attempts = 2 /\ job.made = 7)
        BY <1>0, <2>3, <2>5, <3>2, Backoffs
      <4> QED
        BY <1>0, <2>3, <2>5, <3>2, <4>1, <4>2
    <3>4. job'.state = "waiting" /\ job'.made = job.made + 1
          /\ job'.readyAt = now + backoff(job.made + 1)
      <4>1. job.made # 7
        BY <3>3
      <4> QED
        BY <2>1, <2>5, <3>1, <4>1, Finishes
    <3>5. look' = now + backoff(job.made + 1)
      BY <3>4 DEF look
    <3>6. CASE mailRow.attempts = 1
      <4> DEFINE k == job.made + 1
      <4>1. k \in 1..7 /\ job.made + 1 = k /\ k \in 2..6
        BY <3>3, <3>6
      <4>2. backoff(k) \in Nat /\ backoff(k + 1) \in Nat /\ backoff(k + 1) = 2 * backoff(k)
        BY <4>1, WaitsDouble
      <4>3. mailRow.availableAt + backoff(k) <= act[w].at + 61
        BY <3>3, <3>6
      <4> HIDE DEF k
      <4>4. mailRow.availableAt + backoff(k + 1) <= now + backoff(k) + 61
        BY <1>0, <2>1, <4>2, <4>3
      <4>5. job'.made = k /\ look' = now + backoff(k)
        BY <3>4, <3>5, <4>1
      <4> QED
        BY <2>1, <3>1, <3>4, <3>6, <4>1, <4>4, <4>5 DEF OnSchedule, Final
    <3>7. CASE mailRow.attempts = 2
      <4> DEFINE k == job.made
      <4>1. k \in 1..7 /\ job.made = k /\ k \in 2..6
        BY <3>3, <3>7
      <4>2. backoff(k) \in Nat /\ backoff(k + 1) \in Nat /\ backoff(k + 1) = 2 * backoff(k)
        BY <4>1, WaitsDouble
      <4>3. mailRow.availableAt + backoff(k) <= act[w].at + 60
        BY <3>3, <3>7
      <4> HIDE DEF k
      <4>4. mailRow.availableAt + backoff(k + 1) <= now + backoff(k + 1) + 60
        BY <1>0, <2>1, <4>2, <4>3
      <4>5. job'.made = k + 1 /\ look' = now + backoff(k + 1) /\ k + 1 \in 2..7
        BY <3>4, <3>5, <4>1
      <4> QED
        BY <2>1, <3>1, <3>4, <3>7, <4>4, <4>5 DEF OnSchedule, Final
    <3> QED
      BY <3>3, <3>6, <3>7
  <2> QED
    BY <2>2, <2>4, <2>5
<1>11. ASSUME NEW w \in Workers, send(w) PROVE OnSchedule'
  <2>1. /\ act[w].phase # "idle" /\ now' = now /\ mailRow' = mailRow
        /\ go(w, "delivered") \/ go(w, "unknown")
    BY <1>11 DEF send
  <2>2. {"delivered", "unknown"} \subseteq Phases
    BY DEF Phases
  <2> QED
    BY <1>goes, <2>1, <2>2
<1>12. ASSUME NEW w \in Workers, sendFailed(w) PROVE OnSchedule'
  <2>1. /\ job.state = "active" /\ job.owner = w /\ act[w].at <= now /\ owns(w)
        /\ act[w].phase # "idle"
    <3>1. act[w].phase = "unknown" /\ act[w].phase \in Contact
      BY <1>12 DEF sendFailed, Contact
    <3> QED
      BY <3>1, Alone
  <2>2. mailRow.status = "processing" /\ mailRow.attempts = act[w].attempt
    BY <2>1 DEF owns
  <2>3. \/ mailRow.attempts = 1 /\ job.made = 0
        \/ mailRow.attempts = 2 /\ job.made \in 1..6
        \/ mailRow.attempts = 3 /\ job.made \in 2..7
    BY <2>2 DEF OnSchedule
  <2>4. CASE mailRow.attempts >= SendLimit
    <3>1. mailRow' = toAttention /\ finish(w, TRUE)
      BY <1>12, <2>1, <2>2, <2>4 DEF sendFailed
    <3>2. mailRow'.status \in Final
      BY <1>0, <3>1 DEF toAttention, MailRows, Final
    <3> QED
      BY <1>over, <2>1, <3>1, <3>2
  <2>5. CASE mailRow.attempts < SendLimit
    <3>0. /\ mailRow' = [mailRow EXCEPT !.status = "failed", !.lockedAt = 0, !.lease = 0,
                                        !.availableAt = act[w].at + RetryDelay]
          /\ now' = now
      BY <1>0, <1>12, <2>1, <2>2, <2>5 DEF sendFailed
    <3>done. /\ finish(w, owns(w) /\ act[w].attempt >= SendLimit)
          /\ (owns(w) /\ act[w].attempt >= SendLimit) \in BOOLEAN
          /\ ~(act[w].attempt >= SendLimit)
      BY <1>0, <1>12, <2>2, <2>5 DEF sendFailed, owns
    <3>1. /\ mailRow'.status = "failed" /\ mailRow'.attempts = mailRow.attempts
          /\ mailRow'.availableAt = act[w].at + RetryDelay
      BY <1>0, <3>0 DEF MailRows
    <3>2. job.made \in 0..6
      BY <2>3, <2>5
    <3>3. job'.state = "waiting" /\ job'.made = job.made + 1
          /\ job'.readyAt = now + backoff(job.made + 1)
      <4>1. job.made # 7
        BY <3>2
      <4> QED
        BY <2>1, <3>done, <4>1, Finishes
    <3>4. look' = now + backoff(job.made + 1)
      BY <3>3 DEF look
    <3>5. backoff(job.made + 1) \in Nat
      BY <3>2, WaitsDouble
    <3>6. mailRow'.availableAt <= now + 60 /\ mailRow'.availableAt \in Nat
      BY <1>0, <2>1, <3>1
    <3>7. CASE mailRow.attempts = 1
      <4>1. job.made = 0 /\ look' = now + 1 /\ job'.made = 1 /\ backoff(job'.made + 1) = 2
        BY <2>3, <3>3, <3>4, <3>7, Backoffs
      <4> QED
        BY <1>0, <3>1, <3>3, <3>6, <3>7, <4>1 DEF OnSchedule, Final
    <3>8. CASE mailRow.attempts = 2
      <4>1. job'.made \in 2..7 /\ look' = now + backoff(job'.made) /\ backoff(job'.made) \in Nat
        BY <2>3, <3>3, <3>4, <3>5, <3>8
      <4>2. mailRow'.availableAt + backoff(job'.made) <= look' + 60
        BY <1>0, <3>6, <4>1
      <4> QED
        BY <3>1, <3>3, <3>8, <4>1, <4>2 DEF OnSchedule, Final
    <3> QED
      BY <2>3, <2>5, <3>7, <3>8
  <2> QED
    BY <1>0, <2>4, <2>5
<1>13. ASSUME NEW w \in Workers, markSent(w) PROVE OnSchedule'
  <2>1. act[w].phase # "idle" /\ owns(w)
    <3>1. act[w].phase = "delivered" /\ act[w].phase \in Contact
      BY <1>13 DEF markSent, Contact
    <3> QED
      BY <3>1, Alone
  <2>2. mailRow' = [mailRow EXCEPT !.status = "sent", !.lockedAt = 0, !.lease = 0] /\ finish(w, TRUE)
    BY <1>13, <2>1 DEF markSent
  <2>3. mailRow'.status \in Final
    BY <1>0, <2>2 DEF MailRows, Final
  <2> QED
    BY <1>over, <2>1, <2>2, <2>3
<1> QED
  BY <1>1, <1>2, <1>3, <1>4, <1>5, <1>6, <1>7, <1>8, <1>9, <1>10, <1>11, <1>12, <1>13 DEF MailNext

---------------------------------------------------------------------------
\* A late sender changes nothing that is settled or newer.
LEMMA OutcomeStep ==
  ASSUME MailTyped, SendsArePaid, [MailNext]_mailVars
  PROVE  /\ mailRow.status \in Final => mailRow'.status = mailRow.status
         /\ mailRow.status # "sent" /\ mailRow'.status = "sent" => mailRow.attempts \in accepted
         /\ mailRow.status = "processing" /\ mailRow'.status = "failed"
              => \E w \in Workers : act[w].attempt = mailRow.attempts
<1> DEFINE Goal == /\ mailRow.status \in Final => mailRow'.status = mailRow.status
                   /\ mailRow.status # "sent" /\ mailRow'.status = "sent"
                        => mailRow.attempts \in accepted
                   /\ mailRow.status = "processing" /\ mailRow'.status = "failed"
                        => \E w \in Workers : act[w].attempt = mailRow.attempts
<1>0. mailRow \in MailRows
  BY DEF MailTyped
<1>1. CASE mailRow' = mailRow
  BY <1>1
<1>2. CASE pass \/ publish \/ UNCHANGED mailVars
  BY <1>2 DEF pass, publish, mailVars
<1>3. ASSUME NEW w \in Workers,
             findExisting(w) \/ pick(w) \/ stall(w) \/ throw(w) \/ send(w)
      PROVE  mailRow' = mailRow
  BY <1>3 DEF findExisting, pick, stall, throw, send
<1>4. ASSUME NEW w \in Workers, materialize(w), mailRow' # mailRow
      PROVE  Goal
  BY <1>4 DEF materialize, queueSecurityEmailHandoff, recordSecurityEmailAttentionRequired, NoRow,
              Final
<1>5. ASSUME NEW w \in Workers, retire(w) \/ recover(w), mailRow' # mailRow
      PROVE  Goal
  <2>1. mailRow.status \notin Final /\ mailRow' = toAttention
    BY <1>5 DEF retire, recover
  <2> QED
    BY <1>0, <2>1 DEF toAttention, MailRows
<1>6. ASSUME NEW w \in Workers, claim(w), mailRow' # mailRow
      PROVE  Goal
  <2>1. mailRow.status \notin Final /\ mailRow'.status = "processing"
    BY <1>0, <1>6 DEF claim, claimable, MailRows
  <2> QED
    BY <2>1
<1>7. ASSUME NEW w \in Workers, sendFailed(w), mailRow' # mailRow
      PROVE  Goal
  <2>1. owns(w) /\ mailRow'.status \in {"attention_required", "failed"}
    BY <1>0, <1>7 DEF sendFailed, toAttention, MailRows
  <2> QED
    BY <2>1 DEF owns, Final
<1>8. ASSUME NEW w \in Workers, markSent(w), mailRow' # mailRow
      PROVE  Goal
  <2>1. owns(w) /\ mailRow'.status = "sent" /\ act[w].attempt \in accepted
    BY <1>0, <1>8 DEF markSent, MailRows, SendsArePaid
  <2> QED
    BY <2>1 DEF owns, Final
<1> QED
  BY <1>1, <1>2, <1>3, <1>4, <1>5, <1>6, <1>7, <1>8 DEF MailNext

\* The invariant holds at the start and after every step.
LEMMA MailInvariant == MailSpec => []MailInv
<1>1. MailInit => MailInv
  <2> SUFFICES ASSUME MailInit PROVE MailInv
    OBVIOUS
  <2> USE MailAssumption, SchedulesAssumption
  <2>1. NoRow \in MailRows /\ Idle \in Attempts
    BY DEF NoRow, MailRows, Idle, Attempts, Phases
  <2>2. job \in JobRows /\ job.state = "none" /\ job.made = 0
    BY DEF MailInit, JobRows
  <2>3. mailRow.status = "none" /\ mailRow.attempts = 0 /\ mailRow.availableAt = 0 /\ mailRow.lease = 0
    BY DEF MailInit, NoRow
  <2>4. \A w \in Workers : act[w].phase = "idle"
    BY DEF MailInit, Idle
  <2>5. MailTyped
    BY <2>1, <2>2 DEF MailInit, MailTyped
  <2>6. OriginKnown
    BY <2>2, <2>3, <2>4 DEF MailInit, OriginKnown
  <2>7. SendsArePaid
    <3>1. Contacting = {}
      BY <2>4 DEF Contacting
    <3> QED
      BY <2>3, <2>4, <3>1, FS_EmptySet DEF MailInit, SendsArePaid
  <2>8. CredentialsRest /\ OneAttempt /\ OnSchedule
    BY <2>2, <2>3, <2>4 DEF MailInit, CredentialsRest, OneAttempt, OnSchedule, Contact, Final
  <2> QED
    BY <2>5, <2>6, <2>7, <2>8 DEF MailInv
<1>2. MailInv /\ [MailNext]_mailVars => MailInv'
  <2> SUFFICES ASSUME MailInv, [MailNext]_mailVars PROVE MailInv'
    OBVIOUS
  <2>1. mailFaults' = 0 => mailFaults = 0
    <3>1. CASE pass \/ publish \/ UNCHANGED mailVars
      BY <3>1 DEF pass, publish, mailVars
    <3>2. ASSUME NEW w \in Workers, findExisting(w) \/ materialize(w) \/ pick(w) \/ retire(w) \/ recover(w)
          PROVE  mailFaults' = mailFaults
      BY <3>2 DEF findExisting, materialize, pick, retire, recover
    <3>3. ASSUME NEW w \in Workers, claim(w) \/ send(w) \/ sendFailed(w) \/ markSent(w)
          PROVE  mailFaults' = mailFaults
      BY <3>3 DEF claim, send, sendFailed, markSent
    <3>4. ASSUME NEW w \in Workers, stall(w) \/ throw(w)
          PROVE  mailFaults' # 0
      <4>1. mailFaults \in Nat /\ mailFaults' = mailFaults + 1
        BY <3>4 DEF stall, throw, MailInv, MailTyped
      <4> QED
        BY <4>1
    <3> QED
      BY <3>1, <3>2, <3>3, <3>4 DEF MailNext
  <2> QED
    BY <2>1, MailTypedStep, OriginStep, PaidStep, CredentialStep, OneAttemptStep, ScheduleStep
    DEF MailInv
<1> QED
  BY <1>1, <1>2, PTL DEF MailSpec

\* A security mail is sent a bounded number of times, the attempts of its job reach the end of
\* the row's, and only the holder of the lease writes the outcome (securityEmailHandoff).
THEOREM MailSound == MailSpec => MailIsAccountedFor
<1>1. MailInv => SendsAreBounded
  <2> SUFFICES ASSUME MailInv PROVE SendsAreBounded
    OBVIOUS
  <2>1. IsFiniteSet(Contacting) /\ Cardinality(Contacting) \in Nat
    BY MailAssumption, FS_Subset, FS_CardinalityType DEF Contacting
  <2>2. sends \in Nat /\ mailRow.attempts \in Nat /\ SendLimit \in Nat
    BY MailAssumption, SchedulesAssumption DEF MailInv, MailTyped, MailRows
  <2> QED
    BY <2>1, <2>2 DEF MailInv, OriginKnown, SendsArePaid, CredentialsRest, SendsAreBounded
<1>2. MailInv => AttemptsSuffice
  BY DEF MailInv, OnSchedule, AttemptsSuffice
<1>3. MailSpec => OutcomesAreOwned
  <2>1. MailInv /\ [MailNext]_mailVars =>
          [/\ mailRow.status \in Final => mailRow'.status = mailRow.status
           /\ mailRow.status # "sent" /\ mailRow'.status = "sent" => mailRow.attempts \in accepted
           /\ mailRow.status = "processing" /\ mailRow'.status = "failed"
                => \E w \in Workers : act[w].attempt = mailRow.attempts]_mailVars
    BY OutcomeStep DEF MailInv
  <2> QED
    BY <2>1, MailInvariant, PTL DEF MailSpec, OutcomesAreOwned
<1> QED
  BY <1>1, <1>2, <1>3, MailInvariant, PTL DEF MailIsAccountedFor
=============================================================================
