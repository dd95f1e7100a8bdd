------------------------------- MODULE PaidOrder -------------------------------
(***************************************************************************)
(* One paid commission order: delivery and review, proposals between the    *)
(* parties, disputes and rulings, suspension of the creator, the worker's   *)
(* automatic completion and expiry, and the pauses of both service modes.   *)
(*                                                                         *)
(* Every writer holds the creator's advisory lock, so a command is a step.   *)
(* expectedVersion and the idempotency record only refuse commands.          *)
(* Fulfilment and resolution are switched together; each worker scan         *)
(* observes the switch in a step of its own.  Deadlines are the countdowns   *)
(* of Deadline.                                                             *)
(***************************************************************************)
EXTENDS Deadline, FiniteSets

CONSTANTS ReviewWindow,      \* reviewWindowDays of the terms
          Allowance,         \* revisionAllowance of the terms
          Amount,            \* the confirmed payment
          Turnaround,        \* dueAt plus overdueTriggerMs
          Grace,             \* pauseGraceMs of both packages
          RestoreFloor,      \* restoreFloorMs
          ProposalResponse,  \* proposalResponseMs
          MaxProposals,      \* maxProposalsPerParty
          TriggerWindow,     \* proposalTriggerWindowMs
          DisputeResponse,   \* disputeResponseMs
          MaxExtension,      \* maxDisputeExtensionMs, from the opening
          Refunds,           \* the refunds the parties and the owner may name
          Modes              \* the modes an operator may deploy

ASSUME PaidOrderAssumptions ==
  /\ ReviewWindow \in Nat \ {0} /\ Allowance \in Nat /\ Amount \in Nat \ {0}
  /\ Turnaround \in Nat /\ Grace \in Nat
  /\ RestoreFloor \in Nat \ {0} /\ RestoreFloor >= Grace
  /\ ProposalResponse \in Nat \ {0} /\ MaxProposals \in Nat /\ TriggerWindow \in Nat
  /\ DisputeResponse \in Nat \ {0} /\ MaxExtension \in Nat
  /\ Refunds \subseteq 0..Amount /\ Modes \subseteq {"enabled", "disabled"}

VARIABLES
  state, endKind,          \* the order, and its completion kind or close reason
  slot,                    \* its capacity reservation
  draft,                   \* a draft submission waits for its answer
  revisions, moves,        \* revisions used; deliveries and requests for changes so far
  baseLeft, review,        \* the stored end of review, and its effective countdown
  overdueLeft,             \* time until an undelivered order may be disputed
  mode, paused,            \* the deployed modes; the services whose pause row is open
  proposal, propBy, propKind, propRefund, propState, propMoves, propRemaining, propTimer,
  made,                    \* proposals made so far, by party
  ended,                   \* declined and expired proposals: grounds for a dispute
  dispute, opener, openState, openRemaining, responded, answerRaw, answer, extendLeft,
  withdrew, freshDelivery, \* dispute history that limits a second dispute
  case,                    \* the dispute's trust case
  owed,                    \* the refund obligation
  sinceHold                \* history: time since review time was last given back

orderVars    == <<state, endKind, slot, draft, revisions, moves>>
reviewVars   == <<baseLeft, review, sinceHold>>
modeVars     == <<mode, paused>>
proposalVars == <<proposal, propBy, propKind, propRefund, propState, propMoves, propRemaining, propTimer>>
disputeVars  == <<dispute, opener, openState, openRemaining, responded, answerRaw, answer,
                  extendLeft, case>>
triggerVars  == <<ended, withdrew, freshDelivery>>
vars == <<orderVars, reviewVars, overdueLeft, modeVars, proposalVars, made, disputeVars,
          triggerVars, owed>>

Roles    == {"buyer", "creator"}
Kinds    == {"cancel_with_refund", "complete_with_refund"}
Live     == {"in_progress", "delivered"}
Services == {"fulfillment", "resolution"}
Completions == {"buyer_accepted", "review_window_elapsed", "agreement", "ruling"}
Closures == {"cancelled_by_agreement", "cancelled_by_ruling",
             "buyer_cancelled_after_suspension", "fulfillment_frozen"}

Larger(a, b) == IF a >= b THEN a ELSE b

FPaused == "fulfillment" \in paused
RPaused == "resolution" \in paused

Init ==
  /\ state = "in_progress" /\ endKind = "none" /\ slot = "occupied" /\ draft = "no"
  /\ revisions = 0 /\ moves = 0
  /\ baseLeft = 0 /\ review = Passed /\ overdueLeft = Turnaround
  /\ mode = "enabled" /\ paused = {}
  /\ proposal = "none" /\ propBy = "buyer" /\ propKind = "cancel_with_refund"
  /\ propRefund = 0 /\ propState = "in_progress" /\ propMoves = 0
  /\ propRemaining = 0 /\ propTimer = Passed
  /\ made = [r \in Roles |-> 0]
  /\ ended = {}
  /\ dispute = "none" /\ opener = "buyer" /\ openState = "in_progress" /\ openRemaining = 0
  /\ responded = "no" /\ answerRaw = 0 /\ answer = Passed /\ extendLeft = 0
  /\ withdrew = {} /\ freshDelivery = "no"
  /\ case = "none" /\ owed = 0
  /\ sinceHold = RestoreFloor
---------------------------------------------------------------------------
(* What Orders asks of Resolutions, and the other way round. *)

\* Fault model of Hold: proposals do not hold the completion.
HoldByDispute == dispute = "open"

\* hasActiveCompletionHold; a stale proposal still holds.
Hold == dispute = "open" \/ (proposal = "pending" /\ propState = "delivered")

\* isProposalStale: the order is not the one the proposal was made about.
Stale == state # propState \/ moves > propMoves

\* Nothing reads the review clock and the grounds for disputes of an ended order.
Forget ==
  /\ baseLeft' = 0 /\ review' = Passed /\ sinceHold' = RestoreFloor /\ overdueLeft' = 0
  /\ ended' = {} /\ withdrew' = {} /\ freshDelivery' = "no"

\* completeCommissionOrder.
Complete(kind) ==
  /\ state = "delivered" /\ slot = "occupied"
  /\ state' = "completed" /\ slot' = "completed" /\ endKind' = kind
  /\ Forget /\ UNCHANGED <<draft, revisions, moves>>

\* closePaidOrder.
ClosePaid(reason) ==
  /\ state \in Live /\ slot = "occupied"
  /\ state' = "closed" /\ slot' = "cancelled" /\ endKind' = reason
  /\ Forget /\ UNCHANGED <<draft, revisions, moves>>

\* restoreReviewTime to now plus the remaining time or the floor; a floor at or
\* before the stored end changes nothing.
RestoreReview(remaining) ==
  LET floor == Larger(remaining, RestoreFloor) IN
    /\ baseLeft' = Larger(baseLeft, floor)
    /\ review' = IF floor > baseLeft THEN floor ELSE review
    /\ sinceHold' = 0
---------------------------------------------------------------------------
(* Fulfilment. *)

\* submit: a draft or the final delivery; an unanswered draft is superseded.
Submit(kind) ==
  /\ mode = "enabled" /\ dispute # "open" /\ state = "in_progress"
  /\ IF kind = "draft"
     THEN /\ draft = "no" /\ draft' = "yes"
          /\ UNCHANGED <<state, moves, reviewVars, freshDelivery>>
     ELSE /\ draft' = "no"
          /\ state' = "delivered" /\ moves' = moves + 1
          /\ baseLeft' = ReviewWindow /\ review' = ReviewWindow
          /\ sinceHold' = RestoreFloor
          /\ freshDelivery' = "yes"
  /\ UNCHANGED <<endKind, slot, revisions, overdueLeft, modeVars, proposalVars, made, disputeVars,
                 ended, withdrew, owed>>

\* respondToSubmission, approve: only drafts.
ApproveDraft ==
  /\ mode = "enabled" /\ state = "in_progress" /\ draft = "yes" /\ dispute # "open"
  /\ draft' = "no"
  /\ UNCHANGED <<state, endKind, slot, revisions, moves, reviewVars, overdueLeft, modeVars,
                 proposalVars, made, disputeVars, triggerVars, owed>>

\* respondToSubmission, request_changes: on a draft, or on the delivery in review.
RequestChanges ==
  /\ mode = "enabled" /\ dispute # "open"
  /\ \/ state = "in_progress" /\ draft = "yes"
     \/ state = "delivered" /\ Before(review, FPaused)
  /\ revisions < Allowance
  /\ state' = "in_progress" /\ draft' = "no"
  /\ revisions' = revisions + 1 /\ moves' = moves + 1
  /\ baseLeft' = 0 /\ review' = Passed /\ sinceHold' = RestoreFloor
  /\ freshDelivery' = "no"
  /\ UNCHANGED <<endKind, slot, overdueLeft, modeVars, proposalVars, made, disputeVars,
                 ended, withdrew, owed>>

\* respondToSubmission, accept: the buyer takes the delivery.
AcceptDelivery ==
  /\ mode = "enabled" /\ state = "delivered" /\ Before(review, FPaused) /\ ~Hold
  /\ Complete("buyer_accepted")
  /\ UNCHANGED <<modeVars, proposalVars, made, disputeVars, owed>>

\* One candidate of completeDue; the worker calls it only while enabled.
CompleteDue ==
  /\ mode = "enabled" /\ state = "delivered" /\ Reached(review, FPaused) /\ ~Hold
  /\ Complete("review_window_elapsed")
  /\ UNCHANGED <<modeVars, proposalVars, made, disputeVars, owed>>
---------------------------------------------------------------------------
(* Proposals. *)

\* propose.
Propose(r, kind, refund) ==
  /\ mode = "enabled" /\ state \in Live
  /\ kind = "complete_with_refund" => state = "delivered" /\ refund \in 1..Amount - 1
  /\ proposal = "none" /\ made[r] < MaxProposals
  /\ state = "delivered" => Before(review, FPaused)
  /\ proposal' = "pending" /\ propBy' = r /\ propKind' = kind /\ propRefund' = refund
  /\ propState' = state /\ propMoves' = moves
  /\ propRemaining' = IF state = "delivered" THEN review ELSE 0
  /\ propTimer' = ProposalResponse
  /\ made' = [made EXCEPT ![r] = @ + 1]
  /\ UNCHANGED <<orderVars, reviewVars, overdueLeft, modeVars, disputeVars, triggerVars, owed>>

\* The proposal leaves; its columns are no longer read.
ClearProposal ==
  /\ proposal' = "none" /\ propBy' = "buyer" /\ propKind' = "cancel_with_refund"
  /\ propRefund' = 0 /\ propState' = "in_progress" /\ propMoves' = 0
  /\ propRemaining' = 0 /\ propTimer' = Passed

\* Fault model of EndProposal: the restoration forgets the hold of a stale proposal too.
EndProposalUnrestored(how) ==
  /\ ClearProposal
  /\ ended' = IF how \in {"declined", "expired"}
              THEN ended \cup {[by |-> propBy, left |-> TriggerWindow, seen |-> "no", used |-> {}]}
              ELSE ended
  /\ IF state = "delivered" /\ ~Stale
     THEN sinceHold' = 0 /\ UNCHANGED <<baseLeft, review>>
     ELSE UNCHANGED reviewVars
  /\ UNCHANGED <<orderVars, overdueLeft, modeVars, made, disputeVars, withdrew, freshDelivery,
                 owed>>

\* endProposalWithoutAgreement: the review time that the proposal held comes back,
\* unless the order has moved on.
EndProposal(how) ==
  /\ ClearProposal
  /\ ended' = IF how \in {"declined", "expired"}
              THEN ended \cup {[by |-> propBy, left |-> TriggerWindow, seen |-> "no", used |-> {}]}
              ELSE ended
  /\ IF state = "delivered" /\ ~Stale
     THEN RestoreReview(propRemaining)
     ELSE UNCHANGED reviewVars
  /\ UNCHANGED <<orderVars, overdueLeft, modeVars, made, disputeVars, withdrew, freshDelivery,
                 owed>>

\* respondToProposal decline, and withdrawProposal.
DeclineOrWithdraw ==
  /\ mode = "enabled" /\ proposal = "pending" /\ Before(propTimer, RPaused)
  /\ \E how \in {"declined", "withdrawn"} : EndProposal(how)

\* The dispute leaves with its trust case; its columns are no longer read.
ClearDispute ==
  /\ dispute' = "none" /\ opener' = "buyer" /\ openState' = "in_progress" /\ openRemaining' = 0
  /\ responded' = "no" /\ answerRaw' = 0 /\ answer' = Passed /\ extendLeft' = 0
  /\ case' = "none"

\* settleDispute: an agreement ends the open dispute and resolves its case.
SettleDispute == IF dispute = "open" THEN case = "open" /\ ClearDispute ELSE UNCHANGED disputeVars

\* respondToProposal accept: a stale proposal lapses, a current one ends the order.
AcceptProposal ==
  /\ mode = "enabled" /\ proposal = "pending" /\ Before(propTimer, RPaused)
  /\ \/ Stale /\ EndProposal("lapsed")
     \/ /\ ~Stale
        /\ IF propKind = "cancel_with_refund" THEN ClosePaid("cancelled_by_agreement")
           ELSE Complete("agreement")
        /\ owed' = owed + propRefund
        /\ SettleDispute
        /\ ClearProposal
        /\ UNCHANGED <<modeVars, made>>

\* One candidate of the resolution scan: stale proposals lapse, unanswered ones expire.
ScanProposal ==
  /\ mode = "enabled" /\ ~RPaused /\ proposal = "pending"
  /\ \/ Stale /\ EndProposal("lapsed")
     \/ ~Stale /\ Reached(propTimer, RPaused) /\ EndProposal("expired")
---------------------------------------------------------------------------
(* Disputes. *)

\* evaluateDisputeTrigger: the delivery under review, a missed delivery, or a
\* proposal that ended without agreement; not what a withdrawn dispute used up.
Trigger(r) ==
  \/ r = "buyer" /\ state = "delivered" /\ freshDelivery = "yes"
  \/ r = "buyer" /\ state = "in_progress" /\ overdueLeft = 0 /\ r \notin withdrew
  \/ \E e \in ended :
       (r = "buyer" \/ e.by = r) /\ r \notin e.used /\ Within(e.left, RPaused)

\* openDispute with its trust case.
OpenDispute(r) ==
  /\ mode = "enabled" /\ state \in Live /\ dispute # "open"
  /\ state = "delivered" => Before(review, FPaused)
  /\ Trigger(r)
  /\ dispute' = "open" /\ opener' = r /\ openState' = state
  /\ openRemaining' = IF state = "delivered" THEN review ELSE 0
  /\ responded' = "no"
  /\ answerRaw' = DisputeResponse /\ answer' = DisputeResponse /\ extendLeft' = MaxExtension
  /\ case' = "open"
  /\ ended' = {[e EXCEPT !.seen = "yes"] : e \in ended}
  /\ UNCHANGED <<orderVars, reviewVars, overdueLeft, modeVars, proposalVars, made, withdrew,
                 freshDelivery, owed>>

\* addStatement by the other party; only the first, the response, is told apart.
Respond ==
  /\ mode = "enabled" /\ dispute = "open" /\ responded = "no"
  /\ responded' = "yes"
  /\ UNCHANGED <<orderVars, reviewVars, overdueLeft, modeVars, proposalVars, made, dispute, opener,
                 openState, openRemaining, answerRaw, answer, extendLeft, case, triggerVars, owed>>

\* withdrawDispute.
WithdrawDispute ==
  /\ mode = "enabled" /\ dispute = "open" /\ case = "open"
  /\ ClearDispute
  /\ IF state = "delivered" /\ openState = "delivered"
     THEN RestoreReview(openRemaining)
     ELSE UNCHANGED reviewVars
  /\ withdrew' = withdrew \cup {opener}
  /\ freshDelivery' = IF opener = "buyer" THEN "no" ELSE freshDelivery
  /\ ended' = {[e EXCEPT !.seen = "no",
                         !.used = IF e.seen = "yes" THEN @ \cup {opener} ELSE @] : e \in ended}
  /\ UNCHANGED <<orderVars, overdueLeft, modeVars, proposalVars, made, owed>>

\* Fault model of Rule: a completed order may be refunded in full.
RuleAnyRefund(outcome, refund) ==
  /\ mode = "enabled" /\ dispute = "open" /\ state \in Live /\ case = "open"
  /\ responded = "yes" \/ Reached(answer, RPaused)
  /\ IF outcome = "complete" THEN Complete("ruling") ELSE ClosePaid("cancelled_by_ruling")
  /\ owed' = owed + refund
  /\ ClearDispute /\ ClearProposal
  /\ UNCHANGED <<modeVars, made>>

\* rule: the owner decides once the other party has answered or had its time.
Rule(outcome, refund) ==
  /\ mode = "enabled" /\ dispute = "open" /\ state \in Live /\ case = "open"
  /\ outcome = "complete" => refund < Amount
  /\ responded = "yes" \/ Reached(answer, RPaused)
  /\ IF outcome = "complete" THEN Complete("ruling") ELSE ClosePaid("cancelled_by_ruling")
  /\ owed' = owed + refund
  /\ ClearDispute /\ ClearProposal
  /\ UNCHANGED <<modeVars, made>>

\* extendDispute: later than the stored deadline, within the limit from the opening.
ExtendDispute(until) ==
  /\ mode = "enabled" /\ dispute = "open"
  /\ until > answerRaw /\ until <= extendLeft
  /\ answerRaw' = until /\ answer' = until
  /\ UNCHANGED <<orderVars, reviewVars, overdueLeft, modeVars, proposalVars, made, dispute, opener,
                 openState, openRemaining, responded, extendLeft, case, triggerVars, owed>>
---------------------------------------------------------------------------
(* Suspension of the creator. *)

\* closeSuspendedPaidOrder: full refund; proposals and dispute are superseded.
CloseSuspended(reason) ==
  /\ ClosePaid(reason)
  /\ owed' = owed + Amount
  /\ ClearProposal
  /\ SettleDispute
  /\ UNCHANGED <<modeVars, made>>

\* The buyer cancels after the creator was suspended.  Suspensions come and go with
\* Trust's penalties and nothing else here reads them.
CancelAfterSuspension == mode = "enabled" /\ CloseSuspended("buyer_cancelled_after_suspension")

\* freezeFulfillment by the owner, and freezeForRemoval with the removal of the creator.
FreezeFulfillment == mode = "enabled" /\ CloseSuspended("fulfillment_frozen")
---------------------------------------------------------------------------
(* Modes and time. *)

\* An operator switches fulfilment and resolution together.
SwitchMode ==
  /\ mode' \in Modes \ {mode}
  /\ UNCHANGED <<orderVars, reviewVars, overdueLeft, paused, proposalVars, made, disputeVars,
                 triggerVars, owed>>

\* observeFulfillmentMode at the start of the fulfilment scan.
ObserveFulfillment ==
  /\ \/ mode = "disabled" /\ ~FPaused /\ paused' = paused \cup {"fulfillment"} /\ UNCHANGED review
     \/ mode = "enabled" /\ FPaused /\ paused' = paused \ {"fulfillment"}
        /\ review' = AfterResume(review, Grace)
  /\ UNCHANGED <<orderVars, baseLeft, sinceHold, overdueLeft, mode, proposalVars, made, disputeVars,
                 triggerVars, owed>>

\* observeResolutionMode at the start of the resolution scan.
ObserveResolution ==
  /\ \/ mode = "disabled" /\ ~RPaused /\ paused' = paused \cup {"resolution"}
        /\ UNCHANGED <<answer, propTimer, ended>>
     \/ /\ mode = "enabled" /\ RPaused /\ paused' = paused \ {"resolution"}
        /\ answer' = AfterResume(answer, Grace)
        /\ propTimer' = AfterResume(propTimer, Grace)
        /\ ended' = {[e EXCEPT !.left = AfterResume(@, Grace)] : e \in ended}
  /\ UNCHANGED <<orderVars, reviewVars, overdueLeft, mode, proposal, propBy, propKind, propRefund,
                 propState, propMoves, propRemaining, made, dispute, opener, openState, openRemaining,
                 responded, answerRaw, extendLeft, case, withdrew, freshDelivery, owed>>

Minus1(n) == IF n > 0 THEN n - 1 ELSE 0

\* Time matters while the order lives; an ended window no longer does.
Tick ==
  /\ state \in Live
  /\ baseLeft' = Minus1(baseLeft) /\ review' = AfterTick(review, FPaused)
  /\ sinceHold' = IF sinceHold < RestoreFloor THEN sinceHold + 1 ELSE sinceHold
  /\ overdueLeft' = Minus1(overdueLeft)
  /\ propTimer' = AfterTick(propTimer, RPaused)
  /\ answer' = AfterTick(answer, RPaused)
  /\ answerRaw' = Minus1(answerRaw) /\ extendLeft' = Minus1(extendLeft)
  /\ ended' = {e \in {[f EXCEPT !.left = AfterTick(@, RPaused)] : f \in ended} : e.left # Passed}
  /\ UNCHANGED <<orderVars, modeVars, proposal, propBy, propKind, propRefund, propState, propMoves,
                 propRemaining, made, dispute, opener, openState, openRemaining, responded, case,
                 withdrew, freshDelivery, owed>>
---------------------------------------------------------------------------
FulfillmentCommand ==
  \/ \E k \in {"draft", "final"} : Submit(k)
  \/ ApproveDraft \/ RequestChanges \/ AcceptDelivery

ResolutionCommand ==
  \/ \E r \in Roles, k \in Kinds, a \in Refunds : Propose(r, k, a)
  \/ DeclineOrWithdraw \/ AcceptProposal
  \/ \E r \in Roles : OpenDispute(r)
  \/ Respond \/ WithdrawDispute
  \/ \E o \in {"complete", "close"}, a \in Refunds : Rule(o, a)
  \/ \E u \in 1..MaxExtension : ExtendDispute(u)
  \/ CancelAfterSuspension \/ FreezeFulfillment

Worker == CompleteDue \/ ScanProposal \/ ObserveFulfillment \/ ObserveResolution

Next == FulfillmentCommand \/ ResolutionCommand \/ Worker \/ SwitchMode \/ Tick

Spec == Init /\ [][Next]_vars

\* The worker's scans run every interval and time passes; people and operators
\* owe nothing.
FairSpec ==
  /\ Spec
  /\ WF_vars(Tick) /\ WF_vars(CompleteDue) /\ WF_vars(ScanProposal)
  /\ WF_vars(ObserveFulfillment) /\ WF_vars(ObserveResolution)
---------------------------------------------------------------------------
(* Properties. *)

\* The columns of the order, its proposal, its dispute and the two pause tables.
TypeOK ==
  /\ state \in Live \cup {"completed", "closed"}
  /\ endKind \in {"none"} \cup Completions \cup Closures
  /\ slot \in {"occupied", "completed", "cancelled"} /\ draft \in {"yes", "no"}
  /\ revisions \in 0..Allowance /\ moves \in Nat
  /\ baseLeft \in Nat /\ review \in Int /\ review >= Held /\ overdueLeft \in Nat
  /\ mode \in {"enabled", "disabled"} /\ paused \subseteq Services
  /\ proposal \in {"none", "pending"} /\ propBy \in Roles /\ propKind \in Kinds
  /\ propRefund \in 0..Amount /\ propState \in Live /\ propMoves \in Nat
  /\ propRemaining \in Nat /\ propTimer \in Int /\ propTimer >= Held
  /\ made \in [Roles -> 0..MaxProposals]
  /\ dispute \in {"none", "open"} /\ opener \in Roles /\ openState \in Live
  /\ openRemaining \in Nat /\ responded \in {"yes", "no"} /\ case \in {"none", "open"}
  /\ answerRaw \in Nat /\ answer \in Int /\ answer >= Held /\ extendLeft \in Nat
  /\ withdrew \subseteq Roles /\ freshDelivery \in {"yes", "no"}
  /\ owed \in Nat
  /\ sinceHold \in 0..RestoreFloor

\* While a dispute is open the order stays in the state it was disputed in, on
\* every path, and exactly then its trust case is open.
DisputeFreezesOrder ==
  /\ dispute = "open" => state = openState
  /\ dispute = "open" <=> case = "open"

\* An ended order has no dispute, and no proposal that could still be accepted:
\* only one made before the delivery outlives it, to lapse at the next scan.
EndedOrderIsSettled ==
  state \notin Live =>
    /\ dispute = "none"
    /\ proposal = "pending" =>
         propState = "in_progress" /\ endKind \in {"buyer_accepted", "review_window_elapsed"}

\* The buyer is owed what the way out says: everything after a suspension or a
\* freeze, less than everything with a completed order, nothing without a decision.
RefundMatchesOutcome ==
  /\ state \in Live \/ endKind \in {"buyer_accepted", "review_window_elapsed"} => owed = 0
  /\ endKind \in {"buyer_cancelled_after_suspension", "fulfillment_frozen"} => owed = Amount
  /\ state = "completed" => owed < Amount
  /\ owed <= Amount

\* Nothing but time brings the effective end of review nearer: giving back review
\* time never takes the grace of an earlier pause away.
RestoreNeverShortens ==
  [][Tick \/ (state = "delivered" /\ state' = "delivered" => review' >= review)]_vars

\* After a proposal or dispute that held the delivery, the buyer has the restored
\* time before the worker completes the order, whatever holds and pauses overlapped.
RestoredTimeIsGiven ==
  [][endKind = "none" /\ endKind' = "review_window_elapsed" => sinceHold = RestoreFloor]_vars

\* An agreement ends the order only on the facts it was made on: no delivery and no
\* request for changes came in between, also when the order is back in its old state.
AgreementIsCurrent ==
  [][endKind = "none" /\ endKind' \in {"agreement", "cancelled_by_agreement"}
       => moves = propMoves /\ owed' = propRefund]_vars

L == INSTANCE OrderLifecycle WITH
       state <- IF state \in Live THEN "paid" ELSE state, slot <- slot, payment <- "confirmed"

\* The paid part of the abstract lifecycle: one way out, with the slot.
ImplementsLifecycle == [][[L!Next]_(L!vars)]_vars

\* Holds run out: nobody keeps a delivered order from completing for ever by making
\* and withdrawing proposals and disputes; in the end it moves or waits for a ruling.
HoldsRunOut ==
  <>[](mode = "enabled") => <>[](state # "delivered" \/ dispute = "open")

\* A proposal that the order has overtaken does not stay pending.
StaleProposalEnds ==
  <>[](mode = "enabled") => []<>~(proposal = "pending" /\ Stale)

\* An extension of the response deadline makes it later.
ExtensionOnlyExtends ==
  [][(\E u \in 1..MaxExtension : ExtendDispute(u)) => answer' > answer]_vars

\* A dispute freezes the order, an ended order is settled, and the money owed is what
\* the way out says (openDispute, rule, endPaid, completeDue).
OutcomesAreSettled ==
  TypeOK /\ DisputeFreezesOrder /\ EndedOrderIsSettled /\ RefundMatchesOutcome

\* What was agreed and what was promised holds when the order ends: the facts of the
\* proposal, the restored review time, one way out with the capacity slot
\* (acceptProposal, restoreReviewWindow, completeDue).
AgreementsAreKept ==
  RestoreNeverShortens /\ RestoredTimeIsGiven /\ AgreementIsCurrent /\ ImplementsLifecycle
---------------------------------------------------------------------------
(* What the database demands of a paid order, its proposals, disputes and
   rulings: the row triggers and CHECK constraints, which state the rules of
   fulfilment and resolution a second time, in SQL. Left out: the rows of
   submissions, which PaidOrder keeps as the state of the order and one
   unanswered draft, and owner and envelope columns. *)

\* A service restored review time: completion_floor_at was written.
FloorWritten == state = "delivered" /\ state' = "delivered" /\ baseLeft' > baseLeft

\* commission_guard_order on UPDATE of a confirmed order.
guard_order ==
  \/ state = "in_progress" /\ state' = "delivered" /\ revisions' = revisions
  \/ state \in Live /\ state' = "in_progress" /\ revisions' = revisions + 1
  \/ state = "delivered" /\ state' = "completed" /\ revisions' = revisions
  \/ state \in Live /\ state' = "closed" /\ endKind' \in Closures /\ revisions' = revisions
  \/ FloorWritten /\ UNCHANGED <<endKind, slot, revisions>>

\* The CHECK constraints of commission_orders on fulfilment: a completion has a kind,
\* and an automatic one is not before the stored end of review.
completion_checks ==
  /\ state' = "completed" <=> endKind' \in Completions
  /\ state' = "closed" <=> endKind' \in Closures
  /\ endKind' = "review_window_elapsed" => baseLeft = 0
  /\ revisions' <= Allowance

\* commission_guard_reservation with commission_check_order_graph at commit.
slot_checks ==
  /\ slot' # slot => slot = "occupied" /\ slot' \in {"completed", "cancelled"}
  /\ slot' = IF state' \in Live THEN "occupied" ELSE IF state' = "completed" THEN "completed" ELSE "cancelled"

\* commission_guard_proposal and the CHECK constraints, on INSERT.
guard_proposal ==
  /\ propState' = state /\ propRefund' <= Amount
  /\ propKind' = "complete_with_refund" =>
       propState' = "delivered" /\ propRefund' >= 1 /\ propRefund' < Amount
  /\ propState' = "delivered" => propRemaining' >= 0
  /\ propTimer' = ProposalResponse

\* commission_guard_dispute and the CHECK constraints, on INSERT.
guard_dispute_insert ==
  /\ openState' = state /\ answerRaw' = DisputeResponse
  /\ openState' = "delivered" => openRemaining' >= 0

\* commission_guard_dispute on UPDATE of an open dispute that stays open.
guard_dispute_update ==
  /\ UNCHANGED <<opener, openState, openRemaining>>
  /\ answerRaw' # answerRaw => answerRaw' > answerRaw /\ answerRaw' <= extendLeft

\* commission_guard_ruling: what the owner may decide depends on the state at opening.
guard_ruling ==
  /\ dispute = "open" /\ owed' - owed <= Amount
  /\ endKind' = "ruling" => openState = "delivered" /\ owed' - owed < Amount

\* commission_guard_fulfillment_pause and commission_guard_resolution_pause with the
\* unique indexes: a pause starts open, one at a time, and ends once.
guard_pause == \A s \in Services : s \in paused' /\ s \notin paused => mode = "disabled"

\* The database accepts every transaction on a paid order: restored review time is only
\* ever later than what is stored, automatic completion comes after the stored end
\* although pauses and holds moved the effective one, and a ruling to complete meets an
\* order disputed as delivered.
PaidGuardsAccept ==
  [][/\ <<state, endKind, slot, revisions>>' # <<state, endKind, slot, revisions>> \/ FloorWritten =>
          guard_order /\ completion_checks /\ slot_checks
     /\ proposal = "none" /\ proposal' = "pending" => guard_proposal
     /\ dispute = "none" /\ dispute' = "open" => guard_dispute_insert
     /\ dispute = "open" /\ dispute' = "open" /\ ~Tick => guard_dispute_update
     /\ endKind = "none" /\ endKind' \in {"ruling", "cancelled_by_ruling"} => guard_ruling
     /\ guard_pause]_vars
===============================================================================
