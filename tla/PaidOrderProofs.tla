---------------------------- MODULE PaidOrderProofs ----------------------------
(* What holds of a paid order for every length of its windows, every allowance  *)
(* and every amount.                                                            *)
EXTENDS PaidOrder, CompletionClock, FiniteSetTheorems, WellFoundedInduction, TLAPS

\* How an order ended is recorded once, with its slot, and nothing is owed before.
OutcomeRecorded ==
  /\ state \in Live => endKind = "none" /\ slot = "occupied" /\ owed = 0
  /\ state = "completed" => endKind \in Completions
  /\ state = "closed" => endKind \in Closures

\* A proposal was possible when it was made, and no later than now.
ProposalWasPossible ==
  /\ propKind = "complete_with_refund" => propState = "delivered" /\ propRefund < Amount
  /\ propMoves <= moves

\* Pauses only add to the stored end of review, at most up to their grace, and a
\* restoration that is not used up is still ahead.
ReviewBounds ==
  /\ review <= Larger(baseLeft, Grace)
  /\ baseLeft > 0 => review >= baseLeft
  /\ sinceHold < RestoreFloor => review >= RestoreFloor - sinceHold

PInv ==
  /\ TypeOK /\ OutcomeRecorded /\ ProposalWasPossible /\ ReviewBounds
  /\ DisputeFreezesOrder /\ EndedOrderIsSettled /\ RefundMatchesOutcome

LEMMA PInvInit == Init => PInv
  BY PaidOrderAssumptions DEF Init, PInv, TypeOK, OutcomeRecorded, ProposalWasPossible, ReviewBounds,
     DisputeFreezesOrder, EndedOrderIsSettled, RefundMatchesOutcome, Live, Roles, Kinds, Services,
     Larger, Passed, Held, Completions, Closures

\* Time that comes back keeps the bounds of the review clock.
LEMMA RestoreKeepsBounds ==
  ASSUME TypeOK, ReviewBounds, NEW remaining \in Nat, RestoreReview(remaining)
  PROVE  /\ baseLeft' \in Nat /\ review' \in Int /\ review' >= Held /\ sinceHold' \in 0..RestoreFloor
         /\ ReviewBounds' /\ review' >= review
  BY PaidOrderAssumptions DEF TypeOK, ReviewBounds, RestoreReview, Larger, Held

\* Ending a proposal without agreement, whoever does it.
LEMMA EndProposalStep ==
  ASSUME PInv, NEW how, EndProposal(how)
  PROVE  PInv' /\ UNCHANGED <<state, endKind, slot>> /\ review' >= review
<1> USE DEF PInv, EndProposal
<1>1. /\ baseLeft' \in Nat /\ review' \in Int /\ review' >= Held /\ sinceHold' \in 0..RestoreFloor
      /\ ReviewBounds' /\ review' >= review
  BY RestoreKeepsBounds DEF TypeOK, ReviewBounds, reviewVars, Larger
<1>2. TypeOK'
  BY <1>1, PaidOrderAssumptions DEF TypeOK, ClearProposal, orderVars, modeVars, disputeVars, Live, Roles, Kinds, Passed, Held
<1>3. /\ OutcomeRecorded' /\ ProposalWasPossible' /\ DisputeFreezesOrder'
      /\ EndedOrderIsSettled' /\ RefundMatchesOutcome'
  BY DEF TypeOK, OutcomeRecorded, ProposalWasPossible, DisputeFreezesOrder, EndedOrderIsSettled,
     RefundMatchesOutcome, ClearProposal, orderVars, modeVars, disputeVars, Live, Kinds
<1> QED
  BY <1>1, <1>2, <1>3 DEF orderVars

\* The fulfilment commands that do not end the order.
LEMMA FulfillmentStep ==
  ASSUME PInv, ApproveDraft \/ RequestChanges \/ \E k \in {"draft", "final"} : Submit(k)
  PROVE  PInv'
<1> USE PaidOrderAssumptions DEF PInv
<1>1. CASE ApproveDraft
  <2>2. TypeOK'
    BY <1>1 DEF ApproveDraft, TypeOK, reviewVars, modeVars, proposalVars, disputeVars, triggerVars
  <2> QED
    BY <1>1, <2>2 DEF ApproveDraft, TypeOK, OutcomeRecorded, ProposalWasPossible, ReviewBounds,
       DisputeFreezesOrder, EndedOrderIsSettled, RefundMatchesOutcome, reviewVars, modeVars,
       proposalVars, disputeVars, triggerVars, Larger
<1>2. CASE RequestChanges
  <2>1. TypeOK'
    BY <1>2 DEF RequestChanges, TypeOK, modeVars, proposalVars, disputeVars, Live, Passed, Held
  <2>2. ReviewBounds'
    BY <1>2 DEF RequestChanges, ReviewBounds, Larger, Passed
  <2> QED
    BY <1>2, <2>1, <2>2 DEF RequestChanges, TypeOK, OutcomeRecorded, ProposalWasPossible,
       DisputeFreezesOrder, EndedOrderIsSettled, RefundMatchesOutcome, modeVars, proposalVars,
       disputeVars, Live
<1>3. ASSUME NEW k \in {"draft", "final"}, Submit(k) PROVE PInv'
  <2>1. TypeOK'
    BY <1>3 DEF Submit, TypeOK, reviewVars, modeVars, proposalVars, disputeVars, Live, Held
  <2>2. ReviewBounds'
    BY <1>3 DEF Submit, ReviewBounds, reviewVars, Larger
  <2> QED
    BY <1>3, <2>1, <2>2 DEF Submit, TypeOK, OutcomeRecorded, ProposalWasPossible,
       DisputeFreezesOrder, EndedOrderIsSettled, RefundMatchesOutcome, modeVars, proposalVars,
       disputeVars, Live
<1> QED
  BY <1>1, <1>2, <1>3

\* What both ways out leave behind.
Ended(how) ==
  /\ state \in Live /\ owed = 0 /\ endKind = "none" /\ endKind' = how
  /\ state' = IF how \in Completions THEN "completed" ELSE "closed"
  /\ slot' \in {"occupied", "completed", "cancelled"} /\ UNCHANGED <<draft, revisions, moves>>
  /\ baseLeft' \in Nat /\ review' \in Int /\ review' >= Held /\ overdueLeft' \in Nat
  /\ sinceHold' \in 0..RestoreFloor /\ withdrew' \subseteq Roles
  /\ freshDelivery' \in {"yes", "no"}
  /\ ReviewBounds'

LEMMA CompleteStep ==
  ASSUME PInv, NEW how \in Completions, Complete(how)
  PROVE  Ended(how)
  BY PaidOrderAssumptions DEF Ended, PInv, Complete, Forget, OutcomeRecorded,
     ReviewBounds, Live, Completions, Larger, Passed, Held

LEMMA CloseStep ==
  ASSUME PInv, NEW how \in Closures, ClosePaid(how)
  PROVE  Ended(how)
  BY PaidOrderAssumptions DEF Ended, PInv, ClosePaid, Forget, OutcomeRecorded,
     ReviewBounds, Live, Completions, Closures, Larger, Passed, Held

\* The buyer's acceptance and the worker's completion: nothing else was open.
LEMMA UndisputedEndStep == ASSUME PInv, AcceptDelivery \/ CompleteDue PROVE PInv'
<1>1. PICK how \in {"buyer_accepted", "review_window_elapsed"} :
        Complete(how) /\ ~Hold /\ UNCHANGED <<modeVars, proposalVars, made, disputeVars, owed>>
  BY DEF AcceptDelivery, CompleteDue
<1>2. how \in Completions
  BY DEF Completions
<1>3. Ended(how)
  BY <1>1, <1>2, CompleteStep
<1>4. TypeOK'
  BY <1>1, <1>2, <1>3 DEF Ended, PInv, TypeOK, modeVars, proposalVars, disputeVars
<1>5. dispute = "none" /\ (proposal = "pending" => propState = "in_progress")
  BY <1>1 DEF Hold, PInv, TypeOK, Live
<1> QED
  BY <1>1, <1>2, <1>3, <1>4, <1>5, PaidOrderAssumptions DEF Ended, PInv, TypeOK, OutcomeRecorded,
     ProposalWasPossible, DisputeFreezesOrder, EndedOrderIsSettled, RefundMatchesOutcome,
     Completions, Closures, Live, proposalVars, disputeVars

\* An end by decision takes the proposal and the dispute with it.
LEMMA DecidedEndStep ==
  ASSUME PInv, NEW how \in Completions \cup Closures, Ended(how), ClearProposal,
         dispute' = "none" /\ opener' \in Roles /\ openState' \in Live /\ openRemaining' \in Nat,
         responded' \in {"yes", "no"} /\ case' = "none",
         answerRaw' \in Nat /\ answer' \in Int /\ answer' >= Held /\ extendLeft' \in Nat,
         NEW refund \in 0..Amount, owed' = owed + refund,
         how \in Completions => refund < Amount,
         how \notin {"buyer_accepted", "review_window_elapsed"},
         how \in {"buyer_cancelled_after_suspension", "fulfillment_frozen"} => refund = Amount,
         UNCHANGED <<modeVars, made>>
  PROVE  PInv'
<1> USE PaidOrderAssumptions
<1>1. TypeOK'
  BY DEF PInv, TypeOK, Ended, ClearProposal, modeVars, Live, Roles, Kinds, Passed, Held
<1>2. ProposalWasPossible' /\ DisputeFreezesOrder' /\ EndedOrderIsSettled'
  BY DEF PInv, TypeOK, Ended, ClearProposal, ProposalWasPossible, DisputeFreezesOrder,
     EndedOrderIsSettled
<1>3. OutcomeRecorded' /\ ReviewBounds'
  BY DEF Ended, OutcomeRecorded, Live, Completions, Closures
<1>4. RefundMatchesOutcome'
  BY DEF Ended, RefundMatchesOutcome, Live, Completions, Closures
<1> QED
  BY <1>1, <1>2, <1>3, <1>4 DEF PInv

\* Closing the dispute with the order.
LEMMA DisputeGone ==
  ASSUME PInv, ClearDispute \/ SettleDispute
  PROVE  /\ dispute' = "none" /\ opener' \in Roles /\ openState' \in Live /\ openRemaining' \in Nat
         /\ responded' \in {"yes", "no"} /\ case' = "none"
         /\ answerRaw' \in Nat /\ answer' \in Int /\ answer' >= Held /\ extendLeft' \in Nat
  BY DEF PInv, TypeOK, DisputeFreezesOrder, ClearDispute, SettleDispute, disputeVars, Roles, Live,
     Passed, Held

\* The ends by agreement, by ruling and after a suspension.
LEMMA DecisionStep ==
  ASSUME PInv,
         \/ AcceptProposal \/ CancelAfterSuspension \/ FreezeFulfillment
         \/ \E o \in {"complete", "close"}, a \in Refunds : Rule(o, a)
  PROVE  PInv'
<1> USE PaidOrderAssumptions
<1>1. CASE AcceptProposal
  <2>1. CASE Stale /\ EndProposal("lapsed")
    BY <2>1, EndProposalStep
  <2>2. CASE propKind = "cancel_with_refund" /\ ClosePaid("cancelled_by_agreement")
             /\ owed' = owed + propRefund /\ SettleDispute /\ ClearProposal
             /\ UNCHANGED <<modeVars, made>>
    <3>1. Ended("cancelled_by_agreement")
      BY <2>2, CloseStep DEF Closures
    <3> QED
      BY <2>2, <3>1, DisputeGone, DecidedEndStep DEF PInv, TypeOK, Completions, Closures
  <2>3. CASE propKind = "complete_with_refund" /\ Complete("agreement")
             /\ owed' = owed + propRefund /\ SettleDispute /\ ClearProposal
             /\ UNCHANGED <<modeVars, made>>
    <3>1. Ended("agreement")
      BY <2>3, CompleteStep DEF Completions
    <3> QED
      BY <2>3, <3>1, DisputeGone, DecidedEndStep DEF PInv, TypeOK, ProposalWasPossible,
         Completions, Closures
  <2> QED
    BY <1>1, <2>1, <2>2, <2>3 DEF AcceptProposal, PInv, TypeOK, Kinds
<1>2. ASSUME NEW why \in {"buyer_cancelled_after_suspension", "fulfillment_frozen"},
             CloseSuspended(why)
      PROVE  PInv'
  <2>1. Ended(why)
    BY <1>2, CloseStep DEF CloseSuspended, Closures
  <2> QED
    BY <1>2, <2>1, DisputeGone, DecidedEndStep DEF CloseSuspended, Completions, Closures
<1>3. ASSUME NEW a \in Refunds, Rule("complete", a) PROVE PInv'
  <2>1. Ended("ruling")
    BY <1>3, CompleteStep DEF Rule, Completions
  <2> QED
    BY <1>3, <2>1, DisputeGone, DecidedEndStep DEF Rule, Completions, Closures
<1>4. ASSUME NEW a \in Refunds, Rule("close", a) PROVE PInv'
  <2>1. Ended("cancelled_by_ruling")
    BY <1>4, CloseStep DEF Rule, Closures
  <2> QED
    BY <1>4, <2>1, DisputeGone, DecidedEndStep DEF Rule, Completions, Closures
<1> QED
  BY <1>1, <1>2, <1>3, <1>4 DEF CancelAfterSuspension, FreezeFulfillment

\* Making and answering proposals and disputes while the order goes on.
LEMMA NegotiationStep ==
  ASSUME PInv,
         \/ \E r \in Roles, k \in Kinds, a \in Refunds : Propose(r, k, a)
         \/ DeclineOrWithdraw \/ ScanProposal
         \/ \E r \in Roles : OpenDispute(r)
         \/ Respond \/ WithdrawDispute
         \/ \E u \in 1..MaxExtension : ExtendDispute(u)
  PROVE  PInv'
<1> USE PaidOrderAssumptions
<1>1. ASSUME NEW r \in Roles, NEW k \in Kinds, NEW a \in Refunds, Propose(r, k, a) PROVE PInv'
  <2>1. TypeOK'
    BY <1>1 DEF Propose, PInv, TypeOK, orderVars, reviewVars, modeVars, disputeVars, triggerVars,
       Before, Live, Held
  <2>2. ProposalWasPossible'
    BY <1>1 DEF Propose, PInv, TypeOK, orderVars, ProposalWasPossible, Kinds
  <2> QED
    BY <1>1, <2>1, <2>2 DEF Propose, PInv, OutcomeRecorded, ReviewBounds, DisputeFreezesOrder,
       EndedOrderIsSettled, RefundMatchesOutcome, orderVars, reviewVars, disputeVars, Larger, Live
<1>2. CASE DeclineOrWithdraw \/ ScanProposal
  BY <1>2, EndProposalStep DEF DeclineOrWithdraw, ScanProposal
<1>3. ASSUME NEW r \in Roles, OpenDispute(r) PROVE PInv'
  <2>1. TypeOK'
    BY <1>3 DEF OpenDispute, PInv, TypeOK, orderVars, reviewVars, modeVars, proposalVars, Before,
       Live, Held
  <2> QED
    BY <1>3, <2>1 DEF OpenDispute, PInv, TypeOK, OutcomeRecorded, ProposalWasPossible, ReviewBounds,
       DisputeFreezesOrder, EndedOrderIsSettled, RefundMatchesOutcome, orderVars, reviewVars,
       proposalVars, Larger, Live
<1>4. CASE Respond \/ \E u \in 1..MaxExtension : ExtendDispute(u)
  <2>1. TypeOK'
    BY <1>4 DEF Respond, ExtendDispute, PInv, TypeOK, orderVars, reviewVars, modeVars, proposalVars,
       triggerVars, Held
  <2> QED
    BY <1>4, <2>1 DEF Respond, ExtendDispute, PInv, OutcomeRecorded, ProposalWasPossible,
       ReviewBounds, DisputeFreezesOrder, EndedOrderIsSettled, RefundMatchesOutcome, orderVars,
       reviewVars, proposalVars, Larger
<1>5. CASE WithdrawDispute
  <2>1. /\ baseLeft' \in Nat /\ review' \in Int /\ review' >= Held
        /\ sinceHold' \in 0..RestoreFloor /\ ReviewBounds'
    BY <1>5, RestoreKeepsBounds DEF WithdrawDispute, PInv, TypeOK, ReviewBounds, reviewVars, Larger
  <2>2. withdrew' \subseteq Roles /\ freshDelivery' \in {"yes", "no"}
    BY <1>5 DEF WithdrawDispute, PInv, TypeOK
  <2>3. ClearDispute /\ UNCHANGED <<orderVars, overdueLeft, modeVars, proposalVars, made, owed>>
    BY <1>5 DEF WithdrawDispute
  <2>4. TypeOK'
    BY <2>1, <2>2, <2>3 DEF PInv, TypeOK, ClearDispute, orderVars, modeVars, proposalVars,
       Roles, Live, Passed, Held
  <2> QED
    BY <2>1, <2>3, <2>4 DEF ClearDispute, PInv, OutcomeRecorded,
       ProposalWasPossible, DisputeFreezesOrder, EndedOrderIsSettled, RefundMatchesOutcome,
       orderVars, proposalVars
<1> QED
  BY <1>1, <1>2, <1>3, <1>4, <1>5

\* Modes, their observation by the worker, and time.
LEMMA ClockStep ==
  ASSUME PInv, SwitchMode \/ ObserveFulfillment \/ ObserveResolution \/ Tick \/ UNCHANGED vars
  PROVE  PInv'
<1> USE PaidOrderAssumptions
<1>1. CASE SwitchMode \/ UNCHANGED vars
  <2>0. mode' \in {"enabled", "disabled"} /\ paused' = paused
    BY <1>1 DEF SwitchMode, vars, PInv, TypeOK, modeVars
  <2>1. TypeOK'
    BY <1>1, <2>0 DEF SwitchMode, vars, PInv, TypeOK, orderVars, reviewVars, proposalVars,
       disputeVars, triggerVars
  <2> QED
    BY <1>1, <2>1 DEF SwitchMode, vars, PInv, OutcomeRecorded, ProposalWasPossible, ReviewBounds,
       DisputeFreezesOrder, EndedOrderIsSettled, RefundMatchesOutcome, orderVars, reviewVars,
       proposalVars, disputeVars, Larger
<1>2. CASE ObserveFulfillment
  <2>0. paused' \subseteq Services
    BY <1>2 DEF ObserveFulfillment, PInv, TypeOK, Services
  <2>1. TypeOK'
    BY <1>2, <2>0 DEF ObserveFulfillment, PInv, TypeOK, AfterResume, orderVars, proposalVars,
       disputeVars, triggerVars, Held
  <2>2. ReviewBounds'
    BY <1>2 DEF ObserveFulfillment, PInv, TypeOK, ReviewBounds, AfterResume, Larger, Held
  <2> QED
    BY <1>2, <2>1, <2>2 DEF ObserveFulfillment, PInv, OutcomeRecorded, ProposalWasPossible,
       DisputeFreezesOrder, EndedOrderIsSettled, RefundMatchesOutcome, orderVars, proposalVars,
       disputeVars
<1>3. CASE ObserveResolution
  <2>0. paused' \subseteq Services
    BY <1>3 DEF ObserveResolution, PInv, TypeOK, Services
  <2>1. TypeOK'
    BY <1>3, <2>0 DEF ObserveResolution, PInv, TypeOK, AfterResume, orderVars, reviewVars, Held
  <2> QED
    BY <1>3, <2>1 DEF ObserveResolution, PInv, OutcomeRecorded, ProposalWasPossible, ReviewBounds,
       DisputeFreezesOrder, EndedOrderIsSettled, RefundMatchesOutcome, orderVars, reviewVars, Larger
<1>4. CASE Tick
  <2>1. TypeOK'
    BY <1>4 DEF Tick, PInv, TypeOK, Minus1, AfterTick, orderVars, modeVars, Passed, Held
  <2>2. ReviewBounds'
    BY <1>4 DEF Tick, PInv, TypeOK, ReviewBounds, Minus1, AfterTick, Larger, Passed, Held
  <2> QED
    BY <1>4, <2>1, <2>2 DEF Tick, PInv, OutcomeRecorded, ProposalWasPossible,
       DisputeFreezesOrder, EndedOrderIsSettled, RefundMatchesOutcome, orderVars
<1> QED
  BY <1>1, <1>2, <1>3, <1>4

LEMMA PInvStep == PInv /\ [Next]_vars => PInv'
  BY FulfillmentStep, UndisputedEndStep, DecisionStep, NegotiationStep, ClockStep
     DEF Next, FulfillmentCommand, ResolutionCommand, Worker

LEMMA PInvHolds == Spec => []PInv
  BY PInvInit, PInvStep, PTL DEF Spec

\* The columns of the order, its proposal and its dispute keep their ranges.
THEOREM PaidOrderTypeOK == Spec => []TypeOK
  BY PInvHolds, PTL DEF PInv

\* No command, scan or switch moves an order under dispute, and the dispute and its
\* trust case are open together.
THEOREM PaidOrderDisputeFreezes == Spec => []DisputeFreezesOrder
  BY PInvHolds, PTL DEF PInv

\* An order that ended is not open to a second decision.
THEOREM PaidOrderEndedIsSettled == Spec => []EndedOrderIsSettled
  BY PInvHolds, PTL DEF PInv

\* The buyer is owed what the way out says, for every amount and every refund.
THEOREM PaidOrderRefundMatches == Spec => []RefundMatchesOutcome
  BY PInvHolds, PTL DEF PInv

\* A step leaves the order alive, or as it ended, and takes no review time ...
GoesOn ==
  /\ UNCHANGED <<endKind, slot>>
  /\ state' = state \/ (state \in Live /\ state' \in Live)
  /\ Tick \/ (state = "delivered" /\ state' = "delivered" => review' >= review)

\* ... or it ends the order for a reason that holds.
EndsAs(how) ==
  /\ endKind = "none" /\ endKind' = how
  /\ state \in Live /\ slot = "occupied"
  /\ \/ state' = "completed" /\ slot' = "completed"
     \/ state' = "closed" /\ slot' = "cancelled"
  /\ how = "review_window_elapsed" => Reached(review, FPaused)
  /\ how \in {"agreement", "cancelled_by_agreement"} => ~Stale /\ owed' = owed + propRefund

LEMMA StepShape ==
  ASSUME PInv, [Next]_vars
  PROVE  GoesOn \/ \E how \in Completions \cup Closures : EndsAs(how)
<1> USE PaidOrderAssumptions
<1>0. /\ state \in Live => endKind = "none"
      /\ review \in Int /\ propRemaining \in Nat /\ openRemaining \in Nat /\ propKind \in Kinds
  BY DEF PInv, TypeOK, OutcomeRecorded
<1>1. CASE FulfillmentCommand \/ CompleteDue
  <2>1. CASE ApproveDraft \/ RequestChanges \/ \E k \in {"draft", "final"} : Submit(k)
    BY <2>1, <1>0 DEF GoesOn, ApproveDraft, RequestChanges, Submit, reviewVars, Live
  <2>2. CASE AcceptDelivery
    <3>1. EndsAs("buyer_accepted")
      BY <2>2, <1>0 DEF AcceptDelivery, EndsAs, Complete, Live
    <3> QED
      BY <3>1 DEF Completions
  <2>3. CASE CompleteDue
    <3>1. EndsAs("review_window_elapsed")
      BY <2>3, <1>0 DEF CompleteDue, EndsAs, Complete, Live
    <3> QED
      BY <3>1 DEF Completions
  <2> QED
    BY <1>1, <2>1, <2>2, <2>3 DEF FulfillmentCommand
<1>2. CASE AcceptProposal
  <2>1. CASE Stale /\ EndProposal("lapsed")
    BY <2>1, EndProposalStep DEF GoesOn
  <2>2. CASE ~Stale /\ propKind = "cancel_with_refund"
    <3>1. EndsAs("cancelled_by_agreement")
      BY <1>2, <2>2, <1>0 DEF AcceptProposal, EndsAs, ClosePaid
    <3> QED
      BY <3>1 DEF Closures
  <2>3. CASE ~Stale /\ propKind = "complete_with_refund"
    <3>1. EndsAs("agreement")
      BY <1>2, <2>3, <1>0 DEF AcceptProposal, EndsAs, Complete, Live
    <3> QED
      BY <3>1 DEF Completions
  <2> QED
    BY <1>0, <1>2, <2>1, <2>2, <2>3 DEF AcceptProposal, Kinds
<1>3. CASE CancelAfterSuspension \/ FreezeFulfillment
  <2>1. EndsAs("buyer_cancelled_after_suspension") \/ EndsAs("fulfillment_frozen")
    BY <1>0, <1>3 DEF CancelAfterSuspension, FreezeFulfillment, CloseSuspended, ClosePaid, EndsAs
  <2> QED
    BY <2>1 DEF Closures
<1>4. ASSUME NEW a \in Refunds, Rule("complete", a) \/ Rule("close", a)
      PROVE  \E how \in Completions \cup Closures : EndsAs(how)
  <2>1. EndsAs("ruling") \/ EndsAs("cancelled_by_ruling")
    BY <1>0, <1>4 DEF Rule, Complete, ClosePaid, EndsAs, Live
  <2> QED
    BY <2>1 DEF Completions, Closures
<1>5. CASE DeclineOrWithdraw \/ ScanProposal
  BY <1>5, EndProposalStep DEF DeclineOrWithdraw, ScanProposal, GoesOn
<1>6. CASE \/ \E r \in Roles, k \in Kinds, a \in Refunds : Propose(r, k, a)
           \/ \E r \in Roles : OpenDispute(r)
           \/ \E u \in 1..MaxExtension : ExtendDispute(u)
           \/ Respond \/ SwitchMode \/ ObserveResolution \/ UNCHANGED vars
  BY <1>0, <1>6 DEF Propose, OpenDispute, ExtendDispute, Respond, SwitchMode, ObserveResolution, vars,
     GoesOn, orderVars, reviewVars
<1>7. CASE WithdrawDispute
  <2>1. review' >= review
    <3>1. CASE RestoreReview(openRemaining)
      BY <1>0, <3>1, RestoreKeepsBounds DEF PInv
    <3>2. CASE UNCHANGED reviewVars
      BY <1>0, <3>2 DEF reviewVars
    <3> QED
      BY <1>7, <3>1, <3>2 DEF WithdrawDispute
  <2> QED
    BY <1>7, <2>1 DEF WithdrawDispute, GoesOn, orderVars
<1>8. CASE ObserveFulfillment
  BY <1>0, <1>8 DEF ObserveFulfillment, AfterResume, GoesOn, orderVars, Held
<1>9. CASE Tick
  BY <1>9 DEF Tick, GoesOn, orderVars
<1> QED
  BY <1>1, <1>2, <1>3, <1>4, <1>5, <1>6, <1>7, <1>8, <1>9
     DEF Next, FulfillmentCommand, ResolutionCommand, Worker

\* Giving back review time never takes the grace of an earlier pause away, for
\* every floor that is at least the grace.
THEOREM PaidOrderRestoreNeverShortens == Spec => RestoreNeverShortens
<1>1. PInv /\ [Next]_vars =>
        [Tick \/ (state = "delivered" /\ state' = "delivered" => review' >= review)]_vars
  BY StepShape DEF GoesOn, EndsAs
<1> QED
  BY <1>1, PInvHolds, PTL DEF Spec, RestoreNeverShortens

\* The worker completes an order only after the restored time has passed.
THEOREM PaidOrderRestoredTimeIsGiven == Spec => RestoredTimeIsGiven
<1>1. ASSUME PInv, [Next]_vars, endKind = "none", endKind' = "review_window_elapsed"
      PROVE  sinceHold = RestoreFloor
  <2>1. Reached(review, FPaused)
    BY <1>1, StepShape DEF GoesOn, EndsAs
  <2> QED
    BY <1>1, <2>1, PaidOrderAssumptions DEF PInv, TypeOK, ReviewBounds, Reached, Passed
<1>2. PInv /\ [Next]_vars =>
        [endKind = "none" /\ endKind' = "review_window_elapsed" => sinceHold = RestoreFloor]_vars
  BY <1>1
<1> QED
  BY <1>2, PInvHolds, PTL DEF Spec, RestoredTimeIsGiven

\* An agreement takes effect only on the facts it was made on.
THEOREM PaidOrderAgreementIsCurrent == Spec => AgreementIsCurrent
<1>1. ASSUME PInv, [Next]_vars, endKind = "none",
             endKind' \in {"agreement", "cancelled_by_agreement"}
      PROVE  moves = propMoves /\ owed' = propRefund
  <2>1. ~Stale /\ owed' = owed + propRefund /\ state \in Live
    BY <1>1, StepShape DEF GoesOn, EndsAs
  <2> QED
    BY <1>1, <2>1 DEF PInv, TypeOK, OutcomeRecorded, ProposalWasPossible, Stale
<1>2. PInv /\ [Next]_vars =>
        [endKind = "none" /\ endKind' \in {"agreement", "cancelled_by_agreement"}
           => moves = propMoves /\ owed' = propRefund]_vars
  BY <1>1
<1> QED
  BY <1>2, PInvHolds, PTL DEF Spec, AgreementIsCurrent

\* A paid order follows the abstract lifecycle: it ends once, with its slot.
THEOREM PaidOrderImplementsLifecycle == Spec => ImplementsLifecycle
<1>1. ASSUME PInv, [Next]_vars PROVE [L!Next]_(L!vars)
  <2>1. CASE GoesOn
    BY <2>1 DEF GoesOn, L!vars
  <2>2. ASSUME NEW how \in Completions \cup Closures, EndsAs(how) PROVE L!Next
    BY <2>2 DEF EndsAs, L!Next, L!Complete, L!Cancel, Live
  <2> QED
    BY <1>1, <2>1, <2>2, StepShape
<1>2. PInv /\ [Next]_vars => [[L!Next]_(L!vars)]_vars
  BY <1>1
<1> QED
  BY <1>2, PInvHolds, PTL DEF Spec, ImplementsLifecycle

\* Every way out of the order is settled, for every amount and every refund.
THEOREM PaidOrderOutcomesAreSettled == Spec => []OutcomesAreSettled
  BY PaidOrderTypeOK, PaidOrderDisputeFreezes, PaidOrderEndedIsSettled, PaidOrderRefundMatches,
     PTL DEF OutcomesAreSettled

\* No step ends the order on stale facts or takes time that was given back.
THEOREM PaidOrderAgreementsAreKept == Spec => AgreementsAreKept
  BY PaidOrderRestoreNeverShortens, PaidOrderRestoredTimeIsGiven, PaidOrderAgreementIsCurrent,
     PaidOrderImplementsLifecycle DEF AgreementsAreKept

---------------------------------------------------------------------------
(* What the database demands. *)

LEMMA WithdrawFrame ==
  ASSUME WithdrawDispute
  PROVE  ClearDispute /\ UNCHANGED <<orderVars, overdueLeft, modeVars, proposalVars, made, owed>>
<1>1. ClearDispute
  BY ZenonT(30) DEF WithdrawDispute
<1>2. UNCHANGED <<orderVars, overdueLeft, modeVars, proposalVars, made, owed>>
  BY ZenonT(30) DEF WithdrawDispute
<1> QED
  BY <1>1, <1>2

\* Every change of the order, or of its stored end of review, passes its row trigger,
\* its CHECK constraints and the graph check.
LEMMA OrderAccepted ==
  ASSUME PInv, [Next]_vars,
         <<state, endKind, slot, revisions>>' # <<state, endKind, slot, revisions>> \/ FloorWritten
  PROVE  guard_order /\ completion_checks /\ slot_checks
<1> USE PaidOrderAssumptions
<1>0. /\ state \in Live => endKind = "none" /\ slot = "occupied"
      /\ revisions \in 0..Allowance /\ baseLeft \in Nat /\ propKind \in Kinds
  BY DEF PInv, TypeOK, OutcomeRecorded
<1>1. ASSUME NEW how \in Completions, Complete(how), how = "review_window_elapsed" => baseLeft = 0
      PROVE  guard_order /\ completion_checks /\ slot_checks
  BY <1>0, <1>1 DEF Complete, guard_order, completion_checks, slot_checks, Completions, Closures, Live
<1>2. ASSUME NEW how \in Closures, ClosePaid(how)
      PROVE  guard_order /\ completion_checks /\ slot_checks
  BY <1>0, <1>2 DEF ClosePaid, guard_order, completion_checks, slot_checks, Completions, Closures, Live
<1>3. ASSUME UNCHANGED <<state, endKind, slot, revisions>>
      PROVE  guard_order /\ completion_checks /\ slot_checks
  BY <1>0, <1>3 DEF FloorWritten, guard_order, completion_checks, slot_checks, Completions, Closures, Live
<1>4. ASSUME NEW k \in {"draft", "final"}, Submit(k)
      PROVE  guard_order /\ completion_checks /\ slot_checks
  BY <1>0, <1>3, <1>4 DEF Submit, guard_order, completion_checks, slot_checks, Completions, Closures, Live
<1>5. CASE RequestChanges
  BY <1>0, <1>5 DEF RequestChanges, guard_order, completion_checks, slot_checks, Completions,
                    Closures, Live
<1>6. CASE AcceptDelivery
  BY <1>1, <1>6 DEF AcceptDelivery, Completions
<1>7. CASE CompleteDue
  <2>1. baseLeft = 0
    BY <1>0, <1>7 DEF CompleteDue, PInv, TypeOK, ReviewBounds, Reached, Passed
  <2> QED
    BY <1>1, <1>7, <2>1 DEF CompleteDue, Completions
<1>8. CASE AcceptProposal
  BY <1>0, <1>1, <1>2, <1>3, <1>8, EndProposalStep
  DEF AcceptProposal, EndProposal, orderVars, Completions, Closures, Kinds
<1>9. CASE CancelAfterSuspension \/ FreezeFulfillment
  BY <1>2, <1>9 DEF CancelAfterSuspension, FreezeFulfillment, CloseSuspended, Closures
<1>10. ASSUME NEW o \in {"complete", "close"}, NEW a \in Refunds, Rule(o, a)
       PROVE  guard_order /\ completion_checks /\ slot_checks
  BY <1>1, <1>2, <1>10 DEF Rule, Completions, Closures
<1>11. CASE DeclineOrWithdraw \/ ScanProposal
  BY <1>3, <1>11 DEF DeclineOrWithdraw, ScanProposal, EndProposal, orderVars
<1>12. CASE \/ ApproveDraft \/ Respond
            \/ \E r \in Roles, k \in Kinds, a \in Refunds : Propose(r, k, a)
            \/ \E r \in Roles : OpenDispute(r)
            \/ \E u \in 1..MaxExtension : ExtendDispute(u)
  BY <1>3, <1>12 DEF ApproveDraft, Respond, Propose, OpenDispute, ExtendDispute, orderVars
<1>14. CASE WithdrawDispute
  <2>1. UNCHANGED <<state, endKind, slot, revisions>>
    BY <1>14, WithdrawFrame DEF orderVars
  <2> QED
    BY <1>3, <2>1
<1>13. CASE ObserveFulfillment \/ ObserveResolution \/ SwitchMode \/ Tick \/ UNCHANGED vars
  BY <1>3, <1>13 DEF ObserveFulfillment, ObserveResolution, SwitchMode, Tick, vars, orderVars
<1> QED
  BY <1>4, <1>5, <1>6, <1>7, <1>8, <1>9, <1>10, <1>11, <1>12, <1>13, <1>14
  DEF Next, FulfillmentCommand, ResolutionCommand, Worker

\* New proposals and disputes pass their triggers, and open disputes change as the
\* trigger allows.
LEMMA NegotiationAccepted ==
  ASSUME PInv, [Next]_vars
  PROVE  /\ proposal = "none" /\ proposal' = "pending" => guard_proposal
         /\ dispute = "none" /\ dispute' = "open" => guard_dispute_insert
         /\ dispute = "open" /\ dispute' = "open" /\ ~Tick => guard_dispute_update
<1> DEFINE Accepted ==
             /\ proposal = "none" /\ proposal' = "pending" => guard_proposal
             /\ dispute = "none" /\ dispute' = "open" => guard_dispute_insert
             /\ dispute = "open" /\ dispute' = "open" /\ ~Tick => guard_dispute_update
<1> USE PaidOrderAssumptions
<1>0. answerRaw \in Nat /\ extendLeft \in Nat /\ review \in Int
  BY DEF PInv, TypeOK
<1>1. ASSUME proposal' \in {proposal, "none"},
             dispute' = "none" \/ UNCHANGED <<dispute, opener, openState, openRemaining, answerRaw>>
      PROVE  Accepted
  BY <1>1 DEF guard_dispute_update
<1>2. ASSUME NEW r \in Roles, NEW k \in Kinds, NEW a \in Refunds, Propose(r, k, a) PROVE Accepted
  BY <1>0, <1>2 DEF Propose, guard_proposal, guard_dispute_update, disputeVars, Before, Held, Passed
<1>3. ASSUME NEW r \in Roles, OpenDispute(r) PROVE Accepted
  BY <1>0, <1>3 DEF OpenDispute, guard_dispute_insert, proposalVars, Before, Held, Passed
<1>4. ASSUME NEW u \in 1..MaxExtension, ExtendDispute(u) PROVE Accepted
  BY <1>0, <1>4 DEF ExtendDispute, guard_dispute_update, proposalVars
<1>5. CASE Tick
  BY <1>5 DEF Tick
<1>6. CASE FulfillmentCommand \/ CompleteDue
  BY <1>1, <1>6 DEF FulfillmentCommand, Submit, ApproveDraft, RequestChanges, AcceptDelivery,
                    CompleteDue, proposalVars, disputeVars
<1>7. ASSUME NEW how, EndProposal(how) PROVE Accepted
  BY <1>1, <1>7 DEF EndProposal, ClearProposal, disputeVars
<1>8. CASE AcceptProposal
  BY <1>1, <1>7, <1>8 DEF AcceptProposal, ClearProposal, SettleDispute, ClearDispute, disputeVars
<1>9. CASE CancelAfterSuspension \/ FreezeFulfillment
  BY <1>1, <1>9 DEF CancelAfterSuspension, FreezeFulfillment, CloseSuspended, ClearProposal,
                    SettleDispute, ClearDispute, disputeVars
<1>10. ASSUME NEW o \in {"complete", "close"}, NEW a \in Refunds, Rule(o, a) PROVE Accepted
  BY <1>1, <1>10 DEF Rule, ClearProposal, ClearDispute
<1>11. CASE DeclineOrWithdraw \/ ScanProposal
  BY <1>7, <1>11 DEF DeclineOrWithdraw, ScanProposal
<1>12. CASE Respond
  BY <1>1, <1>12 DEF Respond, proposalVars
<1>14. CASE WithdrawDispute
  BY <1>1, <1>14, WithdrawFrame DEF ClearDispute, proposalVars
<1>13. CASE ObserveFulfillment \/ ObserveResolution \/ SwitchMode \/ UNCHANGED vars
  BY <1>1, <1>13 DEF ObserveFulfillment, ObserveResolution, SwitchMode, vars, proposalVars, disputeVars
<1> QED
  BY <1>2, <1>3, <1>4, <1>5, <1>6, <1>8, <1>9, <1>10, <1>11, <1>12, <1>13, <1>14
  DEF Next, ResolutionCommand, Worker

\* A ruling meets an open dispute, and one that completes the order a delivered one.
LEMMA RulingAccepted ==
  ASSUME PInv, [Next]_vars, endKind = "none", endKind' \in {"ruling", "cancelled_by_ruling"}
  PROVE  guard_ruling
<1> USE PaidOrderAssumptions
<1>1. ASSUME NEW o \in {"complete", "close"}, NEW a \in Refunds, Rule(o, a) PROVE guard_ruling
  BY <1>1 DEF Rule, Complete, ClosePaid, guard_ruling, PInv, TypeOK, DisputeFreezesOrder
<1>2. CASE FulfillmentCommand \/ CompleteDue
  BY <1>2 DEF FulfillmentCommand, Submit, ApproveDraft, RequestChanges, AcceptDelivery, CompleteDue,
              Complete, orderVars
<1>3. ASSUME NEW how, EndProposal(how) PROVE endKind' = endKind
  BY <1>3 DEF EndProposal, orderVars
<1>4. CASE AcceptProposal \/ DeclineOrWithdraw \/ ScanProposal
  BY <1>3, <1>4 DEF AcceptProposal, DeclineOrWithdraw, ScanProposal, ClosePaid, Complete
<1>5. CASE CancelAfterSuspension \/ FreezeFulfillment
  BY <1>5 DEF CancelAfterSuspension, FreezeFulfillment, CloseSuspended, ClosePaid
<1>6. ASSUME \/ \E r \in Roles, k \in Kinds, a \in Refunds : Propose(r, k, a)
             \/ \E r \in Roles : OpenDispute(r)
             \/ \E u \in 1..MaxExtension : ExtendDispute(u)
             \/ Respond
      PROVE  endKind' = endKind
  BY <1>6 DEF Propose, OpenDispute, ExtendDispute, Respond, orderVars
<1>7. ASSUME WithdrawDispute PROVE endKind' = endKind
  BY <1>7, WithdrawFrame DEF orderVars
<1>8. CASE ObserveFulfillment \/ ObserveResolution \/ SwitchMode \/ Tick \/ UNCHANGED vars
  BY <1>8 DEF ObserveFulfillment, ObserveResolution, SwitchMode, Tick, vars, orderVars
<1> QED
  BY <1>1, <1>2, <1>4, <1>5, <1>6, <1>7, <1>8
  DEF Next, FulfillmentCommand, ResolutionCommand, Worker

\* A pause begins only while its service is off.
LEMMA PauseAccepted == ASSUME PInv, [Next]_vars PROVE guard_pause
<1>1. CASE UNCHANGED modeVars
  BY <1>1 DEF guard_pause, modeVars
<1>2. CASE ObserveFulfillment \/ ObserveResolution \/ SwitchMode
  BY <1>2 DEF ObserveFulfillment, ObserveResolution, SwitchMode, guard_pause
<1>3. CASE FulfillmentCommand \/ CompleteDue \/ Tick \/ UNCHANGED vars
  BY <1>1, <1>3 DEF FulfillmentCommand, Submit, ApproveDraft, RequestChanges, AcceptDelivery,
                    CompleteDue, Tick, vars
<1>4. ASSUME NEW how, EndProposal(how) PROVE UNCHANGED modeVars
  BY <1>4 DEF EndProposal
<1>5. CASE ScanProposal \/ ResolutionCommand
  BY <1>1, <1>4, <1>5, WithdrawFrame
  DEF ResolutionCommand, Propose, DeclineOrWithdraw, AcceptProposal, OpenDispute, Respond,
      ExtendDispute, Rule, CancelAfterSuspension, FreezeFulfillment, CloseSuspended, ScanProposal
<1> QED
  BY <1>2, <1>3, <1>5 DEF Next, Worker

\* The triggers and constraints of the order tables never refuse a command, a scan or
\* a mode switch on a paid order, for every length of its windows.
THEOREM PaidOrderGuardsAccept == Spec => PaidGuardsAccept
<1>1. PInv /\ [Next]_vars =>
        [/\ <<state, endKind, slot, revisions>>' # <<state, endKind, slot, revisions>> \/ FloorWritten =>
               guard_order /\ completion_checks /\ slot_checks
         /\ proposal = "none" /\ proposal' = "pending" => guard_proposal
         /\ dispute = "none" /\ dispute' = "open" => guard_dispute_insert
         /\ dispute = "open" /\ dispute' = "open" /\ ~Tick => guard_dispute_update
         /\ endKind = "none" /\ endKind' \in {"ruling", "cancelled_by_ruling"} => guard_ruling
         /\ guard_pause]_vars
  <2> SUFFICES ASSUME PInv, [Next]_vars
               PROVE  /\ <<state, endKind, slot, revisions>>' # <<state, endKind, slot, revisions>>
                           \/ FloorWritten => guard_order /\ completion_checks /\ slot_checks
                      /\ proposal = "none" /\ proposal' = "pending" => guard_proposal
                      /\ dispute = "none" /\ dispute' = "open" => guard_dispute_insert
                      /\ dispute = "open" /\ dispute' = "open" /\ ~Tick => guard_dispute_update
                      /\ endKind = "none" /\ endKind' \in {"ruling", "cancelled_by_ruling"} => guard_ruling
                      /\ guard_pause
    OBVIOUS
  <2> QED
    BY OrderAccepted, NegotiationAccepted, RulingAccepted, PauseAccepted
<1> QED
  BY <1>1, PInvHolds, PTL DEF Spec, PaidGuardsAccept

-----------------------------------------------------------------------------
(* CompletionClock.  The loops of the code are recursive functions over the *)
(* rows in their order; what they compute is followed row by row.           *)

Dues == Nat \cup {Null}
Seen == [due : Dues, stop : BOOLEAN]
Unread(base) == [due |-> base, stop |-> FALSE]
PauseRows == [from : Nat, to : Nat \cup {Open}]

\* `due` is what commissionCompletionDueAt computes after each row of `q`.
Follows(due, base, q) ==
  /\ due \in [0 .. Len(q) -> Dues] /\ due[0] = base
  /\ \A i \in 1 .. Len(q) : due[i] = Shift(due[i - 1], q[i])

\* `seen` is what commission_resolution_effective_deadline computes after each row.
Reads(seen, base, q) ==
  /\ seen \in [0 .. Len(q) -> Seen] /\ seen[0] = Unread(base)
  /\ \A i \in 1 .. Len(q) : seen[i] = Row(seen[i - 1], q[i])

Closed == {p \in pauses : p.to # Open}
ClosedAfter(base) == {p \in Closed : p.to > base}

\* The rows are those of one mode: an open pause began after every other had ended.
HistoryTyped ==
  /\ now \in 0 .. Horizon /\ IsFiniteSet(pauses) /\ pauses \subseteq PauseRows
  /\ timer \in [Bases -> Nat \cup {Passed, Held}]
  /\ \A p \in pauses : p.from <= now /\ (p.to # Open => p.from <= p.to /\ p.to <= now)
  /\ \A p, r \in pauses : p.to = Open /\ r # p => r.to # Open /\ r.to <= p.from

\* What each countdown says of the deadline that the ended pauses make.
TimersFollow ==
  \A b \in Bases : \A q \in Sorted(Closed) :
    LET due == CompletionDueAt(b, q) IN
      /\ due \in Nat /\ b <= due
      /\ timer[b] \in Nat => due = now + timer[b]
      /\ timer[b] = Passed => due < now /\ \A p \in pauses : p.to = Open => p.from > due
      /\ timer[b] = Held => due < now /\ \E p \in pauses : p.to = Open /\ p.from <= due

\* The pauses that ended before the stored deadline change nothing.
PrunedAgrees ==
  \A b \in Bases : \A q \in Sorted(Closed), r \in Sorted(ClosedAfter(b)) :
    CompletionDueAt(b, q) = CompletionDueAt(b, r)

ClockInv == HistoryTyped /\ TimersFollow /\ PrunedAgrees

---------------------------------------------------------------------------
\* Induction up to a bound.
LEMMA UpTo ==
  ASSUME NEW n \in Nat, NEW S, 0 \in S, \A k \in 1 .. n : k - 1 \in S => k \in S
  PROVE  0 .. n \subseteq S
<1> DEFINE T == {k \in 0 .. n : k \notin S}
           R == OpToRel(<, Nat)
<1> SUFFICES ASSUME T # {} PROVE FALSE
  OBVIOUS
<1>1. T \subseteq Nat
  OBVIOUS
<1>2. IsWellFoundedOn(R, Nat)
  BY NatLessThanWellFounded DEF OpToRel
<1>3. \A i, k \in Nat : i < k => <<i, k>> \in R
  BY DEF OpToRel
<1> HIDE DEF R
<1>4. \E m \in T : \A k \in T : ~ (<<k, m>> \in R)
  <2> HIDE DEF T
  <2> QED
    BY <1>1, <1>2, WFMin
<1>5. PICK m \in T : \A k \in T : ~ (<<k, m>> \in R)
  BY <1>4
<1>6. m \in 1 .. n /\ m - 1 \in 0 .. n /\ m - 1 < m
  BY <1>5
<1>7. m - 1 \notin T
  BY <1>3, <1>5, <1>6, <1>1
<1> QED
  BY <1>5, <1>6, <1>7

\* Each step takes a value of D to a value of D.
Steps(step, n, D) == \A i \in 1 .. n, d \in D : step[i][d] \in D

\* A function of the value before exists for every number of steps.
LEMMA Recursion ==
  ASSUME NEW n \in Nat, NEW D, NEW first \in D, NEW step, Steps(step, n, D)
  PROVE  \E h \in [0 .. n -> D] : h[0] = first /\ \A i \in 1 .. n : h[i] = step[i][h[i - 1]]
<1> DEFINE Goes(h, k) == /\ h \in [0 .. k -> D] /\ h[0] = first
                         /\ \A i \in 1 .. k : h[i] = step[i][h[i - 1]]
           S == {k \in 0 .. n : \E h : Goes(h, k)}
<1>1. 0 \in S
  <2>1. Goes([k \in 0 .. 0 |-> first], 0)
    OBVIOUS
  <2> HIDE DEF Goes
  <2> QED
    BY <2>1
<1>2. ASSUME NEW k \in 1 .. n, k - 1 \in S PROVE k \in S
  <2>1. PICK g : Goes(g, k - 1)
    BY <1>2
  <2> DEFINE h == [j \in 0 .. k |-> IF j = k THEN step[k][g[k - 1]] ELSE g[j]]
  <2>2. g \in [0 .. (k - 1) -> D] /\ g[k - 1] \in D
    BY <2>1
  <2>3. step[k][g[k - 1]] \in D /\ h[k] = step[k][g[k - 1]]
    BY <2>2 DEF Steps
  <2>4. \A j \in 0 .. (k - 1) : h[j] = g[j] /\ g[j] \in D
    BY <2>2
  <2>5. h \in [0 .. k -> D]
    BY <2>2, <2>3
  <2>6. h[0] = first
    BY <2>1, <2>4
  <2>7. ASSUME NEW j \in 1 .. k PROVE h[j] = step[j][h[j - 1]]
    <3>1. CASE j = k
      BY <3>1, <2>3, <2>4
    <3>2. CASE j # k
      <4>1. j \in 1 .. (k - 1) /\ j \in 0 .. (k - 1) /\ j - 1 \in 0 .. (k - 1)
        BY <3>2
      <4> QED
        BY <4>1, <2>1, <2>4
    <3> QED
      BY <3>1, <3>2
  <2>8. Goes(h, k)
    <3> HIDE DEF h
    <3> QED
      BY <2>5, <2>6, <2>7
  <2> HIDE DEF Goes
  <2> QED
    BY <2>8
<1>3. 0 .. n \subseteq S
  <2> HIDE DEF S
  <2> QED
    BY <1>1, <1>2, UpTo
<1> QED
  BY <1>3

---------------------------------------------------------------------------
\* One row moves a deadline to another one, or to none.
LEMMA ShiftType ==
  ASSUME NEW due \in Dues, NEW p \in PauseRows
  PROVE  Shift(due, p) \in Dues
  BY ClockAssumptions DEF Shift, Dues, PauseRows, Null, Open

LEMMA RowType ==
  ASSUME NEW s \in Seen, NEW p \in PauseRows
  PROVE  Row(s, p) \in Seen
<1> USE DEF Seen
<1>1. [s EXCEPT !.stop = TRUE] \in Seen /\ [due |-> Null, stop |-> TRUE] \in Seen
  BY DEF Dues
<1>2. ASSUME p.to # Open PROVE [s EXCEPT !.due = p.to + PauseGrace] \in Seen
  <2>1. p.to + PauseGrace \in Dues
    BY <1>2, ClockAssumptions DEF Dues, PauseRows
  <2> QED
    BY <2>1
<1> QED
  BY <1>1, <1>2 DEF Row

\* The loop of commissionCompletionDueAt, followed.
LEMMA LoopFollows ==
  ASSUME NEW base \in Nat, NEW q \in Seq(PauseRows)
  PROVE  \E due : Follows(due, base, q) /\ CompletionDueAt(base, q) = due[Len(q)]
<1> DEFINE n == Len(q)
           step == [i \in 1 .. n |-> [d \in Dues |-> Shift(d, q[i])]]
           Good(due) == due = [i \in 0 .. n |-> IF i = 0 THEN base ELSE Shift(due[i - 1], q[i])]
           due == CHOOSE d : Good(d)
<1>1. n \in Nat /\ \A i \in 1 .. n : q[i] \in PauseRows
  OBVIOUS
<1>2. base \in Dues
  BY DEF Dues
<1>3. \A i \in 1 .. n, d \in Dues : step[i][d] = Shift(d, q[i]) /\ step[i][d] \in Dues
  BY <1>1, ShiftType
<1>4. \E d : Good(d)
  <2>1. PICK h \in [0 .. n -> Dues] : h[0] = base /\ \A i \in 1 .. n : h[i] = step[i][h[i - 1]]
    <3> HIDE DEF n, step, Good
    <3>1. Steps(step, n, Dues)
      BY <1>3 DEF Steps
    <3> QED
      BY <1>1, <1>2, <3>1, Recursion
  <2>2. \A i \in 1 .. n : h[i - 1] \in Dues /\ h[i] = Shift(h[i - 1], q[i])
    <3> TAKE i \in 1 .. n
    <3>1. i - 1 \in 0 .. n
      BY <1>1
    <3> QED
      BY <2>1, <3>1
  <2>3. \A i \in 0 .. n : i = 0 \/ i \in 1 .. n
    BY <1>1
  <2>4. Good(h)
    <3> HIDE DEF n
    <3> QED
      BY <2>1, <2>2, <2>3
  <2> HIDE DEF Good
  <2> QED
    BY <2>4
<1>5. Good(due)
  <2> HIDE DEF Good
  <2> QED
    BY <1>4
<1>6. /\ DOMAIN due = 0 .. n /\ due[0] = base
      /\ \A i \in 1 .. n : due[i] = Shift(due[i - 1], q[i])
  <2> HIDE DEF due
  <2> QED
    BY <1>5, <1>1
<1>7. \A i \in 0 .. n : due[i] \in Dues
  <2> HIDE DEF due, n, Good
  <2> DEFINE S == {i \in 0 .. n : due[i] \in Dues}
  <2>1. 0 \in S
    BY <1>1, <1>2, <1>6
  <2>2. ASSUME NEW k \in 1 .. n, k - 1 \in S PROVE k \in S
    BY <2>2, <1>1, <1>6, ShiftType
  <2>3. 0 .. n \subseteq S
    <3> HIDE DEF S
    <3> QED
      BY <2>1, <2>2, <1>1, UpTo
  <2> QED
    BY <2>3
<1>8. due \in [0 .. n -> Dues]
  <2> HIDE DEF due, n
  <2>1. due = [i \in 0 .. n |-> due[i]]
    BY <1>5
  <2> QED
    BY <2>1, <1>7
<1>9. Follows(due, base, q)
  <2> HIDE DEF due
  <2> QED
    BY <1>6, <1>8 DEF Follows
<1>10. CompletionDueAt(base, q) = due[Len(q)]
  BY DEF CompletionDueAt
<1> HIDE DEF due
<1> QED
  BY <1>9, <1>10

\* The loop of commission_resolution_effective_deadline, followed.
LEMMA LoopReads ==
  ASSUME NEW base \in Nat, NEW q \in Seq(PauseRows)
  PROVE  \E seen : Reads(seen, base, q) /\ effective_deadline(base, q) = seen[Len(q)].due
<1> DEFINE n == Len(q)
           step == [i \in 1 .. n |-> [s \in Seen |-> Row(s, q[i])]]
           Good(seen) == seen = [i \in 0 .. n |-> IF i = 0 THEN Unread(base) ELSE Row(seen[i - 1], q[i])]
           seen == CHOOSE s : Good(s)
<1>1. n \in Nat /\ \A i \in 1 .. n : q[i] \in PauseRows
  OBVIOUS
<1>2. Unread(base) \in Seen
  BY DEF Dues, Seen, Unread
<1>3. \A i \in 1 .. n, s \in Seen : step[i][s] = Row(s, q[i]) /\ step[i][s] \in Seen
  BY <1>1, RowType
<1>4. \E s : Good(s)
  <2>1. PICK h \in [0 .. n -> Seen] : h[0] = Unread(base) /\ \A i \in 1 .. n : h[i] = step[i][h[i - 1]]
    <3> HIDE DEF n, step, Good
    <3>1. Steps(step, n, Seen)
      BY <1>3 DEF Steps
    <3> QED
      BY <1>1, <1>2, <3>1, Recursion
  <2>2. \A i \in 1 .. n : h[i - 1] \in Seen /\ h[i] = Row(h[i - 1], q[i])
    <3> TAKE i \in 1 .. n
    <3>1. i - 1 \in 0 .. n
      BY <1>1
    <3> QED
      BY <2>1, <3>1
  <2>3. \A i \in 0 .. n : i = 0 \/ i \in 1 .. n
    BY <1>1
  <2>4. Good(h)
    <3> HIDE DEF n
    <3> QED
      BY <2>1, <2>2, <2>3
  <2> HIDE DEF Good
  <2> QED
    BY <2>4
<1>5. Good(seen)
  <2> HIDE DEF Good
  <2> QED
    BY <1>4
<1>6. /\ DOMAIN seen = 0 .. n /\ seen[0] = Unread(base)
      /\ \A i \in 1 .. n : seen[i] = Row(seen[i - 1], q[i])
  <2> HIDE DEF seen
  <2> QED
    BY <1>5, <1>1
<1>7. \A i \in 0 .. n : seen[i] \in Seen
  <2> HIDE DEF seen, n, Good
  <2> DEFINE S == {i \in 0 .. n : seen[i] \in Seen}
  <2>1. 0 \in S
    BY <1>1, <1>2, <1>6
  <2>2. ASSUME NEW k \in 1 .. n, k - 1 \in S PROVE k \in S
    BY <2>2, <1>1, <1>6, RowType
  <2>3. 0 .. n \subseteq S
    <3> HIDE DEF S
    <3> QED
      BY <2>1, <2>2, <1>1, UpTo
  <2> QED
    BY <2>3
<1>8. seen \in [0 .. n -> Seen]
  <2> HIDE DEF seen, n
  <2>1. seen = [i \in 0 .. n |-> seen[i]]
    BY <1>5
  <2> QED
    BY <2>1, <1>7
<1>9. Reads(seen, base, q)
  <2> HIDE DEF seen
  <2> QED
    BY <1>6, <1>8 DEF Reads
<1>10. effective_deadline(base, q) = seen[Len(q)].due
  BY DEF effective_deadline, Unread
<1> HIDE DEF seen
<1> QED
  BY <1>9, <1>10

---------------------------------------------------------------------------
\* Two histories that agree on their first rows agree on the deadline after them.
LEMMA SamePrefix ==
  ASSUME NEW base \in Nat, NEW q \in Seq(PauseRows), NEW r \in Seq(PauseRows), NEW d, NEW e,
         Follows(d, base, q), Follows(e, base, r),
         NEW k \in Nat, k <= Len(q), k <= Len(r), \A i \in 1 .. k : q[i] = r[i]
  PROVE  d[k] = e[k]
<1> DEFINE S == {i \in 0 .. k : d[i] = e[i]}
<1>1. Len(q) \in Nat /\ Len(r) \in Nat
  OBVIOUS
<1>2. 0 \in S
  BY DEF Follows
<1>3. ASSUME NEW i \in 1 .. k, i - 1 \in S PROVE i \in S
  <2>1. i \in 1 .. Len(q) /\ i \in 1 .. Len(r) /\ q[i] = r[i]
    BY <1>1
  <2>2. d[i] = Shift(d[i - 1], q[i]) /\ e[i] = Shift(e[i - 1], r[i])
    BY <2>1 DEF Follows
  <2> QED
    BY <1>3, <2>1, <2>2
<1>4. 0 .. k \subseteq S
  <2> HIDE DEF S
  <2> QED
    BY <1>2, <1>3, UpTo
<1> QED
  BY <1>4

\* Rows that move no deadline may follow.
LEMMA NoMoreMoves ==
  ASSUME NEW base \in Nat, NEW q \in Seq(PauseRows), NEW d, Follows(d, base, q),
         NEW k \in 0 .. Len(q),
         \A i \in 1 .. Len(q) : k < i => \A due \in Dues : Shift(due, q[i]) = due
  PROVE  d[Len(q)] = d[k]
<1> DEFINE n == Len(q)
           S == {i \in 0 .. n : k <= i => d[i] = d[k]}
<1>1. n \in Nat
  OBVIOUS
<1>2. 0 \in S
  BY <1>1
<1>3. ASSUME NEW i \in 1 .. n, i - 1 \in S PROVE i \in S
  <2>1. d[i] = Shift(d[i - 1], q[i]) /\ d[i - 1] \in Dues
    <3>1. i - 1 \in 0 .. n
      BY <1>1
    <3> QED
      BY <3>1 DEF Follows
  <2>2. k < i => d[i] = d[k]
    BY <1>3, <2>1
  <2> QED
    BY <2>2
<1>4. 0 .. n \subseteq S
  <2> HIDE DEF S, n
  <2> QED
    BY <1>1, <1>2, <1>3, UpTo
<1> QED
  BY <1>1, <1>4

\* A pause that ended as it began moves no deadline.
LEMMA EmptyPause ==
  ASSUME NEW p \in PauseRows, p.from = p.to, NEW due \in Dues
  PROVE  Shift(due, p) = due
  BY DEF PauseRows, Dues, Null, Open, Shift

\* What an order of the rows is.
LEMMA SortedRows ==
  ASSUME NEW R, IsFiniteSet(R), R \subseteq PauseRows, NEW q \in Sorted(R)
  PROVE  /\ Cardinality(R) \in Nat /\ Len(q) = Cardinality(R)
         /\ q \in [1 .. Cardinality(R) -> R] /\ q \in Seq(PauseRows)
         /\ \A i, j \in 1 .. Cardinality(R) : i # j => q[i] # q[j]
         /\ \A i, j \in 1 .. Cardinality(R) : i < j => q[i].from <= q[j].from
<1>1. Cardinality(R) \in Nat
  BY FS_CardinalityType
<1>2. /\ q \in [1 .. Cardinality(R) -> R]
      /\ \A i, j \in 1 .. Cardinality(R) : i # j => q[i] # q[j]
      /\ \A i, j \in 1 .. Len(q) : i < j => q[i].from <= q[j].from
  BY DEF Sorted, SetToSeqs
<1>3. q \in Seq(PauseRows) /\ Len(q) = Cardinality(R)
  BY <1>1, <1>2
<1> QED
  BY <1>1, <1>2, <1>3

\* A sequence of rows in their order is one of the orders.
LEMMA InOrder ==
  ASSUME NEW R, IsFiniteSet(R), R \subseteq PauseRows, NEW q \in [1 .. Cardinality(R) -> R],
         \A i, j \in 1 .. Cardinality(R) : i # j => q[i] # q[j],
         \A i, j \in 1 .. Cardinality(R) : i < j => q[i].from <= q[j].from
  PROVE  q \in Sorted(R)
<1>1. Cardinality(R) \in Nat
  BY FS_CardinalityType
<1>2. Len(q) = Cardinality(R)
  BY <1>1
<1>3. q \in SetToSeqs(R)
  BY DEF SetToSeqs
<1> QED
  BY <1>2, <1>3 DEF Sorted

\* Every row is somewhere in an order of the rows.
LEMMA SortedCovers ==
  ASSUME NEW R, IsFiniteSet(R), R \subseteq PauseRows, NEW q \in Sorted(R), NEW x \in R
  PROVE  \E k \in 1 .. Cardinality(R) : q[k] = x
<1> DEFINE n == Cardinality(R)
<1>1. n \in Nat /\ q \in [1 .. n -> R] /\ \A i, j \in 1 .. n : i # j => q[i] # q[j]
  BY SortedRows
<1>2. q \in Injection(1 .. n, R)
  BY <1>1 DEF Injection, IsInjective
<1>3. IsFiniteSet(1 .. n) /\ Cardinality(1 .. n) = n
  BY <1>1, FS_Interval
<1>4. q \in Surjection(1 .. n, R)
  BY <1>2, <1>3, FS_Injection
<1> QED
  BY <1>4 DEF Surjection

\* A row that began when all others had ended moves the deadline that they make: the
\* rows that may stand behind it are empty.
LEMMA InsertLast ==
  ASSUME NEW R, IsFiniteSet(R), R \subseteq PauseRows, NEW x \in PauseRows, x \notin R,
         \A p \in R : p.to # Open /\ p.from <= p.to /\ p.to <= x.from,
         NEW s \in Sorted(R \cup {x})
  PROVE  \E q \in Sorted(R) :
           \A b \in Nat : /\ CompletionDueAt(b, s) = Shift(CompletionDueAt(b, q), x)
                          /\ CompletionDueAt(b, q) \in Dues
<1> DEFINE n == Cardinality(R)
           T == R \cup {x}
<1>1. n \in Nat /\ IsFiniteSet(T) /\ Cardinality(T) = n + 1 /\ T \subseteq PauseRows
  BY FS_CardinalityType, FS_AddElement
<1>2. /\ Len(s) = n + 1 /\ s \in [1 .. n + 1 -> T] /\ s \in Seq(PauseRows)
      /\ \A i, j \in 1 .. n + 1 : i # j => s[i] # s[j]
      /\ \A i, j \in 1 .. n + 1 : i < j => s[i].from <= s[j].from
  <2> HIDE DEF n, T
  <2>1. s \in Sorted(T)
    BY DEF T
  <2> QED
    BY <1>1, <2>1, SortedRows
<1>3. PICK k \in 1 .. n + 1 : s[k] = x
  <2>1. x \in T /\ s \in Sorted(T)
    OBVIOUS
  <2> HIDE DEF n, T
  <2> QED
    BY <1>1, <2>1, SortedCovers
<1> DEFINE q == [i \in 1 .. n |-> IF i < k THEN s[i] ELSE s[i + 1]]
<1> HIDE DEF n
<1>4. \A i \in 1 .. n + 1 : i # k => s[i] \in R
  BY <1>1, <1>2, <1>3
<1>5. \A i \in 1 .. n : q[i] = (IF i < k THEN s[i] ELSE s[i + 1]) /\ q[i] \in R
  <2> TAKE i \in 1 .. n
  <2>1. i \in 1 .. n + 1 /\ i + 1 \in 1 .. n + 1
    BY <1>1
  <2> QED
    BY <1>1, <1>3, <1>4, <2>1
<1>6. q \in [1 .. n -> R] /\ Len(q) = n /\ q \in Seq(PauseRows)
  <2>1. q \in [1 .. n -> R]
    BY <1>5
  <2> HIDE DEF q
  <2> QED
    BY <1>1, <2>1
<1> HIDE DEF q
<1>7. q \in Sorted(R)
  <2>1. \A i, j \in 1 .. n : i # j => q[i] # q[j]
    <3> TAKE i, j \in 1 .. n
    <3>1. i \in 1 .. n + 1 /\ i + 1 \in 1 .. n + 1 /\ j \in 1 .. n + 1 /\ j + 1 \in 1 .. n + 1
      BY <1>1
    <3> QED
      BY <1>1, <1>2, <1>3, <1>5, <3>1
  <2>2. \A i, j \in 1 .. n : i < j => q[i].from <= q[j].from
    <3> TAKE i, j \in 1 .. n
    <3>1. i \in 1 .. n + 1 /\ i + 1 \in 1 .. n + 1 /\ j \in 1 .. n + 1 /\ j + 1 \in 1 .. n + 1
      BY <1>1
    <3> QED
      BY <1>1, <1>2, <1>3, <1>5, <3>1
  <2> QED
    BY <1>6, <2>1, <2>2, InOrder DEF n
<1>8. \A i \in 1 .. n + 1 : k < i => \A due \in Dues : Shift(due, s[i]) = due
  <2> SUFFICES ASSUME NEW i \in 1 .. n + 1, k < i PROVE \A due \in Dues : Shift(due, s[i]) = due
    OBVIOUS
  <2>1. s[i] \in R /\ x.from <= s[i].from
    BY <1>2, <1>3, <1>4
  <2>2. s[i] \in PauseRows /\ s[i].from = s[i].to
    <3>1. s[i].to # Open /\ s[i].from <= s[i].to /\ s[i].to <= x.from
      BY <2>1
    <3> QED
      BY <2>1, <3>1 DEF PauseRows
  <2> QED
    BY <2>2, EmptyPause
<1>9. \A i \in 1 .. n : k - 1 < i => \A due \in Dues : Shift(due, q[i]) = due
  <2> TAKE i \in 1 .. n
  <2>1. k - 1 < i => q[i] = s[i + 1] /\ k < i + 1 /\ i + 1 \in 1 .. n + 1
    BY <1>1, <1>3, <1>5
  <2> QED
    BY <1>8, <2>1
<1>10. ASSUME NEW b \in Nat
       PROVE  /\ CompletionDueAt(b, s) = Shift(CompletionDueAt(b, q), x)
              /\ CompletionDueAt(b, q) \in Dues
  <2>1. PICK d : Follows(d, b, s) /\ CompletionDueAt(b, s) = d[n + 1]
    BY <1>2, LoopFollows
  <2>2. PICK e : Follows(e, b, q) /\ CompletionDueAt(b, q) = e[n]
    BY <1>6, LoopFollows
  <2>3. d[n + 1] = d[k]
    <3>1. k \in 0 .. Len(s)
      BY <1>1, <1>2
    <3> QED
      BY <1>2, <1>8, <2>1, <3>1, NoMoreMoves
  <2>4. d[k] = Shift(d[k - 1], x)
    BY <1>2, <1>3, <2>1 DEF Follows
  <2>5. e[n] = e[k - 1]
    <3>1. k - 1 \in 0 .. Len(q)
      BY <1>1, <1>6
    <3> QED
      BY <1>6, <1>9, <2>2, <3>1, NoMoreMoves
  <2>6. d[k - 1] = e[k - 1]
    <3>1. k - 1 \in Nat /\ k - 1 <= Len(q) /\ k - 1 <= Len(s)
      BY <1>1, <1>2, <1>6
    <3>2. \A i \in 1 .. k - 1 : s[i] = q[i]
      BY <1>1, <1>5
    <3> QED
      BY <1>2, <1>6, <2>1, <2>2, <3>1, <3>2, SamePrefix
  <2>7. e[n] \in Dues
    BY <1>1, <1>6, <2>2 DEF Follows
  <2> QED
    BY <2>1, <2>2, <2>3, <2>4, <2>5, <2>6, <2>7
<1> QED
  BY <1>7, <1>10

\* The loop of the triggers and that of the worker compute the same deadline.
LEMMA LoopsAgree ==
  ASSUME NEW R, IsFiniteSet(R), R \subseteq PauseRows, NEW q \in Sorted(R), NEW b \in Nat
  PROVE  CompletionDueAt(b, q) = effective_deadline(b, q)
<1> DEFINE n == Len(q)
<1>1. n \in Nat /\ q \in Seq(PauseRows) /\ \A i, j \in 1 .. n : i < j => q[i].from <= q[j].from
  BY SortedRows
<1>2. PICK due : Follows(due, b, q) /\ CompletionDueAt(b, q) = due[n]
  BY <1>1, LoopFollows
<1>3. PICK seen : Reads(seen, b, q) /\ effective_deadline(b, q) = seen[n].due
  BY <1>1, LoopReads
<1> HIDE DEF n
<1>4. /\ \A i \in 1 .. n : q[i] \in PauseRows
      /\ due \in [0 .. n -> Dues] /\ due[0] = b /\ \A i \in 1 .. n : due[i] = Shift(due[i - 1], q[i])
      /\ seen \in [0 .. n -> Seen] /\ seen[0] = Unread(b)
      /\ \A i \in 1 .. n : seen[i] = Row(seen[i - 1], q[i])
  BY <1>1, <1>2, <1>3 DEF Follows, Reads, n
<1> DEFINE Same(i) == /\ seen[i].due = due[i]
                      /\ ~seen[i].stop => due[i] # Null
                      /\ seen[i].stop => \/ due[i] = Null
                                         \/ \A j \in 1 .. n : i < j => due[i] < q[j].from
           S == {i \in 0 .. n : Same(i)}
<1>5. 0 \in S
  BY <1>1, <1>4 DEF Unread, Null
<1>6. ASSUME NEW i \in 1 .. n, i - 1 \in S PROVE i \in S
  <2>1. Same(i - 1) /\ i - 1 \in 0 .. n
    BY <1>6
  <2>2. /\ seen[i] = Row(seen[i - 1], q[i]) /\ due[i] = Shift(due[i - 1], q[i])
        /\ q[i].from \in Nat /\ q[i].to \in Nat \cup {Open} /\ q[i] \in PauseRows
        /\ due[i - 1] \in Dues /\ seen[i - 1] \in Seen /\ seen[i - 1].stop \in BOOLEAN
    BY <1>1, <1>4, <2>1 DEF PauseRows, Seen
  <2>3. CASE seen[i - 1].stop
    <3>1. seen[i] = seen[i - 1]
      BY <2>2, <2>3 DEF Row
    <3>2. due[i] = due[i - 1]
      BY <1>1, <2>1, <2>2, <2>3 DEF Shift
    <3> QED
      BY <1>1, <2>1, <2>3, <3>1, <3>2
  <2>4. CASE ~seen[i - 1].stop
    <3>0. seen[i - 1].due = due[i - 1] /\ due[i - 1] \in Nat
      BY <2>1, <2>2, <2>4 DEF Dues
    <3>1. CASE q[i].to # Open /\ q[i].from <= due[i - 1] /\ q[i].to <= due[i - 1]
      <4>1. seen[i] = seen[i - 1] /\ due[i] = due[i - 1]
        BY <2>2, <2>4, <3>0, <3>1 DEF Row, Shift
      <4> QED
        BY <1>1, <2>1, <2>4, <4>1
    <3>2. CASE q[i].from > due[i - 1]
      <4>1. seen[i] = [seen[i - 1] EXCEPT !.stop = TRUE] /\ due[i] = due[i - 1]
        BY <2>2, <2>4, <3>0, <3>2 DEF Row, Shift
      <4>2. seen[i].due = due[i] /\ seen[i].stop
        BY <2>2, <3>0, <4>1 DEF Seen
      <4>3. \A j \in 1 .. n : i < j => due[i] < q[j].from
        <5> TAKE j \in 1 .. n
        <5>1. q[j].from \in Nat /\ (i < j => q[i].from <= q[j].from)
          BY <1>1, <1>4 DEF PauseRows
        <5> QED
          BY <2>2, <3>0, <3>2, <4>1, <5>1
      <4> QED
        BY <1>1, <4>2, <4>3
    <3>3. CASE q[i].from <= due[i - 1] /\ q[i].to = Open
      <4>1. seen[i] = [due |-> Null, stop |-> TRUE] /\ due[i] = Null
        BY <2>2, <2>4, <3>0, <3>3 DEF Row, Shift, Null, Open
      <4> QED
        BY <1>1, <4>1
    <3>4. CASE q[i].from <= due[i - 1] /\ q[i].to # Open /\ q[i].to > due[i - 1]
      <4>1. /\ seen[i] = [seen[i - 1] EXCEPT !.due = q[i].to + PauseGrace]
            /\ due[i] = q[i].to + PauseGrace
        BY <2>2, <2>4, <3>0, <3>4 DEF Row, Shift, Null
      <4>2. due[i] \in Nat
        BY <2>2, <3>4, <4>1, ClockAssumptions
      <4>3. seen[i].due = due[i] /\ seen[i].stop = seen[i - 1].stop
        BY <2>2, <4>1 DEF Seen
      <4> QED
        BY <1>1, <2>4, <4>2, <4>3 DEF Null
    <3> QED
      BY <2>2, <3>0, <3>1, <3>2, <3>3, <3>4
  <2> QED
    BY <2>2, <2>3, <2>4
<1>7. 0 .. n \subseteq S
  <2> HIDE DEF S
  <2> QED
    BY <1>1, <1>5, <1>6, UpTo
<1> QED
  BY <1>1, <1>2, <1>3, <1>7

---------------------------------------------------------------------------
\* The ended pauses, and those that prune leaves, are rows in a finite number.
LEMMA ClosedRows ==
  ASSUME HistoryTyped
  PROVE  /\ IsFiniteSet(Closed) /\ Closed \subseteq PauseRows
         /\ \A p \in Closed : p.to # Open /\ p.from <= p.to /\ p.to <= now
         /\ \A b : IsFiniteSet(ClosedAfter(b)) /\ ClosedAfter(b) \subseteq PauseRows
<1>1. IsFiniteSet(Closed) /\ Closed \subseteq PauseRows
  BY FS_Subset DEF HistoryTyped, Closed
<1>2. \A p \in Closed : p.to # Open /\ p.from <= p.to /\ p.to <= now
  BY DEF HistoryTyped, Closed
<1>3. ASSUME NEW b PROVE IsFiniteSet(ClosedAfter(b)) /\ ClosedAfter(b) \subseteq PauseRows
  <2>1. ClosedAfter(b) \subseteq Closed
    BY DEF ClosedAfter
  <2> QED
    BY <1>1, <2>1, FS_Subset
<1> QED
  BY <1>1, <1>2, <1>3

\* An open pause is the only row besides the ended ones, and began after them.
LEMMA OpenRow ==
  ASSUME HistoryTyped, NEW o \in pauses, o.to = Open
  PROVE  /\ pauses = Closed \cup {o} /\ o \in PauseRows /\ o \notin Closed /\ o.from <= now
         /\ \A p \in Closed : p.to # Open /\ p.from <= p.to /\ p.to <= o.from
  BY DEF HistoryTyped, Closed

\* The end of the open pause closes its row and changes no other.
LEMMA ResumeCloses ==
  ASSUME HistoryTyped, ObserveEnabled, NEW o \in pauses, o.to = Open
  PROVE  pauses' = Closed \cup {[from |-> o.from, to |-> now]}
<1>1. pauses' = {IF p.to = Open THEN [p EXCEPT !.to = now] ELSE p : p \in pauses}
  BY DEF ObserveEnabled
<1>2. [o EXCEPT !.to = now] = [from |-> o.from, to |-> now]
  BY DEF HistoryTyped, PauseRows
<1>3. \A p \in pauses : p = o \/ p \in Closed
  BY OpenRow
<1>4. \A p \in Closed : p.to # Open /\ p \in pauses
  BY DEF Closed
<1> QED
  BY <1>1, <1>2, <1>3, <1>4

\* The rows keep their order.
LEMMA HistoryTypedStep ==
  ASSUME HistoryTyped, [ClockNext]_clockVars
  PROVE  HistoryTyped'
<1> USE ClockAssumptions
<1>1. CASE UNCHANGED clockVars
  BY <1>1 DEF clockVars, HistoryTyped
<1>2. CASE ObserveDisabled
  <2> DEFINE o == [from |-> now, to |-> Open]
  <2>1. now \in Nat /\ o \in PauseRows /\ pauses' = pauses \cup {o} /\ UNCHANGED <<now, timer>>
    BY <1>2 DEF ObserveDisabled, HistoryTyped, PauseRows
  <2>2. IsFiniteSet(pauses')
    BY <2>1, FS_AddElement DEF HistoryTyped
  <2>3. \A p \in pauses : p.to # Open /\ p.from <= now /\ p.to <= now
    BY <1>2 DEF ObserveDisabled, Paused, HistoryTyped
  <2>4. \A p, r \in pauses' : p.to = Open /\ r # p => r.to # Open /\ r.to <= p.from
    BY <2>1, <2>3 DEF HistoryTyped
  <2>5. \A p \in pauses' : p.from <= now /\ (p.to # Open => p.from <= p.to /\ p.to <= now)
    BY <2>1 DEF HistoryTyped
  <2> QED
    BY <2>1, <2>2, <2>4, <2>5 DEF HistoryTyped
<1>3. CASE ObserveEnabled
  <2>1. PICK o \in pauses : o.to = Open
    BY <1>3 DEF ObserveEnabled, Paused
  <2> DEFINE c == [from |-> o.from, to |-> now]
  <2>2. now \in Nat /\ c \in PauseRows /\ c.to # Open /\ c.from <= c.to /\ c.to = now
    BY <2>1 DEF HistoryTyped, PauseRows, Open
  <2>3. pauses' = Closed \cup {c} /\ UNCHANGED now
    BY <1>3, <2>1, ResumeCloses DEF ObserveEnabled
  <2>4. \A p \in pauses' : p.to # Open /\ p.from <= p.to /\ p.to <= now /\ p \in PauseRows
    BY <2>2, <2>3, ClosedRows
  <2>5. IsFiniteSet(pauses')
    BY <2>3, ClosedRows, FS_AddElement
  <2>6. timer' \in [Bases -> Nat \cup {Passed, Held}]
    BY <1>3 DEF ObserveEnabled, HistoryTyped, AfterResume
  <2>7. \A p \in pauses' : p.from <= now
    BY <2>2, <2>4 DEF PauseRows, Open
  <2> HIDE DEF c
  <2> QED
    BY <2>3, <2>4, <2>5, <2>6, <2>7 DEF HistoryTyped
<1>4. CASE ClockTicks
  <2>1. now' = now + 1 /\ now' \in 0 .. Horizon /\ UNCHANGED pauses
    BY <1>4 DEF ClockTicks, HistoryTyped
  <2>2. timer' \in [Bases -> Nat \cup {Passed, Held}]
    BY <1>4 DEF ClockTicks, HistoryTyped, AfterTick, Passed, Held
  <2>3. \A p \in pauses : p.from \in Nat /\ p.to \in Nat \cup {Open}
    BY DEF HistoryTyped, PauseRows
  <2>4. \A p \in pauses : p.from <= now' /\ (p.to # Open => p.from <= p.to /\ p.to <= now')
    BY <2>1, <2>3 DEF HistoryTyped
  <2> QED
    BY <2>1, <2>2, <2>4 DEF HistoryTyped
<1> QED
  BY <1>1, <1>2, <1>3, <1>4 DEF ClockNext

\* The deadline of the ended pauses when the open one ends: its row is the last that
\* moves anything.
LEMMA ResumeMoves ==
  ASSUME HistoryTyped, NEW o \in pauses, o.to = Open, NEW c \in PauseRows, c.from = o.from, c.to = now,
         NEW R \in SUBSET Closed, c \notin R, NEW s \in Sorted(R \cup {c})
  PROVE  \E q \in Sorted(R) :
           \A b \in Nat : CompletionDueAt(b, s) = Shift(CompletionDueAt(b, q), c)
<1>1. IsFiniteSet(R) /\ R \subseteq PauseRows
  BY ClosedRows, FS_Subset
<1>2. \A p \in R : p.to # Open /\ p.from <= p.to /\ p.to <= c.from
  BY OpenRow
<1> QED
  BY <1>1, <1>2, InsertLast

\* An open pause that is the second to end at this moment began at this moment.
LEMMA SameMoment ==
  ASSUME HistoryTyped, NEW o \in pauses, o.to = Open, [from |-> o.from, to |-> now] \in Closed
  PROVE  o.from = now
<1>1. now <= o.from /\ o.from <= now
  BY OpenRow
<1>2. o.from \in Nat /\ now \in Nat
  BY OpenRow, ClockAssumptions DEF PauseRows, HistoryTyped
<1> QED
  BY <1>1, <1>2

\* The countdowns follow the history through every step.
LEMMA TimersStep ==
  ASSUME ClockInv, [ClockNext]_clockVars
  PROVE  TimersFollow'
<1> USE ClockAssumptions DEF ClockInv
<1>0. now \in Nat /\ now' \in Nat /\ HistoryTyped'
      /\ \A b \in Bases : b \in Nat /\ timer[b] \in Nat \cup {Passed, Held}
  BY HistoryTypedStep DEF HistoryTyped
<1>1. CASE UNCHANGED clockVars
  BY <1>1 DEF clockVars, TimersFollow, Closed
<1>2. CASE ObserveDisabled
  <2>1. /\ UNCHANGED <<now, timer>> /\ ~Paused
        /\ pauses' = pauses \cup {[from |-> now, to |-> Open]}
    BY <1>2 DEF ObserveDisabled
  <2>2. Closed' = Closed
    BY <2>1 DEF Closed
  <2>3. \A p \in pauses' : p.to = Open => p.from = now
    BY <2>1 DEF Paused
  <2> SUFFICES ASSUME NEW b \in Bases, NEW q \in Sorted(Closed)
               PROVE  LET due == CompletionDueAt(b, q) IN
                        /\ due \in Nat /\ b <= due
                        /\ timer[b] \in Nat => due = now + timer[b]
                        /\ timer[b] = Passed =>
                             due < now /\ \A p \in pauses' : p.to = Open => p.from > due
                        /\ timer[b] = Held => due < now /\ \E p \in pauses' : p.to = Open /\ p.from <= due
    BY <2>1, <2>2 DEF TimersFollow
  <2> DEFINE due == CompletionDueAt(b, q)
  <2>4. /\ due \in Nat /\ b <= due
        /\ timer[b] \in Nat => due = now + timer[b]
        /\ timer[b] = Passed => due < now
        /\ timer[b] # Held
    BY <2>1 DEF TimersFollow, Paused
  <2> QED
    BY <2>3, <2>4
<1>3. CASE ObserveEnabled
  <2>1. PICK o \in pauses : o.to = Open
    BY <1>3 DEF ObserveEnabled, Paused
  <2> DEFINE c == [from |-> o.from, to |-> now]
  <2>2. c \in PauseRows /\ c.from = o.from /\ c.to = now /\ c.to # Open /\ o.from \in Nat /\ o.from <= now
    BY <1>0, <2>1, OpenRow DEF PauseRows, Open
  <2>3. pauses' = Closed \cup {c} /\ Closed' = Closed \cup {c} /\ UNCHANGED now
    <3>1. pauses' = Closed \cup {c} /\ UNCHANGED now
      BY <1>3, <2>1, ResumeCloses DEF ObserveEnabled
    <3>2. \A p \in pauses' : p.to # Open
      BY <2>2, <3>1 DEF Closed
    <3> QED
      BY <3>1, <3>2 DEF Closed
  <2>4. \A p \in pauses' : p.to # Open
    BY <2>3 DEF Closed
  <2> SUFFICES ASSUME NEW b \in Bases, NEW s \in Sorted(Closed')
               PROVE  LET due == CompletionDueAt(b, s) IN
                        /\ due \in Nat /\ b <= due
                        /\ timer'[b] \in Nat => due = now + timer'[b]
                        /\ timer'[b] = Passed => due < now
                        /\ timer'[b] # Held
    BY <2>3, <2>4 DEF TimersFollow
  <2>5. timer'[b] = IF timer[b] = Held THEN PauseGrace ELSE timer[b]
    BY <1>3 DEF ObserveEnabled, AfterResume
  <2>6. \E q \in Sorted(Closed) : CompletionDueAt(b, s) = Shift(CompletionDueAt(b, q), c)
    <3>1. CASE c \in Closed
      <4>1. Closed' = Closed
        BY <2>3, <3>1
      <4>2. CompletionDueAt(b, s) \in Dues
        BY <4>1 DEF TimersFollow, Dues
      <4>3. c.from = c.to
        BY <2>1, <2>2, <3>1, SameMoment
      <4> HIDE DEF c
      <4> QED
        BY <2>2, <4>1, <4>2, <4>3, EmptyPause
    <3>2. CASE c \notin Closed
      <4> HIDE DEF c
      <4>1. PICK q \in Sorted(Closed) :
              \A a \in Nat : CompletionDueAt(a, s) = Shift(CompletionDueAt(a, q), c)
        BY <2>1, <2>2, <2>3, <3>2, ResumeMoves
      <4> QED
        BY <1>0, <4>1
    <3> QED
      BY <3>1, <3>2
  <2> HIDE DEF c
  <2>7. PICK q \in Sorted(Closed) : CompletionDueAt(b, s) = Shift(CompletionDueAt(b, q), c)
    BY <2>6
  <2> DEFINE due == CompletionDueAt(b, q)
  <2>8. /\ due \in Nat /\ b <= due
        /\ timer[b] \in Nat => due = now + timer[b]
        /\ timer[b] = Passed => due < now /\ o.from > due
        /\ timer[b] = Held => due < now /\ o.from <= due
    <3>1. \A p \in pauses : p.to = Open => p = o
      BY <2>1, OpenRow DEF Closed
    <3> QED
      BY <2>1, <3>1 DEF TimersFollow
  <2> HIDE DEF due
  <2>9. Shift(due, c) = IF o.from > due \/ now <= due THEN due ELSE now + PauseGrace
    BY <1>0, <2>2, <2>8 DEF Shift, Null
  <2>10. timer[b] \in Nat \cup {Passed, Held} /\ b \in Nat
    BY <1>0
  <2>11. CASE timer[b] \in Nat
    BY <1>0, <2>5, <2>7, <2>8, <2>9, <2>11 DEF due, Passed, Held
  <2>12. CASE timer[b] = Passed
    BY <1>0, <2>5, <2>7, <2>8, <2>9, <2>12 DEF due, Passed, Held
  <2>13. CASE timer[b] = Held
    BY <1>0, <2>2, <2>5, <2>7, <2>8, <2>9, <2>10, <2>13 DEF due, Passed, Held
  <2> QED
    BY <2>10, <2>11, <2>12, <2>13
<1>4. CASE ClockTicks
  <2>1. now' = now + 1 /\ UNCHANGED pauses /\ Closed' = Closed
    BY <1>4 DEF ClockTicks, Closed
  <2> SUFFICES ASSUME NEW b \in Bases, NEW q \in Sorted(Closed)
               PROVE  LET due == CompletionDueAt(b, q) IN
                        /\ due \in Nat /\ b <= due
                        /\ timer'[b] \in Nat => due = now' + timer'[b]
                        /\ timer'[b] = Passed => due < now' /\ \A p \in pauses : p.to = Open => p.from > due
                        /\ timer'[b] = Held => due < now' /\ \E p \in pauses : p.to = Open /\ p.from <= due
    BY <2>1 DEF TimersFollow
  <2> DEFINE due == CompletionDueAt(b, q)
             Ahead == \A p \in pauses : p.to = Open => p.from > due
             Inside == \E p \in pauses : p.to = Open /\ p.from <= due
  <2>2. /\ due \in Nat /\ b <= due
        /\ timer[b] \in Nat => due = now + timer[b]
        /\ timer[b] = Passed => due < now /\ Ahead
        /\ timer[b] = Held => due < now /\ Inside
    BY DEF TimersFollow
  <2>3. timer'[b] = AfterTick(timer[b], Paused)
    BY <1>4 DEF ClockTicks
  <2>4. due = now => IF Paused THEN Inside ELSE Ahead
    BY DEF HistoryTyped, Paused
  <2>5. timer[b] \in Nat \cup {Passed, Held}
    BY <1>0
  <2> HIDE DEF due, Ahead, Inside
  <2> SUFFICES /\ due \in Nat /\ b <= due
               /\ timer'[b] \in Nat => due = now' + timer'[b]
               /\ timer'[b] = Passed => due < now' /\ Ahead
               /\ timer'[b] = Held => due < now' /\ Inside
    BY DEF due, Ahead, Inside
  <2>6. CASE timer[b] \in Nat /\ timer[b] > 0
    BY <1>0, <2>1, <2>2, <2>3, <2>6 DEF AfterTick, Passed, Held
  <2>7. CASE timer[b] = 0 /\ Paused
    BY <1>0, <2>1, <2>2, <2>3, <2>4, <2>7 DEF AfterTick, Passed, Held
  <2>8. CASE timer[b] = 0 /\ ~Paused
    BY <1>0, <2>1, <2>2, <2>3, <2>4, <2>8 DEF AfterTick, Passed, Held
  <2>9. CASE timer[b] \in {Passed, Held}
    BY <1>0, <2>1, <2>2, <2>3, <2>9 DEF AfterTick, Passed, Held
  <2> QED
    BY <2>5, <2>6, <2>7, <2>8, <2>9
<1> QED
  BY <1>1, <1>2, <1>3, <1>4 DEF ClockNext

\* Only the end of a pause adds a row to the ended ones; it adds it on both sides, or it
\* ended before the stored deadline and moves nothing.
LEMMA PrunedStep ==
  ASSUME ClockInv, [ClockNext]_clockVars
  PROVE  PrunedAgrees'
<1> USE ClockAssumptions DEF ClockInv
<1>1. CASE Closed' = Closed
  BY <1>1 DEF PrunedAgrees, ClosedAfter
<1>2. CASE ObserveEnabled
  <2>1. PICK o \in pauses : o.to = Open
    BY <1>2 DEF ObserveEnabled, Paused
  <2> DEFINE c == [from |-> o.from, to |-> now]
  <2>2. c \in PauseRows /\ c.from = o.from /\ c.to = now /\ c.to # Open
    BY <2>1, OpenRow DEF PauseRows, Open, HistoryTyped
  <2>3. Closed' = Closed \cup {c}
    <3>1. pauses' = Closed \cup {c}
      BY <1>2, <2>1, ResumeCloses
    <3>2. \A p \in pauses' : p.to # Open
      BY <2>2, <3>1 DEF Closed
    <3> QED
      BY <3>1, <3>2 DEF Closed
  <2> HIDE DEF c
  <2>4. CASE c \in Closed
    BY <1>1, <2>3, <2>4
  <2>5. ASSUME c \notin Closed, NEW b \in Bases, NEW s \in Sorted(Closed'), NEW t \in Sorted(ClosedAfter(b)')
        PROVE  CompletionDueAt(b, s) = CompletionDueAt(b, t)
    <3>0. b \in Nat /\ now \in Nat
      BY DEF HistoryTyped
    <3>1. PICK q \in Sorted(Closed) :
            \A a \in Nat : CompletionDueAt(a, s) = Shift(CompletionDueAt(a, q), c)
      BY <2>1, <2>2, <2>3, <2>5, ResumeMoves
    <3>2. CASE now > b
      <4>1. ClosedAfter(b)' = ClosedAfter(b) \cup {c}
        BY <2>2, <2>3, <3>2 DEF ClosedAfter
      <4>2. ClosedAfter(b) \in SUBSET Closed /\ c \notin ClosedAfter(b)
        BY <2>5 DEF ClosedAfter
      <4>3. PICK r \in Sorted(ClosedAfter(b)) :
              \A a \in Nat : CompletionDueAt(a, t) = Shift(CompletionDueAt(a, r), c)
        <5>1. t \in Sorted(ClosedAfter(b) \cup {c})
          BY <4>1
        <5> QED
          BY <2>1, <2>2, <4>2, <5>1, ResumeMoves
      <4>4. CompletionDueAt(b, q) = CompletionDueAt(b, r)
        BY DEF PrunedAgrees
      <4> QED
        BY <3>0, <3>1, <4>3, <4>4
    <3>3. CASE ~(now > b)
      <4>1. ClosedAfter(b)' = ClosedAfter(b)
        BY <2>2, <2>3, <3>3 DEF ClosedAfter
      <4>2. CompletionDueAt(b, q) = CompletionDueAt(b, t)
        BY <2>5, <4>1 DEF PrunedAgrees
      <4>3. CompletionDueAt(b, q) \in Nat /\ b <= CompletionDueAt(b, q)
        BY DEF TimersFollow
      <4>4. Shift(CompletionDueAt(b, q), c) = CompletionDueAt(b, q)
        BY <2>2, <3>0, <3>3, <4>3 DEF Shift
      <4> QED
        BY <3>0, <3>1, <4>2, <4>4
    <3> QED
      BY <3>2, <3>3
  <2> QED
    BY <2>4, <2>5 DEF PrunedAgrees
<1>3. CASE UNCHANGED clockVars \/ ObserveDisabled \/ ClockTicks
  <2>1. Closed' = Closed
    BY <1>3 DEF clockVars, ObserveDisabled, ClockTicks, Closed
  <2> QED
    BY <1>1, <2>1
<1> QED
  BY <1>2, <1>3 DEF ClockNext

\* Before the first pause the deadline is the stored one.
LEMMA ClockBegins == ClockInit => ClockInv
<1> SUFFICES ASSUME ClockInit PROVE ClockInv
  OBVIOUS
<1> USE ClockAssumptions
<1>1. now = 0 /\ pauses = {} /\ timer = [b \in Bases |-> b] /\ Closed = {}
  BY DEF ClockInit, Closed
<1>2. IsFiniteSet({}) /\ Cardinality({}) = 0
  BY FS_EmptySet
<1>3. HistoryTyped
  BY <1>1, <1>2 DEF HistoryTyped
<1>4. ASSUME NEW b \in Nat, NEW q \in Sorted({}) PROVE CompletionDueAt(b, q) = b
  <2>1. Len(q) = 0 /\ q \in Seq(PauseRows)
    BY <1>2, SortedRows
  <2>2. PICK due : Follows(due, b, q) /\ CompletionDueAt(b, q) = due[Len(q)]
    BY <2>1, LoopFollows
  <2> QED
    BY <2>1, <2>2 DEF Follows
<1>5. TimersFollow
  <2> SUFFICES ASSUME NEW b \in Bases, NEW q \in Sorted(Closed)
               PROVE  LET due == CompletionDueAt(b, q) IN
                        /\ due \in Nat /\ b <= due
                        /\ timer[b] \in Nat => due = now + timer[b]
                        /\ timer[b] # Passed /\ timer[b] # Held
    BY DEF TimersFollow
  <2>1. CompletionDueAt(b, q) = b /\ b \in Nat /\ timer[b] = b
    BY <1>1, <1>4
  <2> QED
    BY <1>1, <2>1 DEF Passed, Held
<1>6. PrunedAgrees
  <2>1. \A b : ClosedAfter(b) = {}
    BY <1>1 DEF ClosedAfter
  <2> QED
    BY <1>1, <1>4, <2>1 DEF PrunedAgrees
<1> QED
  BY <1>3, <1>5, <1>6 DEF ClockInv

LEMMA ClockInvariant == ClockSpec => []ClockInv
<1>1. ClockInv /\ [ClockNext]_clockVars => ClockInv'
  BY HistoryTypedStep, TimersStep, PrunedStep DEF ClockInv
<1> QED
  BY <1>1, ClockBegins, PTL DEF ClockSpec

---------------------------------------------------------------------------
\* The open pause takes the deadline away, if it is not already past.
LEMMA OpenMoves ==
  ASSUME ClockInv, NEW o \in pauses, o.to = Open, NEW R \in SUBSET Closed, NEW s \in Sorted(R \cup {o})
  PROVE  \E q \in Sorted(R) : \A b \in Nat : CompletionDueAt(b, s) = Shift(CompletionDueAt(b, q), o)
<1>1. IsFiniteSet(R) /\ R \subseteq PauseRows /\ o \in PauseRows /\ o \notin R
  BY ClosedRows, OpenRow, FS_Subset DEF ClockInv
<1>2. \A p \in R : p.to # Open /\ p.from <= p.to /\ p.to <= o.from
  BY OpenRow DEF ClockInv
<1> QED
  BY <1>1, <1>2, InsertLast

LEMMA ClockFollows ==
  ASSUME ClockInv
  PROVE  ClockAgrees
<1> USE ClockAssumptions DEF ClockInv
<1> SUFFICES ASSUME NEW b \in Bases, NEW s \in Sorted(pauses)
             PROVE  LET due == CompletionDueAt(b, s) IN
                      IF Suspended(timer[b], Paused) THEN due = Null
                      ELSE IF timer[b] = Passed THEN due # Null /\ due < now
                      ELSE due = now + timer[b]
  BY DEF ClockAgrees
<1>1. b \in Nat /\ now \in Nat /\ timer[b] \in Nat \cup {Passed, Held}
  BY DEF HistoryTyped
<1>2. CASE ~Paused
  <2>1. Closed = pauses
    BY <1>2 DEF Paused, Closed
  <2> DEFINE due == CompletionDueAt(b, s)
  <2>2. /\ due \in Nat
        /\ timer[b] \in Nat => due = now + timer[b]
        /\ timer[b] = Passed => due < now
        /\ timer[b] # Held
    BY <1>2, <2>1 DEF TimersFollow, Paused
  <2> HIDE DEF due
  <2> QED
    BY <1>1, <1>2, <2>2 DEF Suspended, Null, Passed, due
<1>3. CASE Paused
  <2>1. PICK o \in pauses : o.to = Open
    BY <1>3 DEF Paused
  <2>2. pauses = Closed \cup {o} /\ o.from \in Nat /\ o.from <= now
    BY <2>1, OpenRow DEF PauseRows
  <2>3. PICK q \in Sorted(Closed) :
          \A a \in Nat : CompletionDueAt(a, s) = Shift(CompletionDueAt(a, q), o)
    <3>1. Closed \in SUBSET Closed /\ s \in Sorted(Closed \cup {o})
      BY <2>2
    <3> QED
      BY <2>1, <3>1, OpenMoves
  <2> DEFINE due == CompletionDueAt(b, q)
  <2>4. /\ due \in Nat
        /\ timer[b] \in Nat => due = now + timer[b]
        /\ timer[b] = Passed => due < now /\ o.from > due
        /\ timer[b] = Held => due < now /\ o.from <= due
    <3>1. \A p \in pauses : p.to = Open => p = o
      BY <2>1, OpenRow DEF Closed
    <3> QED
      BY <2>1, <3>1 DEF TimersFollow
  <2>5. CompletionDueAt(b, s) = Shift(due, o)
    BY <1>1, <2>3
  <2> HIDE DEF due
  <2>6. Shift(due, o) = IF o.from > due THEN due ELSE Null
    BY <2>1, <2>4 DEF Shift, Null
  <2> QED
    BY <1>1, <1>3, <2>2, <2>4, <2>5, <2>6 DEF Suspended, Null, Passed, Held
<1> QED
  BY <1>2, <1>3

LEMMA PruningHolds ==
  ASSUME ClockInv
  PROVE  PruningIsHarmless
<1> USE ClockAssumptions DEF ClockInv
<1> SUFFICES ASSUME NEW b \in Bases, NEW s \in Sorted(pauses), NEW t \in Sorted(Relevant(b))
             PROVE  /\ CompletionDueAt(b, s) = CompletionDueAt(b, t)
                    /\ CompletionDueAt(b, s) = effective_deadline(b, s)
  BY DEF PruningIsHarmless
<1>1. CompletionDueAt(b, s) = effective_deadline(b, s)
  BY LoopsAgree DEF HistoryTyped
<1>2. CASE ~Paused
  <2>1. Closed = pauses /\ ClosedAfter(b) = Relevant(b)
    BY <1>2 DEF Paused, Closed, ClosedAfter, Relevant
  <2> QED
    BY <1>1, <2>1 DEF PrunedAgrees
<1>3. CASE Paused
  <2>1. PICK o \in pauses : o.to = Open
    BY <1>3 DEF Paused
  <2>2. pauses = Closed \cup {o}
    BY <2>1, OpenRow
  <2>3. Relevant(b) = ClosedAfter(b) \cup {o} /\ ClosedAfter(b) \in SUBSET Closed
    BY <2>1, <2>2 DEF Relevant, ClosedAfter, Closed
  <2>4. PICK q \in Sorted(Closed) :
          \A a \in Nat : CompletionDueAt(a, s) = Shift(CompletionDueAt(a, q), o)
    <3>1. Closed \in SUBSET Closed /\ s \in Sorted(Closed \cup {o})
      BY <2>2
    <3> QED
      BY <2>1, <3>1, OpenMoves
  <2>5. PICK r \in Sorted(ClosedAfter(b)) :
          \A a \in Nat : CompletionDueAt(a, t) = Shift(CompletionDueAt(a, r), o)
    <3>1. t \in Sorted(ClosedAfter(b) \cup {o})
      BY <2>3
    <3> QED
      BY <2>1, <2>3, <3>1, OpenMoves
  <2>6. CompletionDueAt(b, q) = CompletionDueAt(b, r)
    BY DEF PrunedAgrees
  <2> QED
    BY <1>1, <2>4, <2>5, <2>6
<1> QED
  BY <1>2, <1>3

\* Whatever pauses there were, the worker's loop, the triggers' copy of it and the
\* countdown of the order agree on every deadline, and so does the pruned history
\* (commissionCompletionDueAt, commission_resolution_effective_deadline).
THEOREM ClockHistoryAgrees == ClockSpec => []HistoryAgrees
<1>1. ClockInv => HistoryAgrees
  <2> SUFFICES ASSUME ClockInv PROVE HistoryAgrees
    OBVIOUS
  <2>1. ClockTyped
    BY ClockAssumptions DEF ClockInv, HistoryTyped, ClockTyped, PauseRows, Open, Passed, Held
  <2> QED
    BY <2>1, ClockFollows, PruningHolds DEF HistoryAgrees
<1> QED
  BY <1>1, ClockInvariant, PTL
===============================================================================
