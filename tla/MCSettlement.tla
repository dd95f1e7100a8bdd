---------------------------- MODULE MCSettlement ----------------------------
(***************************************************************************)
(* How a paid commission is settled, for TLC: the order with its proposals *)
(* and disputes, the refund obligations, and the reminders of deadlines.   *)
(* They share no state, so `part` chooses the one a behaviour is about,    *)
(* the others stay as they begin, and their state spaces add.              *)
(*   order:     one order; the unit of time is the grace of a pause, 48 h  *)
(*   refunds:   two obligations of one order and a correction              *)
(*   reminders: two subjects of one clock that share a batch of one, or    *)
(*              one of each of two clocks, and two scanners                *)
(***************************************************************************)
EXTENDS Refunds, Reminders

CONSTANTS w1, w2

VARIABLES
  part,
  orderState, endKind, slot, draft, revisions, moves, baseLeft, review, overdueLeft,
  orderMode, orderPaused,
  proposal, propBy, propKind, propRefund, propState, propMoves, propRemaining, propTimer, made,
  ended, dispute, opener, openState, openRemaining, responded, answerRaw, answer, extendLeft,
  withdrew, freshDelivery, case, owed, sinceHold

Order == INSTANCE PaidOrder WITH
  state <- orderState, mode <- orderMode, paused <- orderPaused,
  ReviewWindow <- 2, Allowance <- 1, Amount <- 2, Turnaround <- 1, Grace <- 1, RestoreFloor <- 1,
  ProposalResponse <- 1, MaxProposals <- 1, TriggerWindow <- 1, DisputeResponse <- 1,
  MaxExtension <- 2, Refunds <- {1}, Modes <- {"enabled"}

\* Two subjects of one clock, or one of each of two clocks.
MCScenes == {<<"delivery_due", "delivery_due">>, <<"dispute_response", "delivery_due">>,
             <<"dispute_response", "refund_send">>}

orderVars == <<orderState, endKind, slot, draft, revisions, moves, baseLeft, review, overdueLeft,
               orderMode, orderPaused, proposal, propBy, propKind, propRefund, propState, propMoves,
               propRemaining, propTimer, made, ended, dispute, opener, openState, openRemaining,
               responded, answerRaw, answer, extendLeft, withdrew, freshDelivery, case, owed,
               sinceHold>>
mcVars == <<part, orderVars, refundVars, remindersVars>>

MCInit ==
  /\ part \in {"order", "refunds", "reminders"}
  /\ Order!Init /\ RefundInit /\ RemindersInit
  /\ part # "reminders" => ClockOf = <<"delivery_due", "delivery_due">>
  /\ part # "refunds" => claim = "none"

OrderOnly(A)    == part = "order" /\ A /\ UNCHANGED <<part, refundVars, remindersVars>>
RefundOnly(A)   == part = "refunds" /\ A /\ UNCHANGED <<part, orderVars, remindersVars>>
ReminderOnly(A) == part = "reminders" /\ A /\ UNCHANGED <<part, orderVars, refundVars>>

MCNext ==
  \/ part = "order" /\ Order!Next /\ UNCHANGED <<part, refundVars, remindersVars>>
  \/ part = "refunds" /\ RefundNext /\ UNCHANGED <<part, orderVars, remindersVars>>
  \/ part = "reminders" /\ RemindersNext /\ UNCHANGED <<part, orderVars, refundVars>>

\* The fairness of PaidOrder, Refunds and Reminders: a behaviour is about one of
\* them, so a conjunct may name one action of each.  The mode of the order is
\* enabled throughout, so the observations of its mode are not needed.
MCSpec ==
  /\ MCInit /\ [][MCNext]_mcVars
  /\ SF_mcVars(ReminderOnly(tick))
  /\ WF_mcVars(\/ OrderOnly(Order!Tick) \/ RefundOnly(observeResolutionMode)
               \/ ReminderOnly(resume))
  /\ WF_mcVars(\/ OrderOnly(Order!CompleteDue) \/ RefundOnly(escalateUnanswered)
               \/ ReminderOnly(passStep(w1)))
  /\ WF_mcVars(\/ OrderOnly(Order!ScanProposal) \/ RefundOnly(timePasses(1))
               \/ ReminderOnly(passStep(w2)))
  /\ WF_mcVars(RefundOnly(timePasses(2)))
  /\ WF_mcVars(RefundOnly(scanOverdue(1)))
  /\ WF_mcVars(RefundOnly(scanOverdue(2)))
  /\ WF_mcVars(RefundOnly(presumeReceived(1)))
  /\ WF_mcVars(RefundOnly(presumeReceived(2)))

\* No deadline is sat out: holds and stale proposals of the order end, refunds reach an
\* answer or the owner, and a missed deadline is announced (completeDue, scanProposals,
\* escalateUnanswered, presumeReceived, reminders).
DeadlinesMoveOn ==
  /\ Order!HoldsRunOut /\ Order!StaleProposalEnds
  /\ RefundsMoveOn /\ MissedIsAnnounced
=============================================================================
