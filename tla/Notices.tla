------------------------------ MODULE Notices ------------------------------
(***************************************************************************)
(* From committed domain events to inbox notices.  Every command commits   *)
(* its rows together with outbox events; the worker consumes an event any  *)
(* time later, more than once and in any order, re-reads the rows it names *)
(* to validate it (apps/worker/src/*-events.ts) and to find the recipients *)
(* (packages/notifications/src/recipients.ts), and writes one notice per   *)
(* event and recipient (materializer.ts).                                  *)
(*                                                                         *)
(* The rows live on meanwhile: a dispute is ruled, a claim escalated and   *)
(* then decided.  `story' picks the part of the domain that moves.  Party, *)
(* owner, reporter and subject are distinct users with open accounts.      *)
(***************************************************************************)
EXTENDS Naturals, FiniteSets

CONSTANT MaxCommits    \* bound: transactions that commit events, per story

Proposals == {"p1", "p2"}
Cases     == {"disputeCase", "claimCase", "reportCase", "deniedCase", "overdueCase", "appealCase"}
Ids       == Proposals \cup Cases \cup
             {"order", "intent", "dispute", "claim", "refund", "hide", "penalty", "appeal", "tip",
              "account"}
Stories   == {"order", "dispute", "claim", "refund", "trust", "other"}

ASSUME CommitsAssumption == MaxCommits \in [Stories -> Nat]

VARIABLES story,   \* the part of the domain this behaviour is about
          clock,   \* commits so far: the time of the latest
          state,   \* state of every row, "none" before it exists
          made,    \* when it was created
          stateSince, \* when it took its present state (endedAt, closedAt of a final one)
          by,      \* the party that opened the dispute or made the proposal
          facts,   \* append-only rows: commission_events, statements, refund events...
          outbox,  \* committed events
          done,    \* events consumed so far
          told     \* notices: <<event, recipient, kind>>

noticeVars == <<story, clock, state, made, stateSince, by, facts, outbox, done, told>>

NoticeInit ==
  /\ story \in Stories
  /\ clock = 0
  /\ state = [i \in Ids |-> IF i = "refund" /\ story = "refund" THEN "due" ELSE "none"]
  /\ made = [i \in Ids |-> 0] /\ stateSince = [i \in Ids |-> 0] /\ by = [i \in Ids |-> "none"]
  /\ facts = {} /\ outbox = {} /\ done = {} /\ told = {}

opposite(role) == IF role = "buyer" THEN "creator" ELSE "buyer"
BOTH == {"buyer", "creator"}

proposalEnds == {"accepted", "declined", "withdrawn", "expired", "lapsed", "superseded"}
disputeEnds  == {"withdrawn", "settled", "ruled", "superseded"}

---------------------------------------------------------------------------
(* A transaction: rows change, append-only facts and events are inserted.  *)

domainEvent(family, type, id, s) ==
  [family |-> family, type |-> type, id |-> id, state |-> s, at |-> clock + 1]

commits(next, newFacts, events) ==
  /\ clock < MaxCommits[story] /\ clock' = clock + 1
  /\ state' = next
  /\ made' = [i \in Ids |-> IF state[i] = "none" /\ next[i] # "none" THEN clock + 1 ELSE made[i]]
  /\ stateSince' = [i \in Ids |-> IF state[i] # next[i] THEN clock + 1 ELSE stateSince[i]]
  /\ facts' = facts \cup {<<f, clock + 1>> : f \in newFacts}
  /\ outbox' = outbox \cup events
  /\ UNCHANGED <<story, done, told>>

moves(next, newFacts, events) == commits(next, newFacts, events) /\ UNCHANGED by

(* A case for the owner, unless one is open (openCase).                    *)
opens(c) == domainEvent("trust", "case_opened", c, "open")

---------------------------------------------------------------------------
(* Orders: insertOrderEvent appends a commission_events row and its event. *)

orderMove(s) ==
  moves([state EXCEPT !["order"] = s], {s}, {domainEvent("commission", s, "order", s)})

advance ==
  /\ story = "order"
  /\ \/ state["order"] = "none" /\ \E s \in {"requested", "awaiting_payment"} : orderMove(s)
     \/ state["order"] = "requested" /\ \E s \in {"quoted", "awaiting_payment"} : orderMove(s)
     \/ state["order"] = "quoted" /\ orderMove("awaiting_payment")
     \/ state["order"] = "delivered" /\ orderMove("completed")
     \/ state["order"] \notin {"none", "completed", "closed"} /\ orderMove("closed")

deliver ==
  /\ story = "order" /\ state["order"] = "in_progress"
  /\ \/ moves(state, {"submission"}, {domainEvent("commission", "submission_sent", "order", "draft")})
     \/ /\ moves([state EXCEPT !["order"] = "delivered"], {"submission", "delivered"},
                 {domainEvent("commission", "submission_sent", "order", "final"),
                  domainEvent("commission", "delivered", "order", "delivered")})

(* A draft is approved, or changes are asked of a draft or a delivery,     *)
(* which puts the order in progress (again).                               *)
respond ==
  /\ story = "order"
  /\ \E kind \in {"draft", "final"} :
       /\ state["order"] = IF kind = "draft" THEN "in_progress" ELSE "delivered"
       /\ \E f \in facts : f[1] = "submission"
       /\ LET answered == domainEvent("commission", "submission_responded", "order", kind)
          IN  \/ kind = "draft" /\ moves(state, {"response"}, {answered})
              \/ moves([state EXCEPT !["order"] = "in_progress"], {"response", "in_progress"},
                       {answered, domainEvent("commission", "in_progress", "order", "in_progress")})

claimTransfer ==
  /\ story = "order" /\ state["order"] = "awaiting_payment"
  /\ \A f \in facts : f[1] # "claim"
  /\ moves(state, {"claim"}, {domainEvent("commission", "transfer_claimed", "order", "claimed")})

(* Payment puts the order in progress and announces only the confirmation. *)
confirmPayment ==
  /\ story = "order" /\ state["order"] = "awaiting_payment"
  /\ moves([state EXCEPT !["order"] = "in_progress", !["intent"] = "confirmed"], {"in_progress"},
           {domainEvent("commission", "confirmed", "intent", "confirmed")})

---------------------------------------------------------------------------
(* Proposals, disputes, rulings.                                           *)

orderOver == state["order"] \in {"completed", "closed"}

endedProposal(p, s) == domainEvent("resolution", "proposal_ended", p, s)
closedDispute(s)    == domainEvent("resolution", "dispute_closed", "dispute", s)

(* What ends with the dispute: pending proposals are superseded, the case  *)
(* is resolved.                                                            *)
pending == {p \in Proposals : state[p] = "pending"}
endsWith(s) ==
  [i \in Ids |-> IF state["dispute"] # "open" \/ i \notin {"dispute", "disputeCase"} THEN state[i]
                ELSE IF i = "dispute" THEN s ELSE "resolved"]
supersede(s) == [i \in Ids |-> IF i \in pending THEN "superseded" ELSE endsWith(s)[i]]
superseded(s) ==
  {endedProposal(p, "superseded") : p \in pending} \cup
  (IF state["dispute"] = "open" THEN {closedDispute(s)} ELSE {})

makeProposal ==
  /\ story = "dispute" /\ pending = {} /\ ~orderOver
  /\ \E p \in Proposals, r \in BOTH :
       /\ state[p] = "none" /\ (p = "p2" => state["p1"] # "none")
       /\ commits([state EXCEPT ![p] = "pending"], {},
                  {domainEvent("resolution", "proposal_made", p, "pending")})
       /\ by' = [by EXCEPT ![p] = r]

recordEnd ==
  /\ story = "dispute"
  /\ \E p \in pending, s \in {"declined", "withdrawn", "expired", "lapsed"} :
       moves([state EXCEPT ![p] = s], {}, {endedProposal(p, s)})

(* An agreement ends the order and settles an open dispute.                *)
settleDispute ==
  /\ story = "dispute"
  /\ \E p \in pending :
       moves([endsWith("settled") EXCEPT ![p] = "accepted", !["order"] = "closed"],
             {"closed"},
             {endedProposal(p, "accepted"), domainEvent("commission", "closed", "order", "closed")} \cup
             (IF state["dispute"] = "open" THEN {closedDispute("settled")} ELSE {}))

openDispute ==
  /\ story = "dispute" /\ state["dispute"] = "none" /\ ~orderOver
  /\ \E r \in BOTH :
       /\ commits([state EXCEPT !["dispute"] = "open", !["disputeCase"] = "open"], {},
                  {domainEvent("resolution", "dispute_opened", "dispute", "open"), opens("disputeCase")})
       /\ by' = [by EXCEPT !["dispute"] = r]

addStatement ==
  /\ story = "dispute" /\ state["dispute"] = "open"
  /\ \E r \in BOTH \cup {"owner"} :
       /\ \A f \in facts : f[1] # r
       /\ moves(state, {r}, {domainEvent("resolution", "dispute_statement_added", "dispute", r)})

withdrawDispute ==
  /\ story = "dispute" /\ state["dispute"] = "open"
  /\ moves(endsWith("withdrawn"), {}, {closedDispute("withdrawn")})

recordRuling ==
  /\ story = "dispute" /\ state["dispute"] = "open"
  /\ \E s \in {"completed", "closed"} : 
       moves([supersede("ruled") EXCEPT !["order"] = s], {"ruling", s},
             superseded("ruled") \cup {domainEvent("resolution", "ruling_recorded", "dispute", "ruled"),
                                       domainEvent("commission", s, "order", s)})

correctRuling ==
  /\ story = "dispute" /\ state["dispute"] = "ruled" /\ \A f \in facts : f[1] # "correction"
  /\ moves(state, {"correction"}, {domainEvent("resolution", "ruling_corrected", "dispute", "ruled")})

(* After a suspension the buyer cancels, or the owner freezes the creator:  *)
(* the order closes and whatever was open is superseded.  Only the owner's *)
(* freeze has an event and an audit row of its own.                        *)
closeSuspendedPaidOrder ==
  /\ story = "dispute" /\ ~orderOver
  /\ \E freeze \in {{}, {"freeze"}} :
       moves([supersede("superseded") EXCEPT !["order"] = "closed"], {"closed"} \cup freeze,
             superseded("superseded") \cup {domainEvent("commission", "closed", "order", "closed")} \cup
             {domainEvent("resolution", "fulfillment_frozen", "order", "closed") : f \in freeze})

---------------------------------------------------------------------------
(* Late payment claims.                                                    *)

endedClaim(s) == domainEvent("resolution", "late_claim_ended", "claim", s)

fileLateClaim ==
  /\ story = "claim" /\ state["claim"] = "none"
  /\ moves([state EXCEPT !["claim"] = "awaiting_creator"], {},
           {domainEvent("resolution", "late_claim_filed", "claim", "awaiting_creator")})

(* Received: a refund is owed.  Denied or unanswered: the owner decides.   *)
recordLateClaimState ==
  /\ story = "claim"
  /\ \/ /\ state["claim"] = "awaiting_creator"
        /\ \/ moves([state EXCEPT !["claim"] = "refund_owed"], {}, {endedClaim("refund_owed")})
           \/ moves([state EXCEPT !["claim"] = "escalated", !["claimCase"] = "open"], {},
                    {endedClaim("escalated"), opens("claimCase")})
     \/ /\ state["claim"] = "escalated"
        /\ \E s \in {"refund_owed", "rejected"} :
             moves([state EXCEPT !["claim"] = s, !["claimCase"] = "resolved"], {}, {endedClaim(s)})

---------------------------------------------------------------------------
(* Refund obligations: every announced action is a refund event.           *)

(* The silent actions: an extension, a changed amount, a purge.            *)
announceRefundEvent(action, next, events) ==
  moves(next, {action}, {domainEvent("refund", "event_recorded", "refund", action)} \cup events)

refundTo(s)     == [state EXCEPT !["refund"] = s]
resolving(c, s) ==
  [state EXCEPT !["refund"] = s, ![c] = IF state[c] = "open" THEN "resolved" ELSE state[c]]

refundStep ==
  /\ story = "refund"
  /\ \/ state["refund"] = "due" /\ announceRefundEvent("created", refundTo("awaiting_destination"), {})
     \/ /\ state["refund"] \in {"awaiting_destination", "awaiting_send"}
        /\ announceRefundEvent("destination_entered", refundTo("awaiting_send"), {})
     \/ /\ state["refund"] = "awaiting_send"
        /\ announceRefundEvent("sent_recorded", resolving("overdueCase", "sent"), {})
     \/ /\ state["refund"] = "sent"
        /\ \/ announceRefundEvent("receipt_confirmed", refundTo("received"), {})
           \/ announceRefundEvent("presumed_received", refundTo("presumed"), {})
           \/ /\ state["deniedCase"] = "none"
              /\ announceRefundEvent("receipt_denied",
                    [refundTo("not_received") EXCEPT !["deniedCase"] = "open"], {opens("deniedCase")})
     \/ /\ state["refund"] = "not_received"
        /\ \/ announceRefundEvent("resend_required", resolving("deniedCase", "awaiting_send"), {})
           \/ announceRefundEvent("waived", resolving("deniedCase", "waived"), {})

(* The scan's case is the only sign that a refund is overdue.              *)
overdue ==
  /\ story = "refund" /\ state["refund"] = "awaiting_send" /\ state["overdueCase"] = "none"
  /\ moves([state EXCEPT !["overdueCase"] = "open"], {}, {opens("overdueCase")})

---------------------------------------------------------------------------
(* Reports, hides, penalties, appeals.                                     *)

report ==
  /\ story = "trust" /\ state["reportCase"] \in {"none", "open"}
  /\ \A f \in facts : f[1] # "report"
  /\ moves([state EXCEPT !["reportCase"] = "open"], {"report"},
           {domainEvent("trust", "report_received", "reportCase", "open")} \cup
           (IF state["reportCase"] = "open" THEN {} ELSE {opens("reportCase")}))

moderate ==
  /\ story = "trust" /\ state["reportCase"] = "open"
  /\ \/ /\ state["hide"] = "none"
        /\ moves([state EXCEPT !["hide"] = "hidden"], {},
                 {domainEvent("trust", "content_hidden", "hide", "hidden")})
     \/ /\ state["hide"] = "hidden"
        /\ moves([state EXCEPT !["hide"] = "released"], {},
                 {domainEvent("trust", "content_restored", "hide", "released")})
     \/ /\ state["penalty"] = "none"
        /\ \E k \in {"restriction", "suspension"} :
             moves([state EXCEPT !["penalty"] = "active"], {k},
                   {domainEvent("trust", "penalty_applied", "penalty", k)})
     \/ moves([state EXCEPT !["reportCase"] = "resolved"], {},
              {domainEvent("trust", "report_case_closed", "reportCase", "resolved")})

appeal ==
  /\ story = "trust"
  /\ \/ /\ state["penalty"] = "active" /\ state["appeal"] = "none"
        /\ moves([state EXCEPT !["appeal"] = "open", !["appealCase"] = "open"], {},
                 {domainEvent("trust", "appeal_submitted", "appeal", "open"), opens("appealCase")})
     \/ /\ state["appeal"] = "open"
        /\ \/ moves([state EXCEPT !["appeal"] = "upheld", !["appealCase"] = "resolved"], {},
                    {domainEvent("trust", "appeal_decided", "appeal", "upheld")})
           \/ moves([state EXCEPT !["appeal"] = "reversed", !["appealCase"] = "resolved",
                                  !["penalty"] = "ended"], {},
                    {domainEvent("trust", "appeal_decided", "appeal", "reversed"),
                     domainEvent("trust", "penalty_ended", "penalty", "ended")})

---------------------------------------------------------------------------
(* Tips and accounts: the worker's own event after a tip's, outcomes of    *)
(* applications, capabilities and deposits.                                *)

otherEvents ==
  /\ story = "other"
  /\ \/ moves([state EXCEPT !["tip"] = "open"], {},
             {domainEvent("tip", "notification_available", "tip", "created")})
     \/ /\ state["tip"] = "open"
        /\ moves(state, {}, {domainEvent("tip", "transfer_claimed", "tip", "claimed")})
     \/ \E outcome \in {"application_outcome_email", "capability_outcome_email"} :
          moves([state EXCEPT !["account"] = "open"], {},
                {domainEvent("creator", outcome, "account", "open")})
     \/ moves([state EXCEPT !["account"] = "open"], {},
              {domainEvent("payments", "verification_deposit_refund_sent", "account", "open")})

---------------------------------------------------------------------------
(* The worker's validators: the committed facts an event must still agree  *)
(* with when it is consumed.                                               *)

recorded(f, e) == <<f, e.at>> \in facts

validateCommissionOutboxEvent(e) ==
  CASE e.type = "confirmed" -> state["intent"] = "confirmed" /\ stateSince["intent"] = e.at
    [] e.type = "transfer_claimed" -> recorded("claim", e)
    [] e.type = "submission_sent" -> recorded("submission", e)
    [] e.type = "submission_responded" -> recorded("response", e)
    [] OTHER -> recorded(e.type, e)

(* Fault model of lateClaimEnded: an escalation is taken for an end.       *)
lateClaimEndedForGood(e) == state["claim"] = e.state /\ stateSince["claim"] = e.at

(* An escalation has no end and may have been decided since: its case      *)
(* vouches for it.                                                         *)
lateClaimEnded(e) ==
  IF e.state = "escalated"
  THEN /\ state["claimCase"] # "none" /\ made["claimCase"] = e.at
       /\ state["claim"] \in {"escalated", "refund_owed", "rejected"}
  ELSE /\ state["claim"] = e.state /\ e.state \in {"refund_owed", "rejected"}
       /\ stateSince["claim"] = e.at

validateResolutionOutboxEvent(e) ==
  CASE e.type = "case_opened" -> state[e.id] \in {"open", "resolved"} /\ made[e.id] = e.at
    [] e.type = "proposal_made" -> made[e.id] = e.at
    [] e.type = "proposal_ended" ->
         state[e.id] = e.state /\ e.state \in proposalEnds /\ stateSince[e.id] = e.at
    [] e.type = "dispute_statement_added" -> recorded(e.state, e)
    [] e.type = "dispute_opened" -> made["dispute"] = e.at
    [] e.type = "dispute_closed" ->
         state[e.id] = e.state /\ e.state \in disputeEnds /\ stateSince[e.id] = e.at
    [] e.type = "ruling_recorded" -> state["dispute"] = "ruled" /\ recorded("ruling", e)
    [] e.type = "ruling_corrected" -> recorded("correction", e)
    [] e.type = "late_claim_filed" -> made["claim"] = e.at
    [] e.type = "late_claim_ended" -> lateClaimEnded(e)
    [] e.type = "fulfillment_frozen" -> recorded("freeze", e)
    [] OTHER -> FALSE

validateRefundOutboxEvent(e) == recorded(e.state, e)

---------------------------------------------------------------------------
(* Recipients, read from the rows when the event is consumed.              *)

toRoles(roles, kind) == {<<r, kind>> : r \in roles}

ORDER_NOTICES(type) ==
  CASE type = "requested" -> toRoles({"creator"}, "order_requested")
    [] type = "quoted" -> toRoles({"buyer"}, "order_quoted")
    [] type = "awaiting_payment" -> toRoles({"buyer"}, "order_payment_due")
    [] type = "transfer_claimed" -> toRoles({"creator"}, "order_transfer_claimed")
    [] type = "delivered" -> toRoles({"buyer"}, "order_delivered")
    [] type = "completed" -> toRoles(BOTH, "order_completed")
    [] type = "closed" -> toRoles(BOTH, "order_closed")
    [] OTHER -> {}

(* A reopened order was announced by the response, a final submission by   *)
(* the delivery.                                                           *)
commissionNotices(e) ==
  CASE e.type = "confirmed" -> toRoles(BOTH, "order_in_progress")
    [] e.type = "submission_sent" -> IF e.state = "draft" THEN toRoles({"buyer"}, "draft_sent") ELSE {}
    [] e.type = "submission_responded" -> toRoles({"creator"}, "draft_responded")
    [] OTHER -> ORDER_NOTICES(e.type)

resolutionNotices(e) ==
  CASE e.type = "proposal_made" -> toRoles({opposite(by[e.id])}, "proposal_received")
    [] e.type = "proposal_ended" -> toRoles(BOTH, "proposal_ended")
    [] e.type = "dispute_opened" -> toRoles({opposite(by[e.id])}, "dispute_opened")
    [] e.type = "dispute_closed" -> toRoles(BOTH, "dispute_closed")
    [] e.type = "dispute_statement_added" ->
         toRoles(IF e.state = "owner" THEN BOTH ELSE {opposite(e.state)}, "dispute_statement")
    [] e.type = "ruling_recorded" -> toRoles(BOTH, "ruling_recorded")
    [] e.type = "ruling_corrected" -> toRoles(BOTH, "ruling_corrected")
    [] e.type = "late_claim_filed" -> toRoles({"creator"}, "late_claim_filed")
    [] e.type = "late_claim_ended" -> toRoles(BOTH, "late_claim_ended")
    [] e.type = "fulfillment_frozen" -> {}

refundNotices(e) ==
  CASE e.state = "created" -> {<<"buyer", "refund_account_needed">>, <<"creator", "refund_owed">>}
    [] e.state = "destination_entered" -> toRoles({"creator"}, "refund_send_due")
    [] e.state = "sent_recorded" -> toRoles({"buyer"}, "refund_sent")
    [] e.state = "receipt_denied" -> toRoles({"creator"}, "refund_not_received")
    [] e.state = "resend_required" -> toRoles({"creator"}, "refund_resend_required")
    [] e.state \in {"receipt_confirmed", "presumed_received", "waived"} -> toRoles(BOTH, "refund_settled")

(* The overdue case tells the parties too.                                 *)
trustNotices(e) ==
  CASE e.type = "case_opened" ->
         {<<"owner", "owner_case_opened">>} \cup
         (IF e.id = "overdueCase" THEN toRoles(BOTH, "refund_overdue") ELSE {})
    [] e.type = "report_received" -> {<<"reporter", "report_received">>}
    [] e.type = "report_case_closed" -> {<<"reporter", "report_closed">>}
    [] e.type = "content_hidden" -> {<<"subject", "content_hidden">>}
    [] e.type = "content_restored" -> {<<"subject", "content_restored">>}
    [] e.type = "penalty_applied" -> {<<"subject", "penalty_applied">>}
    [] e.type = "penalty_ended" -> {<<"subject", "penalty_ended">>}
    [] e.type = "appeal_submitted" -> {<<"subject", "appeal_received">>}
    [] e.type = "appeal_decided" -> {<<"subject", "appeal_decided">>}

tipNotices(e) ==
  {<<"creator", IF e.type = "transfer_claimed" THEN "tip_transfer_claimed" ELSE "tip_status">>}

accountNotices(e) ==
  {<<"creator", CASE e.type = "application_outcome_email" -> "account_application"
                  [] e.type = "capability_outcome_email" -> "account_creator_status"
                  [] OTHER -> "account_deposit_refund">>}

resolveNotices(e) ==
  CASE e.family = "commission" -> commissionNotices(e)
    [] e.family = "resolution" -> resolutionNotices(e)
    [] e.family = "refund" -> refundNotices(e)
    [] e.family = "tip" -> tipNotices(e)
    [] e.family \in {"creator", "payments"} -> accountNotices(e)
    [] e.family = "trust" -> trustNotices(e)

(* The rows must still name the recipients the event was committed for.    *)
resolvable(e) ==
  CASE e.type = "penalty_applied" -> recorded(e.state, e)
    [] e.type = "appeal_decided" -> state["appeal"] = e.state
    [] OTHER -> state[e.id] # "none" \/ e.type \in {"closed", "completed"}

valid(e) ==
  /\ CASE (e.family = "resolution" \/ e.type = "case_opened") -> validateResolutionOutboxEvent(e)
       [] e.family = "commission" -> validateCommissionOutboxEvent(e)
       [] e.family = "refund" -> validateRefundOutboxEvent(e)
       [] OTHER -> TRUE
  /\ resolvable(e)

---------------------------------------------------------------------------
(* The worker consumes an event, again whenever it died before the         *)
(* acknowledgement: it validates, then writes the notices in one           *)
(* transaction, each once per event and recipient.                         *)

writeNotice(e) ==
  told' = told \cup {[event |-> e, who |-> n[1], kind |-> n[2]] : n \in resolveNotices(e)}

consume(e) ==
  /\ valid(e) /\ writeNotice(e)
  /\ done' = done \cup {e}
  /\ UNCHANGED <<story, clock, state, made, stateSince, by, facts, outbox>>

NoticeNext ==
  \/ advance \/ deliver \/ respond \/ claimTransfer \/ confirmPayment
  \/ makeProposal \/ recordEnd \/ settleDispute
  \/ openDispute \/ addStatement \/ withdrawDispute
  \/ recordRuling \/ correctRuling \/ closeSuspendedPaidOrder
  \/ fileLateClaim \/ recordLateClaimState
  \/ refundStep \/ overdue
  \/ report \/ moderate \/ appeal
  \/ otherEvents
  \/ \E e \in outbox : consume(e)

NoticeSpec == NoticeInit /\ [][NoticeNext]_noticeVars

---------------------------------------------------------------------------
(* However late an event is consumed, whatever happened to its rows since, *)
(* its validator accepts it and its recipients can be found: an event that *)
(* an honest transaction committed is never refused for good               *)
(* (apps/worker/src/resolution-events.ts:13-14).                           *)
EventsStayValid == \A e \in outbox : valid(e)

(* Who has to act next, on which row, and the notices that say so.         *)
when(i, s, who, kinds) == IF state[i] = s THEN {[id |-> i, who |-> who, kinds |-> kinds]} ELSE {}

Duties ==
  (IF story # "order" THEN {} ELSE
     when("order", "requested", "creator", {"order_requested"}) \cup
     when("order", "quoted", "buyer", {"order_quoted"}) \cup
     when("order", "awaiting_payment", "buyer", {"order_payment_due"}) \cup
     when("order", "in_progress", "creator", {"order_in_progress", "draft_responded"}) \cup
     when("order", "delivered", "buyer", {"order_delivered"})) \cup
  (UNION {when(p, "pending", opposite(by[p]), {"proposal_received"}) : p \in Proposals}) \cup
  when("dispute", "open", opposite(by["dispute"]), {"dispute_opened"}) \cup
  when("claim", "awaiting_creator", "creator", {"late_claim_filed"}) \cup
  when("refund", "awaiting_destination", "buyer", {"refund_account_needed"}) \cup
  when("refund", "awaiting_send", "creator", {"refund_send_due", "refund_resend_required"}) \cup
  when("refund", "sent", "buyer", {"refund_sent"}) \cup
  (UNION {when(c, "open", "owner", {"owner_case_opened"}) : c \in Cases})

(* Once every committed event is consumed, whoever has to act next on an   *)
(* order, a proposal, a dispute, a claim, a refund or a case has a notice  *)
(* from the very transaction that put the row into that state, although    *)
(* some transitions announce themselves through another event.             *)
WhoeverMustActIsTold ==
  outbox = done =>
    \A d \in Duties : \E n \in told :
      n.who = d.who /\ n.kind \in d.kinds /\ n.event.at = stateSince[d.id]

(* Whoever has to act next is told, and a notice is only made of an event  *)
(* that its rows still bear out when the worker reads it (recipients,      *)
(* resolution-events).                                                     *)
NoticesAreRight == WhoeverMustActIsTold /\ EventsStayValid
=============================================================================
