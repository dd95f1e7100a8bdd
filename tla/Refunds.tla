------------------------------ MODULE Refunds ------------------------------
(***************************************************************************)
(* The refund obligations of one commission order: the debt a ruling, its  *)
(* corrections or a late payment creates, the buyer's destination, the     *)
(* creator's sends, the buyer's answer, the cases of the owner and the     *)
(* maintenance scan (packages/payments/src/commission-refund-*.ts,         *)
(* packages/resolutions/src/owner-service.ts, late-claim-service.ts,       *)
(* maintenance.ts, migrations 0047 and 0048).                              *)
(*                                                                         *)
(* Every command and every item of the scan takes the creator fence, so a  *)
(* command is one step; only the purge of destinations locks single rows.  *)
(* Versions, idempotent replays, recent authentication and text limits     *)
(* only refuse a command.  A deadline is its stored instant and the        *)
(* effective one, which the pauses of the resolution mode push back.       *)
(***************************************************************************)
EXTENDS Integers, FiniteSets, FiniteSetsExt

CONSTANTS Obligations,    \* 1 .. n, in the order they are created
          Amount,         \* amount of the order
          MaxCorrections  \* bound: corrections of the ruling

\* A price is positive; the obligations are numbered as they are created.
ASSUME RefundConstants ==
  /\ Amount \in Nat \ {0} /\ MaxCorrections \in Nat
  /\ IsFiniteSet(Obligations) /\ Obligations = 1 .. Cardinality(Obligations)

VARIABLES source,       \* why the obligation exists, "none" before the row
          amount,       \* amount_vnd
          state,        \* commission_refund_obligations.state
          sent,         \* obligations with a row in commission_refund_sends
          due,          \* due_at: "none", "running", "stored" passed, "lapsed"
          confirm,      \* confirm_by, likewise
          purged,       \* obligations with destination_purged_at
          overdue,      \* open refund_overdue cases
          denied,       \* open refund_not_received cases
          ruling,       \* refund amount of the ruling in force, <<>> before it
          corrections,  \* corrections recorded
          mode,         \* configured resolution mode
          paused,       \* a resolution pause is open
          claim,        \* late payment claim of an order closed unpaid; "paid" otherwise
          respond,      \* creator_respond_by of the claim, a timer
          late          \* the late_payment case of the claim is open

obligationVars == <<source, amount, state, sent, due, confirm, purged>>
caseVars       == <<overdue, denied>>
claimVars      == <<claim, respond, late>>
rulingVars     == <<ruling, corrections>>
modeVars       == <<mode, paused>>
refundVars     == <<obligationVars, caseVars, rulingVars, modeVars, claimVars>>

RefundStates == {"none", "awaiting_destination", "awaiting_send", "sent",
                 "received", "presumed_received", "not_received", "waived"}
RulingSource == {"ruling", "correction"}
Sources      == {"none", "late_payment", "late_payment_provider"} \cup RulingSource
Claims       == {"paid", "none", "awaiting_creator", "escalated", "refund_owed", "rejected"}
Ended        == {"received", "presumed_received", "waived"}
Timers       == {"none", "running", "stored", "lapsed"}

RefundInit ==
  /\ source = [o \in Obligations |-> "none"]
  /\ amount = [o \in Obligations |-> 0]
  /\ state = [o \in Obligations |-> "none"]
  /\ due = [o \in Obligations |-> "none"]
  /\ confirm = [o \in Obligations |-> "none"]
  /\ sent = {} /\ purged = {} /\ overdue = {} /\ denied = {}
  /\ ruling = <<>> /\ corrections = 0
  /\ mode = "enabled" /\ paused = FALSE
  /\ claim \in {"paid", "none"}
  /\ respond = "none" /\ late = FALSE

-----------------------------------------------------------------------------
created        == {o \in Obligations : source[o] # "none"}
nextObligation == Cardinality(created) + 1
enabled        == mode = "enabled"

\* The debt of a ruling: what is not waived, and what was sent before a waiver.
\* A correction counts both.
counted    == {o \in created : /\ source[o] \in RulingSource
                               /\ state[o] # "waived" \/ o \in sent}
\* Fault model of adjustable: ignores earlier sends.
adjustableSent == {o \in counted : state[o] \in {"awaiting_destination", "awaiting_send"}}

adjustable == {o \in counted : state[o] \in {"awaiting_destination", "awaiting_send"} /\ o \notin sent}

\* The sum of a weight of the obligations, added in the order of their rows.
sum(weight) ==
  LET upTo[k \in 0 .. Cardinality(Obligations)] ==
        IF k = 0 THEN 0 ELSE upTo[k - 1] + weight[k]
  IN upTo[Cardinality(Obligations)]
total(os) == sum([o \in Obligations |-> IF o \in os THEN amount[o] ELSE 0])
monus(a, b) == IF a > b THEN a - b ELSE 0

\* One obligation per source; a repeated call finds the existing one.
createObligation(src, vnd) ==
  /\ nextObligation \in Obligations
  /\ source' = [source EXCEPT ![nextObligation] = src]
  /\ amount' = [amount EXCEPT ![nextObligation] = vnd]
  /\ state' = [state EXCEPT ![nextObligation] = "awaiting_destination"]
  /\ UNCHANGED <<sent, due, confirm, purged>>

\* The owner's ruling on a dispute of the paid order.
rule(vnd) ==
  /\ enabled /\ claim = "paid"
  /\ ruling = <<>>
  /\ ruling' = <<vnd>>
  /\ IF vnd > 0 THEN createObligation("ruling", vnd) ELSE UNCHANGED obligationVars
  /\ UNCHANGED <<caseVars, corrections, modeVars, claimVars>>

\* adjustAmount for the adjustable obligations, the latest first, until the
\* reduction is used up; an obligation that is reduced to nothing is waived and
\* its overdue case resolved.
adjustAmount(reduction) ==
  LET newer(o) == total({q \in adjustable : q > o})
      cut(o)   == IF o \in adjustable THEN Min({amount[o], monus(reduction, newer(o))}) ELSE 0
      gone     == {o \in adjustable : cut(o) = amount[o]}
  IN /\ amount' = [o \in Obligations |->
                     IF o \in adjustable \ gone THEN amount[o] - cut(o) ELSE amount[o]]
     /\ state' = [o \in Obligations |-> IF o \in gone THEN "waived" ELSE state[o]]
     /\ overdue' = overdue \ gone
     /\ UNCHANGED <<source, sent, due, confirm, purged, denied>>

\* A higher amount adds an obligation for the difference, a lower one reduces
\* what has not been sent, never below the money that is fixed.
correctRuling(vnd) ==
  /\ enabled /\ ruling # <<>>
  /\ corrections < MaxCorrections
  /\ corrections' = corrections + 1
  /\ ruling' = <<vnd>>
  /\ IF vnd > total(counted)
     THEN createObligation("correction", vnd - total(counted)) /\ UNCHANGED caseVars
     ELSE LET fixed  == total(counted) - total(adjustable)
              target == monus(vnd, fixed)
          IN adjustAmount(total(adjustable) - target)
  /\ UNCHANGED <<modeVars, claimVars>>

-----------------------------------------------------------------------------
(* The parties.                                                            *)

\* The first destination, or a corrected one before any send: the deadline
\* starts anew and an overdue case ends.
enterDestination(o) ==
  /\ enabled
  /\ state[o] \in {"awaiting_destination", "awaiting_send"}
  /\ o \notin sent
  /\ state' = [state EXCEPT ![o] = "awaiting_send"]
  /\ due' = [due EXCEPT ![o] = "running"]
  /\ overdue' = overdue \ {o}
  /\ UNCHANGED <<source, amount, sent, confirm, purged, denied, rulingVars, modeVars, claimVars>>

recordSend(o) ==
  /\ enabled
  /\ state[o] = "awaiting_send"
  /\ state' = [state EXCEPT ![o] = "sent"]
  /\ sent' = sent \cup {o}
  /\ confirm' = [confirm EXCEPT ![o] = "running"]
  /\ overdue' = overdue \ {o}
  /\ UNCHANGED <<source, amount, due, purged, denied, rulingVars, modeVars, claimVars>>

\* Until the effective deadline; during a pause there is none and the command
\* is refused.
confirmReceipt(o, received) ==
  /\ enabled /\ ~paused
  /\ state[o] = "sent"
  /\ confirm[o] # "lapsed"
  /\ state' = [state EXCEPT ![o] = IF received THEN "received" ELSE "not_received"]
  /\ denied' = IF received THEN denied ELSE denied \cup {o}
  /\ UNCHANGED <<source, amount, sent, due, confirm, purged, overdue, rulingVars, modeVars, claimVars>>

-----------------------------------------------------------------------------
(* The owner, in an open case of the obligation.                           *)

inCase(o) == enabled /\ o \in overdue \cup denied

\* resolveRefundCase ends the case it was called for.
resolveRefundCase(o) == overdue' = overdue \ {o} /\ denied' = denied \ {o}

acceptReceiptEvidence(o) ==
  /\ inCase(o)
  /\ state[o] = "not_received"
  /\ state' = [state EXCEPT ![o] = "received"]
  /\ resolveRefundCase(o)
  /\ UNCHANGED <<source, amount, sent, due, confirm, purged, rulingVars, modeVars, claimVars>>

requireResend(o) ==
  /\ inCase(o)
  /\ state[o] = "not_received"
  /\ state' = [state EXCEPT ![o] = "awaiting_send"]
  /\ due' = [due EXCEPT ![o] = "running"]
  /\ confirm' = [confirm EXCEPT ![o] = "none"]
  /\ resolveRefundCase(o)
  /\ UNCHANGED <<source, amount, sent, purged, rulingVars, modeVars, claimVars>>

waive(o) ==
  /\ inCase(o)
  /\ state[o] \in {"awaiting_destination", "awaiting_send", "not_received"}
  /\ state' = [state EXCEPT ![o] = "waived"]
  /\ resolveRefundCase(o)
  /\ UNCHANGED <<source, amount, sent, due, confirm, purged, rulingVars, modeVars, claimVars>>

extendDeadline(o) ==
  /\ inCase(o)
  /\ state[o] = "awaiting_send"
  /\ due' = [due EXCEPT ![o] = "running"]
  /\ resolveRefundCase(o)
  /\ UNCHANGED <<source, amount, state, sent, confirm, purged, rulingVars, modeVars, claimVars>>
-----------------------------------------------------------------------------
(* Time, the resolution mode and the scan.                                 *)

setMode(m) ==
  /\ mode' = m /\ m # mode
  /\ UNCHANGED <<obligationVars, caseVars, rulingVars, paused, claimVars>>

\* The worker opens a pause when the mode is disabled and closes it afterwards.
observeResolutionMode ==
  /\ paused # ~enabled
  /\ paused' = ~enabled
  /\ UNCHANGED <<obligationVars, caseVars, rulingVars, mode, claimVars>>

\* Only the stored instant passes during a pause.
passes(timer) == \/ timer = "running"
                 \/ timer = "stored" /\ ~paused
later(timer)  == IF timer = "running" THEN "stored" ELSE "lapsed"

timePasses(o) ==
  /\ \/ /\ state[o] = "awaiting_send" /\ passes(due[o])
        /\ due' = [due EXCEPT ![o] = later(@)] /\ UNCHANGED <<confirm, respond>>
     \/ /\ state[o] = "sent" /\ passes(confirm[o])
        /\ confirm' = [confirm EXCEPT ![o] = later(@)] /\ UNCHANGED <<due, respond>>
     \/ /\ claim = "awaiting_creator" /\ passes(respond)
        /\ respond' = later(respond) /\ UNCHANGED <<due, confirm>>
  /\ UNCHANGED <<source, amount, state, sent, purged, caseVars, rulingVars, modeVars, claim, late>>

\* Fault model of scanOverdue: the candidates are joined with the rulings, so the
\* refund of a late payment is passed over.
scanOverdueRulings(o) ==
  /\ ~paused
  /\ state[o] = "awaiting_send" /\ due[o] = "lapsed"
  /\ o \notin overdue /\ source[o] \in RulingSource
  /\ overdue' = overdue \cup {o}
  /\ UNCHANGED <<obligationVars, denied, rulingVars, modeVars, claimVars>>

\* readOverdueCandidates, rechecked under the creator fence.
scanOverdue(o) ==
  /\ ~paused
  /\ state[o] = "awaiting_send" /\ due[o] = "lapsed"
  /\ o \notin overdue
  /\ overdue' = overdue \cup {o}
  /\ UNCHANGED <<obligationVars, denied, rulingVars, modeVars, claimVars>>

presumeReceived(o) ==
  /\ ~paused
  /\ state[o] = "sent" /\ confirm[o] = "lapsed"
  /\ state' = [state EXCEPT ![o] = "presumed_received"]
  /\ UNCHANGED <<source, amount, sent, due, confirm, purged, caseVars, rulingVars, modeVars, claimVars>>

\* Thirty days after the end by the stored instant; the scan rests during a pause.
purgeDestinations(o) ==
  /\ ~paused
  /\ state[o] \in Ended /\ due[o] # "none"
  /\ o \notin purged
  /\ purged' = purged \cup {o}
  /\ UNCHANGED <<source, amount, state, sent, due, confirm, caseVars, rulingVars, modeVars, claimVars>>

-----------------------------------------------------------------------------
(* A transfer that reached the creator after the order closed unpaid.       *)

fileLateClaim ==
  /\ enabled /\ ~paused
  /\ claim = "none"
  /\ claim' = "awaiting_creator" /\ respond' = "running"
  /\ UNCHANGED <<obligationVars, caseVars, rulingVars, modeVars, late>>

\* Before the effective deadline the creator owes the refund or escalates.
answerLateClaim(received, vnd) ==
  /\ enabled /\ ~paused
  /\ claim = "awaiting_creator" /\ respond # "lapsed"
  /\ IF received
     THEN createObligation("late_payment", vnd) /\ claim' = "refund_owed" /\ UNCHANGED late
     ELSE claim' = "escalated" /\ late' = TRUE /\ UNCHANGED obligationVars
  /\ UNCHANGED <<caseVars, rulingVars, modeVars, respond>>

\* The scan, once the effective deadline has passed.
escalateUnanswered ==
  /\ ~paused
  /\ claim = "awaiting_creator" /\ respond = "lapsed"
  /\ claim' = "escalated" /\ late' = TRUE
  /\ UNCHANGED <<obligationVars, caseVars, rulingVars, modeVars, respond>>

\* The owner decides an escalated claim.
ruleLateClaim(owed, vnd) ==
  /\ enabled
  /\ claim = "escalated" /\ late
  /\ late' = FALSE
  /\ IF owed
     THEN createObligation("late_payment", vnd) /\ claim' = "refund_owed"
     ELSE claim' = "rejected" /\ UNCHANGED obligationVars
  /\ UNCHANGED <<caseVars, rulingVars, modeVars, respond>>

\* Fault model of recordProviderLatePayment: the case of the claim stays open.
recordProviderLatePaymentKeepsCase ==
  /\ enabled
  /\ claim # "paid"
  /\ IF \E o \in created : source[o] = "late_payment_provider"
     THEN UNCHANGED obligationVars
     ELSE createObligation("late_payment_provider", Amount)
  /\ claim' = IF claim \in {"awaiting_creator", "escalated"} THEN "refund_owed" ELSE claim
  /\ UNCHANGED <<caseVars, rulingVars, modeVars, respond, late>>

\* The provider's event for the transfer, delivered any number of times: one
\* obligation, and an undecided claim ends with its case.
recordProviderLatePayment ==
  /\ enabled
  /\ claim # "paid"
  /\ IF \E o \in created : source[o] = "late_payment_provider"
     THEN UNCHANGED obligationVars
     ELSE createObligation("late_payment_provider", Amount)
  /\ claim' = IF claim \in {"awaiting_creator", "escalated"} THEN "refund_owed" ELSE claim
  /\ late' = (late /\ claim # "escalated")
  /\ UNCHANGED <<caseVars, rulingVars, modeVars, respond>>

-----------------------------------------------------------------------------
party(o) == \/ enterDestination(o) \/ recordSend(o)
            \/ \E r \in BOOLEAN : confirmReceipt(o, r)
owner(o) == acceptReceiptEvidence(o) \/ requireResend(o) \/ waive(o) \/ extendDeadline(o)
maintain(o) == scanOverdue(o) \/ presumeReceived(o) \/ purgeDestinations(o)

RefundNext ==
  \/ \E vnd \in 0 .. Amount : rule(vnd) \/ correctRuling(vnd)
  \/ \E o \in Obligations : party(o) \/ owner(o) \/ maintain(o) \/ timePasses(o)
  \/ \E m \in {"enabled", "disabled"} : setMode(m)
  \/ observeResolutionMode
  \/ fileLateClaim \/ escalateUnanswered \/ recordProviderLatePayment
  \/ \E b \in BOOLEAN, vnd \in 1 .. Amount : answerLateClaim(b, vnd) \/ ruleLateClaim(b, vnd)

\* The worker observes the mode and scans again and again; time goes on.
RefundSpec ==
  /\ RefundInit /\ [][RefundNext]_refundVars
  /\ WF_refundVars(observeResolutionMode) /\ WF_refundVars(escalateUnanswered)
  /\ \A o \in Obligations : /\ WF_refundVars(timePasses(o))
                            /\ WF_refundVars(scanOverdue(o)) /\ WF_refundVars(presumeReceived(o))

-----------------------------------------------------------------------------
(* What the database accepts of a change of an obligation (migration 0048).  *)

refundTransitions ==
  {<<"none", "awaiting_destination">>,
   <<"awaiting_destination", "awaiting_send">>, <<"awaiting_destination", "waived">>,
   <<"awaiting_send", "sent">>, <<"awaiting_send", "waived">>,
   <<"sent", "received">>, <<"sent", "presumed_received">>, <<"sent", "not_received">>,
   <<"not_received", "received">>, <<"not_received", "awaiting_send">>, <<"not_received", "waived">>}

\* A restarted timer is a new due_at, also when the old one was still running.
guardRefundObligation(o) ==
  /\ state[o] # state'[o] => <<state[o], state'[o]>> \in refundTransitions
  /\ source[o] # "none" => source'[o] = source[o]
  /\ (amount[o] # amount'[o] /\ state[o] # "none") =>
       /\ state[o] \in {"awaiting_destination", "awaiting_send"} /\ o \notin sent
       /\ amount'[o] < amount[o]
  /\ (o \in purged' \ purged) => state[o] \in Ended /\ state'[o] = state[o]
  /\ (due'[o] = "running" /\ due[o] # "running") =>
       state[o] \in {"awaiting_destination", "awaiting_send", "not_received"} /\ state'[o] = "awaiting_send"
  /\ (confirm'[o] # confirm[o] /\ confirm'[o] \in {"none", "running"}) =>
       <<state[o], state'[o]>> \in {<<"awaiting_send", "sent">>, <<"not_received", "awaiting_send">>}
  /\ (state[o] = "sent" /\ state'[o] = "presumed_received") => confirm[o] \in {"stored", "lapsed"}

-----------------------------------------------------------------------------
RefundTypeOK ==
  /\ source \in [Obligations -> Sources]
  /\ amount \in [Obligations -> 0 .. Amount]
  /\ state \in [Obligations -> RefundStates]
  /\ due \in [Obligations -> Timers] /\ confirm \in [Obligations -> Timers]
  /\ sent \cup purged \cup overdue \cup denied \subseteq Obligations
  /\ ruling \in {<<>>} \cup {<<vnd>> : vnd \in 0 .. Amount} /\ corrections \in 0 .. MaxCorrections
  /\ mode \in {"enabled", "disabled"} /\ paused \in BOOLEAN
  /\ claim \in Claims /\ respond \in Timers /\ late \in BOOLEAN

\* The ruling and all its corrections never make the creator owe more than the
\* price of the order, also when some of the money was sent, denied, due for
\* resending or waived by the owner before the amount changed (correctRuling
\* counts recorded sends).
DebtWithinOrder == claim = "paid" => total(counted) <= Amount

\* The owner's open cases are those the obligations and the claim call for: an
\* overdue case only while the refund awaits its send, a case of a denied
\* receipt exactly while it is denied, a late payment case exactly while the
\* claim is escalated, however commands, corrections, scans and provider events
\* follow each other.
CasesMatchStates ==
  /\ \A o \in overdue : state[o] = "awaiting_send"
  /\ denied = {o \in Obligations : state[o] = "not_received"}
  /\ late = (claim = "escalated")

\* What is owed stays within the order, and every open obligation that needs the
\* owner has one open case (recordCommissionPayment, correctRuling, scanOverdue).
RefundCasesAgree == RefundTypeOK /\ DebtWithinOrder /\ CasesMatchStates

\* No command or scan makes a change of an obligation that the database's guard
\* would abort: a rejected update would roll the whole command back.
RefundGuardsAccept == [][\A o \in Obligations : guardRefundObligation(o)]_refundVars

\* Once the resolution mode stays enabled, every send is answered or presumed
\* received, a refund whose deadline passed is sent, brought to the owner or
\* given a new deadline, and every late claim is answered or escalated.
RefundsMoveOn ==
  <>[]enabled =>
    /\ \A o \in Obligations :
         /\ []<>(state[o] # "sent")
         /\ []<>(state[o] # "awaiting_send" \/ o \in overdue \/ due[o] # "lapsed")
    /\ []<>(claim # "awaiting_creator")
=============================================================================
