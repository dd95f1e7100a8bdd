--------------------------- MODULE CommissionOrders ---------------------------
(***************************************************************************)
(* The commission orders of one creator up to payment: request, quote,      *)
(* accept, close, transfer claim, payment confirmation, expiry and the      *)
(* recovery sweep, with the capacity reservations and payment intents that  *)
(* the same transactions write.                                             *)
(*                                                                         *)
(* Every writer takes the advisory lock of the creator first               *)
(* (lockCommissionCreator), so a transaction is one step here.  Deadlines   *)
(* are timers that count down to 0 (expires_at <= now).                     *)
(***************************************************************************)
EXTENDS Naturals, FiniteSets

CONSTANTS Orders, Buyers, NoBuyer,
          Capacities,    \* the limits a creator may set (catalog capacity)
          MaxOpenPair,   \* COMMISSION_POLICY.maximumOpenPairOrders
          RequestTtl,    \* requestTtlMs
          PaymentTtl,    \* paymentTtlMs, 86 400 000 ms in both packages
          MinQuoteTtl,   \* minimumQuoteTtlMs
          MaxQuoteTtl,   \* maximumQuoteTtlMs
          MaxAge,        \* requestMaximumAgeMs
          MaxQuotes,     \* bound on quote revisions per order
          MaxAccounts    \* bound on receiving-account versions

ASSUME OrdersAssumptions ==
  /\ IsFiniteSet(Orders) /\ NoBuyer \notin Buyers
  /\ Capacities \subseteq Nat \ {0} /\ Capacities # {}
  /\ MaxOpenPair \in Nat \ {0} /\ MaxQuotes \in Nat /\ MaxAccounts \in Nat \ {0}
  /\ RequestTtl \in Nat \ {0} /\ PaymentTtl \in Nat \ {0} /\ MaxAge \in Nat \ {0}
  /\ MinQuoteTtl \in Nat \ {0} /\ MaxQuoteTtl \in Nat

VARIABLES
  state, buyer, route, version, quotes, reason,  \* commission_orders, quote revisions
  left,                    \* time to expires_at of the order
  ageLeft,                 \* time to created_at + requestMaximumAgeMs
  reservation,             \* commission_reservations
  intent, intentLeft,      \* payment_intents and the time to its expires_at
  intentAccount,           \* the account version the intent is bound to
  claimed,                 \* orders with a payment_transfer_claims row
  account, verified,       \* receiving-account lineage of the creator
  eligible,                \* buyers for whom both participants pass the eligibility locks
  capacity, intakeMode, paymentsMode

orderVars  == <<state, buyer, route, version, quotes, reason, left, ageLeft>>
intentVars == <<intent, intentLeft, intentAccount>>
envVars    == <<account, verified, eligible, capacity, intakeMode, paymentsMode>>
vars       == <<orderVars, reservation, intentVars, claimed, envVars>>

Routes      == {"none", "fixed_immediate", "fixed_approval", "custom_quote"}
States      == {"absent", "requested", "quoted", "awaiting_payment", "paid",
                "completed", "closed"}   \* paid: in_progress or delivered
Pending     == {"requested", "quoted", "awaiting_payment"}
Slots       == {"none", "reserved", "occupied", "released", "completed", "cancelled"}
IntentStates == {"none", "awaiting_transfer", "confirmed", "expired", "rejected"}
Modes       == {"disabled", "enabled"}

Invalidated == {"security_invalidated", "eligibility_invalidated"}
Reasons == Invalidated \cup
  {"none", "buyer_withdrawn", "creator_declined", "quote_withdrawn", "quote_declined",
   "request_expired", "quote_expired", "payment_expired", "buyer_cancelled",
   "creator_cancelled", "post_payment"}

\* requireCommissionTransition to closed, by the table closeReasons; post_payment
\* stands for COMMISSION_POST_PAYMENT_CLOSE_REASONS, which closeOrder refuses.
MayCloseAs(s, why) ==
  \/ s \in Pending /\ why \in Invalidated
  \/ s = "requested" /\ why \in {"buyer_withdrawn", "creator_declined", "request_expired"}
  \/ s = "quoted" /\ why \in {"buyer_withdrawn", "quote_withdrawn", "quote_declined", "quote_expired"}
  \/ s = "awaiting_payment" /\ why \in {"buyer_cancelled", "creator_cancelled", "payment_expired"}

ExpiredReason(s) == IF s = "requested" THEN "request_expired"
                    ELSE IF s = "quoted" THEN "quote_expired" ELSE "payment_expired"

\* The reason under which a participant closes an order before its deadline.
ClosedBy(s, role) ==
  IF s = "requested" THEN IF role = "buyer" THEN "buyer_withdrawn" ELSE "creator_declined"
  ELSE IF s = "quoted" THEN IF role = "buyer" THEN "quote_declined" ELSE "quote_withdrawn"
  ELSE IF role = "buyer" THEN "buyer_cancelled" ELSE "creator_cancelled"

Init ==
  /\ state = [o \in Orders |-> "absent"]
  /\ buyer = [o \in Orders |-> NoBuyer]
  /\ route = [o \in Orders |-> "none"]
  /\ version = [o \in Orders |-> 0]
  /\ quotes = [o \in Orders |-> 0]
  /\ reason = [o \in Orders |-> "none"]
  /\ left = [o \in Orders |-> 0]
  /\ ageLeft = [o \in Orders |-> 0]
  /\ reservation = [o \in Orders |-> "none"]
  /\ intent = [o \in Orders |-> "none"]
  /\ intentLeft = [o \in Orders |-> 0]
  /\ intentAccount = [o \in Orders |-> 0]
  /\ claimed = {}
  /\ account = 1 /\ verified = "yes"
  /\ eligible = Buyers
  /\ capacity \in Capacities
  /\ intakeMode = "enabled" /\ paymentsMode = "enabled"
---------------------------------------------------------------------------
(* Helpers. *)

\* Reservations that count against the limit.
Active == {o \in Orders : reservation[o] \in {"reserved", "occupied"}}

OpenOrdersOf(b) ==
  {o \in Orders : buyer[o] = b /\ state[o] \notin {"absent", "closed", "completed"}}

\* hasCurrentDestination: the creator's verified account is the intent's.
HasCurrentDestination(o) == verified = "yes" /\ intentAccount[o] = account

\* acceptedAt is set in the transaction that creates the intent.
Accepted(o) == intent[o] # "none"

\* Fault model of IntentTtl: Payments keeps the intent open longer than Orders.
IntentTtlLonger == PaymentTtl + 1

\* The 24 h of createIntent, stated apart from commissionPaymentExpiry.
IntentTtl == PaymentTtl

\* Fault model of CommitTerms: the reservation is not counted against the limit.
CommitTermsUncounted(o) ==
  /\ verified = "yes" /\ paymentsMode = "enabled"
  /\ reservation' = [reservation EXCEPT ![o] = "reserved"]
  /\ intent' = [intent EXCEPT ![o] = "awaiting_transfer"]
  /\ intentLeft' = [intentLeft EXCEPT ![o] = IntentTtl]
  /\ intentAccount' = [intentAccount EXCEPT ![o] = account]

\* commitTerms: reserve capacity and create the payment intent.
CommitTerms(o) ==
  /\ verified = "yes" /\ paymentsMode = "enabled"
  /\ Cardinality(Active) < capacity
  /\ reservation' = [reservation EXCEPT ![o] = "reserved"]
  /\ intent' = [intent EXCEPT ![o] = "awaiting_transfer"]
  /\ intentLeft' = [intentLeft EXCEPT ![o] = IntentTtl]
  /\ intentAccount' = [intentAccount EXCEPT ![o] = account]

\* closeIntent: expired at or after the deadline, rejected before it.
CloseIntent(o, why) ==
  /\ intent[o] = "awaiting_transfer"
  /\ (why = "payment_expired") = (intentLeft[o] = 0)
  /\ intent' = [intent EXCEPT ![o] = IF why = "payment_expired" THEN "expired" ELSE "rejected"]
  /\ intentLeft' = [intentLeft EXCEPT ![o] = 0]

\* Fault model of CloseOrder: the reservation is released only with a cancelled
\* order, not with an expired one.
CloseOrderKeepsSlot(o, why) ==
  /\ MayCloseAs(state[o], why)
  /\ IF Accepted(o)
     THEN /\ CloseIntent(o, why)
          /\ reservation' = [reservation EXCEPT ![o] =
                               IF why = "payment_expired" THEN @ ELSE "released"]
     ELSE UNCHANGED <<intent, intentLeft, reservation>>
  /\ state' = [state EXCEPT ![o] = "closed"]
  /\ version' = [version EXCEPT ![o] = @ + 1]
  /\ reason' = [reason EXCEPT ![o] = why]
  /\ left' = [left EXCEPT ![o] = 0]
  /\ ageLeft' = [ageLeft EXCEPT ![o] = 0]
  /\ UNCHANGED <<buyer, route, quotes, intentAccount, claimed, envVars>>

\* closeOrder of order-persistence.ts; a closed order has no deadline left.
CloseOrder(o, why) ==
  /\ MayCloseAs(state[o], why)
  /\ IF Accepted(o)
     THEN /\ CloseIntent(o, why)
          /\ reservation[o] = "reserved"
          /\ reservation' = [reservation EXCEPT ![o] = "released"]
     ELSE UNCHANGED <<intent, intentLeft, reservation>>
  /\ state' = [state EXCEPT ![o] = "closed"]
  /\ version' = [version EXCEPT ![o] = @ + 1]
  /\ reason' = [reason EXCEPT ![o] = why]
  /\ left' = [left EXCEPT ![o] = 0]
  /\ ageLeft' = [ageLeft EXCEPT ![o] = 0]
  /\ UNCHANGED <<buyer, route, quotes, intentAccount, claimed, envVars>>
---------------------------------------------------------------------------
(* Commands of the participants. *)

\* request: an immediate package is accepted at once, the others wait.
Request(o, b, r) ==
  /\ state[o] = "absent"
  /\ intakeMode = "enabled" /\ b \in eligible
  /\ Cardinality(OpenOrdersOf(b)) < MaxOpenPair
  /\ buyer' = [buyer EXCEPT ![o] = b]
  /\ route' = [route EXCEPT ![o] = r]
  /\ version' = [version EXCEPT ![o] = 1]
  /\ ageLeft' = [ageLeft EXCEPT ![o] = IF r = "custom_quote" THEN MaxAge ELSE 0]
  /\ IF r = "fixed_immediate"
     THEN /\ CommitTerms(o)
          /\ state' = [state EXCEPT ![o] = "awaiting_payment"]
          /\ left' = [left EXCEPT ![o] = PaymentTtl]
     ELSE /\ state' = [state EXCEPT ![o] = "requested"]
          /\ left' = [left EXCEPT ![o] = RequestTtl]
          /\ UNCHANGED <<reservation, intentVars>>
  /\ UNCHANGED <<quotes, reason, claimed, envVars>>

\* commissionQuoteExpiry: the shorter of the quote's life and the request's age.
QuoteExpiry(o, ttl) == IF ttl <= ageLeft[o] THEN ttl ELSE ageLeft[o]

\* Fault model of Quote: a new quote replaces the old one under the same version.
QuoteSameVersion(o, ttl) ==
  /\ state[o] \in {"requested", "quoted"} /\ left[o] > 0
  /\ route[o] = "custom_quote" /\ quotes[o] < MaxQuotes
  /\ intakeMode = "enabled" /\ buyer[o] \in eligible
  /\ QuoteExpiry(o, ttl) >= MinQuoteTtl
  /\ state' = [state EXCEPT ![o] = "quoted"]
  /\ quotes' = [quotes EXCEPT ![o] = @ + 1]
  /\ left' = [left EXCEPT ![o] = QuoteExpiry(o, ttl)]
  /\ UNCHANGED <<version, buyer, route, reason, ageLeft, reservation, intentVars, claimed, envVars>>

\* quote: a new revision supersedes the current one.
Quote(o, ttl) ==
  /\ state[o] \in {"requested", "quoted"} /\ left[o] > 0
  /\ route[o] = "custom_quote" /\ quotes[o] < MaxQuotes
  /\ intakeMode = "enabled" /\ buyer[o] \in eligible
  /\ QuoteExpiry(o, ttl) >= MinQuoteTtl
  /\ state' = [state EXCEPT ![o] = "quoted"]
  /\ version' = [version EXCEPT ![o] = @ + 1]
  /\ quotes' = [quotes EXCEPT ![o] = @ + 1]
  /\ left' = [left EXCEPT ![o] = QuoteExpiry(o, ttl)]
  /\ UNCHANGED <<buyer, route, reason, ageLeft, reservation, intentVars, claimed, envVars>>

\* accept: the creator approves a fixed request, the buyer accepts a quote.
Accept(o) ==
  /\ left[o] > 0
  /\ \/ route[o] = "fixed_approval" /\ state[o] = "requested"
     \/ route[o] = "custom_quote" /\ state[o] = "quoted"
  /\ intakeMode = "enabled" /\ buyer[o] \in eligible
  /\ CommitTerms(o)
  /\ state' = [state EXCEPT ![o] = "awaiting_payment"]
  /\ version' = [version EXCEPT ![o] = @ + 1]
  /\ left' = [left EXCEPT ![o] = PaymentTtl]
  /\ ageLeft' = [ageLeft EXCEPT ![o] = 0]
  /\ UNCHANGED <<buyer, route, quotes, reason, claimed, envVars>>

\* close by a participant; past its deadline an order closes as expired.
Close(o, role) ==
  /\ state[o] \in Pending
  /\ CloseOrder(o, IF left[o] = 0 THEN ExpiredReason(state[o]) ELSE ClosedBy(state[o], role))

\* lockSettlement for an order that still waits for its payment.
Settleable(o) == state[o] = "awaiting_payment" /\ left[o] > 0 /\ buyer[o] \in eligible

\* claimTransfer: the buyer says the transfer was sent; a second claim is a replay.
ClaimTransfer(o) ==
  /\ Settleable(o) /\ paymentsMode = "enabled" /\ HasCurrentDestination(o)
  /\ intent[o] = "awaiting_transfer" /\ intentLeft[o] > 0
  /\ o \notin claimed
  /\ claimed' = claimed \cup {o}
  /\ UNCHANGED <<orderVars, reservation, intentVars, envVars>>

\* The creator's manual confirmation with confirmPayment of Orders in the same
\* transaction.
ConfirmPayment(o) ==
  /\ Settleable(o) /\ paymentsMode = "enabled" /\ HasCurrentDestination(o)
  /\ intent[o] = "awaiting_transfer" /\ intentLeft[o] > 0
  /\ reservation[o] = "reserved"
  /\ intent' = [intent EXCEPT ![o] = "confirmed"]
  /\ intentLeft' = [intentLeft EXCEPT ![o] = 0]
  /\ reservation' = [reservation EXCEPT ![o] = "occupied"]
  /\ state' = [state EXCEPT ![o] = "paid"]
  /\ version' = [version EXCEPT ![o] = @ + 1]
  /\ left' = [left EXCEPT ![o] = 0]
  /\ UNCHANGED <<buyer, route, quotes, reason, ageLeft, intentAccount, claimed, envVars>>

\* completeCommissionOrder and closePaidOrder end a paid order and its slot.
EndPaidOrder(o) ==
  /\ state[o] = "paid" /\ reservation[o] = "occupied"
  /\ \/ /\ state' = [state EXCEPT ![o] = "completed"]
        /\ reservation' = [reservation EXCEPT ![o] = "completed"]
        /\ UNCHANGED reason
     \/ /\ state' = [state EXCEPT ![o] = "closed"]
        /\ reservation' = [reservation EXCEPT ![o] = "cancelled"]
        /\ reason' = [reason EXCEPT ![o] = "post_payment"]
  /\ version' = [version EXCEPT ![o] = @ + 1]
  /\ UNCHANGED <<buyer, route, quotes, left, ageLeft, intentVars, claimed, envVars>>
---------------------------------------------------------------------------
(* The worker's sweeps; no mode gates them. *)

\* Fault model of ExpireDue: the sweep stops with the intake mode.
ExpireDueWhileOpen(o) ==
  /\ intakeMode = "enabled"
  /\ state[o] \in Pending /\ left[o] = 0
  /\ CloseOrder(o, ExpiredReason(state[o]))

\* One candidate of expireDue.
ExpireDue(o) ==
  /\ state[o] \in Pending /\ left[o] = 0
  /\ CloseOrder(o, ExpiredReason(state[o]))

\* One candidate of recoverInvalidations.  A busy fence defers it: no step.
RecoverInvalidation(o) ==
  /\ state[o] \in Pending
  /\ \/ left[o] = 0 /\ CloseOrder(o, ExpiredReason(state[o]))
     \/ /\ left[o] > 0 /\ buyer[o] \notin eligible
        /\ CloseOrder(o, "security_invalidated")
     \/ /\ left[o] > 0 /\ buyer[o] \in eligible
        /\ Accepted(o) /\ ~HasCurrentDestination(o)
        /\ CloseOrder(o, "eligibility_invalidated")
---------------------------------------------------------------------------
(* What changes around the orders. *)

Minus1(timer) == [o \in Orders |-> IF timer[o] > 0 THEN timer[o] - 1 ELSE 0]

Tick ==
  /\ \E o \in Orders : left[o] > 0 \/ intentLeft[o] > 0 \/ ageLeft[o] > 0
  /\ left' = Minus1(left) /\ ageLeft' = Minus1(ageLeft) /\ intentLeft' = Minus1(intentLeft)
  /\ UNCHANGED <<state, buyer, route, version, quotes, reason, reservation, intent,
                 intentAccount, claimed, envVars>>

\* A replaced receiving account starts unverified; a proof verifies it.
ChangeAccount ==
  /\ \/ account < MaxAccounts /\ account' = account + 1 /\ verified' = "no"
     \/ verified = "no" /\ verified' = "yes" /\ UNCHANGED account
  /\ UNCHANGED <<orderVars, reservation, intentVars, claimed, eligible, capacity,
                 intakeMode, paymentsMode>>

\* Identity or Trust restricts a participant, or lifts the restriction.
ChangeEligibility(b) ==
  /\ eligible' = IF b \in eligible THEN eligible \ {b} ELSE eligible \cup {b}
  /\ UNCHANGED <<orderVars, reservation, intentVars, claimed, account, verified, capacity,
                 intakeMode, paymentsMode>>

\* The creator sets another limit, also below what is already reserved.
ChangeCapacity ==
  /\ capacity' \in Capacities \ {capacity}
  /\ UNCHANGED <<orderVars, reservation, intentVars, claimed, account, verified, eligible,
                 intakeMode, paymentsMode>>

\* An operator redeploys with another mode.
ChangeModes ==
  /\ intakeMode' \in Modes /\ paymentsMode' \in Modes
  /\ <<intakeMode, paymentsMode>>' # <<intakeMode, paymentsMode>>
  /\ UNCHANGED <<orderVars, reservation, intentVars, claimed, account, verified, eligible, capacity>>
---------------------------------------------------------------------------
Next ==
  \/ \E o \in Orders :
       \/ \E b \in Buyers, r \in Routes \ {"none"} : Request(o, b, r)
       \/ \E ttl \in MinQuoteTtl..MaxQuoteTtl : Quote(o, ttl)
       \/ Accept(o)
       \/ \E role \in {"buyer", "creator"} : Close(o, role)
       \/ ClaimTransfer(o) \/ ConfirmPayment(o) \/ EndPaidOrder(o)
       \/ ExpireDue(o) \/ RecoverInvalidation(o)
  \/ Tick \/ ChangeAccount \/ ChangeCapacity \/ ChangeModes
  \/ \E b \in Buyers : ChangeEligibility(b)

Spec == Init /\ [][Next]_vars

\* Time passes and the worker keeps sweeping, whatever the modes are.
FairSpec == Spec /\ WF_vars(Tick) /\ \A o \in Orders : WF_vars(ExpireDue(o))
---------------------------------------------------------------------------
(* Properties. *)

\* Columns of the order, its reservation, its intent and the environment.
TypeOK ==
  /\ state \in [Orders -> States]
  /\ buyer \in [Orders -> Buyers \cup {NoBuyer}]
  /\ route \in [Orders -> Routes]
  /\ version \in [Orders -> Nat]
  /\ quotes \in [Orders -> 0..MaxQuotes]
  /\ reason \in [Orders -> Reasons]
  /\ left \in [Orders -> Nat] /\ ageLeft \in [Orders -> Nat]
  /\ reservation \in [Orders -> Slots]
  /\ intent \in [Orders -> IntentStates]
  /\ intentLeft \in [Orders -> Nat]
  /\ intentAccount \in [Orders -> 0..MaxAccounts]
  /\ claimed \subseteq Orders
  /\ account \in 1..MaxAccounts /\ verified \in {"yes", "no"}
  /\ eligible \subseteq Buyers /\ capacity \in Capacities
  /\ intakeMode \in Modes /\ paymentsMode \in Modes

\* The slot of the order follows its state: every path that ends an order gives
\* its capacity back, and no path gives it back while the order still runs.
ReservationFollowsOrder ==
  \A o \in Orders :
    /\ reservation[o] = "reserved" <=> state[o] = "awaiting_payment"
    /\ reservation[o] = "occupied" <=> state[o] = "paid"
    /\ reservation[o] = "completed" <=> state[o] = "completed"
    /\ reservation[o] \in {"released", "cancelled"} => state[o] = "closed"

\* Orders and Payments never disagree: the intent is decided in the transaction
\* that moves the order, with the matching outcome and deadline.
IntentFollowsOrder ==
  \A o \in Orders :
    /\ intent[o] = "awaiting_transfer" <=> state[o] = "awaiting_payment"
    /\ intent[o] = "confirmed" <=> reservation[o] \in {"occupied", "completed", "cancelled"}
    /\ intent[o] = "expired" <=> reason[o] = "payment_expired"
    /\ intent[o] = "awaiting_transfer" => intentLeft[o] = left[o]

\* A reservation is only ever added within the limit in force at that moment.
CapacityRespected ==
  [][(\E o \in Orders : reservation[o] = "none" /\ reservation'[o] = "reserved")
       => Cardinality(Active') <= capacity]_vars

\* expectedVersion is a sound fence: what a participant saw under a version
\* (state, quote, amount) is still so whenever the version is still the same.
VersionFencesEveryChange ==
  [][\A o \in Orders : <<state[o], quotes[o], route[o]>>' # <<state[o], quotes[o], route[o]>>
       => version'[o] = version[o] + 1]_vars

L(o) == INSTANCE OrderLifecycle WITH
          state <- IF state[o] = "absent" THEN "none"
                   ELSE IF state[o] \in {"requested", "quoted"} THEN "open" ELSE state[o],
          slot <- reservation[o], payment <- intent[o]

\* Every order implements the abstract lifecycle: slot and money change hands in
\* the steps of OrderLifecycle and in no others.
ImplementsLifecycle ==
  /\ \A o \in Orders : L(o)!Init
  /\ [][\A o \in Orders : [L(o)!Next]_(L(o)!vars)]_vars

\* No order waits for ever before payment: paid, or closed by someone, also
\* through emergency pauses of intake and payments.
PendingOrderEnds == \A o \in Orders : []<>(state[o] \notin Pending)

\* Order, capacity reservation and payment intent agree at every commit (accept,
\* closeOrder, createIntent, endPaidOrder).
OrdersAgree == TypeOK /\ ReservationFollowsOrder /\ IntentFollowsOrder
===============================================================================
