---------------------------- MODULE CommissionGuards ----------------------------
(***************************************************************************)
(* What the database itself demands of commission orders up to payment: the *)
(* row triggers of commission_orders and commission_reservations, the        *)
(* deferred checks of the order's graph and of its payment, and the CHECK     *)
(* constraints of both tables.  They were written apart from the services in   *)
(* CommissionOrders; a step that they refuse is a command that fails, or a      *)
(* sweep that fails again at every interval.                                  *)
(*                                                                         *)
(* Left out: the envelopes and the copies of terms, which one transaction      *)
(* writes from one value, and the owner columns.                              *)
(***************************************************************************)
EXTENDS CommissionOrders

\* commission_guard_order on INSERT; the count is that of the rows before.
guard_order_insert(o) ==
  /\ version'[o] = 1
  /\ state'[o] = IF route'[o] = "fixed_immediate" THEN "awaiting_payment" ELSE "requested"
  /\ Cardinality(OpenOrdersOf(buyer'[o])) < MaxOpenPair

\* The transitions commission_guard_order allows; paid stands for in_progress and
\* delivered, whose own steps PaidOrder guards.
AllowedTransition(from, to, why) ==
  \/ from \in {"requested", "quoted"} /\ to \in {"quoted", "awaiting_payment"}
  \/ from = "awaiting_payment" /\ to = "paid"
  \/ from = "paid" /\ to = "completed"
  \/ /\ to = "closed"
     /\ \/ from \in Pending /\ why \in {"security_invalidated", "eligibility_invalidated"}
        \/ from = "requested" /\ why \in {"buyer_withdrawn", "creator_declined", "request_expired"}
        \/ from = "quoted" /\ why \in {"buyer_withdrawn", "quote_withdrawn", "quote_declined", "quote_expired"}
        \/ from = "awaiting_payment" /\ why \in {"buyer_cancelled", "creator_cancelled", "payment_expired"}
        \/ from = "paid" /\ why = "post_payment"

\* commission_guard_order on UPDATE.
guard_order_update(o) ==
  /\ buyer'[o] = buyer[o] /\ route'[o] = route[o] /\ version'[o] = version[o] + 1
  /\ AllowedTransition(state[o], state'[o], reason'[o])
  /\ Accepted(o) => quotes'[o] = quotes[o]
  /\ state[o] \in Pending /\ left[o] = 0 => state'[o] = "closed"
  /\ state'[o] = "quoted" => quotes'[o] # quotes[o]

\* commission_guard_reservation: a new slot within the limit, then reserved to
\* occupied or released, and occupied to completed or cancelled.
guard_reservation(o) ==
  IF reservation[o] = "none"
  THEN reservation'[o] = "reserved" /\ Cardinality(Active) < capacity
  ELSE \/ reservation[o] = "reserved" /\ reservation'[o] \in {"occupied", "released"}
       \/ reservation[o] = "occupied" /\ reservation'[o] \in {"completed", "cancelled"}

\* commission_check_order_graph at commit: the quote within 30 days of the request, no
\* slot without acceptance, and the slot that belongs to the state.
check_order_graph(o) ==
  /\ quotes[o] > 0 => route[o] = "custom_quote"
  /\ state[o] = "quoted" => left[o] <= ageLeft[o]
  /\ IF ~Accepted(o) THEN reservation[o] = "none"
     ELSE /\ route[o] = "custom_quote" => quotes[o] > 0
          /\ state[o] = "awaiting_payment" => reservation[o] = "reserved"
          /\ state[o] = "paid" => reservation[o] = "occupied"
          /\ state[o] = "completed" => reservation[o] = "completed"
          /\ state[o] = "closed" =>
               reservation[o] = IF reason[o] = "post_payment" THEN "cancelled" ELSE "released"

\* commission_check_payment at commit: the intent that belongs to the state, open
\* exactly as long as the order.
check_payment(o) ==
  Accepted(o) =>
    /\ state[o] = "awaiting_payment" => intent[o] = "awaiting_transfer" /\ intentLeft[o] = left[o]
    /\ state[o] \in {"paid", "completed"} \/ reason[o] = "post_payment" => intent[o] = "confirmed"
    /\ state[o] = "closed" /\ reason[o] # "post_payment" =>
         intent[o] = IF reason[o] = "payment_expired" THEN "expired" ELSE "rejected"

\* The CHECK constraints of commission_orders that bind state, route, acceptance,
\* deadline and reason.
order_checks(o) ==
  /\ version[o] > 0
  /\ state[o] \in {"awaiting_payment", "paid", "completed"} => Accepted(o)
  /\ state[o] \in {"requested", "quoted"} => ~Accepted(o)
  /\ state[o] = "quoted" => route[o] = "custom_quote" /\ quotes[o] > 0
  /\ state[o] = "closed" <=> reason[o] # "none"

\* commission_quote_time_check, when the revision is written.
quote_checks(o) ==
  quotes'[o] # quotes[o] => left'[o] >= MinQuoteTtl /\ left'[o] <= MaxQuoteTtl

\* The order's row as the guard sees it; time alone writes nothing.
OrderRow(o) == <<state[o], buyer[o], route[o], version[o], quotes[o], reason[o]>>

\* The database accepts every transaction of the services and of the sweeps: what the
\* application decides in its own copy of the rules (transition table, deadlines, open
\* orders, capacity, quote expiry) is never refused by the triggers and constraints.
GuardsAccept ==
  [][\A o \in Orders :
       /\ OrderRow(o)' # OrderRow(o) =>
            /\ IF state[o] = "absent" THEN guard_order_insert(o) ELSE guard_order_update(o)
            /\ order_checks(o)' /\ check_order_graph(o)' /\ check_payment(o)' /\ quote_checks(o)
       /\ reservation'[o] # reservation[o] => guard_reservation(o)]_vars
===============================================================================
