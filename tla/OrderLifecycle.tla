---------------------------- MODULE OrderLifecycle ----------------------------
(***************************************************************************)
(* What one commission order promises, whatever route and clocks it uses:   *)
(* it holds one unit of its creator's capacity from the acceptance of its   *)
(* terms to its end and not longer, its payment intent is decided once, and *)
(* the money and the slot change hands in the same step.                    *)
(***************************************************************************)

VARIABLES state,    \* none, open (no terms yet), awaiting_payment, paid, completed, closed
          slot,     \* the capacity reservation of the order
          payment   \* the payment intent of the order

vars == <<state, slot, payment>>

Init == state = "none" /\ slot = "none" /\ payment = "none"

\* A request without agreed terms, quoted or not.
Ask == /\ state = "none" /\ state' = "open"
       /\ UNCHANGED <<slot, payment>>

\* Terms agreed: the slot and the intent appear together.
Commit == /\ state \in {"none", "open"} /\ state' = "awaiting_payment"
          /\ slot = "none" /\ slot' = "reserved"
          /\ payment = "none" /\ payment' = "awaiting_transfer"

Pay == /\ state = "awaiting_payment" /\ state' = "paid"
       /\ slot = "reserved" /\ slot' = "occupied"
       /\ payment = "awaiting_transfer" /\ payment' = "confirmed"

\* Closed before terms were agreed: nothing to give back.
Drop == /\ state = "open" /\ state' = "closed"
        /\ slot = "none" /\ payment = "none"
        /\ UNCHANGED <<slot, payment>>

\* Closed before payment: the slot is released and the intent decided.
Abandon == /\ state = "awaiting_payment" /\ state' = "closed"
           /\ slot = "reserved" /\ slot' = "released"
           /\ payment = "awaiting_transfer" /\ payment' \in {"expired", "rejected"}

Complete == /\ state = "paid" /\ state' = "completed"
            /\ slot = "occupied" /\ slot' = "completed"
            /\ UNCHANGED payment

\* Closed after payment: the confirmation stays on record.
Cancel == /\ state = "paid" /\ state' = "closed"
          /\ slot = "occupied" /\ slot' = "cancelled"
          /\ UNCHANGED payment

Next == Ask \/ Commit \/ Pay \/ Drop \/ Abandon \/ Complete \/ Cancel

Spec == Init /\ [][Next]_vars
===============================================================================
