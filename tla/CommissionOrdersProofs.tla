------------------------ MODULE CommissionOrdersProofs ------------------------
(* Orders, reservations and payment intents agree for every number of orders  *)
(* and buyers and every deadline; the limit holds, and the triggers of the    *)
(* database accept every step.                                                *)
EXTENDS CommissionGuards, FiniteSetTheorems, TLAPS

\* A request without terms has neither slot nor intent, a closed order has one
\* of four pairs of them: what makes the agreement inductive.
SlotIntentPairs ==
  \A o \in Orders :
    /\ state[o] \in {"absent", "requested", "quoted"} =>
         intent[o] = "none" /\ reservation[o] = "none"
    /\ state[o] = "closed" =>
         <<intent[o], reservation[o]>> \in
           {<<"none", "none">>, <<"expired", "released">>, <<"rejected", "released">>,
            <<"confirmed", "cancelled">>}
    /\ reason[o] # "none" => state[o] = "closed"
    /\ state[o] = "closed" /\ reservation[o] # "released" => reason[o] # "payment_expired"

OInv == TypeOK /\ SlotIntentPairs /\ ReservationFollowsOrder /\ IntentFollowsOrder

LEMMA OInvInit == Init => OInv
<1> SUFFICES ASSUME Init PROVE OInv
  OBVIOUS
<1>1. TypeOK
  BY OrdersAssumptions DEF Init, TypeOK, States, Routes, Slots, IntentStates, Modes, Reasons
<1>2. SlotIntentPairs /\ ReservationFollowsOrder /\ IntentFollowsOrder
  BY DEF Init, SlotIntentPairs, ReservationFollowsOrder, IntentFollowsOrder
<1> QED
  BY <1>1, <1>2 DEF OInv

\* CloseOrder, whoever calls it, keeps the agreement.
LEMMA CloseOrderStep ==
  ASSUME OInv, NEW o \in Orders, NEW why, CloseOrder(o, why)
  PROVE  OInv'
<1> USE OrdersAssumptions DEF OInv, CloseOrder, MayCloseAs, Pending, Invalidated, Accepted, CloseIntent
<1>1. TypeOK'
  BY DEF TypeOK, States, Slots, IntentStates, Reasons, envVars
<1>2. SlotIntentPairs' /\ ReservationFollowsOrder' /\ IntentFollowsOrder'
  BY DEF TypeOK, SlotIntentPairs, ReservationFollowsOrder, IntentFollowsOrder
<1> QED
  BY <1>1, <1>2

\* Every step keeps orders, reservations and intents in agreement.
LEMMA OInvStep == OInv /\ [Next]_vars => OInv'
<1> SUFFICES ASSUME OInv, [Next]_vars PROVE OInv'
  OBVIOUS
<1> USE OrdersAssumptions DEF OInv
<1>1. ASSUME NEW o \in Orders, NEW b \in Buyers, NEW r \in Routes \ {"none"}, Request(o, b, r) PROVE OInv'
  <2>1. TypeOK'
    BY <1>1 DEF Request, CommitTerms, IntentTtl, TypeOK, States, Routes, Slots, IntentStates, Reasons, Modes, orderVars, intentVars, envVars
  <2>2. SlotIntentPairs' /\ ReservationFollowsOrder' /\ IntentFollowsOrder'
    BY <1>1 DEF Request, CommitTerms, IntentTtl, TypeOK, SlotIntentPairs, ReservationFollowsOrder, IntentFollowsOrder, orderVars, intentVars, envVars
  <2> QED
    BY <2>1, <2>2
<1>2. ASSUME NEW o \in Orders, NEW ttl \in MinQuoteTtl..MaxQuoteTtl, Quote(o, ttl) PROVE OInv'
  <2>1. TypeOK'
    BY <1>2 DEF Quote, QuoteExpiry, TypeOK, States, Routes, Slots, IntentStates, Reasons, Modes, orderVars, intentVars, envVars
  <2>2. SlotIntentPairs' /\ ReservationFollowsOrder' /\ IntentFollowsOrder'
    BY <1>2 DEF Quote, QuoteExpiry, TypeOK, SlotIntentPairs, ReservationFollowsOrder, IntentFollowsOrder, orderVars, intentVars, envVars
  <2> QED
    BY <2>1, <2>2
<1>3. ASSUME NEW o \in Orders, Accept(o) PROVE OInv'
  <2>1. TypeOK'
    BY <1>3 DEF Accept, CommitTerms, IntentTtl, TypeOK, States, Routes, Slots, IntentStates, Reasons, Modes, orderVars, intentVars, envVars
  <2>2. SlotIntentPairs' /\ ReservationFollowsOrder' /\ IntentFollowsOrder'
    BY <1>3 DEF Accept, CommitTerms, IntentTtl, TypeOK, SlotIntentPairs, ReservationFollowsOrder, IntentFollowsOrder, orderVars, intentVars, envVars
  <2> QED
    BY <2>1, <2>2
<1>4. ASSUME NEW o \in Orders, NEW role \in {"buyer", "creator"}, Close(o, role) PROVE OInv'
  BY <1>4, CloseOrderStep DEF Close
<1>5. ASSUME NEW o \in Orders, ClaimTransfer(o) PROVE OInv'
  <2>1. TypeOK'
    BY <1>5 DEF ClaimTransfer, Settleable, TypeOK, States, Routes, Slots, IntentStates, Reasons, Modes, orderVars, intentVars, envVars
  <2>2. SlotIntentPairs' /\ ReservationFollowsOrder' /\ IntentFollowsOrder'
    BY <1>5 DEF ClaimTransfer, Settleable, TypeOK, SlotIntentPairs, ReservationFollowsOrder, IntentFollowsOrder, orderVars, intentVars, envVars
  <2> QED
    BY <2>1, <2>2
<1>6. ASSUME NEW o \in Orders, ConfirmPayment(o) PROVE OInv'
  <2>1. TypeOK'
    BY <1>6 DEF ConfirmPayment, Settleable, TypeOK, States, Routes, Slots, IntentStates, Reasons, Modes, orderVars, intentVars, envVars
  <2>2. SlotIntentPairs' /\ ReservationFollowsOrder' /\ IntentFollowsOrder'
    BY <1>6 DEF ConfirmPayment, Settleable, TypeOK, SlotIntentPairs, ReservationFollowsOrder, IntentFollowsOrder, orderVars, intentVars, envVars
  <2> QED
    BY <2>1, <2>2
<1>7. ASSUME NEW o \in Orders, EndPaidOrder(o) PROVE OInv'
  <2>1. TypeOK'
    BY <1>7 DEF EndPaidOrder, TypeOK, States, Routes, Slots, IntentStates, Reasons, Modes, orderVars, intentVars, envVars
  <2>2. SlotIntentPairs' /\ ReservationFollowsOrder' /\ IntentFollowsOrder'
    BY <1>7 DEF EndPaidOrder, TypeOK, SlotIntentPairs, ReservationFollowsOrder, IntentFollowsOrder, orderVars, intentVars, envVars
  <2> QED
    BY <2>1, <2>2
<1>8. ASSUME NEW o \in Orders, ExpireDue(o) PROVE OInv'
  BY <1>8, CloseOrderStep DEF ExpireDue
<1>9. ASSUME NEW o \in Orders, RecoverInvalidation(o) PROVE OInv'
  BY <1>9, CloseOrderStep DEF RecoverInvalidation
<1>10. CASE Tick
  BY <1>10 DEF Tick, Minus1, TypeOK, SlotIntentPairs, ReservationFollowsOrder, IntentFollowsOrder, envVars
<1>11. ASSUME ChangeAccount \/ ChangeCapacity \/ ChangeModes \/ \E b \in Buyers : ChangeEligibility(b)
      PROVE  OInv'
  BY <1>11 DEF ChangeAccount, ChangeCapacity, ChangeModes, ChangeEligibility, TypeOK, Modes,
     SlotIntentPairs, ReservationFollowsOrder, IntentFollowsOrder, orderVars, intentVars
<1>12. CASE UNCHANGED vars
  BY <1>12 DEF vars, orderVars, intentVars, envVars, TypeOK, SlotIntentPairs,
     ReservationFollowsOrder, IntentFollowsOrder
<1> QED
  BY <1>1, <1>2, <1>3, <1>4, <1>5, <1>6, <1>7, <1>8, <1>9, <1>10, <1>11, <1>12 DEF Next

LEMMA OInvHolds == Spec => []OInv
  BY OInvInit, OInvStep, PTL DEF Spec

\* Orders, reservations and intents keep their ranges.
THEOREM OrdersTypeOK == Spec => []TypeOK
  BY OInvHolds, PTL DEF OInv

\* Capacity is held exactly while an order needs it.
THEOREM OrdersReservationFollowsOrder == Spec => []ReservationFollowsOrder
  BY OInvHolds, PTL DEF OInv

\* Orders and Payments agree on every intent and its deadline.
THEOREM OrdersIntentFollowsOrder == Spec => []IntentFollowsOrder
  BY OInvHolds, PTL DEF OInv

\* A step of one order is a step, or no step, of its lifecycle, and of no other.
LEMMA LifecycleStep ==
  OInv /\ [Next]_vars => \A q \in Orders : [L(q)!Next]_(L(q)!vars)
<1> SUFFICES ASSUME OInv, [Next]_vars, NEW q \in Orders PROVE [L(q)!Next]_(L(q)!vars)
  OBVIOUS
<1> USE OrdersAssumptions DEF OInv, TypeOK, SlotIntentPairs, ReservationFollowsOrder,
        IntentFollowsOrder, States
<1>0. ASSUME UNCHANGED <<state[q], reservation[q], intent[q]>> PROVE [L(q)!Next]_(L(q)!vars)
  BY <1>0 DEF L!vars
<1>c. ASSUME NEW o \in Orders, NEW why, CloseOrder(o, why) PROVE [L(q)!Next]_(L(q)!vars)
  <2>1. CASE o = q
    BY <1>c, <2>1 DEF CloseOrder, MayCloseAs, Pending, Invalidated, Accepted, CloseIntent,
       L!Next, L!vars, L!Ask, L!Commit, L!Pay, L!Drop, L!Abandon, L!Complete, L!Cancel
  <2>2. CASE o # q
    BY <1>0, <1>c, <2>2 DEF CloseOrder, CloseIntent
  <2> QED
    BY <2>1, <2>2
<1>1. ASSUME NEW o \in Orders, NEW b \in Buyers, NEW r \in Routes \ {"none"}, Request(o, b, r) PROVE [L(q)!Next]_(L(q)!vars)
  <2>1. CASE o = q
    BY <1>1, <2>1 DEF Request, CommitTerms, L!Next, L!vars, L!Ask, L!Commit, L!Pay, L!Drop, L!Abandon, L!Complete, L!Cancel, orderVars, intentVars, envVars
  <2>2. CASE o # q
    BY <1>0, <1>1, <2>2 DEF Request, CommitTerms, orderVars, intentVars, envVars
  <2> QED
    BY <2>1, <2>2
<1>2. ASSUME NEW o \in Orders, NEW ttl \in MinQuoteTtl..MaxQuoteTtl, Quote(o, ttl) PROVE [L(q)!Next]_(L(q)!vars)
  <2>1. CASE o = q
    BY <1>2, <2>1 DEF Quote, L!Next, L!vars, L!Ask, L!Commit, L!Pay, L!Drop, L!Abandon, L!Complete, L!Cancel, orderVars, intentVars, envVars
  <2>2. CASE o # q
    BY <1>0, <1>2, <2>2 DEF Quote, orderVars, intentVars, envVars
  <2> QED
    BY <2>1, <2>2
<1>3. ASSUME NEW o \in Orders, Accept(o) PROVE [L(q)!Next]_(L(q)!vars)
  <2>1. CASE o = q
    BY <1>3, <2>1 DEF Accept, CommitTerms, L!Next, L!vars, L!Ask, L!Commit, L!Pay, L!Drop, L!Abandon, L!Complete, L!Cancel, orderVars, intentVars, envVars
  <2>2. CASE o # q
    BY <1>0, <1>3, <2>2 DEF Accept, CommitTerms, orderVars, intentVars, envVars
  <2> QED
    BY <2>1, <2>2
<1>4. ASSUME NEW o \in Orders, ConfirmPayment(o) PROVE [L(q)!Next]_(L(q)!vars)
  <2>1. CASE o = q
    BY <1>4, <2>1 DEF ConfirmPayment, Settleable, L!Next, L!vars, L!Ask, L!Commit, L!Pay, L!Drop, L!Abandon, L!Complete, L!Cancel, orderVars, intentVars, envVars
  <2>2. CASE o # q
    BY <1>0, <1>4, <2>2 DEF ConfirmPayment, Settleable, orderVars, intentVars, envVars
  <2> QED
    BY <2>1, <2>2
<1>5. ASSUME NEW o \in Orders, EndPaidOrder(o) PROVE [L(q)!Next]_(L(q)!vars)
  <2>1. CASE o = q
    BY <1>5, <2>1 DEF EndPaidOrder, L!Next, L!vars, L!Ask, L!Commit, L!Pay, L!Drop, L!Abandon, L!Complete, L!Cancel, orderVars, intentVars, envVars
  <2>2. CASE o # q
    BY <1>0, <1>5, <2>2 DEF EndPaidOrder, orderVars, intentVars, envVars
  <2> QED
    BY <2>1, <2>2
<1>6. ASSUME NEW o \in Orders,
             \/ \E role \in {"buyer", "creator"} : Close(o, role)
             \/ ExpireDue(o) \/ RecoverInvalidation(o)
      PROVE  [L(q)!Next]_(L(q)!vars)
  BY <1>6, <1>c DEF Close, ExpireDue, RecoverInvalidation
<1>7. ASSUME \/ Tick \/ ChangeAccount \/ ChangeCapacity \/ ChangeModes \/ UNCHANGED vars
             \/ \E b \in Buyers : ChangeEligibility(b)
             \/ \E o \in Orders : ClaimTransfer(o)
      PROVE  [L(q)!Next]_(L(q)!vars)
  BY <1>0, <1>7 DEF Tick, ChangeAccount, ChangeCapacity, ChangeModes, ChangeEligibility,
     ClaimTransfer, vars, orderVars, intentVars, envVars
<1> QED
  BY <1>1, <1>2, <1>3, <1>4, <1>5, <1>6, <1>7 DEF Next

\* The orders of the implementation refine OrderLifecycle, one by one.
THEOREM OrdersImplementLifecycle == Spec => ImplementsLifecycle
<1>1. Init => \A o \in Orders : L(o)!Init
  BY DEF Init, L!Init
<1>2. OInv /\ [Next]_vars => [\A o \in Orders : [L(o)!Next]_(L(o)!vars)]_vars
  BY LifecycleStep
<1> QED
  BY <1>1, <1>2, OInvHolds, PTL DEF Spec, ImplementsLifecycle

\* The three tables of an order agree, for any number of orders and capacities.
THEOREM OrdersTablesAgree == Spec => []OrdersAgree
  BY OrdersTypeOK, OrdersReservationFollowsOrder, OrdersIntentFollowsOrder, PTL DEF OrdersAgree

---------------------------------------------------------------------------
(* The limit. *)

\* commitTerms adds one slot to fewer than the limit.
LEMMA CommitWithinLimit ==
  ASSUME TypeOK, NEW o \in Orders, CommitTerms(o)
  PROVE  Cardinality(Active') <= capacity
<1>1. IsFiniteSet(Active) /\ capacity \in Nat
  BY OrdersAssumptions, FS_Subset DEF Active, TypeOK
<1>2. Active' = Active \cup {o}
  BY DEF CommitTerms, Active, TypeOK
<1>3. Cardinality(Active) \in Nat /\ Cardinality(Active) < capacity
  BY <1>1, FS_CardinalityType DEF CommitTerms
<1>4. Cardinality(Active') \in {Cardinality(Active), Cardinality(Active) + 1}
  BY <1>1, <1>2, FS_AddElement
<1> QED
  BY <1>1, <1>3, <1>4

\* Only a request of an immediate package and an acceptance take a slot.
LEMMA SlotTaken ==
  ASSUME OInv, Next, NEW q \in Orders, reservation[q] = "none", reservation'[q] = "reserved"
  PROVE  CommitTerms(q)
<1> USE DEF OInv, TypeOK
<1>1. ASSUME NEW o \in Orders, NEW b \in Buyers, NEW r \in Routes \ {"none"}, Request(o, b, r)
      PROVE  CommitTerms(q)
  BY <1>1 DEF Request, CommitTerms
<1>2. ASSUME NEW o \in Orders, Accept(o) PROVE CommitTerms(q)
  BY <1>2 DEF Accept, CommitTerms
<1>3. ASSUME NEW o \in Orders, NEW why, CloseOrder(o, why) PROVE FALSE
  BY <1>3 DEF CloseOrder
<1>4. ASSUME NEW o \in Orders,
             \/ \E ttl \in MinQuoteTtl..MaxQuoteTtl : Quote(o, ttl)
             \/ ClaimTransfer(o) \/ ConfirmPayment(o) \/ EndPaidOrder(o)
      PROVE  FALSE
  BY <1>4 DEF Quote, ClaimTransfer, ConfirmPayment, EndPaidOrder
<1>5. ASSUME \/ Tick \/ ChangeAccount \/ ChangeCapacity \/ ChangeModes
             \/ \E b \in Buyers : ChangeEligibility(b)
      PROVE  FALSE
  BY <1>5 DEF Tick, ChangeAccount, ChangeCapacity, ChangeModes, ChangeEligibility
<1> QED
  BY <1>1, <1>2, <1>3, <1>4, <1>5 DEF Next, Close, ExpireDue, RecoverInvalidation

\* No interleaving of requests, acceptances and changes of the limit takes a slot
\* beyond the limit in force when it is taken (commitTerms).
THEOREM OrdersCapacityRespected == Spec => CapacityRespected
<1>1. OInv /\ [Next]_vars =>
        [(\E o \in Orders : reservation[o] = "none" /\ reservation'[o] = "reserved")
           => Cardinality(Active') <= capacity]_vars
  BY SlotTaken, CommitWithinLimit DEF OInv
<1> QED
  BY <1>1, OInvHolds, PTL DEF Spec, CapacityRespected
---------------------------------------------------------------------------
(* What the triggers demand. *)

\* A quote belongs to a custom request, and its terms can only be accepted with one.
QuotesBelong ==
  \A o \in Orders :
    /\ quotes[o] > 0 => route[o] = "custom_quote"
    /\ state[o] = "absent" => quotes[o] = 0 /\ version[o] = 0
    /\ state[o] = "quoted" => quotes[o] > 0
    /\ Accepted(o) /\ route[o] = "custom_quote" => quotes[o] > 0

GInv == OInv /\ QuotesBelong

LEMMA QuotesStep == GInv /\ [Next]_vars => QuotesBelong'
<1> SUFFICES ASSUME GInv, [Next]_vars PROVE QuotesBelong'
  OBVIOUS
<1> USE DEF GInv, OInv, TypeOK, QuotesBelong, Accepted
<1>0. ASSUME UNCHANGED <<state, route, quotes, version, intent>> PROVE QuotesBelong'
  BY <1>0
<1>1. ASSUME NEW o \in Orders, NEW b \in Buyers, NEW r \in Routes \ {"none"}, Request(o, b, r)
      PROVE  QuotesBelong'
  BY <1>1 DEF Request, CommitTerms, SlotIntentPairs, orderVars, intentVars
<1>2. ASSUME NEW o \in Orders, NEW ttl \in MinQuoteTtl..MaxQuoteTtl, Quote(o, ttl) PROVE QuotesBelong'
  BY <1>2 DEF Quote, intentVars
<1>3. ASSUME NEW o \in Orders, Accept(o) PROVE QuotesBelong'
  BY <1>3 DEF Accept, CommitTerms
<1>4. ASSUME NEW o \in Orders, NEW why, CloseOrder(o, why) PROVE QuotesBelong'
  BY <1>4 DEF CloseOrder, CloseIntent, MayCloseAs, Pending, Invalidated
<1>5. ASSUME NEW o \in Orders, ConfirmPayment(o) \/ EndPaidOrder(o) PROVE QuotesBelong'
  BY <1>5 DEF ConfirmPayment, EndPaidOrder, Settleable, intentVars
<1>6. ASSUME \/ \E o \in Orders : ClaimTransfer(o)
             \/ Tick \/ ChangeAccount \/ ChangeCapacity \/ ChangeModes \/ UNCHANGED vars
             \/ \E b \in Buyers : ChangeEligibility(b)
      PROVE  QuotesBelong'
  BY <1>0, <1>6 DEF ClaimTransfer, Tick, ChangeAccount, ChangeCapacity, ChangeModes,
     ChangeEligibility, vars, orderVars, intentVars
<1> QED
  BY <1>1, <1>2, <1>3, <1>4, <1>5, <1>6 DEF Next, Close, ExpireDue, RecoverInvalidation

LEMMA GInvHolds == Spec => []GInv
<1>1. Init => QuotesBelong
  BY DEF Init, QuotesBelong, Accepted
<1> QED
  BY <1>1, OInvInit, OInvStep, QuotesStep, PTL DEF Spec, GInv

\* What the triggers check of order q in one step.
Accepts(q) ==
  /\ OrderRow(q)' # OrderRow(q) =>
       /\ IF state[q] = "absent" THEN guard_order_insert(q) ELSE guard_order_update(q)
       /\ order_checks(q)' /\ check_order_graph(q)' /\ check_payment(q)' /\ quote_checks(q)
  /\ reservation'[q] # reservation[q] => guard_reservation(q)

LEMMA AcceptsStep == GInv /\ [Next]_vars => \A q \in Orders : Accepts(q)
<1> SUFFICES ASSUME GInv, [Next]_vars, NEW q \in Orders PROVE Accepts(q)
  OBVIOUS
<1> USE OrdersAssumptions DEF GInv, OInv, TypeOK, QuotesBelong, Accepted, SlotIntentPairs,
        ReservationFollowsOrder, IntentFollowsOrder
<1>0. ASSUME UNCHANGED <<state[q], buyer[q], route[q], version[q], quotes[q], reason[q], reservation[q]>>
      PROVE  Accepts(q)
  BY <1>0 DEF Accepts, OrderRow
<1> DEFINE Row == /\ order_checks(q)' /\ check_order_graph(q)' /\ check_payment(q)' /\ quote_checks(q)
<1>1. ASSUME NEW o \in Orders, NEW b \in Buyers, NEW r \in Routes \ {"none"}, Request(o, b, r)
      PROVE  Accepts(q)
  <2>1. CASE o = q
    <3>1. state[q] = "absent" /\ guard_order_insert(q)
      BY <1>1, <2>1 DEF Request, guard_order_insert, OpenOrdersOf
    <3>2. Row
      BY <1>1, <2>1 DEF Request, CommitTerms, IntentTtl, order_checks, check_order_graph,
         check_payment, quote_checks, Routes, intentVars
    <3>3. reservation'[q] # reservation[q] => guard_reservation(q)
      BY <1>1, <2>1 DEF Request, CommitTerms, guard_reservation
    <3> QED
      BY <3>1, <3>2, <3>3 DEF Accepts
  <2>2. CASE o # q
    BY <1>0, <1>1, <2>2 DEF Request, CommitTerms, intentVars
  <2> QED
    BY <2>1, <2>2
<1>2. ASSUME NEW o \in Orders, NEW ttl \in MinQuoteTtl..MaxQuoteTtl, Quote(o, ttl) PROVE Accepts(q)
  <2>1. CASE o = q
    <3>1. state[q] # "absent" /\ guard_order_update(q)
      BY <1>2, <2>1 DEF Quote, guard_order_update, AllowedTransition, Pending
    <3>2. Row
      BY <1>2, <2>1 DEF Quote, QuoteExpiry, order_checks, check_order_graph, check_payment,
         quote_checks, intentVars
    <3> QED
      BY <1>2, <3>1, <3>2 DEF Accepts, Quote
  <2>2. CASE o # q
    BY <1>0, <1>2, <2>2 DEF Quote
  <2> QED
    BY <2>1, <2>2
<1>3. ASSUME NEW o \in Orders, Accept(o) PROVE Accepts(q)
  <2>1. CASE o = q
    <3>1. state[q] # "absent" /\ guard_order_update(q)
      BY <1>3, <2>1 DEF Accept, CommitTerms, guard_order_update, AllowedTransition, Pending
    <3>2. Row
      BY <1>3, <2>1 DEF Accept, CommitTerms, IntentTtl, order_checks, check_order_graph,
         check_payment, quote_checks
    <3>3. guard_reservation(q)
      BY <1>3, <2>1 DEF Accept, CommitTerms, guard_reservation
    <3> QED
      BY <3>1, <3>2, <3>3 DEF Accepts
  <2>2. CASE o # q
    BY <1>0, <1>3, <2>2 DEF Accept, CommitTerms
  <2> QED
    BY <2>1, <2>2
<1>4. ASSUME NEW o \in Orders, NEW why, CloseOrder(o, why) PROVE Accepts(q)
  <2>1. CASE o = q
    <3>1. state[q] # "absent" /\ guard_order_update(q)
      BY <1>4, <2>1 DEF CloseOrder, CloseIntent, MayCloseAs, guard_order_update,
         AllowedTransition, Pending, Invalidated
    <3>2. Row
      BY <1>4, <2>1 DEF CloseOrder, CloseIntent, MayCloseAs, Pending, Invalidated, order_checks,
         check_order_graph, check_payment, quote_checks
    <3>3. reservation'[q] # reservation[q] => guard_reservation(q)
      BY <1>4, <2>1 DEF CloseOrder, guard_reservation
    <3> QED
      BY <3>1, <3>2, <3>3 DEF Accepts
  <2>2. CASE o # q
    BY <1>0, <1>4, <2>2 DEF CloseOrder
  <2> QED
    BY <2>1, <2>2
<1>5. ASSUME NEW o \in Orders, ConfirmPayment(o) \/ EndPaidOrder(o) PROVE Accepts(q)
  <2>1. CASE o = q
    <3>1. state[q] # "absent" /\ guard_order_update(q)
      BY <1>5, <2>1 DEF ConfirmPayment, EndPaidOrder, Settleable, guard_order_update,
         AllowedTransition, Pending
    <3>2. Row
      BY <1>5, <2>1 DEF ConfirmPayment, EndPaidOrder, Settleable, order_checks, check_order_graph,
         check_payment, quote_checks, intentVars
    <3>3. guard_reservation(q)
      BY <1>5, <2>1 DEF ConfirmPayment, EndPaidOrder, guard_reservation
    <3> QED
      BY <3>1, <3>2, <3>3 DEF Accepts
  <2>2. CASE o # q
    BY <1>0, <1>5, <2>2 DEF ConfirmPayment, EndPaidOrder
  <2> QED
    BY <2>1, <2>2
<1>6. ASSUME \/ \E o \in Orders : ClaimTransfer(o)
             \/ Tick \/ ChangeAccount \/ ChangeCapacity \/ ChangeModes \/ UNCHANGED vars
             \/ \E b \in Buyers : ChangeEligibility(b)
      PROVE  Accepts(q)
  BY <1>0, <1>6 DEF ClaimTransfer, Tick, ChangeAccount, ChangeCapacity, ChangeModes,
     ChangeEligibility, vars, orderVars
<1>7. ASSUME NEW o \in Orders,
             \/ \E role \in {"buyer", "creator"} : Close(o, role)
             \/ ExpireDue(o) \/ RecoverInvalidation(o)
      PROVE  Accepts(q)
  BY <1>7, <1>4 DEF Close, ExpireDue, RecoverInvalidation
<1> QED
  BY <1>1, <1>2, <1>3, <1>5, <1>6, <1>7 DEF Next

\* The transition table, deadlines, open-order limit, capacity and quote expiry of the
\* services never ask the database for what its triggers and constraints refuse.
THEOREM OrdersGuardsAccept == Spec => GuardsAccept
<1>1. GInv /\ [Next]_vars =>
        [\A o \in Orders :
           /\ OrderRow(o)' # OrderRow(o) =>
                /\ IF state[o] = "absent" THEN guard_order_insert(o) ELSE guard_order_update(o)
                /\ order_checks(o)' /\ check_order_graph(o)' /\ check_payment(o)' /\ quote_checks(o)
           /\ reservation'[o] # reservation[o] => guard_reservation(o)]_vars
  BY AcceptsStep DEF Accepts, OrderRow, order_checks, check_order_graph, check_payment
<1> QED
  BY <1>1, GInvHolds, PTL DEF Spec, GuardsAccept

\* What a participant saw under a version is still so while the version is: the
\* fence that expectedVersion relies on.
THEOREM OrdersVersionFences == Spec => VersionFencesEveryChange
<1>1. ASSUME GInv, [Next]_vars, NEW q \in Orders,
             <<state[q], quotes[q], route[q]>>' # <<state[q], quotes[q], route[q]>>
      PROVE  version'[q] = version[q] + 1
  <2>1. Accepts(q) /\ OrderRow(q)' # OrderRow(q)
    BY <1>1, AcceptsStep DEF OrderRow, GInv
  <2>2. CASE state[q] = "absent"
    BY <1>1, <2>1, <2>2 DEF Accepts, guard_order_insert, GInv, QuotesBelong
  <2>3. CASE state[q] # "absent"
    BY <2>1, <2>3 DEF Accepts, guard_order_update
  <2> QED
    BY <2>2, <2>3
<1>2. GInv /\ [Next]_vars =>
        [\A o \in Orders : <<state[o], quotes[o], route[o]>>' # <<state[o], quotes[o], route[o]>>
           => version'[o] = version[o] + 1]_vars
  BY <1>1
<1> QED
  BY <1>2, GInvHolds, PTL DEF Spec, VersionFencesEveryChange
===============================================================================
