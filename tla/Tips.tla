-------------------------------- MODULE Tips --------------------------------
(***************************************************************************)
(* Tips from the request of a guest or buyer to their end: creation under  *)
(* the owner's amount policy, the creator's settings and two limits on     *)
(* open tips (packages/tips, catalog, payments), the payer's report of a   *)
(* transfer, the creator's confirmation and expiry.                        *)
(*                                                                         *)
(* A creating transaction is a sequence of steps: what it has locked, it   *)
(* holds until it commits or rolls back, and whatever it only read may     *)
(* change under it.  Tip payments are enabled throughout.                  *)
(***************************************************************************)
EXTENDS Naturals, FiniteSets

CONSTANTS
  Attempts,          \* requests of createTip; a resent one has its command's key
  Creators, Changing, \* bound: the creators who change settings or account
  CommandOf(_),      \* the idempotency key a request carries
  CreatorOf(_), KeyOf(_),  \* the creator it is for; the abuse key of its sender
  Fits(_, _),        \* Fits(a, r): its amount lies within policy revision r
  openIpLimit, openCreatorLimit,
  MaxRevision,       \* bound: policy revisions
  MaxAccount         \* bound: receiving account versions; 0: none usable

ASSUME LimitsAssumption == /\ openIpLimit \in Nat \ {0} /\ openCreatorLimit \in Nat \ {0}
                           /\ MaxRevision \in Nat \ {0} /\ MaxAccount \in Nat
                           /\ \A a \in Attempts : CreatorOf(a) \in Creators
                           /\ Changing \subseteq Creators

VARIABLES
  stage,      \* how far the transaction of each request is
  seen,       \* what it has read: the policy revision and the account version
  tip,        \* state of the tip each request made
  intent,     \* state of its payment intent
  paidTo,     \* the account version its intent names
  lapsed,     \* tips whose intent's expiresAt has passed
  reported,      \* the payer's report: none, asking (between its transactions), made
  policy,     \* current revision of the owner's policy
  offering,   \* creators whose page is visible and whose tips are switched on
  account     \* current usable receiving account version of each creator

world == <<policy, offering, account>>
book  == <<tip, intent, paidTo, lapsed, reported>>
tipVars  == <<stage, seen, tip, intent, paidTo, lapsed, reported, policy, offering, account>>

TipsInit ==
  /\ stage = [a \in Attempts |-> "idle"]
  /\ seen = [a \in Attempts |-> <<0, 0>>]
  /\ tip = [a \in Attempts |-> "none"] /\ intent = [a \in Attempts |-> "none"]
  /\ paidTo = [a \in Attempts |-> 0]
  /\ lapsed = {} /\ reported = [a \in Attempts |-> "none"]
  /\ policy = 1 /\ offering = Creators /\ account = [u \in Creators |-> 1]

---------------------------------------------------------------------------
(* Locks: which stages hold what.                                          *)

Running(a)       == stage[a] # "idle"
HoldsKey(a)     == stage[a] \in {"keyed", "policy", "page", "counted", "replayed"}
HoldsPolicy(a)  == stage[a] \in {"policy", "page", "counted"}
HoldsPage(a)    == stage[a] \in {"page", "counted", "replayed"}

(* The page row and the account lineage of creator u are free.             *)
PageFree(u) == \A b \in Attempts : HoldsPage(b) => CreatorOf(b) # u

(* Fault model of policyFree: the policy is read without a share lock.     *)
policyUnfenced == TRUE

(* No transaction holds the policy pointer for share.                      *)
policyFree == \A a \in Attempts : ~HoldsPolicy(a)

Existing(a) == {b \in Attempts : CommandOf(b) = CommandOf(a) /\ tip[b] # "none"}
Pending(a)  == intent[a] = "awaiting_transfer" /\ a \notin lapsed

moves(a, s) == stage' = [stage EXCEPT ![a] = s]
ends(a)     == moves(a, "idle") /\ seen' = [seen EXCEPT ![a] = <<0, 0>>]

---------------------------------------------------------------------------
(* createTip.                                                              *)

(* The key's row is inserted, or waits for the transaction that inserted   *)
(* it and is then read; a completed one is replayed.                       *)
beginIdempotentCommand(a) ==
  /\ stage[a] = "idle" /\ tip[a] = "none"
  /\ \A b \in Attempts : CommandOf(b) = CommandOf(a) => ~Running(b)
  /\ moves(a, "begun")
  /\ UNCHANGED <<seen, book, world>>

(* Requests that share an abuse key go one at a time.                      *)
lockCreationAbuseKey(a) ==
  /\ stage[a] = "begun"
  /\ \A b \in Attempts : KeyOf(b) = KeyOf(a) => ~HoldsKey(b)
  /\ moves(a, "keyed")
  /\ UNCHANGED <<seen, book, world>>

(* getTipEligibility reads the policy first, for share.                    *)
readPolicy(a) ==
  /\ stage[a] = "keyed" /\ Existing(a) = {}
  /\ moves(a, "policy") /\ seen' = [seen EXCEPT ![a] = <<policy, 0>>]
  /\ UNCHANGED <<book, world>>

(* A creator can be paid: account 0 stands for none, unverified, erased, or *)
(* bound to a settlement that is not his or not ready.                     *)
usableAccount(u) == account[u] # 0

(* The creator's page and account are locked; the creator must be visible, *)
(* offering tips and have a verified account with a usable settlement.     *)
existingEligibility(a) ==
  CreatorOf(a) \in offering /\ usableAccount(CreatorOf(a))

(* Fault model of lockPage: the page row is read without its lock.         *)
readPage(a) ==
  /\ stage[a] = (IF Existing(a) = {} THEN "policy" ELSE "keyed")
  /\ existingEligibility(a)
  /\ moves(a, IF Existing(a) = {} THEN "page" ELSE "replayed")
  /\ seen' = [seen EXCEPT ![a] = <<@[1], account[CreatorOf(a)]>>]
  /\ UNCHANGED <<book, world>>

lockPage(a) ==
  /\ stage[a] = (IF Existing(a) = {} THEN "policy" ELSE "keyed")
  /\ PageFree(CreatorOf(a))
  /\ existingEligibility(a)
  /\ moves(a, IF Existing(a) = {} THEN "page" ELSE "replayed")
  /\ seen' = [seen EXCEPT ![a] = <<@[1], account[CreatorOf(a)]>>]
  /\ UNCHANGED <<book, world>>

(* The amount is within the policy, and fewer open tips than the limits.   *)
assertOpenCapacity(a) ==
  /\ stage[a] = "page" /\ Fits(a, seen[a][1])
  /\ Cardinality({b \in Attempts : Pending(b) /\ KeyOf(b) = KeyOf(a)}) < openIpLimit
  /\ Cardinality({b \in Attempts : Pending(b) /\ CreatorOf(b) = CreatorOf(a)}) < openCreatorLimit
  /\ moves(a, "counted")
  /\ UNCHANGED <<seen, book, world>>

(* Tip, intent, guest capability, event and the key's completion commit.   *)
createIntent(a) ==
  /\ stage[a] = "counted"
  /\ ends(a)
  /\ tip' = [tip EXCEPT ![a] = "awaiting_payment"]
  /\ intent' = [intent EXCEPT ![a] = "awaiting_transfer"]
  /\ paidTo' = [paidTo EXCEPT ![a] = seen[a][2]]
  /\ UNCHANGED <<lapsed, reported, world>>

(* A resent request is answered from the first one's tip while that is     *)
(* pending and its account current; nothing is written.  Every transaction *)
(* may also fail, on a guard or for any other reason, and leave nothing.   *)
replayOrRollback(a) ==
  /\ Running(a) /\ ends(a)
  /\ UNCHANGED <<book, world>>

---------------------------------------------------------------------------
(* The owner, the creators.                                                *)

(* savePolicy locks the pointer for update and appends a revision.         *)
savePolicy ==
  /\ policyFree /\ policy < MaxRevision
  /\ policy' = policy + 1
  /\ UNCHANGED <<stage, seen, book, offering, account>>

(* saveSettings and the page's own commands hold the page row.             *)
saveSettings(u) ==
  /\ PageFree(u)
  /\ offering' = IF u \in offering THEN offering \ {u} ELSE offering \cup {u}
  /\ UNCHANGED <<stage, seen, book, policy, account>>

(* A new account version, or none: under the lineage lock.                 *)
changeAccount(u) ==
  /\ PageFree(u)
  /\ \E v \in 0..MaxAccount : account' = [account EXCEPT ![u] = v]
  /\ UNCHANGED <<stage, seen, book, policy, offering>>

---------------------------------------------------------------------------
(* The intent's end.                                                       *)

(* Both rows, each only from its pending state (a miss fails the whole     *)
(* transaction).                                                           *)
closes(as, state) ==
  /\ \A a \in as : intent[a] = "awaiting_transfer" /\ tip[a] = "awaiting_payment"
  /\ intent' = [a \in Attempts |-> IF a \in as THEN state ELSE intent[a]]
  /\ tip' = [a \in Attempts |-> IF a \notin as THEN tip[a]
                                ELSE IF state = "confirmed" THEN "completed" ELSE state]
  /\ UNCHANGED <<stage, seen, paidTo, lapsed, reported, world>>

lapse(a) ==
  /\ Pending(a)
  /\ lapsed' = lapsed \cup {a}
  /\ UNCHANGED <<stage, seen, tip, intent, paidTo, reported, world>>

(* Fault model of expirable: intents a payer has reported are left.        *)
expirableUnclaimed == {a \in lapsed : intent[a] = "awaiting_transfer" /\ reported[a] # "made"}

expirable == {a \in lapsed : intent[a] = "awaiting_transfer"}

(* The worker's scan closes intent and tip in one transaction.             *)
expireTipPaymentIntents == expirable # {} /\ closes(expirable, "expired")

(* The creator attests the transfer: only for a pending intent whose       *)
(* account version is still the current one.                               *)
confirm(a) ==
  /\ Pending(a) /\ paidTo[a] = account[CreatorOf(a)] /\ PageFree(CreatorOf(a))
  /\ closes({a}, "confirmed")

(* reportTransfer: checked, then the throttle, then checked again and      *)
(* recorded under the intent's lock.  One report is followed at a time.    *)
askClaim(a) ==
  /\ Pending(a) /\ reported[a] = "none" /\ \A b \in Attempts : reported[b] # "asking"
  /\ reported' = [reported EXCEPT ![a] = "asking"]
  /\ UNCHANGED <<stage, seen, tip, intent, paidTo, lapsed, world>>

recordClaim(a) ==
  /\ reported[a] = "asking"
  /\ \/ Pending(a) /\ reported' = [reported EXCEPT ![a] = "made"]
     \/ reported' = [reported EXCEPT ![a] = "none"]
  /\ UNCHANGED <<stage, seen, tip, intent, paidTo, lapsed, world>>

TipsNext ==
  \/ \E a \in Attempts :
       \/ beginIdempotentCommand(a) \/ lockCreationAbuseKey(a) \/ readPolicy(a)
       \/ lockPage(a) \/ assertOpenCapacity(a) \/ createIntent(a) \/ replayOrRollback(a)
       \/ lapse(a) \/ confirm(a) \/ askClaim(a) \/ recordClaim(a)
  \/ savePolicy
  \/ \E u \in Changing : saveSettings(u) \/ changeAccount(u)
  \/ expireTipPaymentIntents

(* Time passes, and the worker scans again and again.                      *)
TipsSpec ==
  /\ TipsInit /\ [][TipsNext]_tipVars
  /\ \A a \in Attempts : WF_tipVars(lapse(a))
  /\ WF_tipVars(expireTipPaymentIntents)

---------------------------------------------------------------------------
(* What receipts and the creator's queue show: an intent past its time is  *)
(* shown as expired before the scan has closed it.                         *)
receiptState(a) == IF intent[a] = "awaiting_transfer" /\ a \in lapsed THEN "expired" ELSE intent[a]

(* The database's own guards: rows start pending and end once; a new       *)
(* intent names the current verified account; claims and confirmations     *)
(* need a pending intent in time; tip and intent agree at every commit.    *)
lifecycleGuard(a) == intent'[a] # intent[a] =>
  /\ intent[a] = "none" => intent'[a] = "awaiting_transfer" /\ tip'[a] = "awaiting_payment"
  /\ intent[a] # "none" => intent[a] = "awaiting_transfer"
destinationGuard(a) == intent[a] = "none" /\ intent'[a] # "none" =>
  paidTo'[a] = account[CreatorOf(a)] /\ paidTo'[a] # 0
claimGuard(a) == reported[a] # "made" /\ reported'[a] = "made" => Pending(a)
confirmationGuard(a) == intent[a] # "confirmed" /\ intent'[a] = "confirmed" =>
  Pending(a) /\ paidTo[a] = account[CreatorOf(a)]
consistencyGuard(a) == <<tip'[a], intent'[a]>> \in
  {<<"none", "none">>, <<"awaiting_payment", "awaiting_transfer">>,
   <<"completed", "confirmed">>, <<"expired", "expired">>}

---------------------------------------------------------------------------
(* However the transactions interleave, the open tips of one sender and of *)
(* one creator stay within their limits, and one command makes one tip.    *)
TipLimits ==
  /\ \A k \in {KeyOf(a) : a \in Attempts} :
       Cardinality({b \in Attempts : Pending(b) /\ KeyOf(b) = k}) <= openIpLimit
  /\ \A u \in Creators :
       Cardinality({b \in Attempts : Pending(b) /\ CreatorOf(b) = u}) <= openCreatorLimit
  /\ \A a \in Attempts : Cardinality(Existing(a)) <= 1

(* A tip commits under terms that hold at that moment, not when they were  *)
(* read: the policy revision it names is the current one and allows its    *)
(* amount, the creator offers tips, the account is current.  What a payer  *)
(* or creator has been shown as final stays so.                            *)
TipsAreBacked ==
  [][\A a \in Attempts :
       /\ tip[a] = "none" /\ tip'[a] # "none" =>
            /\ seen[a] = <<policy, account[CreatorOf(a)]>> /\ Fits(a, policy)
            /\ CreatorOf(a) \in offering
       /\ receiptState(a) \in {"confirmed", "expired"} => receiptState(a)' = receiptState(a)]_tipVars

(* The services never run into the database's guards: a report whose first *)
(* check is stale, a confirmation racing the clock or an account change    *)
(* is refused by the service that makes it.                                *)
TipGuardsAccept ==
  [][\A a \in Attempts : /\ lifecycleGuard(a) /\ destinationGuard(a) /\ claimGuard(a)
                         /\ confirmationGuard(a) /\ consistencyGuard(a)]_tipVars

(* Tips commit on current terms, final tips stay final, and the database's *)
(* guards accept every step of the tip services (createTip, confirm,       *)
(* expireTipPaymentIntents).                                               *)
TipsAreSound == TipsAreBacked /\ TipGuardsAccept

(* Every tip is settled or expires, reported or not.                       *)
TipsEnd == \A a \in Attempts : []<>(tip[a] # "awaiting_payment")
=============================================================================
