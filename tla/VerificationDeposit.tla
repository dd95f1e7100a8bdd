------------------------- MODULE VerificationDeposit -------------------------
(***************************************************************************)
(* The proof that an applicant controls a receiving account: account       *)
(* versions (packages/payments/src/receiving-account-service.ts), the      *)
(* deposit challenge, its reconciliation with the bank's transfers and the *)
(* refund of the deposit (verification-deposit-service.ts,                 *)
(* refund-window-worker.ts).  One applicant; every command is a database   *)
(* transaction under the fences of payment-account-fence.ts, so it is one  *)
(* step.  Instants are abstracted to what the code compares: an account is *)
(* in `aged` once its proof is older than 30 days, and `day[c]` places     *)
(* today in the refund window of challenge c.  The 72 hours of a challenge *)
(* bound when the applicant may report (a refusal changes nothing) and     *)
(* decide whether a transfer was late, an input of reconcile.              *)
(***************************************************************************)
EXTENDS Naturals, FiniteSets

CONSTANTS MaxAccounts,    \* bound on the account versions of the applicant
          MaxChallenges,  \* bound on the challenges issued to the applicant
          Banks,          \* physical bank accounts (fingerprints)
          Txns,           \* incoming bank transfers
          NoBank          \* a source the bank statement does not identify

ASSUME DepositBounds == /\ MaxAccounts \in Nat \ {0}
                        /\ MaxChallenges \in Nat \ {0}
                        /\ NoBank \notin Banks

VARIABLES
    current,     \* newest account version, 0 when none; older ones are retired
    bank,        \* bank[v]: the physical account of version v
    proof,       \* proof[v]: proof_state of version v
    aged,        \* versions whose proof is more than 30 days old
    chApp, chRev, chAcc,  \* what challenge c was issued for
    chState,     \* state of challenge c, "none" before it is issued
    receipt,     \* receipt[t]: the challenge transfer t was matched to, or 0
    source,      \* source[t]: the source account recorded with the receipt
    unmatched,   \* transfers with an unmatched row that is refund_required
    obligation,  \* state of the refund obligation of challenge c
    locked,      \* locked[c]: the account the refund has to go to
    day,         \* today relative to the refund window of c
    refunded     \* challenges with a refund row of outcome "sent"

accountVars == <<current, bank, proof, aged>>
challengeVars == <<chApp, chRev, chAcc, chState>>
receiptVars == <<receipt, source, unmatched>>
refundVars == <<obligation, locked, day, refunded>>
depositVars == <<accountVars, challengeVars, receiptVars, refundVars>>

Accounts == 1..MaxAccounts
Challenges == 1..MaxChallenges

ProofStates == {"unverified", "challenge_issued", "sent_reported", "verified"}
ChallengeStates == {"none", "issued", "sent_reported", "verified"}
ObligationStates == {"none", "pending_window", "ready", "sent", "attention_required"}
\* Before refundNotBefore, from it to refundDue, after it.
Days == {"early", "open", "late"}

DepositInit ==
    /\ current = 0
    /\ bank = [v \in Accounts |-> NoBank]
    /\ proof = [v \in Accounts |-> "unverified"]
    /\ aged = {}
    /\ chApp = [c \in Challenges |-> 0]
    /\ chRev = [c \in Challenges |-> 0]
    /\ chAcc = [c \in Challenges |-> 0]
    /\ chState = [c \in Challenges |-> "none"]
    /\ receipt = [t \in Txns |-> 0]
    /\ source = [t \in Txns |-> NoBank]
    /\ unmatched = {}
    /\ obligation = [c \in Challenges |-> "none"]
    /\ locked = [c \in Challenges |-> NoBank]
    /\ day = [c \in Challenges |-> "early"]
    /\ refunded = {}

-----------------------------------------------------------------------------
\* Receiving accounts.

\* A version may be named by an application while it is not retired.
isValidForApplicant(v) == v # 0 /\ v = current

\* Propose the same physical account: the current version is returned as it is.
\* Another one: the current version is retired, a new unverified one inserted.
propose(b) ==
    /\ current < MaxAccounts
    /\ current # 0 => bank[current] # b
    /\ current' = current + 1
    /\ bank' = [bank EXCEPT ![current + 1] = b]
    /\ UNCHANGED <<proof, aged, challengeVars, receiptVars, refundVars>>

-----------------------------------------------------------------------------
\* Challenges.

Issued == {c \in Challenges : chState[c] # "none"}
Active(c) == chState[c] \in {"issued", "sent_reported"}

\* One active challenge per revision and account version (unique index), and an
\* account with proof_verified_at may not leave "verified" (check constraint):
\* the update of proofState would abort the command.
challengeAccepted(a, r, v) ==
    /\ \A c \in Challenges : Active(c) => ~(chApp[c] = a /\ chRev[c] = r /\ chAcc[c] = v)
    /\ proof[v] # "verified"

\* issueChallenge for revision r of application a and account version v; the
\* conditions on the application are in CreatorOnboarding!issueChallenge.
insertChallenge(a, r, v) ==
    /\ isValidForApplicant(v)
    /\ challengeAccepted(a, r, v)
    /\ Cardinality(Issued) < MaxChallenges
    /\ LET c == Cardinality(Issued) + 1 IN
         /\ chApp' = [chApp EXCEPT ![c] = a]
         /\ chRev' = [chRev EXCEPT ![c] = r]
         /\ chAcc' = [chAcc EXCEPT ![c] = v]
         /\ chState' = [chState EXCEPT ![c] = "issued"]
    /\ proof' = [proof EXCEPT ![v] = "challenge_issued"]
    /\ UNCHANGED <<current, bank, aged, receiptVars, refundVars>>

\* The applicant says that the deposit was sent.
reportSent(c) ==
    /\ Active(c)
    /\ proof[chAcc[c]] # "verified"
    /\ chState' = [chState EXCEPT ![c] = "sent_reported"]
    /\ proof' = [proof EXCEPT ![chAcc[c]] = "sent_reported"]
    /\ UNCHANGED <<current, bank, aged, chApp, chRev, chAcc, receiptVars, refundVars>>

-----------------------------------------------------------------------------
\* Reconciliation.

\* findCandidate: the challenge with the transfer's reference, otherwise the
\* newest challenge of an account with the transfer's source.
findCandidate(ref, src) ==
    LET bySource == {c \in Issued : bank[chAcc[c]] = src}
    IN IF ref \in Issued THEN ref
       ELSE IF src = NoBank \/ bySource = {} THEN 0
       ELSE CHOOSE c \in bySource : \A d \in bySource : d <= c

\* The reasons for which a transfer stays unmatched, in the code's order.
unmatchedReason(c, amountOK, ref, src, inTime) ==
    CASE c # 0 /\ chState[c] = "verified" -> "duplicate"
      [] c # 0 /\ ~amountOK -> "amount_mismatch"
      [] c = 0 \/ ref # c -> "reference_mismatch"
      [] ~inTime -> "late"
      [] src = NoBank -> "unidentified_source"
      [] bank[chAcc[c]] # src -> "source_mismatch"
      [] OTHER -> "none"

\* An unmatched row of an identified source is a liability; one without a
\* source is pending_review, which nothing below reads.
insertUnmatched(t, src) ==
    /\ unmatched' = IF src = NoBank THEN unmatched ELSE unmatched \cup {t}
    /\ UNCHANGED <<accountVars, challengeVars, receipt, source, refundVars>>

\* A matched transfer: receipt, obligation with the account locked in it,
\* verified challenge and verified account version, in one commit.
recordReceipt(t, c, src) ==
    /\ receipt[t] = 0            \* payments_deposit_receipt_bank_txn_uidx
    /\ receipt' = [receipt EXCEPT ![t] = c]
    /\ source' = [source EXCEPT ![t] = src]
    /\ obligation' = [obligation EXCEPT ![c] = "pending_window"]
    /\ locked' = [locked EXCEPT ![c] = bank[chAcc[c]]]
    /\ chState' = [chState EXCEPT ![c] = "verified"]
    /\ proof' = [proof EXCEPT ![chAcc[c]] = "verified"]
    /\ aged' = aged \ {chAcc[c]}
    /\ UNCHANGED <<current, bank, chApp, chRev, chAcc, unmatched,
                   day, refunded>>

\* The owner enters a transfer: whether its amount is the challenge's, the
\* reference it carries (0: that of no challenge), its source and whether it arrived before the expiry.
\* The facts are typed in by hand, so the same transfer may be entered again
\* with others.
reconcile(t, amountOK, ref, src, inTime) ==
    LET c == findCandidate(ref, src)
        reason == unmatchedReason(c, amountOK, ref, src, inTime)
    IN IF reason = "none" THEN recordReceipt(t, c, src) ELSE insertUnmatched(t, src)

-----------------------------------------------------------------------------
\* Refunds.

\* The owner records that the deposit was sent back, or that it could not be.
recordRefund(c, outcome) ==
    /\ obligation[c] \notin {"none", "sent"}
    /\ day[c] # "early"
    /\ outcome = "sent" => c \notin refunded
    /\ refunded' = IF outcome = "sent" THEN refunded \cup {c} ELSE refunded
    /\ obligation' = [obligation EXCEPT ![c] = outcome]
    /\ UNCHANGED <<accountVars, challengeVars, receiptVars, locked, day>>

Scannable == {c \in Challenges : obligation[c] \notin {"none", "sent"} /\ day[c] # "early"}

\* One pass of scanVerificationDepositRefundWindows over every open obligation;
\* the reminder events it emits once per category are left out.
scanRefundWindows ==
    /\ obligation' = [c \in Challenges |->
         IF c \notin Scannable THEN obligation[c]
         ELSE IF day[c] = "late" THEN "attention_required"
         ELSE IF obligation[c] = "pending_window" THEN "ready"
         ELSE obligation[c]]
    /\ UNCHANGED <<accountVars, challengeVars, receiptVars, locked, day, refunded>>

-----------------------------------------------------------------------------
\* Time.

proofAges(v) ==
    /\ v = current /\ proof[v] = "verified"
    /\ v \notin aged
    /\ aged' = aged \cup {v}
    /\ UNCHANGED <<current, bank, proof, challengeVars, receiptVars, refundVars>>

NextDay == [early |-> "open", open |-> "late", late |-> "late"]

windowAdvances(c) ==
    /\ obligation[c] # "none"
    /\ day[c] # "late"
    /\ day' = [day EXCEPT ![c] = NextDay[day[c]]]
    /\ UNCHANGED <<accountVars, challengeVars, receiptVars, obligation, locked, refunded>>

-----------------------------------------------------------------------------
DepositNext ==
    \/ \E b \in Banks : propose(b)
    \/ \E c \in Challenges : reportSent(c) \/ windowAdvances(c)
    \/ \E c \in Challenges, outcome \in {"sent", "attention_required"} : recordRefund(c, outcome)
    \/ \E t \in Txns, amountOK, inTime \in BOOLEAN, ref \in Issued \cup {0},
          src \in Banks \cup {NoBank} : reconcile(t, amountOK, ref, src, inTime)
    \/ \E v \in Accounts : proofAges(v)
    \/ scanRefundWindows

DepositTypeOK ==
    /\ current \in 0..MaxAccounts
    /\ bank \in [Accounts -> Banks \cup {NoBank}]
    /\ proof \in [Accounts -> ProofStates]
    /\ aged \subseteq Accounts
    /\ chAcc \in [Challenges -> 0..MaxAccounts]
    /\ chState \in [Challenges -> ChallengeStates]
    /\ receipt \in [Txns -> 0..MaxChallenges]
    /\ source \in [Txns -> Banks \cup {NoBank}]
    /\ unmatched \subseteq Txns
    /\ obligation \in [Challenges -> ObligationStates]
    /\ locked \in [Challenges -> Banks \cup {NoBank}]
    /\ day \in [Challenges -> Days]
    /\ refunded \subseteq Challenges
=============================================================================
