--------------------------- MODULE CreatorsProofs ---------------------------
(***************************************************************************)
(* Proofs about the two ways to money of a creator, becoming one and being *)
(* tipped, for any number of applications, accounts, transfers, requests   *)
(* and senders.                                                            *)
(*   CreatorOnboarding: a grant rests on a deposit because the challenge   *)
(* it names is verified (GrantHasChallenge), a verified challenge is owed  *)
(* (VerifiedIsOwed) and its receipt came from its account, which no later  *)
(* account version changes (ReceiptsAreFromAccount).                       *)
(*   Tips: the limits hold because whoever has counted still holds the     *)
(* sender's lock and the creator's page (Exclusion), so nobody adds a tip  *)
(* under the count (CountsStand); the terms are current at the commit      *)
(* because the policy and the page stay locked from the reading on         *)
(* (TermsStand).                                                           *)
(***************************************************************************)
EXTENDS CreatorOnboarding, Tips, FiniteSetTheorems, WellFoundedInduction, TLAPS

---------------------------------------------------------------------------
(* Becoming a creator: the inductive invariant.                             *)

\* The types that TypeOK leaves open.
Placed ==
  /\ proposed \in [Apps -> 0..MaxAccounts]
  /\ chApp \in [Challenges -> 0..MaxApps] /\ chRev \in [Challenges -> 0..MaxRevs]
  /\ capability \in [app : 0..MaxApps, rev : 0..MaxRevs, acc : 0..MaxAccounts]

\* Challenges are issued in order, for accounts that were proposed before.
IssuedInOrder == \E n \in 0..MaxChallenges : Issued = 1..n
ChallengesHaveAccounts == \A c \in Issued : chAcc[c] \in 1..current
GrantHasAccount == capability # NoCapability => capability.acc \in 1..current

\* A challenge is verified with its receipt, and the receipt is from its account.
VerifiedIsOwed == \A c \in Challenges : obligation[c] # "none" <=> chState[c] = "verified"
ReceiptsAreFromAccount ==
  \A t \in Txns : receipt[t] # 0 => source[t] = bank[chAcc[receipt[t]]]

\* A grant names a challenge that was verified for it.
GrantHasChallenge ==
  capability # NoCapability =>
    \E c \in Challenges : /\ chApp[c] = capability.app /\ chRev[c] = capability.rev
                          /\ chAcc[c] = capability.acc /\ chState[c] = "verified"

OnboardingInv ==
  /\ TypeOK /\ Placed /\ IssuedInOrder /\ ChallengesHaveAccounts /\ GrantHasAccount
  /\ VerifiedIsOwed /\ ReceiptsAreFromAccount /\ GrantHasChallenge
  /\ RefundsMatchReceipts /\ SessionHasPresentRights /\ OpenApplicationIsFound

---------------------------------------------------------------------------
(* The greatest of some numbers.                                           *)

LEMMA GreatestExists ==
  ASSUME NEW n \in Nat, NEW S \in SUBSET (0..n), S # {}
  PROVE  \E x \in S : \A y \in S : y <= x
<1> DEFINE T == {k \in 0..n : n - k \in S}
           R == OpToRel(<, Nat)
<1>1. PICK x \in S : TRUE
  OBVIOUS
<1>2. n - x \in 0..n /\ n - (n - x) = x
  OBVIOUS
<1>3. T # {}
  BY <1>1, <1>2
<1>4. T \subseteq Nat
  OBVIOUS
<1>5. IsWellFoundedOn(R, Nat)
  BY NatLessThanWellFounded DEF OpToRel
<1>6. \A i, k \in Nat : i < k => <<i, k>> \in R
  BY DEF OpToRel
<1> HIDE DEF R
<1>7. \E m \in T : \A k \in T : ~ (<<k, m>> \in R)
  <2> HIDE DEF T
  <2> QED
    BY <1>3, <1>4, <1>5, WFMin
<1>8. PICK m \in T : \A k \in T : ~ (<<k, m>> \in R)
  BY <1>7
<1>9. n - m \in S /\ m \in 0..n
  BY <1>8
<1>10. ASSUME NEW y \in S PROVE y <= n - m
  <2>1. y \in 0..n /\ n - y \in 0..n /\ n - (n - y) = y
    OBVIOUS
  <2>2. n - y \in T
    BY <2>1
  <2>3. ~ (n - y < m)
    BY <1>4, <1>6, <1>8, <2>2
  <2> QED
    BY <1>9, <2>1, <2>3
<1> QED
  BY <1>9, <1>10

\* The identifier of a new revision is a number.
LEMMA NewRevisionIsNumber ==
  ASSUME TypeOK
  PROVE  NewRevision \in 1..(MaxRevs + 1)
<1> DEFINE S == {rev[a] : a \in Apps}
<1>1. MaxRevs \in Nat /\ MaxApps \in Nat \ {0} /\ rev \in [Apps -> 0..MaxRevs]
  BY ApplicationBounds DEF TypeOK, AppTypeOK
<1>2. S \in SUBSET (0..MaxRevs) /\ S # {}
  BY <1>1 DEF Apps
<1>3. PICK m \in S : \A y \in S : y <= m
  BY <1>1, <1>2, GreatestExists
<1>4. m \in 0..MaxRevs /\ m + 1 \in 1..(MaxRevs + 1) /\ (m + 1) - 1 = m
  BY <1>1, <1>2, <1>3
<1>5. \A a \in Apps : rev[a] < m + 1
  BY <1>1, <1>3, <1>4
<1>6. \E a \in Apps : rev[a] = (m + 1) - 1
  BY <1>3, <1>4
<1> QED
  BY <1>4, <1>5, <1>6 DEF NewRevision

\* A transfer is matched to no challenge or to one that was issued.
LEMMA CandidateIsIssued ==
  ASSUME TypeOK, IssuedInOrder, NEW ref, NEW src
  PROVE  findCandidate(ref, src) \in Issued \cup {0}
<1> DEFINE S == {c \in Issued : bank[chAcc[c]] = src}
<1>1. CASE ref \in Issued \/ src = NoBank \/ S = {}
  BY <1>1 DEF findCandidate
<1>2. CASE ref \notin Issued /\ src # NoBank /\ S # {}
  <2>1. MaxChallenges \in Nat /\ S \in SUBSET (0..MaxChallenges)
    BY DepositBounds DEF Issued, Challenges
  <2>2. \E c \in S : \A d \in S : d <= c
    BY <1>2, <2>1, GreatestExists
  <2>3. findCandidate(ref, src) = CHOOSE c \in S : \A d \in S : d <= c
    BY <1>2 DEF findCandidate
  <2> QED
    BY <2>2, <2>3
<1> QED
  BY <1>1, <1>2

---------------------------------------------------------------------------
(* What the steps do.                                                      *)

\* A reconciliation records a receipt of an unverified challenge from its own account,
\* or an unmatched transfer.
LEMMA ReconcileStep ==
  ASSUME TypeOK, IssuedInOrder, NEW t \in Txns, NEW amountOK \in BOOLEAN, NEW inTime \in BOOLEAN,
         NEW ref \in Issued \cup {0}, NEW src \in Banks \cup {NoBank},
         reconcile(t, amountOK, ref, src, inTime)
  PROVE  \/ insertUnmatched(t, src)
         \/ \E c \in Issued : /\ chState[c] # "verified" /\ bank[chAcc[c]] = src
                              /\ recordReceipt(t, c, src)
<1> DEFINE c == findCandidate(ref, src)
           reason == unmatchedReason(c, amountOK, ref, src, inTime)
<1>1. CASE reason # "none"
  BY <1>1 DEF reconcile
<1>2. CASE reason = "none"
  <2>1. recordReceipt(t, c, src)
    BY <1>2 DEF reconcile
  <2>2. c # 0 /\ chState[c] # "verified" /\ bank[chAcc[c]] = src
    BY <1>2 DEF unmatchedReason
  <2>3. c \in Issued
    BY <2>2, CandidateIsIssued
  <2> QED
    BY <2>1, <2>2, <2>3
<1> QED
  BY <1>1, <1>2

\* A new challenge is the next one, for the account in use.
LEMMA InsertStep ==
  ASSUME TypeOK, IssuedInOrder, NEW a \in Apps, NEW r, NEW v, insertChallenge(a, r, v)
  PROVE  \E n \in 0..MaxChallenges :
           /\ n + 1 \in Challenges /\ Issued = 1..n /\ v = current /\ v # 0
           /\ chApp' = [chApp EXCEPT ![n + 1] = a] /\ chRev' = [chRev EXCEPT ![n + 1] = r]
           /\ chAcc' = [chAcc EXCEPT ![n + 1] = v]
           /\ chState' = [chState EXCEPT ![n + 1] = "issued"]
<1>1. PICK n \in 0..MaxChallenges : Issued = 1..n
  BY DEF IssuedInOrder
<1>2. MaxChallenges \in Nat /\ n \in Nat
  BY DepositBounds
<1>3. Cardinality(1..n) = n
  BY <1>2, FS_Interval
<1>4. Cardinality(Issued) = n
  BY <1>1, <1>3
<1>5. n < MaxChallenges /\ v = current /\ v # 0
  BY <1>4 DEF insertChallenge, isValidForApplicant
<1>6. n + 1 \in Challenges
  BY <1>2, <1>5 DEF Challenges
<1>7. /\ chApp' = [chApp EXCEPT ![n + 1] = a] /\ chRev' = [chRev EXCEPT ![n + 1] = r]
      /\ chAcc' = [chAcc EXCEPT ![n + 1] = v]
      /\ chState' = [chState EXCEPT ![n + 1] = "issued"]
  BY <1>4 DEF insertChallenge
<1> QED
  BY <1>1, <1>5, <1>6, <1>7

---------------------------------------------------------------------------
(* The invariant.                                                          *)

LEMMA AppTypedStep ==
  ASSUME TypeOK, Placed, AppStep
  PROVE  AppTypeOK' /\ proposed' \in [Apps -> 0..MaxAccounts]
         /\ capability' \in [app : 0..MaxApps, rev : 0..MaxRevs, acc : 0..MaxAccounts]
<1> DEFINE Goal == AppTypeOK /\ proposed \in [Apps -> 0..MaxAccounts]
                   /\ capability \in [app : 0..MaxApps, rev : 0..MaxRevs, acc : 0..MaxAccounts]
<1>t. AppTypeOK /\ Goal
  BY DEF TypeOK, Placed
<1>m. MaxApps \in Nat /\ MaxRevs \in Nat /\ MaxAccounts \in Nat
  BY ApplicationBounds, DepositBounds
<1>s. /\ "draft" \in AppStates /\ "submitted" \in AppStates /\ "withdrawn" \in AppStates
      /\ "under_review" \in AppStates /\ "approved" \in AppStates /\ "rejected" \in AppStates
      /\ "changes_requested" \in AppStates
  BY DEF AppStates
<1>a. \A a \in Apps : a \in 0..MaxApps
  BY <1>m DEF Apps
<1>l. latest # 0 => latest \in Apps
  BY <1>t, <1>m DEF Apps, AppTypeOK
<1>o. ASSUME NEW a \in Apps, NEW state \in AppStates, NEW who \in Owners \cup {NoOwner},
             appState' = [appState EXCEPT ![a] = state], reviewer' = [reviewer EXCEPT ![a] = who],
             live' \subseteq live \cup {a}, emailOK' \subseteq emailOK, cooling' \subseteq cooling \cup {a},
             latest' \in {latest, a}, overtaken' \subseteq overtaken \cup {a}, UNCHANGED <<rev, sent, proposed>>,
             \/ UNCHANGED <<capability, session>>
             \/ capability' = [app |-> a, rev |-> rev[a], acc |-> proposed[a]] /\ session' = "none"
      PROVE  Goal'
  <2>1. AppTypeOK'
    BY <1>t, <1>a, <1>o DEF AppTypeOK
  <2>2. capability' \in [app : 0..MaxApps, rev : 0..MaxRevs, acc : 0..MaxAccounts]
    BY <1>t, <1>a, <1>o DEF AppTypeOK
  <2> QED
    BY <1>t, <1>o, <2>1, <2>2
<1>1. CASE emailChanges \/ signIn
  BY <1>t, <1>1 DEF emailChanges, signIn, Rights, AppTypeOK
<1>2. CASE withdraw
  <2>1. latest \in Apps
    BY <1>2, <1>l DEF withdraw
  <2> QED
    BY <1>2, <1>o, <1>s, <2>1 DEF withdraw
<1>3. ASSUME NEW v \in 0..MaxAccounts, saveDraft(v) \/ submit(v) PROVE Goal'
  <2>1. latest \in Apps /\ NextRevision(latest) <= MaxRevs
    BY <1>3, <1>l DEF saveDraft, submit
  <2>2. NextRevision(latest) \in Nat
    BY <1>t, <1>m, <2>1, NewRevisionIsNumber DEF NextRevision, AppTypeOK
  <2>3. NextRevision(latest) \in 0..MaxRevs
    BY <1>m, <2>1, <2>2
  <2>4. /\ rev' = [rev EXCEPT ![latest] = NextRevision(latest)]
        /\ proposed' = [proposed EXCEPT ![latest] = v]
        /\ sent' \subseteq sent \cup {latest} /\ emailOK' \subseteq emailOK \cup {latest}
        /\ \/ UNCHANGED appState
           \/ appState' = [appState EXCEPT ![latest] = "submitted"]
        /\ UNCHANGED <<reviewer, live, cooling, latest, overtaken, capability, session>>
    BY <1>3 DEF saveDraft, submit
  <2> QED
    BY <1>t, <1>s, <2>1, <2>3, <2>4 DEF AppTypeOK
<1>4. ASSUME NEW v \in 0..MaxAccounts, NEW late, startDraft(v, late) PROVE Goal'
  <2> DEFINE used == {b \in Apps : appState[b] # "none"}
             a == Cardinality(used) + 1
  <2>1. NewRevision \in 0..MaxRevs
    BY <1>4, <1>m, NewRevisionIsNumber DEF startDraft
  <2>2. IsFiniteSet(Apps)
    BY <1>m, FS_Interval DEF Apps
  <2>3. IsFiniteSet(used)
    BY <2>2, FS_Subset
  <2>4. Cardinality(used) \in Nat
    BY <2>3, FS_CardinalityType
  <2>5. Cardinality(used) < MaxApps
    BY <1>4 DEF startDraft
  <2>6. a \in Apps
    BY <1>m, <2>4, <2>5 DEF Apps
  <2>7. /\ appState' = [appState EXCEPT ![a] = "draft"] /\ rev' = [rev EXCEPT ![a] = NewRevision]
        /\ proposed' = [proposed EXCEPT ![a] = v]
        /\ latest' \in {latest, a} /\ overtaken' \subseteq overtaken \cup {a}
        /\ UNCHANGED <<sent, emailOK, reviewer, live, cooling, capability, session>>
    BY <1>4 DEF startDraft, stamp
  <2> HIDE DEF a
  <2> QED
    BY <1>t, <1>s, <1>a, <2>1, <2>6, <2>7 DEF AppTypeOK
<1>5. ASSUME NEW o \in Owners, NEW a \in Apps, NEW late, claim(o, a, late) PROVE Goal'
  BY <1>5, <1>o, <1>s DEF claim, stamp
<1>6. ASSUME NEW a \in Apps, NEW late, reopen(a, late) PROVE Goal'
  BY <1>6, <1>o, <1>s DEF reopen, settleDecision, stamp
<1>7. ASSUME NEW o \in Owners, NEW a \in Apps, NEW late, grant(o, a, late) PROVE Goal'
  BY <1>7, <1>o, <1>s DEF grant, settleDecision, stamp
<1>8. ASSUME NEW o \in Owners, NEW a \in Apps, NEW next, NEW late, decide(o, a, next, late) PROVE Goal'
  BY <1>8, <1>o, <1>s DEF decide, settleDecision, stamp
<1>9. ASSUME NEW a \in Apps, claimExpires(a) \/ cooldownEnds(a) PROVE Goal'
  BY <1>t, <1>9 DEF claimExpires, cooldownEnds, AppTypeOK
<1> QED
  BY <1>1, <1>2, <1>3, <1>4, <1>5, <1>6, <1>7, <1>8, <1>9
  DEF AppStep, saveDraftWith, submitWith, approve

LEMMA DepositTypedStep ==
  ASSUME TypeOK, Placed, IssuedInOrder,
         \/ DepositNext
         \/ \E o \in Owners, a \in Apps : issueChallenge(o, a)
  PROVE  /\ DepositTypeOK'
         /\ chApp' \in [Challenges -> 0..MaxApps] /\ chRev' \in [Challenges -> 0..MaxRevs]
<1> DEFINE Goal == /\ DepositTypeOK
                   /\ chApp \in [Challenges -> 0..MaxApps] /\ chRev \in [Challenges -> 0..MaxRevs]
<1>t. DepositTypeOK /\ Goal
  BY DEF TypeOK, Placed
<1>m. MaxApps \in Nat /\ MaxRevs \in Nat /\ MaxAccounts \in Nat /\ MaxChallenges \in Nat
  BY ApplicationBounds, DepositBounds
<1>s. /\ {"challenge_issued", "sent_reported", "verified"} \subseteq ProofStates
      /\ {"issued", "sent_reported", "verified"} \subseteq ChallengeStates
      /\ {"pending_window", "ready", "sent", "attention_required"} \subseteq ObligationStates
  BY DEF ProofStates, ChallengeStates, ObligationStates
<1>d. \A x \in Days : NextDay[x] \in Days
  BY DEF Days, NextDay
<1>i. \A c \in Issued : c \in Challenges /\ c \in 0..MaxChallenges
  BY <1>m DEF Issued, Challenges
<1> USE DEF DepositTypeOK, accountVars, challengeVars, receiptVars, refundVars
<1>1. ASSUME NEW b \in Banks, propose(b) PROVE Goal'
  <2>1. current + 1 \in Accounts /\ current + 1 \in 0..MaxAccounts
    BY <1>t, <1>m, <1>1 DEF propose, Accounts
  <2> QED
    BY <1>t, <1>1, <2>1 DEF propose
<1>2. ASSUME NEW c \in Challenges, reportSent(c) PROVE Goal'
  BY <1>t, <1>s, <1>2 DEF reportSent
<1>3. ASSUME NEW c \in Challenges, windowAdvances(c) PROVE Goal'
  BY <1>t, <1>d, <1>3 DEF windowAdvances
<1>4. ASSUME NEW c \in Challenges, NEW outcome \in {"sent", "attention_required"},
             recordRefund(c, outcome)
      PROVE  Goal'
  BY <1>t, <1>s, <1>4 DEF recordRefund
<1>5. ASSUME NEW t \in Txns, NEW amountOK \in BOOLEAN, NEW inTime \in BOOLEAN,
             NEW ref \in Issued \cup {0}, NEW src \in Banks \cup {NoBank},
             reconcile(t, amountOK, ref, src, inTime)
      PROVE  Goal'
  <2>1. CASE insertUnmatched(t, src)
    BY <1>t, <2>1 DEF insertUnmatched
  <2>2. ASSUME NEW c \in Issued, bank[chAcc[c]] = src, recordReceipt(t, c, src) PROVE Goal'
    <3>1. /\ receipt' = [receipt EXCEPT ![t] = c] /\ source' = [source EXCEPT ![t] = src]
          /\ obligation' = [obligation EXCEPT ![c] = "pending_window"]
          /\ locked' = [locked EXCEPT ![c] = src]
          /\ chState' = [chState EXCEPT ![c] = "verified"]
          /\ proof' = [proof EXCEPT ![chAcc[c]] = "verified"]
          /\ aged' \subseteq aged
          /\ UNCHANGED <<current, bank, chApp, chRev, chAcc, unmatched, day, refunded>>
      BY <2>2 DEF recordReceipt
    <3> QED
      BY <1>t, <1>s, <1>i, <3>1
  <2> QED
    BY <1>5, <2>1, <2>2, ReconcileStep
<1>6. ASSUME NEW v \in Accounts, proofAges(v) PROVE Goal'
  BY <1>t, <1>6 DEF proofAges
<1>7. CASE scanRefundWindows
  BY <1>t, <1>s, <1>7 DEF scanRefundWindows
<1>8. ASSUME NEW o \in Owners, NEW a \in Apps, issueChallenge(o, a) PROVE Goal'
  <2>1. insertChallenge(a, rev[a], proposed[a]) /\ rev[a] \in 0..MaxRevs /\ a \in 0..MaxApps
        /\ proposed[a] \in 0..MaxAccounts
    BY <1>8, <1>m DEF issueChallenge, TypeOK, AppTypeOK, Placed, Apps
  <2>2. PICK n \in 0..MaxChallenges :
          /\ n + 1 \in Challenges
          /\ chApp' = [chApp EXCEPT ![n + 1] = a] /\ chRev' = [chRev EXCEPT ![n + 1] = rev[a]]
          /\ chAcc' = [chAcc EXCEPT ![n + 1] = proposed[a]]
          /\ chState' = [chState EXCEPT ![n + 1] = "issued"]
    BY <2>1, InsertStep
  <2>3. proof' = [proof EXCEPT ![proposed[a]] = "challenge_issued"]
        /\ UNCHANGED <<current, bank, aged, receiptVars, refundVars>>
    BY <2>1 DEF insertChallenge
  <2> QED
    BY <1>t, <1>s, <2>1, <2>2, <2>3
<1> QED
  BY <1>1, <1>2, <1>3, <1>4, <1>5, <1>6, <1>7, <1>8 DEF DepositNext

\* One application is open; it is the latest, or was opened behind a later stamp.
LEMMA LatestStep ==
  ASSUME TypeOK, OpenApplicationIsFound, AppStep
  PROVE  OpenApplicationIsFound'
<1> USE DEF OpenApplicationIsFound, OneNonterminal, Nonterminal, Editable
<1>t. appState \in [Apps -> AppStates] /\ (latest # 0 => latest \in Apps)
  BY ApplicationBounds DEF TypeOK, AppTypeOK, Apps
<1>1. CASE emailChanges \/ signIn \/ \E a \in Apps : claimExpires(a) \/ cooldownEnds(a)
  BY <1>1 DEF emailChanges, signIn, claimExpires, cooldownEnds
<1>2. CASE withdraw
  BY <1>t, <1>2 DEF withdraw
<1>3. ASSUME NEW v, saveDraft(v) \/ submit(v) PROVE OpenApplicationIsFound'
  BY <1>t, <1>3 DEF saveDraft, submit
<1>4. ASSUME NEW v, NEW late, startDraft(v, late) PROVE OpenApplicationIsFound'
  <2> DEFINE a == Cardinality({b \in Apps : appState[b] # "none"}) + 1
  <2>1. OneNonterminal(a) /\ appState' = [appState EXCEPT ![a] = "draft"] /\ stamp(a, late)
    BY <1>4 DEF startDraft
  <2> HIDE DEF a
  <2> QED
    BY <1>t, <2>1 DEF stamp
<1>5. ASSUME NEW o \in Owners, NEW a \in Apps, NEW late, claim(o, a, late) PROVE OpenApplicationIsFound'
  BY <1>t, <1>5 DEF claim, stamp
<1>6. ASSUME NEW a \in Apps, NEW late, reopen(a, late) PROVE OpenApplicationIsFound'
  BY <1>t, <1>6 DEF reopen, settleDecision, stamp
<1>7. ASSUME NEW o \in Owners, NEW a \in Apps, NEW late, grant(o, a, late) PROVE OpenApplicationIsFound'
  BY <1>t, <1>7 DEF grant, settleDecision, stamp, ownerHasActiveClaim
<1>8. ASSUME NEW o \in Owners, NEW a \in Apps, NEW next, NEW late, decide(o, a, next, late)
      PROVE  OpenApplicationIsFound'
  BY <1>t, <1>8 DEF decide, settleDecision, stamp, ownerHasActiveClaim
<1> QED
  BY <1>1, <1>2, <1>3, <1>4, <1>5, <1>6, <1>7, <1>8
  DEF AppStep, saveDraftWith, submitWith, approve

\* The rights change only in a grant, which ends the session and rests on a challenge.
LEMMA GrantStep ==
  ASSUME TypeOK, Placed, SessionHasPresentRights, GrantHasAccount, GrantHasChallenge,
         VerifiedIsOwed, AppStep, UNCHANGED depositVars
  PROVE  SessionHasPresentRights' /\ GrantHasAccount' /\ GrantHasChallenge'
<1> USE DEF depositVars, accountVars, challengeVars, receiptVars, refundVars, Rights,
        SessionHasPresentRights, GrantHasAccount, GrantHasChallenge
<1>1. ASSUME capability' = capability, session' \in {session, Rights}
      PROVE  SessionHasPresentRights' /\ GrantHasAccount' /\ GrantHasChallenge'
  BY <1>1
<1>2. ASSUME NEW o \in Owners, NEW a \in Apps, NEW late, approve(o, a, late)
      PROVE  SessionHasPresentRights' /\ GrantHasAccount' /\ GrantHasChallenge'
  <2>1. capability' = [app |-> a, rev |-> rev[a], acc |-> proposed[a]] /\ session' = "none"
    BY <1>2 DEF approve, grant
  <2>2. proposed[a] = current /\ proposed[a] # 0
    BY <1>2 DEF approve, proofOfAccount, isValidForApplicant
  <2>3. current \in Nat
    BY DepositBounds DEF TypeOK, DepositTypeOK
  <2>4. PICK c \in Challenges : /\ chApp[c] = a /\ chRev[c] = rev[a] /\ chAcc[c] = proposed[a]
                                /\ chState[c] = "verified"
    BY <1>2 DEF approve, proofOfAccount
  <2> QED
    BY <2>1, <2>2, <2>3, <2>4
<1>3. CASE withdraw \/ emailChanges \/ signIn
  BY <1>1, <1>3 DEF withdraw, emailChanges, signIn
<1>4. ASSUME NEW v, NEW late, saveDraft(v) \/ startDraft(v, late) \/ submit(v)
      PROVE  UNCHANGED <<capability, session>>
  BY <1>4 DEF saveDraft, startDraft, submit
<1>5. ASSUME NEW o \in Owners, NEW a \in Apps, NEW next, NEW late,
             claim(o, a, late) \/ decide(o, a, next, late)
      PROVE  UNCHANGED <<capability, session>>
  BY <1>5 DEF claim, decide
<1>6. ASSUME NEW a \in Apps, NEW late, claimExpires(a) \/ cooldownEnds(a) \/ reopen(a, late)
      PROVE  UNCHANGED <<capability, session>>
  BY <1>6 DEF claimExpires, cooldownEnds, reopen
<1> QED
  BY <1>1, <1>2, <1>3, <1>4, <1>5, <1>6 DEF AppStep, saveDraftWith, submitWith

\* The parts of the invariant that the deposit's steps can disturb.
DepositInv ==
  /\ IssuedInOrder /\ ChallengesHaveAccounts /\ GrantHasAccount
  /\ VerifiedIsOwed /\ ReceiptsAreFromAccount /\ GrantHasChallenge /\ RefundsMatchReceipts

LEMMA ProposeStep ==
  ASSUME TypeOK, Placed, DepositInv, UNCHANGED appVars, NEW b \in Banks, propose(b)
  PROVE  DepositInv'
<1>1. /\ current' = current + 1 /\ bank' = [bank EXCEPT ![current + 1] = b]
      /\ UNCHANGED <<proof, aged, chApp, chRev, chAcc, chState, receipt, source, unmatched,
                     obligation, locked, day, refunded, capability>>
      /\ current \in Nat /\ bank \in [Accounts -> Banks \cup {NoBank}]
  BY DEF propose, TypeOK, DepositTypeOK, challengeVars, receiptVars, refundVars, appVars
<1>2. IssuedInOrder' /\ ChallengesHaveAccounts' /\ GrantHasAccount'
  BY <1>1 DEF DepositInv, IssuedInOrder, ChallengesHaveAccounts, GrantHasAccount, Issued
<1>3. VerifiedIsOwed' /\ GrantHasChallenge' /\ RefundsMatchReceipts'
  BY <1>1 DEF DepositInv, VerifiedIsOwed, GrantHasChallenge, RefundsMatchReceipts
<1>4. ASSUME NEW t \in Txns, receipt[t] # 0 PROVE source[t] = bank'[chAcc[receipt[t]]]
  <2> DEFINE c == receipt[t]
  <2>1. c \in Challenges
    BY <1>4, DepositBounds DEF TypeOK, DepositTypeOK, Challenges
  <2>2. obligation[c] # "none"
    BY <2>1 DEF DepositInv, RefundsMatchReceipts
  <2>3. c \in Issued
    BY <2>1, <2>2 DEF DepositInv, VerifiedIsOwed, Issued
  <2>4. chAcc[c] \in 1..current
    BY <2>3 DEF DepositInv, ChallengesHaveAccounts
  <2>5. bank'[chAcc[c]] = bank[chAcc[c]]
    BY <1>1, <2>4
  <2> QED
    BY <1>4, <2>5 DEF DepositInv, ReceiptsAreFromAccount
<1>5. ReceiptsAreFromAccount'
  BY <1>1, <1>4 DEF ReceiptsAreFromAccount
<1> QED
  BY <1>2, <1>3, <1>5 DEF DepositInv

LEMMA IssueStep ==
  ASSUME TypeOK, Placed, DepositInv, UNCHANGED appVars,
         NEW o \in Owners, NEW a \in Apps, issueChallenge(o, a)
  PROVE  DepositInv'
<1>1. PICK n \in 0..MaxChallenges :
        /\ n + 1 \in Challenges /\ Issued = 1..n /\ proposed[a] = current /\ current # 0
        /\ chApp' = [chApp EXCEPT ![n + 1] = a] /\ chRev' = [chRev EXCEPT ![n + 1] = rev[a]]
        /\ chAcc' = [chAcc EXCEPT ![n + 1] = current]
        /\ chState' = [chState EXCEPT ![n + 1] = "issued"]
  BY InsertStep DEF issueChallenge, DepositInv
<1>2. UNCHANGED <<current, bank, receipt, source, unmatched, obligation, locked, day, refunded,
                  capability>>
  BY DEF issueChallenge, insertChallenge, receiptVars, refundVars, appVars
<1>3. n \in Nat /\ n + 1 \in 0..MaxChallenges /\ current \in Nat
  BY <1>1, DepositBounds DEF Challenges, TypeOK, DepositTypeOK
<1>4. /\ chApp \in [Challenges -> 0..MaxApps] /\ chRev \in [Challenges -> 0..MaxRevs]
      /\ chAcc \in [Challenges -> 0..MaxAccounts] /\ chState \in [Challenges -> ChallengeStates]
      /\ receipt \in [Txns -> 0..MaxChallenges]
  BY DEF TypeOK, DepositTypeOK, Placed
<1>5. chState[n + 1] = "none"
  BY <1>1, <1>3 DEF Issued
<1>6. Issued' = 1..(n + 1)
  <2>1. ASSUME NEW c \in Challenges PROVE chState'[c] # "none" <=> c \in Issued \/ c = n + 1
    BY <1>1, <1>4 DEF Issued
  <2>2. Issued' = Issued \cup {n + 1}
    BY <1>1, <2>1 DEF Issued
  <2>3. (1..n) \cup {n + 1} = 1..(n + 1)
    BY <1>3
  <2> QED
    BY <1>1, <2>2, <2>3
<1>7. IssuedInOrder'
  BY <1>3, <1>6 DEF IssuedInOrder
<1>8. ChallengesHaveAccounts'
  <2>1. ASSUME NEW c \in 1..(n + 1) PROVE chAcc'[c] \in 1..current
    BY <1>1, <1>3, <1>4 DEF DepositInv, ChallengesHaveAccounts, Challenges
  <2> QED
    BY <1>2, <1>6, <2>1 DEF ChallengesHaveAccounts
<1>9. GrantHasAccount' /\ RefundsMatchReceipts'
  BY <1>2 DEF DepositInv, GrantHasAccount, RefundsMatchReceipts
<1>10. VerifiedIsOwed'
  BY <1>1, <1>2, <1>4, <1>5 DEF DepositInv, VerifiedIsOwed
<1>11. GrantHasChallenge'
  BY <1>1, <1>2, <1>4, <1>5 DEF DepositInv, GrantHasChallenge
<1>12. ASSUME NEW t \in Txns, receipt[t] # 0 PROVE source[t] = bank[chAcc'[receipt[t]]]
  <2>1. receipt[t] \in Challenges
    BY <1>4, <1>12, DepositBounds DEF Challenges
  <2>2. receipt[t] # n + 1
    BY <1>1, <1>5, <2>1 DEF DepositInv, RefundsMatchReceipts, VerifiedIsOwed
  <2> QED
    BY <1>1, <1>4, <1>12, <2>1, <2>2 DEF DepositInv, ReceiptsAreFromAccount
<1>13. ReceiptsAreFromAccount'
  BY <1>2, <1>12 DEF ReceiptsAreFromAccount
<1> QED
  BY <1>7, <1>8, <1>9, <1>10, <1>11, <1>13 DEF DepositInv

LEMMA ReceiptStep ==
  ASSUME TypeOK, Placed, DepositInv, UNCHANGED appVars, NEW t \in Txns, NEW c \in Issued,
         NEW src \in Banks \cup {NoBank}, chState[c] # "verified", bank[chAcc[c]] = src,
         recordReceipt(t, c, src)
  PROVE  DepositInv'
<1>1. /\ receipt[t] = 0 /\ receipt' = [receipt EXCEPT ![t] = c]
      /\ source' = [source EXCEPT ![t] = src]
      /\ obligation' = [obligation EXCEPT ![c] = "pending_window"]
      /\ locked' = [locked EXCEPT ![c] = src]
      /\ chState' = [chState EXCEPT ![c] = "verified"]
      /\ UNCHANGED <<current, bank, chApp, chRev, chAcc, refunded, capability>>
  BY DEF recordReceipt, appVars
<1>2. /\ chState \in [Challenges -> ChallengeStates] /\ obligation \in [Challenges -> ObligationStates]
      /\ receipt \in [Txns -> 0..MaxChallenges] /\ source \in [Txns -> Banks \cup {NoBank}]
      /\ locked \in [Challenges -> Banks \cup {NoBank}]
  BY DEF TypeOK, DepositTypeOK
<1>3. c \in Challenges /\ c # 0 /\ chState[c] # "none"
  BY DepositBounds DEF Issued, Challenges
<1>4. obligation[c] = "none" /\ (\A u \in Txns : receipt[u] # c) /\ c \notin refunded
  BY <1>3 DEF DepositInv, VerifiedIsOwed, RefundsMatchReceipts
<1>5. Issued' = Issued
  BY <1>1, <1>2, <1>3 DEF Issued
<1>6. IssuedInOrder' /\ ChallengesHaveAccounts' /\ GrantHasAccount'
  BY <1>1, <1>5 DEF DepositInv, IssuedInOrder, ChallengesHaveAccounts, GrantHasAccount
<1>7. VerifiedIsOwed' /\ GrantHasChallenge'
  BY <1>1, <1>2, <1>3 DEF DepositInv, VerifiedIsOwed, GrantHasChallenge
<1>8. ReceiptsAreFromAccount'
  BY <1>1, <1>2 DEF DepositInv, ReceiptsAreFromAccount
<1>9. ASSUME NEW d \in Challenges
      PROVE  /\ obligation'[d] # "none" <=> \E u \in Txns : receipt'[u] = d
             /\ \A u, w \in Txns : receipt'[u] = d /\ receipt'[w] = d => u = w
             /\ \A u \in Txns : receipt'[u] = d => source'[u] = locked'[d]
             /\ d \in refunded' <=> obligation'[d] = "sent"
  <2>1. /\ obligation[d] # "none" <=> \E u \in Txns : receipt[u] = d
        /\ \A u, w \in Txns : receipt[u] = d /\ receipt[w] = d => u = w
        /\ \A u \in Txns : receipt[u] = d => source[u] = locked[d]
        /\ d \in refunded <=> obligation[d] = "sent"
    BY DEF DepositInv, RefundsMatchReceipts
  <2>2. CASE d = c
    BY <1>1, <1>2, <1>3, <1>4, <2>2
  <2>3. CASE d # c
    <3>1. d # 0
      BY DepositBounds DEF Challenges
    <3>2. \A u \in Txns : receipt'[u] = d <=> receipt[u] = d
      BY <1>1, <1>2, <2>3, <3>1
    <3>3. \A u \in Txns : receipt[u] = d => source'[u] = source[u]
      BY <1>1, <1>2, <3>1
    <3>4. obligation'[d] = obligation[d] /\ locked'[d] = locked[d] /\ refunded' = refunded
      BY <1>1, <1>2, <2>3
    <3> QED
      BY <2>1, <3>2, <3>3, <3>4
  <2> QED
    BY <2>2, <2>3
<1>10. RefundsMatchReceipts'
  BY <1>9 DEF RefundsMatchReceipts
<1> QED
  BY <1>6, <1>7, <1>8, <1>10 DEF DepositInv

\* A recorded refund and the scan move an obligation that is owed.
LEMMA RefundStep ==
  ASSUME TypeOK, DepositInv, UNCHANGED appVars,
         \/ scanRefundWindows
         \/ \E c \in Challenges, outcome \in {"sent", "attention_required"} : recordRefund(c, outcome)
  PROVE  DepositInv'
<1>1. UNCHANGED <<current, bank, chApp, chRev, chAcc, chState, receipt, source, locked, capability>>
  BY DEF scanRefundWindows, recordRefund, accountVars, challengeVars, receiptVars, appVars
<1>2. /\ \A c \in Challenges : obligation'[c] = "none" <=> obligation[c] = "none"
      /\ \A c \in Challenges :
           (c \in refunded <=> obligation[c] = "sent") => (c \in refunded' <=> obligation'[c] = "sent")
  <2>t. obligation \in [Challenges -> ObligationStates]
    BY DEF TypeOK, DepositTypeOK
  <2>1. CASE scanRefundWindows
    BY <2>t, <2>1 DEF scanRefundWindows, Scannable
  <2>2. ASSUME NEW c \in Challenges, NEW outcome \in {"sent", "attention_required"},
               recordRefund(c, outcome)
        PROVE  /\ \A d \in Challenges : obligation'[d] = "none" <=> obligation[d] = "none"
               /\ \A d \in Challenges :
                    (d \in refunded <=> obligation[d] = "sent")
                      => (d \in refunded' <=> obligation'[d] = "sent")
    BY <2>t, <2>2 DEF recordRefund
  <2> QED
    BY <2>1, <2>2
<1>3. IssuedInOrder' /\ ChallengesHaveAccounts' /\ GrantHasAccount' /\ GrantHasChallenge'
      /\ ReceiptsAreFromAccount'
  BY <1>1 DEF DepositInv, IssuedInOrder, ChallengesHaveAccounts, GrantHasAccount, GrantHasChallenge,
              ReceiptsAreFromAccount, Issued
<1>4. VerifiedIsOwed'
  BY <1>1, <1>2 DEF DepositInv, VerifiedIsOwed
<1>5. RefundsMatchReceipts'
  BY <1>1, <1>2 DEF DepositInv, RefundsMatchReceipts
<1> QED
  BY <1>3, <1>4, <1>5 DEF DepositInv

\* The other steps change nothing that the invariant reads.
LEMMA DepositQuiet ==
  ASSUME TypeOK, DepositInv,
         UNCHANGED <<current, bank, chApp, chRev, chAcc, receipt, source, obligation, locked,
                     refunded, capability>>,
         \/ chState' = chState
         \/ \E c \in Challenges : Active(c) /\ chState' = [chState EXCEPT ![c] = "sent_reported"]
  PROVE  DepositInv'
<1>t. chState \in [Challenges -> ChallengeStates]
  BY DEF TypeOK, DepositTypeOK
<1>1. \A c \in Challenges : /\ chState'[c] = "none" <=> chState[c] = "none"
                            /\ chState'[c] = "verified" <=> chState[c] = "verified"
  BY <1>t DEF Active
<1>2. Issued' = Issued
  BY <1>1 DEF Issued
<1>3. IssuedInOrder' /\ ChallengesHaveAccounts' /\ GrantHasAccount'
  BY <1>2 DEF DepositInv, IssuedInOrder, ChallengesHaveAccounts, GrantHasAccount
<1>4. GrantHasChallenge' /\ VerifiedIsOwed'
  BY <1>1 DEF DepositInv, GrantHasChallenge, VerifiedIsOwed
<1>5. ReceiptsAreFromAccount' /\ RefundsMatchReceipts'
  BY DEF DepositInv, ReceiptsAreFromAccount, RefundsMatchReceipts
<1> QED
  BY <1>3, <1>4, <1>5 DEF DepositInv

LEMMA DepositStep ==
  ASSUME OnboardingInv, UNCHANGED appVars,
         DepositNext \/ \E o \in Owners, a \in Apps : issueChallenge(o, a)
  PROVE  DepositInv'
<1> USE DEF OnboardingInv
<1>0. DepositInv
  BY DEF DepositInv
<1>1. ASSUME NEW b \in Banks, propose(b) PROVE DepositInv'
  BY <1>0, <1>1, ProposeStep
<1>2. ASSUME NEW o \in Owners, NEW a \in Apps, issueChallenge(o, a) PROVE DepositInv'
  BY <1>0, <1>2, IssueStep
<1>3. ASSUME NEW t \in Txns, NEW amountOK \in BOOLEAN, NEW inTime \in BOOLEAN,
             NEW ref \in Issued \cup {0}, NEW src \in Banks \cup {NoBank},
             reconcile(t, amountOK, ref, src, inTime)
      PROVE  DepositInv'
  <2>1. CASE insertUnmatched(t, src)
    BY <1>0, <2>1, DepositQuiet
    DEF insertUnmatched, accountVars, challengeVars, refundVars, appVars
  <2>2. ASSUME NEW c \in Issued, chState[c] # "verified", bank[chAcc[c]] = src,
               recordReceipt(t, c, src)
        PROVE  DepositInv'
    BY <1>0, <2>2, ReceiptStep
  <2> QED
    BY <1>3, <2>1, <2>2, ReconcileStep
<1>4. CASE \/ scanRefundWindows
           \/ \E c \in Challenges, outcome \in {"sent", "attention_required"} : recordRefund(c, outcome)
  BY <1>0, <1>4, RefundStep
<1>5. ASSUME NEW c \in Challenges, reportSent(c) PROVE DepositInv'
  BY <1>0, <1>5, DepositQuiet DEF reportSent, receiptVars, refundVars, appVars
<1>6. ASSUME NEW c \in Challenges, windowAdvances(c) PROVE DepositInv'
  BY <1>0, <1>6, DepositQuiet DEF windowAdvances, accountVars, challengeVars, receiptVars, appVars
<1>7. ASSUME NEW v \in Accounts, proofAges(v) PROVE DepositInv'
  BY <1>0, <1>7, DepositQuiet DEF proofAges, challengeVars, receiptVars, refundVars, appVars
<1> QED
  BY <1>1, <1>2, <1>3, <1>4, <1>5, <1>6, <1>7 DEF DepositNext

\* OnboardingInv holds initially and is preserved by every step of an application,
\* its review and its deposits.
LEMMA OnboardingInvariant == Spec => []OnboardingInv
<1>1. Init => OnboardingInv
  <2> SUFFICES ASSUME Init PROVE OnboardingInv
    OBVIOUS
  <2> USE ApplicationBounds, DepositBounds DEF Init, AppInit, DepositInit
  <2>1. AppTypeOK
    BY DEF AppTypeOK, AppStates
  <2>2. DepositTypeOK
    BY DEF DepositTypeOK, ProofStates, ChallengeStates, ObligationStates, Days
  <2>3. Placed
    BY DEF Placed, NoCapability
  <2>4. Issued = {} /\ 1..0 = {} /\ 0 \in 0..MaxChallenges
    BY DEF Issued
  <2>5. IssuedInOrder /\ ChallengesHaveAccounts
    <3> HIDE DEF Init
    <3> QED
      BY <2>4, Zenon DEF IssuedInOrder, ChallengesHaveAccounts
  <2>6. GrantHasAccount /\ GrantHasChallenge /\ SessionHasPresentRights
    BY DEF GrantHasAccount, GrantHasChallenge, SessionHasPresentRights, Rights
  <2>7. VerifiedIsOwed /\ ReceiptsAreFromAccount /\ OpenApplicationIsFound
    BY DEF VerifiedIsOwed, ReceiptsAreFromAccount, OpenApplicationIsFound, Nonterminal
  <2>8. RefundsMatchReceipts
    BY DEF RefundsMatchReceipts, Challenges
  <2> QED
    BY <2>1, <2>2, <2>3, <2>5, <2>6, <2>7, <2>8 DEF OnboardingInv, TypeOK
<1>2. ASSUME OnboardingInv, AppStep, UNCHANGED depositVars PROVE OnboardingInv'
  <2>1. TypeOK' /\ Placed'
    BY <1>2, AppTypedStep DEF OnboardingInv, TypeOK, Placed, DepositTypeOK, depositVars, accountVars,
                              challengeVars, receiptVars, refundVars
  <2>2. OpenApplicationIsFound'
    BY <1>2, LatestStep DEF OnboardingInv
  <2>3. SessionHasPresentRights' /\ GrantHasAccount' /\ GrantHasChallenge'
    BY <1>2, GrantStep DEF OnboardingInv
  <2>4. IssuedInOrder' /\ ChallengesHaveAccounts' /\ VerifiedIsOwed' /\ ReceiptsAreFromAccount'
        /\ RefundsMatchReceipts'
    BY <1>2 DEF OnboardingInv, IssuedInOrder, ChallengesHaveAccounts, VerifiedIsOwed,
                ReceiptsAreFromAccount, RefundsMatchReceipts, Issued, depositVars, accountVars,
                challengeVars, receiptVars, refundVars
  <2> QED
    BY <2>1, <2>2, <2>3, <2>4 DEF OnboardingInv
<1>3. ASSUME OnboardingInv, UNCHANGED appVars,
             DepositNext \/ \E o \in Owners, a \in Apps : issueChallenge(o, a)
      PROVE  OnboardingInv'
  <2>1. TypeOK' /\ Placed'
    BY <1>3, DepositTypedStep DEF OnboardingInv, TypeOK, Placed, AppTypeOK, appVars
  <2>2. DepositInv'
    BY <1>3, DepositStep
  <2>3. OpenApplicationIsFound' /\ SessionHasPresentRights'
    BY <1>3 DEF OnboardingInv, OpenApplicationIsFound, OneNonterminal, SessionHasPresentRights,
                Rights, appVars
  <2> QED
    BY <2>1, <2>2, <2>3 DEF OnboardingInv, DepositInv
<1>4. OnboardingInv /\ UNCHANGED vars => OnboardingInv'
  BY DEF OnboardingInv, TypeOK, AppTypeOK, DepositTypeOK, Placed, IssuedInOrder,
         ChallengesHaveAccounts, GrantHasAccount, VerifiedIsOwed, ReceiptsAreFromAccount,
         GrantHasChallenge, RefundsMatchReceipts, SessionHasPresentRights, OpenApplicationIsFound,
         OneNonterminal, Issued, Rights, vars, appVars, depositVars, accountVars, challengeVars, receiptVars, refundVars
<1>5. OnboardingInv /\ [Next]_vars => OnboardingInv'
  BY <1>2, <1>3, <1>4 DEF Next
<1> QED
  BY <1>1, <1>5, PTL DEF Spec

\* For any number of applications, revisions, accounts, challenges and transfers: a
\* creator's capability rests on a transfer from the account of the approved revision,
\* which is owed back or sent; every matched challenge owes one refund to where its
\* transfer came from; no session outlives the rights it was made with; at most one
\* application is open, and it is the one the services find unless it waits for the
\* applicant and was opened behind a later stamp (decide, reconcile, recordRefund,
\* currentApplicationForUpdate).
THEOREM RightsRest == Spec => []RightsRestOnDeposits
<1>1. OnboardingInv => RightsRestOnDeposits
  <2> SUFFICES ASSUME OnboardingInv, capability # NoCapability
               PROVE  \E t \in Txns :
                        LET c == receipt[t] IN
                        /\ c # 0
                        /\ chApp[c] = capability.app /\ chRev[c] = capability.rev
                        /\ chAcc[c] = capability.acc
                        /\ source[t] = bank[capability.acc]
                        /\ obligation[c] # "none"
    BY DEF OnboardingInv, RightsRestOnDeposits, GrantRestsOnDeposit
  <2>1. PICK c \in Challenges : /\ chApp[c] = capability.app /\ chRev[c] = capability.rev
                                /\ chAcc[c] = capability.acc /\ chState[c] = "verified"
    BY DEF OnboardingInv, GrantHasChallenge
  <2>2. obligation[c] # "none"
    BY <2>1 DEF OnboardingInv, VerifiedIsOwed
  <2>3. PICK t \in Txns : receipt[t] = c
    BY <2>2 DEF OnboardingInv, RefundsMatchReceipts
  <2>4. c # 0
    BY DepositBounds DEF Challenges
  <2> QED
    BY <2>1, <2>2, <2>3, <2>4 DEF OnboardingInv, ReceiptsAreFromAccount
<1> QED
  BY <1>1, OnboardingInvariant, PTL

---------------------------------------------------------------------------
(* Being tipped: the inductive invariant.                                   *)

Stages == {"idle", "begun", "keyed", "policy", "page", "counted", "replayed"}

Typed ==
  /\ stage \in [Attempts -> Stages] /\ seen \in [Attempts -> Nat \X Nat]
  /\ tip \in [Attempts -> {"none", "awaiting_payment", "completed", "expired"}]
  /\ intent \in [Attempts -> {"none", "awaiting_transfer", "confirmed", "expired"}]
  /\ paidTo \in [Attempts -> Nat] /\ lapsed \subseteq Attempts
  /\ reported \in [Attempts -> {"none", "asking", "made"}]
  /\ policy \in Nat /\ offering \subseteq Creators /\ account \in [Creators -> Nat]

\* Tip and intent agree; a request that runs has not made a tip yet.
Paired(a) ==
  /\ <<tip[a], intent[a]>> \in
       {<<"none", "none">>, <<"awaiting_payment", "awaiting_transfer">>,
        <<"completed", "confirmed">>, <<"expired", "expired">>}
  /\ Running(a) => tip[a] = "none"
  /\ a \in lapsed => tip[a] # "none"

\* One request at a time runs for a command, holds a sender's key or a creator's page.
Exclusion ==
  \A a, b \in Attempts :
    /\ Running(a) /\ Running(b) /\ CommandOf(a) = CommandOf(b) => a = b
    /\ HoldsKey(a) /\ HoldsKey(b) /\ KeyOf(a) = KeyOf(b) => a = b
    /\ HoldsPage(a) /\ HoldsPage(b) /\ CreatorOf(a) = CreatorOf(b) => a = b

\* A command has one tip, and none while a request of it is creating one.
OneTipPerCommand ==
  \A a, b \in Attempts :
    CommandOf(a) = CommandOf(b) /\ tip[b] # "none" =>
      /\ ~HoldsPolicy(a)
      /\ tip[a] # "none" => a = b

\* What a creating request has read stays current while it holds its locks.
TermsStand ==
  \A a \in Attempts :
    /\ HoldsPolicy(a) => seen[a][1] = policy
    /\ stage[a] \in {"page", "counted"} =>
         /\ seen[a][2] = account[CreatorOf(a)] /\ account[CreatorOf(a)] # 0
         /\ CreatorOf(a) \in offering
    /\ stage[a] = "counted" => Fits(a, policy)

OfKey(k)     == {b \in Attempts : Pending(b) /\ KeyOf(b) = k}
OfCreator(u) == {b \in Attempts : Pending(b) /\ CreatorOf(b) = u}

\* The counts of a request that has counted still leave room for its tip.
CountsStand ==
  \A a \in Attempts : stage[a] = "counted" =>
    /\ Cardinality(OfKey(KeyOf(a))) < openIpLimit
    /\ Cardinality(OfCreator(CreatorOf(a))) < openCreatorLimit

Open == {b \in Attempts : Pending(b)}

Bounded ==
  /\ IsFiniteSet(Open)
  /\ \A a \in Attempts : Cardinality(OfKey(KeyOf(a))) <= openIpLimit
  /\ \A u \in Creators : Cardinality(OfCreator(u)) <= openCreatorLimit

TipsInv ==
  /\ Typed /\ (\A a \in Attempts : Paired(a)) /\ Exclusion /\ OneTipPerCommand
  /\ TermsStand /\ CountsStand /\ Bounded

---------------------------------------------------------------------------
(* Counting.                                                               *)

LEMMA OneMore ==
  ASSUME NEW P, NEW Q, NEW x, IsFiniteSet(P), Q \subseteq P \cup {x}
  PROVE  IsFiniteSet(Q) /\ Cardinality(Q) <= Cardinality(P) + 1
<1>1. Cardinality(P) \in Nat
  BY FS_CardinalityType
<1>2. IsFiniteSet(P \cup {x})
  BY FS_AddElement
<1>3. Cardinality(P \cup {x}) \in Nat /\ Cardinality(P \cup {x}) <= Cardinality(P) + 1
  <2>1. CASE x \in P
    <3>1. P \cup {x} = P
      BY <2>1
    <3> QED
      BY <1>1, <3>1
  <2>2. CASE x \notin P
    BY <1>1, <2>2, FS_AddElement
  <2> QED
    BY <2>1, <2>2
<1>4. IsFiniteSet(Q) /\ Cardinality(Q) <= Cardinality(P \cup {x}) /\ Cardinality(Q) \in Nat
  BY <1>2, FS_Subset, FS_CardinalityType
<1> QED
  BY <1>1, <1>3, <1>4

---------------------------------------------------------------------------
(* The invariant.                                                          *)

LEMMA TypedStep ==
  ASSUME Typed, TipsNext
  PROVE  Typed'
<1> USE LimitsAssumption DEF Typed, Stages, moves, ends, book, world
<1>1. ASSUME NEW a \in Attempts,
             beginIdempotentCommand(a) \/ lockCreationAbuseKey(a) \/ assertOpenCapacity(a)
      PROVE  Typed'
  BY <1>1 DEF beginIdempotentCommand, lockCreationAbuseKey, assertOpenCapacity
<1>2. ASSUME NEW a \in Attempts, readPolicy(a) \/ lockPage(a) \/ replayOrRollback(a) PROVE Typed'
  <2>1. PICK s \in Stages, r \in Nat \X Nat :
          stage' = [stage EXCEPT ![a] = s] /\ seen' = [seen EXCEPT ![a] = r] /\ UNCHANGED <<book, world>>
    <3>1. CASE readPolicy(a)
      BY <3>1 DEF readPolicy
    <3>2. CASE lockPage(a)
      BY <3>2 DEF lockPage
    <3>3. CASE replayOrRollback(a)
      BY <3>3 DEF replayOrRollback
    <3> QED
      BY <1>2, <3>1, <3>2, <3>3
  <2> QED
    BY <2>1
<1>3. ASSUME NEW a \in Attempts, createIntent(a) PROVE Typed'
  BY <1>3 DEF createIntent
<1>4. ASSUME NEW a \in Attempts, lapse(a) \/ askClaim(a) \/ recordClaim(a) PROVE Typed'
  BY <1>4 DEF lapse, askClaim, recordClaim
<1>5. ASSUME NEW as \in SUBSET Attempts, NEW state \in {"confirmed", "expired"}, closes(as, state)
      PROVE  Typed'
  BY <1>5 DEF closes
<1>6. ASSUME NEW a \in Attempts, confirm(a) PROVE Typed'
  BY <1>5, <1>6 DEF confirm
<1>7. CASE expireTipPaymentIntents
  BY <1>5, <1>7 DEF expireTipPaymentIntents, expirable
<1>8. CASE savePolicy
  BY <1>8 DEF savePolicy
<1>9. ASSUME NEW u \in Creators, saveSettings(u) \/ changeAccount(u) PROVE Typed'
  BY <1>9 DEF saveSettings, changeAccount
<1> QED
  BY <1>1, <1>2, <1>3, <1>4, <1>6, <1>7, <1>8, <1>9 DEF TipsNext

\* How each action moves the stages.
LEMMA StageMoves ==
  ASSUME Typed, TipsNext
  PROVE  \/ UNCHANGED <<stage, seen>>
         \/ \E a \in Attempts :
              /\ \E s \in Stages : stage' = [stage EXCEPT ![a] = s]
              /\ \/ beginIdempotentCommand(a) \/ lockCreationAbuseKey(a) \/ readPolicy(a)
                 \/ lockPage(a) \/ assertOpenCapacity(a) \/ createIntent(a) \/ replayOrRollback(a)
<1> USE DEF Typed, Stages, moves, ends, world, book
<1>1. ASSUME NEW a \in Attempts,
             \/ beginIdempotentCommand(a) \/ lockCreationAbuseKey(a) \/ readPolicy(a)
             \/ lockPage(a) \/ assertOpenCapacity(a) \/ createIntent(a) \/ replayOrRollback(a)
      PROVE  \E s \in Stages : stage' = [stage EXCEPT ![a] = s]
  BY <1>1 DEF beginIdempotentCommand, lockCreationAbuseKey, readPolicy, lockPage,
              assertOpenCapacity, createIntent, replayOrRollback
<1>2. ASSUME NEW a \in Attempts, lapse(a) \/ confirm(a) \/ askClaim(a) \/ recordClaim(a)
      PROVE  UNCHANGED <<stage, seen>>
  BY <1>2 DEF lapse, confirm, closes, askClaim, recordClaim
<1>3. ASSUME \/ savePolicy \/ expireTipPaymentIntents
             \/ \E u \in Changing : saveSettings(u) \/ changeAccount(u)
      PROVE  UNCHANGED <<stage, seen>>
  BY <1>3 DEF expireTipPaymentIntents, closes, savePolicy, saveSettings, changeAccount
<1> QED
  BY <1>1, <1>2, <1>3 DEF TipsNext

LEMMA PairedStep ==
  ASSUME Typed, \A a \in Attempts : Paired(a), TipsNext
  PROVE  \A a \in Attempts : Paired(a)'
<1> USE DEF Typed, Stages, Paired, Running, moves, ends, book, world
<1>1. ASSUME NEW a \in Attempts,
             \/ beginIdempotentCommand(a) \/ lockCreationAbuseKey(a) \/ readPolicy(a)
             \/ lockPage(a) \/ assertOpenCapacity(a) \/ replayOrRollback(a)
      PROVE  \A b \in Attempts : Paired(b)'
  <2>1. /\ UNCHANGED <<tip, intent, lapsed>> /\ \A b \in Attempts : b # a => stage'[b] = stage[b]
        /\ Running(a) \/ tip[a] = "none"
    BY <1>1 DEF beginIdempotentCommand, lockCreationAbuseKey, readPolicy, lockPage,
                assertOpenCapacity, replayOrRollback
  <2> QED
    BY <2>1
<1>2. ASSUME NEW a \in Attempts, createIntent(a) PROVE \A b \in Attempts : Paired(b)'
  BY <1>2 DEF createIntent
<1>3. ASSUME NEW a \in Attempts, lapse(a) \/ askClaim(a) \/ recordClaim(a)
      PROVE  \A b \in Attempts : Paired(b)'
  BY <1>3 DEF lapse, askClaim, recordClaim, Pending
<1>4. ASSUME NEW as \in SUBSET Attempts, NEW state \in {"confirmed", "expired"}, closes(as, state)
      PROVE  \A b \in Attempts : Paired(b)'
  BY <1>4 DEF closes
<1>5. ASSUME NEW a \in Attempts, confirm(a) PROVE \A b \in Attempts : Paired(b)'
  BY <1>4, <1>5 DEF confirm
<1>6. CASE expireTipPaymentIntents
  BY <1>4, <1>6 DEF expireTipPaymentIntents, expirable
<1>7. CASE savePolicy \/ \E u \in Changing : saveSettings(u) \/ changeAccount(u)
  BY <1>7 DEF savePolicy, saveSettings, changeAccount
<1> QED
  BY <1>1, <1>2, <1>3, <1>5, <1>6, <1>7 DEF TipsNext

LEMMA ExclusionStep ==
  ASSUME Typed, Exclusion, TipsNext
  PROVE  Exclusion'
<1> USE LimitsAssumption DEF Typed, Stages, Exclusion, Running, HoldsKey, HoldsPage
<1>1. CASE UNCHANGED stage
  BY <1>1
<1>2. ASSUME NEW a \in Attempts, NEW s \in Stages, stage' = [stage EXCEPT ![a] = s],
             \/ beginIdempotentCommand(a) \/ lockCreationAbuseKey(a) \/ readPolicy(a)
             \/ lockPage(a) \/ assertOpenCapacity(a) \/ createIntent(a) \/ replayOrRollback(a)
      PROVE  Exclusion'
  <2>1. s # "idle" => \A b \in Attempts : b # a /\ CommandOf(b) = CommandOf(a) => ~Running(b)
    BY <1>2 DEF beginIdempotentCommand, lockCreationAbuseKey, readPolicy, lockPage,
                assertOpenCapacity, createIntent, replayOrRollback, moves, ends
  <2>2. s \notin {"idle", "begun"} => \A b \in Attempts : b # a /\ KeyOf(b) = KeyOf(a) => ~HoldsKey(b)
    BY <1>2 DEF beginIdempotentCommand, lockCreationAbuseKey, readPolicy, lockPage,
                assertOpenCapacity, createIntent, replayOrRollback, moves, ends
  <2>3. s \in {"page", "counted", "replayed"} =>
          \A b \in Attempts : b # a /\ CreatorOf(b) = CreatorOf(a) => ~HoldsPage(b)
    BY <1>2 DEF beginIdempotentCommand, lockCreationAbuseKey, readPolicy, lockPage, PageFree,
                assertOpenCapacity, createIntent, replayOrRollback, moves, ends
  <2> QED
    BY <1>2, <2>1, <2>2, <2>3
<1> QED
  BY <1>1, <1>2, StageMoves

\* Where the tips and what is open come from: only a commit adds one.
LEMMA OnlyCommitsAdd ==
  ASSUME Typed, \A a \in Attempts : Paired(a), TipsNext
  PROVE  \/ \E a \in Attempts : createIntent(a)
         \/ \A b \in Attempts : /\ tip'[b] = "none" <=> tip[b] = "none"
                                /\ Pending(b)' => Pending(b)
<1> USE DEF Typed, Paired, Pending, book, world
<1>1. CASE UNCHANGED <<tip, intent, lapsed>>
  BY <1>1
<1>2. ASSUME NEW as \in SUBSET Attempts, NEW state \in {"confirmed", "expired"}, closes(as, state)
      PROVE  \A b \in Attempts : /\ tip'[b] = "none" <=> tip[b] = "none"
                                 /\ Pending(b)' => Pending(b)
  BY <1>2 DEF closes
<1>3. ASSUME NEW a \in Attempts, lapse(a) \/ confirm(a) \/ askClaim(a) \/ recordClaim(a)
      PROVE  \A b \in Attempts : /\ tip'[b] = "none" <=> tip[b] = "none"
                                 /\ Pending(b)' => Pending(b)
  <2>1. CASE confirm(a)
    BY <1>2, <2>1 DEF confirm
  <2> QED
    BY <1>3, <2>1 DEF lapse, askClaim, recordClaim
<1>4. CASE expireTipPaymentIntents
  BY <1>2, <1>4 DEF expireTipPaymentIntents, expirable
<1> QED
  BY <1>1, <1>3, <1>4
  DEF TipsNext, beginIdempotentCommand, lockCreationAbuseKey, readPolicy, lockPage,
      assertOpenCapacity, replayOrRollback, savePolicy, saveSettings, changeAccount

LEMMA OneTipStep ==
  ASSUME Typed, \A a \in Attempts : Paired(a), Exclusion, OneTipPerCommand, TipsNext
  PROVE  OneTipPerCommand'
<1> SUFFICES ASSUME NEW a \in Attempts, NEW b \in Attempts,
                    CommandOf(a) = CommandOf(b), tip'[b] # "none"
             PROVE  ~HoldsPolicy(a)' /\ (tip'[a] # "none" => a = b)
  BY DEF OneTipPerCommand, HoldsPolicy
<1> USE DEF Typed, Stages, OneTipPerCommand, Running, HoldsPolicy
<1>1. ASSUME NEW c \in Attempts, createIntent(c)
      PROVE  ~HoldsPolicy(a)' /\ (tip'[a] # "none" => a = b)
  BY <1>1 DEF createIntent, ends, moves, Exclusion
<1>2. ASSUME \A d \in Attempts : tip'[d] = "none" <=> tip[d] = "none"
      PROVE  ~HoldsPolicy(a)' /\ (tip'[a] # "none" => a = b)
  <2>1. b \in Existing(a) /\ ~HoldsPolicy(a) /\ (tip[a] # "none" => a = b)
    BY <1>2 DEF Existing
  <2>2. ASSUME NEW c \in Attempts, NEW s \in Stages, stage' = [stage EXCEPT ![c] = s],
               \/ beginIdempotentCommand(c) \/ lockCreationAbuseKey(c) \/ readPolicy(c)
               \/ lockPage(c) \/ assertOpenCapacity(c) \/ createIntent(c) \/ replayOrRollback(c)
        PROVE  ~HoldsPolicy(a)'
    <3>1. CASE c # a
      BY <2>1, <2>2, <3>1
    <3>2. CASE c = a
      BY <2>1, <2>2, <3>2
      DEF beginIdempotentCommand, lockCreationAbuseKey, readPolicy, lockPage,
          assertOpenCapacity, createIntent, replayOrRollback, moves, ends
    <3> QED
      BY <3>1, <3>2
  <2>3. ~HoldsPolicy(a)'
    BY <2>1, <2>2, StageMoves
  <2> QED
    BY <1>2, <2>1, <2>3
<1> QED
  BY <1>1, <1>2, OnlyCommitsAdd

LEMMA TermsStep ==
  ASSUME Typed, TermsStand, TipsNext
  PROVE  TermsStand'
<1> SUFFICES ASSUME NEW a \in Attempts
             PROVE  /\ HoldsPolicy(a)' => seen'[a][1] = policy'
                    /\ stage'[a] \in {"page", "counted"} =>
                         /\ seen'[a][2] = account'[CreatorOf(a)] /\ account'[CreatorOf(a)] # 0
                         /\ CreatorOf(a) \in offering'
                    /\ stage'[a] = "counted" => Fits(a, policy')
  BY DEF TermsStand, HoldsPolicy
<1> USE LimitsAssumption DEF Typed, Stages, TermsStand, HoldsPolicy
<1>1. CASE UNCHANGED <<stage, seen, world>>
  BY <1>1 DEF world
<1>2. ASSUME NEW c \in Attempts, c # a,
             \/ beginIdempotentCommand(c) \/ lockCreationAbuseKey(c) \/ readPolicy(c)
             \/ lockPage(c) \/ assertOpenCapacity(c) \/ createIntent(c) \/ replayOrRollback(c)
      PROVE  UNCHANGED <<stage[a], seen[a], world>>
  BY <1>2 DEF beginIdempotentCommand, lockCreationAbuseKey, readPolicy, lockPage,
              assertOpenCapacity, createIntent, replayOrRollback, moves, ends
<1>3. CASE beginIdempotentCommand(a) \/ lockCreationAbuseKey(a)
  BY <1>3 DEF beginIdempotentCommand, lockCreationAbuseKey, moves
<1>4. CASE readPolicy(a)
  BY <1>4 DEF readPolicy, moves, world
<1>5. CASE lockPage(a)
  BY <1>5 DEF lockPage, moves, world, existingEligibility, usableAccount
<1>6. CASE assertOpenCapacity(a)
  BY <1>6 DEF assertOpenCapacity, moves, world
<1>7. CASE createIntent(a) \/ replayOrRollback(a)
  BY <1>7 DEF createIntent, replayOrRollback, moves, ends
<1>8. CASE savePolicy
  BY <1>8 DEF savePolicy, policyFree
<1>9. ASSUME NEW u \in Changing, saveSettings(u) \/ changeAccount(u)
      PROVE  /\ UNCHANGED <<stage, seen, policy>>
             /\ stage[a] \in {"page", "counted"} =>
                  /\ CreatorOf(a) # u /\ account'[CreatorOf(a)] = account[CreatorOf(a)]
                  /\ CreatorOf(a) \in offering => CreatorOf(a) \in offering'
  BY <1>9 DEF saveSettings, changeAccount, PageFree, HoldsPage
<1> QED
  BY <1>1, <1>2, <1>3, <1>4, <1>5, <1>6, <1>7, <1>8, <1>9
  DEF TipsNext, world, lapse, confirm, closes, expireTipPaymentIntents, askClaim, recordClaim

\* What is open, of a key or of a creator, only shrinks or gains the committed tip.
LEMMA OpenStep ==
  ASSUME Typed, \A a \in Attempts : Paired(a), Bounded, TipsNext,
         NEW S \in SUBSET Attempts
  PROVE  LET P == {b \in S : Pending(b)}
         IN /\ IsFiniteSet(P) /\ IsFiniteSet(P') /\ Cardinality(P) \in Nat
            /\ \/ \E a \in S : createIntent(a) /\ Cardinality(P') <= Cardinality(P) + 1
               \/ Cardinality(P') <= Cardinality(P)
<1> DEFINE P == {b \in S : Pending(b)}
<1>1. IsFiniteSet(P) /\ Cardinality(P) \in Nat
  <2>1. P \subseteq Open
    BY DEF Open
  <2> QED
    BY <2>1, FS_Subset, FS_CardinalityType DEF Bounded
<1>2. ASSUME NEW a \in Attempts, createIntent(a)
      PROVE  IF a \in S THEN P' \subseteq P \cup {a} ELSE P' \subseteq P
  BY <1>2 DEF createIntent, Pending, Typed
<1> HIDE DEF P
<1>3. ASSUME P' \subseteq P
      PROVE  IsFiniteSet(P') /\ Cardinality(P') <= Cardinality(P)
  BY <1>1, <1>3, FS_Subset
<1>4. ASSUME NEW a \in S, createIntent(a), P' \subseteq P \cup {a}
      PROVE  /\ IsFiniteSet(P')
             /\ \E c \in S : createIntent(c) /\ Cardinality(P') <= Cardinality(P) + 1
  BY <1>1, <1>4, OneMore
<1>5. \/ P' \subseteq P
      \/ \E a \in S : createIntent(a) /\ P' \subseteq P \cup {a}
  <2>1. CASE \E a \in Attempts : createIntent(a)
    BY <1>2, <2>1
  <2>2. CASE \A b \in Attempts : Pending(b)' => Pending(b)
    BY <2>2 DEF P
  <2> QED
    BY <2>1, <2>2, OnlyCommitsAdd
<1> QED
  BY <1>1, <1>3, <1>4, <1>5 DEF P

LEMMA CountsStep ==
  ASSUME TipsInv, TipsNext
  PROVE  Bounded' /\ CountsStand'
<1> USE LimitsAssumption DEF TipsInv
<1> DEFINE WithKey(k)    == {b \in Attempts : KeyOf(b) = k}
           ForCreator(u) == {b \in Attempts : CreatorOf(b) = u}
<1>1. ASSUME NEW S \in SUBSET Attempts
      PROVE  LET P == {b \in S : Pending(b)}
             IN /\ IsFiniteSet(P) /\ IsFiniteSet(P') /\ Cardinality(P) \in Nat
                /\ \/ \E a \in S : createIntent(a) /\ Cardinality(P') <= Cardinality(P) + 1
                   \/ Cardinality(P') <= Cardinality(P)
  BY OpenStep
<1>2. IsFiniteSet(Open')
  BY <1>1 DEF Open, Pending
<1>3. ASSUME NEW k
      PROVE  /\ Cardinality(OfKey(k)) \in Nat /\ Cardinality(OfKey(k)') \in Nat
             /\ \/ \E a \in Attempts : /\ KeyOf(a) = k /\ createIntent(a)
                                       /\ Cardinality(OfKey(k)') <= Cardinality(OfKey(k)) + 1
                \/ Cardinality(OfKey(k)') <= Cardinality(OfKey(k))
  <2>1. /\ OfKey(k) = {b \in WithKey(k) : Pending(b)}
        /\ OfKey(k)' = {b \in WithKey(k) : Pending(b)'}
    BY DEF OfKey, Pending
  <2> QED
    BY <1>1, <2>1, FS_CardinalityType DEF Pending
<1>4. ASSUME NEW u \in Creators
      PROVE  /\ Cardinality(OfCreator(u)) \in Nat /\ Cardinality(OfCreator(u)') \in Nat
             /\ \/ \E a \in Attempts : /\ CreatorOf(a) = u /\ createIntent(a)
                                       /\ Cardinality(OfCreator(u)') <= Cardinality(OfCreator(u)) + 1
                \/ Cardinality(OfCreator(u)') <= Cardinality(OfCreator(u))
  <2>1. /\ OfCreator(u) = {b \in ForCreator(u) : Pending(b)}
        /\ OfCreator(u)' = {b \in ForCreator(u) : Pending(b)'}
    BY DEF OfCreator, Pending
  <2> QED
    BY <1>1, <2>1, FS_CardinalityType DEF Pending
<1>5. \A a \in Attempts : createIntent(a) =>
        /\ stage[a] = "counted" /\ stage'[a] = "idle"
        /\ \A b \in Attempts : b # a => stage'[b] = stage[b]
  BY DEF createIntent, ends, moves, Typed, Stages
<1>6. Bounded'
  <2>1. \A a \in Attempts : Cardinality(OfKey(KeyOf(a))') <= openIpLimit
    BY <1>3, <1>5 DEF Bounded, CountsStand
  <2>2. \A u \in Creators : Cardinality(OfCreator(u)') <= openCreatorLimit
    BY <1>4, <1>5 DEF Bounded, CountsStand
  <2> QED
    BY <1>2, <2>1, <2>2 DEF Bounded, OfKey, OfCreator, Pending, Open
<1>7. ASSUME NEW a \in Attempts, stage'[a] = "counted"
      PROVE  /\ Cardinality(OfKey(KeyOf(a))') < openIpLimit
             /\ Cardinality(OfCreator(CreatorOf(a))') < openCreatorLimit
  <2>1. CASE assertOpenCapacity(a)
    <3>1. OfKey(KeyOf(a))' = OfKey(KeyOf(a)) /\ OfCreator(CreatorOf(a))' = OfCreator(CreatorOf(a))
      BY <2>1 DEF assertOpenCapacity, book, OfKey, OfCreator, Pending
    <3> QED
      BY <2>1, <3>1 DEF assertOpenCapacity, OfKey, OfCreator
  <2>2. CASE stage[a] = "counted"
    <3>1. \A b \in Attempts :
            createIntent(b) => KeyOf(b) # KeyOf(a) /\ CreatorOf(b) # CreatorOf(a)
      BY <1>5, <1>7, <2>2 DEF Exclusion, HoldsKey, HoldsPage
    <3> QED
      BY <1>3, <1>4, <2>2, <3>1 DEF CountsStand
  <2>3. ASSUME NEW c \in Attempts, NEW s \in Stages, stage' = [stage EXCEPT ![c] = s],
               \/ beginIdempotentCommand(c) \/ lockCreationAbuseKey(c) \/ readPolicy(c)
               \/ lockPage(c) \/ assertOpenCapacity(c) \/ createIntent(c) \/ replayOrRollback(c)
        PROVE  stage[a] = "counted" \/ assertOpenCapacity(a)
    BY <1>7, <2>3
    DEF beginIdempotentCommand, lockCreationAbuseKey, readPolicy, lockPage, createIntent,
        replayOrRollback, moves, ends, Typed
  <2>4. stage[a] = "counted" \/ assertOpenCapacity(a)
    BY <1>7, <2>3, StageMoves
  <2> QED
    BY <2>1, <2>2, <2>4
<1> QED
  BY <1>6, <1>7 DEF CountsStand, OfKey, OfCreator, Pending

\* What can happen to an intent, its tip and its report in a step.
LEMMA IntentMoves ==
  ASSUME TipsInv, TipsNext, NEW a \in Attempts
  PROVE  \/ /\ UNCHANGED <<tip[a], intent[a], paidTo[a]>> /\ (a \in lapsed => a \in lapsed')
            /\ reported'[a] # reported[a] /\ reported'[a] = "made" => Pending(a)
         \/ /\ createIntent(a) /\ tip[a] = "none" /\ intent[a] = "none"
            /\ tip'[a] = "awaiting_payment" /\ intent'[a] = "awaiting_transfer"
            /\ paidTo'[a] = seen[a][2] /\ UNCHANGED <<lapsed, reported>>
         \/ /\ Pending(a) /\ paidTo[a] = account[CreatorOf(a)] /\ tip[a] = "awaiting_payment"
            /\ tip'[a] = "completed" /\ intent'[a] = "confirmed" /\ UNCHANGED <<lapsed, reported>>
         \/ /\ intent[a] = "awaiting_transfer" /\ a \in lapsed /\ tip[a] = "awaiting_payment"
            /\ tip'[a] = "expired" /\ intent'[a] = "expired" /\ UNCHANGED <<lapsed, reported>>
<1> USE DEF TipsInv, Typed, book, world
<1>1. CASE UNCHANGED book
  BY <1>1
<1>2. ASSUME NEW c \in Attempts, createIntent(c) PROVE c = a \/ UNCHANGED <<tip[a], intent[a], paidTo[a]>>
  BY <1>2 DEF createIntent
<1>3. CASE createIntent(a)
  BY <1>3 DEF createIntent, Paired, Running
<1>4. ASSUME NEW c \in Attempts, confirm(c)
      PROVE  /\ UNCHANGED <<paidTo, lapsed, reported>> /\ tip[c] = "awaiting_payment" /\ Pending(c)
             /\ paidTo[c] = account[CreatorOf(c)]
             /\ intent' = [intent EXCEPT ![c] = "confirmed"] /\ tip' = [tip EXCEPT ![c] = "completed"]
  BY <1>4 DEF confirm, closes
<1>5. CASE expireTipPaymentIntents
  BY <1>5 DEF expireTipPaymentIntents, expirable, closes
<1>6. ASSUME NEW c \in Attempts, lapse(c) \/ askClaim(c) \/ recordClaim(c)
      PROVE  /\ UNCHANGED <<tip, intent, paidTo>> /\ lapsed \subseteq lapsed'
             /\ reported'[a] # reported[a] /\ reported'[a] = "made" => Pending(a)
  BY <1>6 DEF lapse, askClaim, recordClaim
<1>7. ASSUME NEW c \in Attempts, createIntent(c) PROVE UNCHANGED <<lapsed, reported>>
  BY <1>7 DEF createIntent
<1>8. \/ UNCHANGED book
      \/ \E c \in Attempts : createIntent(c) \/ confirm(c) \/ lapse(c) \/ askClaim(c) \/ recordClaim(c)
      \/ expireTipPaymentIntents
  BY DEF TipsNext, beginIdempotentCommand, lockCreationAbuseKey, readPolicy, lockPage,
         assertOpenCapacity, replayOrRollback, savePolicy, saveSettings, changeAccount
<1>9. ASSUME NEW c \in Attempts, confirm(c)
      PROVE  \/ c = a
             \/ UNCHANGED <<tip[a], intent[a], paidTo[a], lapsed, reported>>
  BY <1>4, <1>9
<1>10. ASSUME NEW c \in Attempts, createIntent(c)
       PROVE  \/ c = a
              \/ UNCHANGED <<tip[a], intent[a], paidTo[a], lapsed, reported>>
  BY <1>2, <1>7, <1>10
<1>11. CASE confirm(a)
  BY <1>4, <1>11
<1>12. CASE UNCHANGED <<tip[a], intent[a], paidTo[a], lapsed, reported>>
  BY <1>12
<1> QED
  BY <1>1, <1>3, <1>5, <1>6, <1>8, <1>9, <1>10, <1>11, <1>12

LEMMA TipsInvariant == TipsSpec => []TipsInv
<1>1. TipsInit => TipsInv
  <2> SUFFICES ASSUME TipsInit PROVE TipsInv
    OBVIOUS
  <2>1. Open = {} /\ (\A k : OfKey(k) = {}) /\ (\A u : OfCreator(u) = {})
    BY DEF TipsInit, Open, OfKey, OfCreator, Pending
  <2>2. Bounded
    BY <2>1, FS_EmptySet, LimitsAssumption DEF Bounded
  <2>3. Typed
    BY DEF TipsInit, Typed, Stages
  <2>4. \A a \in Attempts : Paired(a) /\ stage[a] = "idle" /\ tip[a] = "none"
    BY DEF TipsInit, Paired, Running
  <2>5. Exclusion /\ OneTipPerCommand /\ TermsStand /\ CountsStand
    BY <2>4 DEF Exclusion, OneTipPerCommand, TermsStand, CountsStand, Running, HoldsKey,
                HoldsPolicy, HoldsPage
  <2> QED
    BY <2>2, <2>3, <2>4, <2>5 DEF TipsInv
<1>2. TipsInv /\ [TipsNext]_tipVars => TipsInv'
  <2>1. CASE TipsNext /\ TipsInv
    BY <2>1, TypedStep, PairedStep, ExclusionStep, OneTipStep, TermsStep, CountsStep
    DEF TipsInv, Paired, Running
  <2>2. CASE TipsInv /\ UNCHANGED tipVars
    <3> USE <2>2 DEF TipsInv, tipVars
    <3>1. Typed' /\ \A a \in Attempts : Paired(a)'
      BY DEF Typed, Paired, Running
    <3>2. Exclusion' /\ OneTipPerCommand' /\ TermsStand'
      BY DEF Exclusion, OneTipPerCommand, TermsStand, Running, HoldsKey, HoldsPolicy, HoldsPage
    <3>3. CountsStand' /\ Bounded'
      BY DEF CountsStand, Bounded, OfKey, OfCreator, Open, Pending
    <3> QED
      BY <3>1, <3>2, <3>3 DEF Paired, Running
  <2> QED
    BY <2>1, <2>2
<1> QED
  BY <1>1, <1>2, PTL DEF TipsSpec

---------------------------------------------------------------------------
(* The theorems.                                                           *)

\* The open tips of a sender and of a creator never pass their limits, and a command
\* makes one tip, whatever the order of the creating transactions (assertOpenCapacity,
\* createTip).
THEOREM TipsStayWithinLimits == TipsSpec => []TipLimits
<1>1. TipsInv => TipLimits
  <2> SUFFICES ASSUME TipsInv PROVE TipLimits
    OBVIOUS
  <2>1. \A k \in {KeyOf(a) : a \in Attempts} :
          Cardinality({b \in Attempts : Pending(b) /\ KeyOf(b) = k}) <= openIpLimit
    BY DEF TipsInv, Bounded, OfKey
  <2>2. \A u \in Creators :
          Cardinality({b \in Attempts : Pending(b) /\ CreatorOf(b) = u}) <= openCreatorLimit
    BY DEF TipsInv, Bounded, OfCreator
  <2>3. ASSUME NEW a \in Attempts PROVE Cardinality(Existing(a)) <= 1
    <3>1. \A b, c \in Existing(a) : b = c
      BY DEF Existing, TipsInv, OneTipPerCommand
    <3>2. CASE Existing(a) = {}
      BY <3>2, FS_EmptySet
    <3>3. ASSUME NEW b \in Existing(a) PROVE Cardinality(Existing(a)) <= 1
      <4>1. Existing(a) = {b}
        BY <3>1, <3>3
      <4>2. Cardinality({b}) = 1
        BY FS_Singleton
      <4> QED
        BY <4>1, <4>2
    <3> QED
      BY <3>2, <3>3
  <2> QED
    BY <2>1, <2>2, <2>3 DEF TipLimits
<1> QED
  BY <1>1, TipsInvariant, PTL

\* A tip commits on the policy, the page and the account as they are at the commit, and
\* what a receipt shows as final stays so (createTip, expireTipPaymentIntents).
THEOREM TipsStayBacked == TipsSpec => TipsAreBacked
<1>1. TipsInv /\ [TipsNext]_tipVars =>
        [\A a \in Attempts :
           /\ tip[a] = "none" /\ tip'[a] # "none" =>
                /\ seen[a] = <<policy, account[CreatorOf(a)]>> /\ Fits(a, policy)
                /\ CreatorOf(a) \in offering
           /\ receiptState(a) \in {"confirmed", "expired"} => receiptState(a)' = receiptState(a)]_tipVars
  <2> SUFFICES ASSUME TipsInv, TipsNext, NEW a \in Attempts
               PROVE  /\ tip[a] = "none" /\ tip'[a] # "none" =>
                           /\ seen[a] = <<policy, account[CreatorOf(a)]>> /\ Fits(a, policy)
                           /\ CreatorOf(a) \in offering
                      /\ receiptState(a) \in {"confirmed", "expired"} =>
                           receiptState(a)' = receiptState(a)
    BY DEF receiptState
  <2> USE DEF TipsInv, Typed
  <2>1. ASSUME tip[a] = "none", tip'[a] # "none" PROVE createIntent(a)
    BY <2>1, OnlyCommitsAdd DEF createIntent
  <2>2. createIntent(a) => /\ seen[a] = <<policy, account[CreatorOf(a)]>> /\ Fits(a, policy)
                           /\ CreatorOf(a) \in offering
    BY DEF createIntent, TermsStand, HoldsPolicy
  <2>3. ASSUME receiptState(a) \in {"confirmed", "expired"} PROVE receiptState(a)' = receiptState(a)
    BY <2>3, IntentMoves DEF receiptState, Pending
  <2> QED
    BY <2>1, <2>2, <2>3
<1> QED
  BY <1>1, TipsInvariant, PTL DEF TipsSpec, TipsAreBacked

\* The database's guards accept every step of the tip services (createTip,
\* reportTransfer, confirm, expireTipPaymentIntents).
THEOREM TipsGuardsAccept == TipsSpec => TipGuardsAccept
<1>1. TipsInv /\ TipsInv' /\ [TipsNext]_tipVars =>
        [\A a \in Attempts : /\ lifecycleGuard(a) /\ destinationGuard(a) /\ claimGuard(a)
                             /\ confirmationGuard(a) /\ consistencyGuard(a)]_tipVars
  <2> SUFFICES ASSUME TipsInv, TipsInv', TipsNext, NEW a \in Attempts
               PROVE  /\ lifecycleGuard(a) /\ destinationGuard(a) /\ claimGuard(a)
                      /\ confirmationGuard(a) /\ consistencyGuard(a)
    BY DEF lifecycleGuard, destinationGuard, claimGuard, confirmationGuard, consistencyGuard
  <2>1. consistencyGuard(a)
    BY DEF TipsInv, Paired, consistencyGuard
  <2>2. intent[a] = "none" => tip[a] = "none"
    BY DEF TipsInv, Paired
  <2>3. createIntent(a) =>
          /\ tip[a] = "none" /\ intent[a] = "none"
          /\ seen[a][2] = account[CreatorOf(a)] /\ account[CreatorOf(a)] # 0
    BY DEF createIntent, TipsInv, TermsStand, Paired, Running
  <2>4. lifecycleGuard(a)
    BY <2>2, <2>3, IntentMoves DEF lifecycleGuard, Pending
  <2>5. destinationGuard(a)
    BY <2>2, <2>3, IntentMoves DEF destinationGuard, Pending
  <2>6. claimGuard(a)
    BY IntentMoves DEF claimGuard
  <2>7. confirmationGuard(a)
    BY IntentMoves DEF confirmationGuard
  <2> QED
    BY <2>1, <2>4, <2>5, <2>6, <2>7
<1> QED
  BY <1>1, TipsInvariant, PTL DEF TipsSpec, TipGuardsAccept

\* Tips commit on current terms, end once and are never refused by the database.
THEOREM TipsSound == TipsSpec => TipsAreSound
  BY TipsStayBacked, TipsGuardsAccept DEF TipsAreSound
=============================================================================
