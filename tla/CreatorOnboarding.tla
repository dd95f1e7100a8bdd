-------------------------- MODULE CreatorOnboarding --------------------------
(***************************************************************************)
(* An applicant becomes a creator: the application and its review          *)
(* (CreatorApplication) composed with the proof of the receiving account   *)
(* (VerificationDeposit).  The two meet where a draft names an account     *)
(* version, where an owner issues a challenge for a submitted revision,    *)
(* and where an approval is revalidated against the stored proof.          *)
(***************************************************************************)
EXTENDS CreatorApplication, VerificationDeposit

vars == <<appVars, depositVars>>

Init == AppInit /\ DepositInit

\* A draft names no account or one that approvedReceivingAccountReference takes.
saveDraftWith(v, late) ==
    (v # 0 => isValidForApplicant(v)) /\ (saveDraft(v) \/ startDraft(v, late))
submitWith(v) == isValidForApplicant(v) /\ submit(v)

\* The conditions of VerificationDeposit's issueChallenge on the application.
issueChallenge(o, a) ==
    /\ appState[a] = "submitted" \/ ownerHasActiveClaim(o, a)
    /\ a \in sent
    /\ insertChallenge(a, rev[a], proposed[a])

\* Fault model of proofOfAccount: any verified challenge of the account will do.
proofOfAccountAnyRevision(a) ==
    /\ isValidForApplicant(proposed[a])
    /\ proof[proposed[a]] = "verified" /\ proposed[a] \notin aged
    /\ \E c \in Challenges : chAcc[c] = proposed[a] /\ chState[c] = "verified"

\* The part of revalidateApproval that reads the payments tables.
proofOfAccount(a) ==
    /\ isValidForApplicant(proposed[a])
    /\ proof[proposed[a]] = "verified" /\ proposed[a] \notin aged
    /\ \E c \in Challenges : /\ chApp[c] = a /\ chRev[c] = rev[a] /\ chAcc[c] = proposed[a]
                             /\ chState[c] = "verified"
                             /\ obligation[c] # "none"

approve(o, a, late) == proofOfAccount(a) /\ grant(o, a, late)

AppStep ==
    \/ withdraw \/ emailChanges \/ signIn
    \/ \E v \in 0..MaxAccounts, late \in BOOLEAN : saveDraftWith(v, late)
    \/ \E v \in 0..MaxAccounts : submitWith(v)
    \/ \E a \in Apps, late \in BOOLEAN :
         \/ reopen(a, late)
         \/ \E o \in Owners :
              \/ claim(o, a, late) \/ approve(o, a, late)
              \/ \E next \in {"changes_requested", "rejected"} : decide(o, a, next, late)
    \/ \E a \in Apps : claimExpires(a) \/ cooldownEnds(a)

Next ==
    \/ AppStep /\ UNCHANGED depositVars
    \/ \E o \in Owners, a \in Apps : issueChallenge(o, a) /\ UNCHANGED appVars
    \/ DepositNext /\ UNCHANGED appVars

Spec == Init /\ [][Next]_vars

\* The worker runs the refund scan on a schedule and the days go by; what the
\* owner and the applicant do is not assumed.
FairSpec ==
    /\ Spec
    /\ WF_vars(scanRefundWindows /\ UNCHANGED appVars)
    /\ \A c \in Challenges : WF_vars(windowAdvances(c) /\ UNCHANGED appVars)

-----------------------------------------------------------------------------
TypeOK == AppTypeOK /\ DepositTypeOK

(***************************************************************************)
(* A creator's capability rests on money: a transfer from the very bank    *)
(* account that the approved revision proposed was matched to a challenge  *)
(* issued for that revision, and a refund to that account is owed or sent  *)
(* (decide, revalidateApproval, reconcile).                                *)
(***************************************************************************)
GrantRestsOnDeposit ==
    capability # NoCapability =>
        \E t \in Txns :
            LET c == receipt[t] IN
            /\ c # 0
            /\ chApp[c] = capability.app /\ chRev[c] = capability.rev
            /\ chAcc[c] = capability.acc
            /\ source[t] = bank[capability.acc]
            /\ obligation[c] # "none"

(***************************************************************************)
(* At most one application is open.  One that the owners have to act on is *)
(* the one that withdraw picks by updatedAt, whichever commands stamped    *)
(* their writes before they got the row; one that waits for the applicant  *)
(* is the one saveDraft and submit pick, unless it was opened behind a     *)
(* later stamp: creating, reopening, claiming and deciding in any other    *)
(* order never hide it (currentApplicationForUpdate and the partial        *)
(* index).                                                                 *)
(***************************************************************************)
OpenApplicationIsFound ==
    \A a \in Apps : appState[a] \in Nonterminal =>
        /\ OneNonterminal(a)
        /\ a = latest \/ (appState[a] \in Editable /\ a \in overtaken)

(***************************************************************************)
(* A matched challenge has exactly one transfer and owes one refund to the *)
(* account that transfer came from, whatever happens to the applicant's    *)
(* account versions, and the refund is recorded as sent exactly when the   *)
(* obligation is closed: the scan and a second recording never reopen it   *)
(* (recordReceipt, recordRefund, scanVerificationDepositRefundWindows).    *)
(* The liability of a transfer that was first entered as unmatched is a    *)
(* row beside this obligation, and the formula says nothing about it.      *)
(***************************************************************************)
RefundsMatchReceipts ==
    \A c \in Challenges :
        /\ obligation[c] # "none" <=> \E t \in Txns : receipt[t] = c
        /\ \A t, u \in Txns : receipt[t] = c /\ receipt[u] = c => t = u
        /\ \A t \in Txns : receipt[t] = c => source[t] = locked[c]
        /\ c \in refunded <=> obligation[c] = "sent"

(***************************************************************************)
(* No session outlives the grant: an open session was made with the rights *)
(* the user has now (the revocation in decide).                            *)
(***************************************************************************)
SessionHasPresentRights == session # "none" => session = Rights

(***************************************************************************)
(* An owed deposit is never forgotten: every obligation is sent back or    *)
(* flagged for the owner's attention in the end (the refund window scan).  *)
(***************************************************************************)
RefundIsChased ==
    \A c \in Challenges :
        []<>(obligation[c] \notin {"pending_window", "ready"})

\* Rights rest on money that is owed back: a grant on the deposit of the approved
\* revision, every matched challenge on one refund, sessions on the present rights, and an
\* open application is the one the services find unless it was opened behind a later
\* stamp (decide, reconcile, recordRefund, currentApplicationForUpdate).
RightsRestOnDeposits ==
  /\ TypeOK /\ GrantRestsOnDeposit /\ RefundsMatchReceipts
  /\ SessionHasPresentRights /\ OpenApplicationIsFound
=============================================================================
