----------------------------- MODULE MCCreators -----------------------------
(***************************************************************************)
(* Becoming a creator and being tipped, for TLC.  The two share no state,  *)
(* so `part` chooses what a behaviour is about, and the state spaces add   *)
(* instead of multiply.                                                    *)
(*   onboarding: two applications of one user, a deposit and its refund;   *)
(*               unmatched rows, which no step reads, are left to deposits *)
(*   deposits:   one application, neither withdrawn nor rejected, with one *)
(*               account whose proof stays fresh, and two transfers, t2    *)
(*               entered after t1                                          *)
(*   tips:       one request, its repetition, a request of the same sender *)
(*               to another creator and one of another sender              *)
(***************************************************************************)
EXTENDS CreatorOnboarding, Tips

CONSTANTS t1, t2, r1, r1again, r2, r3, ann, bob, k1, k2

VARIABLE part

mcVars == <<part, vars, tipVars>>

MCAttempts == {r1, r1again, r2, r3}
MCCommandOf(a) == IF a = r1again THEN r1 ELSE a
MCCreatorOf(a) == IF a = r2 THEN bob ELSE ann
MCKeyOf(a)     == IF a = r3 THEN k2 ELSE k1
MCFits(a, r)   == a = r3 => r = 1

MCTxns         == {t1, t2}

entered(t) == receipt[t] # 0 \/ t \in unmatched

MCInit == part \in {"onboarding", "deposits", "tips"} /\ Init /\ TipsInit

MCNext ==
  \/ /\ part = "onboarding"
     /\ Next /\ receipt'[t2] = 0 /\ unmatched' = {}
     /\ UNCHANGED <<part, tipVars>>
  \/ /\ part = "deposits"
     /\ Next /\ (entered(t2)' => entered(t1))
     /\ appState'[2] = "none" /\ appState'[1] \notin {"withdrawn", "rejected"}
     /\ current' <= 1 /\ aged' = {}
     /\ UNCHANGED <<part, tipVars>>
  \/ part = "tips" /\ TipsNext /\ UNCHANGED <<part, vars>>

Onboards(A) == part # "tips" /\ A /\ UNCHANGED <<part, tipVars, appVars>>
Tipped(A) == part = "tips" /\ A /\ UNCHANGED <<part, vars>>

\* The fairness of CreatorOnboarding and of Tips: the worker scans for ever, and
\* time passes.
MCSpec ==
  /\ MCInit /\ [][MCNext]_mcVars
  /\ WF_mcVars(Onboards(scanRefundWindows) \/ Tipped(expireTipPaymentIntents))
  /\ \A c \in Challenges : WF_mcVars(Onboards(windowAdvances(c)))
  /\ \A a \in Attempts : WF_mcVars(Tipped(lapse(a)))

\* Every owed deposit is sent back or flagged for the owner, and every tip is settled or
\* expires (scanVerificationDepositRefundWindows, expireTipPaymentIntents).
ScansEnd == RefundIsChased /\ TipsEnd
=============================================================================
