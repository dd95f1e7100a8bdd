----------------------------- MODULE AccessProofs -----------------------------
(***************************************************************************)
(* Proofs about what may use an account.                                   *)
(*                                                                         *)
(* Sign-in (OidcSessions).  LogoutInv: a logout under way has every live   *)
(* session it covers among its targets, and what a fence covers is not     *)
(* live; so a callback that comes late finds the fence, and a session that *)
(* was made in time is a target.  ProofInv: the proof of a pending command *)
(* is a transaction begun for its step-up, and transaction numbers are     *)
(* handed out in order, so none is reused for another command.             *)
(*                                                                         *)
(* Moderation (Enforcement).  TrustInv has a part per table: cases;        *)
(* reports, each in a case of its item; hides; penalties with the standing *)
(* between what the penalties in force and the active ones require; and    *)
(* appeals with replacements.  Each part is preserved by a lemma per kind  *)
(* of step, and the steps that recompute a standing rest on                *)
(* EndingStaysBetween and AddingStaysBetween: ending rows of one scope, or *)
(* adding a row, keeps the recomputed standing between the two bounds.     *)
(***************************************************************************)
EXTENDS OidcSessions, Enforcement, FiniteSetTheorems, WellFoundedInduction, TLAPS

SessionRecords ==
  [state : {"none", "live", "revoked"}, sid : Sids \cup {NoSid}, auth : Nat, mfa : MfaClaims \cup {"none"},
   tx : Nat]
EvidenceRecords ==
  [sid : Sids \cup {NoSid}, auth : Nat, mail : MailClaims \cup {"none"}, mfa : MfaClaims \cup {"none"}]

\* Of the types only what the proofs read.
SessionsTyped ==
  /\ authOf \in [Sids -> Nat] /\ auths \in Nat /\ subFence \in Nat
  /\ tokens \in [Tokens -> Sids \cup {"sub", NoSid}]
  /\ evidence \in [Txs -> EvidenceRecords]
  /\ sessions \in [Sessions -> SessionRecords]
  /\ leaving \in [token : Tokens \cup {0}, targets : SUBSET Sessions]

\* A logout under way will revoke every live session it covers.
LogoutCoversTargets ==
  leaving.token # 0 => tokens[leaving.token] # NoSid /\ covered(leaving.token) \subseteq leaving.targets

LogoutInv == SessionsTyped /\ LogoutCoversTargets /\ LoggedOutStaysOut

\* Transactions are begun in order, and a proof is the step-up begun for its command.
TxsInOrder == \E n \in Nat : Started = 1..n
ProofIsOfStepUp ==
  \A c \in Cmds : cmds[c].proof # 0 =>
    /\ cmds[c].proof \in Started
    /\ purpose[cmds[c].proof] = "step_up" /\ subject[cmds[c].proof] = c

CommandRecords == [state : {"none", "pending", "executed", "dropped"}, session : Nat, proof : Nat]

ProofsTyped ==
  /\ txStatus \in [Txs -> {"unused", "pending", "exchanging", "consumed", "failed"}]
  /\ purpose \in [Txs -> {"login", "lease_check", "owner_link", "step_up"}] /\ subject \in [Txs -> Nat]
  /\ cmds \in [Cmds -> CommandRecords]

ProofInv == ProofsTyped /\ TxsInOrder /\ ProofIsOfStepUp

---------------------------------------------------------------------------
(* What a step may do to the sessions.                                      *)

Weaker(s) == sessions'[s] = sessions[s] \/ sessions'[s] = [sessions[s] EXCEPT !.state = "revoked"]
Falling == sessions' \in [Sessions -> SessionRecords] /\ \A s \in Sessions : Weaker(s)

FencesStand == UNCHANGED <<sidFence, subFence, localFence, leaving>>
TokensStand == \A i \in Tokens : tokens[i] # NoSid => tokens'[i] = tokens[i]

Quiet == Falling /\ FencesStand /\ TokensStand

\* A session is opened, renewed or rotated by evidence that no fence stops.
Accepts(t) ==
  /\ ready(t) /\ ~fenced(t) /\ FencesStand /\ TokensStand
  /\ sessions' \in [Sessions -> SessionRecords]
  /\ \A s \in Sessions : Weaker(s) \/ sessions'[s] = newSession(t) \/ sessions'[s] = [sessions[s] EXCEPT !.tx = t]

Fencing == revokeOidcLocalSessions \/ logoutCommit \/ \E i \in Tokens : logout(i)

\* Revoking leaves sessions as they are or revoked.
LEMMA RevokedFalls ==
  ASSUME SessionsTyped, NEW ss, sessions' = revoked(ss)
  PROVE  Falling /\ (Sessions \subseteq ss => \A s \in Sessions : ~Live(s)')
<1>1. ASSUME NEW s \in Sessions
      PROVE  sessions[s] \in SessionRecords /\ [sessions[s] EXCEPT !.state = "revoked"] \in SessionRecords
  BY DEF SessionsTyped, SessionRecords
<1>2. sessions' \in [Sessions -> SessionRecords]
  BY <1>1 DEF revoked
<1>3. \A s \in Sessions : Weaker(s)
  BY DEF revoked, Weaker
<1>4. ASSUME Sessions \subseteq ss, NEW s \in Sessions, Live(s)' PROVE FALSE
  BY <1>1, <1>4 DEF revoked, Live, SessionRecords
<1> QED
  BY <1>2, <1>3, <1>4 DEF Falling

\* The evidence of a transaction makes a well-formed session.
LEMMA NewSessionTyped ==
  ASSUME SessionsTyped, NEW t \in Txs
  PROVE  newSession(t) \in SessionRecords
<1>1. evidence[t] \in EvidenceRecords /\ t \in Nat
  BY DEF SessionsTyped, Txs
<1> QED
  BY <1>1 DEF newSession, SessionRecords, EvidenceRecords

\* Every step but a logout leaves the fences and only lets sessions end, or
\* accepts evidence that no fence stops.
LEMMA SessionStep ==
  ASSUME SessionsTyped, Next
  PROVE  Quiet \/ Fencing \/ \E t \in Txs : Accepts(t)
<1> DEFINE Goal == Quiet \/ Fencing \/ \E t \in Txs : Accepts(t)
<1>t. sessions \in [Sessions -> SessionRecords]
  BY DEF SessionsTyped
<1>w. ASSUME UNCHANGED sessions PROVE Falling
  BY <1>w, <1>t DEF Falling, Weaker
<1>q. ASSUME UNCHANGED <<sessions, tokens, fenceVars>> PROVE Goal
  BY <1>w, <1>q DEF Quiet, FencesStand, TokensStand, fenceVars
<1>r. ASSUME NEW ss, sessions' = revoked(ss), UNCHANGED <<tokens, fenceVars>> PROVE Goal
  BY <1>r, RevokedFalls DEF Quiet, FencesStand, TokensStand, fenceVars
<1>1. CASE IdpNext
  <2>1. ASSUME NEW k \in Sids, signInAtIdp(k) \/ signOutAtIdp(k) PROVE Goal
    BY <2>1, <1>q DEF signInAtIdp, signOutAtIdp, sessionVars
  <2>2. ASSUME NEW i \in Tokens, NEW key \in Sids \union {"sub"}, issueLogout(i, key) PROVE Goal
    BY <2>2, <1>w DEF issueLogout, sessionVars, fenceVars, Quiet, FencesStand, TokensStand, SessionsTyped
  <2> QED
    BY <1>1, <2>1, <2>2 DEF IdpNext
<1>2. CASE BeginNext
  <2>1. ASSUME NEW p, NEW s, begin(p, s) PROVE Goal
    BY <2>1, <1>q DEF begin, sessionVars, idpVars
  <2> QED
    BY <1>2, <2>1 DEF BeginNext, login, ownerLink, lease, stepUp
<1>3. CASE CallbackNext
  <2> SUFFICES ASSUME NEW t \in Txs,
          \/ claim(t) \/ fail(t) \/ refuse(t) \/ demote(t) \/ signUpBesideOwner(t) \/ changeAddress(t)
          \/ signIn(t) \/ refuseSession(t) \/ checkLease(t) \/ completeStepUp(t)
          \/ \E k \in Sids : rejectTrustedIdentity(t, k)
          \/ \E k \in Sids, m \in MailClaims, f \in MfaClaims : exchange(t, k, m, f)
        PROVE Goal
    BY <1>3 DEF CallbackNext
  <2>a. ASSUME ready(t), ~refused(t), UNCHANGED <<tokens, fenceVars>>,
               sessions' \in [Sessions -> SessionRecords],
               \A s \in Sessions : Weaker(s) \/ sessions'[s] = newSession(t) \/ sessions'[s] = [sessions[s] EXCEPT !.tx = t]
        PROVE  Goal
    BY <2>a DEF Accepts, refused, FencesStand, TokensStand, fenceVars
  <2>1. CASE claim(t) \/ fail(t)
    BY <2>1, <1>q DEF claim, fail, sessionVars, idpVars
  <2>2. CASE refuse(t) \/ signUpBesideOwner(t) \/ refuseSession(t)
    BY <2>2, <1>q DEF refuse, signUpBesideOwner, refuseSession, settle, idpVars
  <2>3. CASE demote(t) \/ changeAddress(t)
    BY <2>3, <1>r DEF demote, changeAddress, markUnverified, revokeOidcUserSessions, settle, idpVars
  <2>4. CASE signIn(t)
    <3> DEFINE rebinds == mail # "none" /\ (newAddress(t) \/ purpose[t] = "owner_link")
               admitted == ~(owner /\ evidence[t].mfa # "done")
               kept == IF rebinds THEN revoked(Sessions) ELSE sessions
    <3>1. /\ ready(t) /\ ~refused(t) /\ (admitted => NextSession \in Sessions)
          /\ sessions' = IF admitted THEN [kept EXCEPT ![NextSession] = newSession(t)] ELSE kept
          /\ UNCHANGED <<tokens, fenceVars>>
      BY <2>4 DEF signIn, settle, idpVars
    <3>2. kept \in [Sessions -> SessionRecords]
      <4>1. ASSUME NEW s \in Sessions
            PROVE  sessions[s] \in SessionRecords /\ [sessions[s] EXCEPT !.state = "revoked"] \in SessionRecords
        BY <1>t DEF SessionRecords
      <4> QED
        BY <4>1, <1>t DEF revoked
    <3>3. \A s \in Sessions : kept[s] = sessions[s] \/ kept[s] = [sessions[s] EXCEPT !.state = "revoked"]
      BY DEF revoked
    <3> HIDE DEF kept, admitted, rebinds
    <3>4. newSession(t) \in SessionRecords
      BY NewSessionTyped
    <3> QED
      BY <3>1, <3>2, <3>3, <3>4, <2>a DEF Weaker
  <2>5. CASE checkLease(t)
    <3>1. ready(t) /\ ~refused(t) /\ UNCHANGED <<tokens, fenceVars>>
      BY <2>5 DEF checkLease, continues, settle, idpVars
    <3>2. \/ \E s : sessions' = [sessions EXCEPT ![s].tx = t]
          \/ \E ss : sessions' = revoked(ss)
      BY <2>5 DEF checkLease, revokeOidcUserSessions
    <3>3. ASSUME NEW s, sessions' = [sessions EXCEPT ![s].tx = t] PROVE Goal
      <4>1. ASSUME NEW x \in Sessions PROVE [sessions[x] EXCEPT !.tx = t] \in SessionRecords
        BY <1>t DEF SessionRecords, Txs
      <4>2. sessions' \in [Sessions -> SessionRecords]
        BY <3>3, <4>1, <1>t
      <4> QED
        BY <3>1, <3>3, <4>2, <2>a, <1>t DEF Weaker
    <3> QED
      BY <3>1, <3>2, <3>3, <1>r
  <2>6. CASE completeStepUp(t)
    <3>1. ready(t) /\ ~refused(t) /\ UNCHANGED <<tokens, fenceVars>>
      BY <2>6 DEF completeStepUp, continues, settle, idpVars
    <3>2. UNCHANGED sessions \/ \E s : sessions' = [sessions EXCEPT ![s] = newSession(t)]
      BY <2>6 DEF completeStepUp
    <3>3. ASSUME NEW s, sessions' = [sessions EXCEPT ![s] = newSession(t)] PROVE Goal
      BY <3>1, <3>3, <1>t, <2>a, NewSessionTyped DEF Weaker
    <3> QED
      BY <3>1, <3>2, <3>3, <1>q
  <2>7. ASSUME NEW k \in Sids, rejectTrustedIdentity(t, k) PROVE Goal
    BY <2>7, <1>r DEF rejectTrustedIdentity, markUnverified, revokeOidcUserSessions, idpVars
  <2>8. ASSUME NEW k \in Sids, NEW m \in MailClaims, NEW f \in MfaClaims, exchange(t, k, m, f) PROVE Goal
    BY <2>8, <1>q DEF exchange, sessionVars, idpVars
  <2> QED
    BY <2>1, <2>2, <2>3, <2>4, <2>5, <2>6, <2>7, <2>8
<1>4. CASE CommandNext
  <2>1. ASSUME NEW s \in Sessions, prepare(s) PROVE Goal
    BY <2>1, <1>q DEF prepare, sessionVars, idpVars
  <2>2. ASSUME NEW s \in Sessions, logoutSession(s) PROVE Goal
    BY <2>2, <1>r DEF logoutSession, revokeOidcUserSessions, idpVars
  <2>3. ASSUME NEW c \in Cmds, confirm(c) \/ cancel(c) \/ lapseCommand(c) PROVE Goal
    BY <2>3, <1>q DEF confirm, cancel, lapseCommand, sessionVars, idpVars
  <2> QED
    BY <1>4, <2>1, <2>2, <2>3 DEF CommandNext
<1>5. CASE AdminNext
  <2>1. CASE Fencing
    BY <2>1
  <2>2. CASE prepareOidcOwnerLink \/ linkExpires
    BY <2>2, <1>q DEF prepareOidcOwnerLink, linkExpires, sessionVars, idpVars
  <2>3. CASE bootstrapOwner \/ setAccountAccess
    BY <2>3, <1>r DEF bootstrapOwner, setAccountAccess, revokeOidcUserSessions, idpVars
  <2> QED
    BY <1>5, <2>1, <2>2, <2>3 DEF AdminNext, Fencing
<1>6. CASE ClockNext
  BY <1>6, <1>q DEF ClockNext, age, expireTime, lapse, expireOidcTransientData, sessionVars, idpVars
<1> QED
  BY <1>1, <1>2, <1>3, <1>4, <1>5, <1>6 DEF Next

---------------------------------------------------------------------------
(* A logout reaches every session it covers.                                *)

\* The identity provider, the evidence and the logout under way keep their types.
LEMMA RestStaysTyped ==
  ASSUME SessionsTyped, Next
  PROVE  /\ authOf' \in [Sids -> Nat] /\ auths' \in Nat /\ subFence' \in Nat
         /\ tokens' \in [Tokens -> Sids \cup {"sub", NoSid}]
         /\ evidence' \in [Txs -> EvidenceRecords]
         /\ leaving' \in [token : Tokens \cup {0}, targets : SUBSET Sessions]
<1> DEFINE Idp == /\ authOf' \in [Sids -> Nat] /\ auths' \in Nat
                  /\ tokens' \in [Tokens -> Sids \cup {"sub", NoSid}]
           Ev == evidence' \in [Txs -> EvidenceRecords]
           Lv == subFence' \in Nat /\ leaving' \in [token : Tokens \cup {0}, targets : SUBSET Sessions]
           Goal == Idp /\ Ev /\ Lv
<1>i. ASSUME UNCHANGED idpVars PROVE Idp
  BY <1>i DEF SessionsTyped, idpVars
<1>e. ASSUME UNCHANGED evidence PROVE Ev
  BY <1>e DEF SessionsTyped
<1>l. ASSUME UNCHANGED fenceVars PROVE Lv
  BY <1>l DEF SessionsTyped, fenceVars
<1>n. NoEvidence \in EvidenceRecords
  BY DEF NoEvidence, EvidenceRecords
<1>f. ASSUME UNCHANGED <<idpVars, evidence, fenceVars>> PROVE Goal
  BY <1>f, <1>i, <1>e, <1>l
<1>1. CASE IdpNext
  <2>1. ASSUME NEW k \in Sids, signInAtIdp(k) PROVE Goal
    BY <2>1, <1>e, <1>l DEF signInAtIdp, txVars, SessionsTyped
  <2>2. ASSUME NEW k \in Sids, signOutAtIdp(k) PROVE Goal
    BY <2>2, <1>e, <1>l DEF signOutAtIdp, txVars, SessionsTyped
  <2>3. ASSUME NEW i \in Tokens, NEW key \in Sids \union {"sub"}, issueLogout(i, key) PROVE Goal
    BY <2>3, <1>e, <1>l DEF issueLogout, txVars, SessionsTyped
  <2> QED
    BY <1>1, <2>1, <2>2, <2>3 DEF IdpNext
<1>2. CASE BeginNext
  <2>1. ASSUME NEW p, NEW s, begin(p, s) PROVE Goal
    BY <2>1, <1>f DEF begin
  <2> QED
    BY <1>2, <2>1 DEF BeginNext, login, ownerLink, lease, stepUp
<1>3. CASE CallbackNext
  <2> SUFFICES ASSUME NEW t \in Txs,
          \/ claim(t) \/ fail(t) \/ refuse(t) \/ demote(t) \/ signUpBesideOwner(t) \/ changeAddress(t)
          \/ signIn(t) \/ refuseSession(t) \/ checkLease(t) \/ completeStepUp(t)
          \/ \E k \in Sids : rejectTrustedIdentity(t, k)
          \/ \E k \in Sids, m \in MailClaims, f \in MfaClaims : exchange(t, k, m, f)
        PROVE Goal
    BY <1>3 DEF CallbackNext
  <2>s. ASSUME NEW st, settle(t, st) PROVE Goal
    <3>1. evidence' = [evidence EXCEPT ![t] = NoEvidence] /\ UNCHANGED <<idpVars, fenceVars>>
      BY <2>s DEF settle
    <3>2. Ev
      BY <3>1, <1>n DEF SessionsTyped
    <3> QED
      BY <3>1, <3>2, <1>i, <1>l
  <2>1. CASE claim(t)
    BY <2>1, <1>f DEF claim
  <2>2. CASE fail(t)
    <3>1. Ev
      BY <2>2, <1>n DEF fail, SessionsTyped
    <3> QED
      BY <2>2, <3>1, <1>i, <1>l DEF fail
  <2>3. CASE refuse(t) \/ demote(t) \/ signUpBesideOwner(t) \/ changeAddress(t)
    BY <2>3, <2>s DEF refuse, demote, signUpBesideOwner, changeAddress
  <2>4. CASE signIn(t) \/ refuseSession(t) \/ checkLease(t)
    BY <2>4, <2>s DEF signIn, refuseSession, checkLease
  <2>5. CASE completeStepUp(t)
    BY <2>5, <2>s DEF completeStepUp
  <2>6. ASSUME NEW k \in Sids, rejectTrustedIdentity(t, k) PROVE Goal
    BY <2>6, <1>f DEF rejectTrustedIdentity
  <2>7. ASSUME NEW k \in Sids, NEW m \in MailClaims, NEW f \in MfaClaims, exchange(t, k, m, f) PROVE Goal
    <3>1. [sid |-> k, auth |-> authOf[k], mail |-> m, mfa |-> f] \in EvidenceRecords
      BY DEF EvidenceRecords, SessionsTyped
    <3>2. Ev
      BY <2>7, <3>1 DEF exchange, SessionsTyped
    <3> QED
      BY <2>7, <3>2, <1>i, <1>l DEF exchange
  <2> QED
    BY <2>1, <2>2, <2>3, <2>4, <2>5, <2>6, <2>7
<1>4. CASE CommandNext
  BY <1>4, <1>f DEF CommandNext, prepare, logoutSession, confirm, cancel, lapseCommand, txVars
<1>5. CASE AdminNext
  <2>1. CASE revokeOidcLocalSessions
    <3>1. Lv
      BY <2>1 DEF revokeOidcLocalSessions, SessionsTyped
    <3> QED
      BY <2>1, <3>1, <1>i, <1>e DEF revokeOidcLocalSessions
  <2>2. CASE logoutCommit
    <3>1. Lv
      BY <2>2 DEF logoutCommit, SessionsTyped
    <3> QED
      BY <2>2, <3>1, <1>i, <1>e DEF logoutCommit, txVars
  <2>3. ASSUME NEW i \in Tokens, logout(i) PROVE Goal
    <3>1. Lv
      BY <2>3 DEF logout, covered, SessionsTyped
    <3> QED
      BY <2>3, <3>1, <1>i, <1>e DEF logout, txVars
  <2>4. CASE prepareOidcOwnerLink \/ linkExpires \/ bootstrapOwner \/ setAccountAccess
    BY <2>4, <1>f DEF prepareOidcOwnerLink, linkExpires, bootstrapOwner, setAccountAccess, txVars
  <2> QED
    BY <1>5, <2>1, <2>2, <2>3, <2>4 DEF AdminNext
<1>6. CASE ClockNext
  <2>1. CASE expireOidcTransientData
    <3>1. Ev
      BY <2>1, <1>n DEF expireOidcTransientData, SessionsTyped
    <3> QED
      BY <2>1, <3>1, <1>i, <1>l DEF expireOidcTransientData
  <2>2. CASE (\E t \in Txs : age(t) \/ expireTime(t)) \/ \E s \in Sessions : lapse(s)
    BY <2>2, <1>f DEF age, expireTime, lapse, txVars
  <2> QED
    BY <1>6, <2>1, <2>2 DEF ClockNext
<1> QED
  BY <1>1, <1>2, <1>3, <1>4, <1>5, <1>6 DEF Next

\* The fences grow only when a logout is committed, and then the sessions it
\* covers end with it (logout and revokeOidcLocalSessions of oidc-session-store.ts).
LEMMA FencingKeeps ==
  ASSUME LogoutInv, Fencing
  PROVE  sessions' \in [Sessions -> SessionRecords] /\ LogoutCoversTargets' /\ LoggedOutStaysOut'
<1>t. SessionsTyped /\ LogoutCoversTargets /\ LoggedOutStaysOut /\ sessions \in [Sessions -> SessionRecords]
  BY DEF LogoutInv, SessionsTyped
<1>1. CASE revokeOidcLocalSessions
  <2>1. sessions' \in [Sessions -> SessionRecords] /\ \A s \in Sessions : ~Live(s)'
    BY <1>1, <1>t, RevokedFalls DEF revokeOidcLocalSessions, revokeOidcUserSessions, Falling
  <2>2. UNCHANGED <<leaving, tokens>>
    BY <1>1 DEF revokeOidcLocalSessions, idpVars
  <2>3. LogoutCoversTargets'
    BY <2>1, <2>2, <1>t DEF LogoutCoversTargets, covered
  <2> QED
    BY <2>1, <2>3 DEF LoggedOutStaysOut
<1>2. ASSUME NEW i \in Tokens, logout(i) PROVE sessions' \in [Sessions -> SessionRecords] /\ LogoutCoversTargets' /\ LoggedOutStaysOut'
  <2>1. UNCHANGED <<sessions, tokens, sidFence, subFence, localFence>> /\ tokens[i] # NoSid
    BY <1>2 DEF logout, sessionVars, idpVars
  <2>2. leaving' = [token |-> i, targets |-> covered(i)]
    BY <1>2 DEF logout
  <2>3. covered(i)' = covered(i)
    BY <2>1 DEF covered, Live
  <2>4. LogoutCoversTargets'
    BY <2>1, <2>2, <2>3 DEF LogoutCoversTargets, covered, Live
  <2>5. LoggedOutStaysOut'
    BY <2>1, <1>t DEF LoggedOutStaysOut, Live
  <2> QED
    BY <2>1, <2>4, <2>5, <1>t
<1>3. CASE logoutCommit
  <2> DEFINE key == tokens[leaving.token]
  <2>1. /\ leaving.token # 0 /\ leaving'.token = 0 /\ UNCHANGED <<localFence, auths>>
        /\ sidFence' = IF key = "sub" THEN sidFence ELSE sidFence \union {key}
        /\ subFence' = IF key = "sub" THEN auths ELSE subFence
        /\ sessions' = revoked(leaving.targets)
    BY <1>3 DEF logoutCommit, revokeOidcUserSessions, idpVars
  <2>2. Falling
    BY <2>1, <1>t, RevokedFalls
  <2>3. ASSUME NEW s \in Sessions, Live(s)'
        PROVE  Live(s) /\ sessions'[s] = sessions[s] /\ s \notin leaving.targets
    BY <2>1, <2>3, <1>t DEF revoked, Live, SessionRecords
  <2>4. ASSUME NEW s \in Sessions, Live(s)' PROVE key # "sub" /\ sessions[s].sid # key
    BY <2>1, <2>3, <2>4, <1>t DEF LogoutCoversTargets, covered
  <2>5. LoggedOutStaysOut'
    BY <2>1, <2>3, <2>4, <1>t DEF LoggedOutStaysOut
  <2> QED
    BY <2>1, <2>2, <2>5 DEF Falling, LogoutCoversTargets
<1> QED
  BY <1>1, <1>2, <1>3 DEF Fencing

\* Sessions that end, and evidence that no fence stops, make no session that a logout covers.
LEMMA AcceptKeeps ==
  ASSUME LogoutInv, NEW t, Quiet \/ (t \in Txs /\ Accepts(t))
  PROVE  sessions' \in [Sessions -> SessionRecords] /\ LogoutCoversTargets' /\ LoggedOutStaysOut'
<1>t. /\ SessionsTyped /\ LogoutCoversTargets /\ LoggedOutStaysOut
      /\ sessions \in [Sessions -> SessionRecords] /\ (t \in Txs => evidence[t] \in EvidenceRecords) /\ subFence \in Nat
      /\ leaving.token \in Tokens \cup {0}
  BY DEF LogoutInv, SessionsTyped
<1>1. sessions' \in [Sessions -> SessionRecords] /\ FencesStand /\ TokensStand
  BY DEF Quiet, Accepts, Falling
<1> DEFINE Fresh(s) == t \in Txs /\ Accepts(t) /\ (sessions'[s] = newSession(t) \/ sessions'[s] = [sessions[s] EXCEPT !.tx = t])
<1>2. ASSUME NEW s \in Sessions PROVE Weaker(s) \/ Fresh(s)
  BY DEF Quiet, Accepts, Falling
<1>3. ASSUME NEW s \in Sessions, Live(s)', Weaker(s) PROVE Live(s) /\ sessions'[s] = sessions[s]
  BY <1>3, <1>t DEF Live, Weaker, SessionRecords
<1>4. ASSUME NEW s \in Sessions, Live(s)', Fresh(s)
      PROVE  /\ sessions'[s].tx = t /\ t \in Txs /\ Accepts(t)
             /\ \/ sessions'[s].sid = evidence[t].sid /\ sessions'[s].auth = evidence[t].auth
                \/ Live(s) /\ sessions'[s].sid = sessions[s].sid /\ sessions'[s].auth = sessions[s].auth
  BY <1>4, <1>t DEF Live, newSession, SessionRecords
<1>5. ASSUME t \in Txs, Accepts(t)
      PROVE  /\ evidence[t].sid \notin sidFence /\ t \notin localFence /\ evidence[t].auth > subFence
             /\ leaving.token # 0 => tokens[leaving.token] \notin {evidence[t].sid, "sub"}
  BY <1>5, <1>t DEF Accepts, fenced, ready, scopeFree, EvidenceRecords
<1> HIDE DEF Fresh
<1>6. LoggedOutStaysOut'
  <2>1. ASSUME NEW s \in Sessions, Live(s)'
        PROVE  sessions'[s].sid \notin sidFence /\ sessions'[s].auth > subFence /\ sessions'[s].tx \notin localFence
    <3>1. CASE Weaker(s)
      BY <2>1, <3>1, <1>3, <1>t DEF LoggedOutStaysOut
    <3>2. CASE Fresh(s)
      BY <2>1, <3>2, <1>4, <1>5, <1>t DEF LoggedOutStaysOut
    <3> QED
      BY <3>1, <3>2, <1>2
  <2> QED
    BY <2>1, <1>1 DEF LoggedOutStaysOut, FencesStand
<1>7. ASSUME leaving.token # 0 PROVE covered(leaving.token)' \subseteq leaving.targets
  <2>0. leaving' = leaving /\ tokens'[leaving.token] = tokens[leaving.token]
    BY <1>1, <1>7, <1>t DEF FencesStand, TokensStand, LogoutCoversTargets
  <2>1. ASSUME NEW s \in Sessions, Live(s)', tokens[leaving.token] \in {"sub", sessions'[s].sid}
        PROVE  s \in leaving.targets
    <3>1. CASE Weaker(s)
      BY <2>1, <3>1, <1>3, <1>7, <1>t DEF LogoutCoversTargets, covered
    <3>2. CASE Fresh(s)
      BY <2>1, <3>2, <1>4, <1>5, <1>7, <1>t DEF LogoutCoversTargets, covered
    <3> QED
      BY <3>1, <3>2, <1>2
  <2> QED
    BY <2>0, <2>1 DEF covered
<1>8. LogoutCoversTargets'
  <2>1. leaving' = leaving /\ (leaving.token # 0 => tokens'[leaving.token] # NoSid)
    BY <1>1, <1>t DEF FencesStand, TokensStand, LogoutCoversTargets
  <2> QED
    BY <2>1, <1>7 DEF LogoutCoversTargets, covered
<1> QED
  BY <1>1, <1>6, <1>8

\* What a state begins with is typed, and nobody is signed in.
LEMMA LogoutInit == Init => LogoutInv
<1> SUFFICES ASSUME Init PROVE LogoutInv
  OBVIOUS
<1>1. NoSession \in SessionRecords /\ NoEvidence \in EvidenceRecords
  BY DEF NoSession, SessionRecords, NoEvidence, EvidenceRecords
<1>2. SessionsTyped
  BY <1>1 DEF Init, UserInit, CommandInit, SessionsTyped
<1>3. LogoutCoversTargets
  BY DEF Init, UserInit, CommandInit, LogoutCoversTargets
<1>4. LoggedOutStaysOut
  BY DEF Init, UserInit, CommandInit, LoggedOutStaysOut, Live, NoSession
<1> QED
  BY <1>2, <1>3, <1>4 DEF LogoutInv

\* No live session rests on what a logout received earlier has ended, however
\* logouts, callbacks, lease checks and step-ups interleave.
THEOREM LogoutsHold == Spec => []LoggedOutStaysOut
<1>1. Init => LogoutInv
  BY LogoutInit
<1>2. LogoutInv /\ [Next]_vars => LogoutInv'
  <2> SUFFICES ASSUME LogoutInv, [Next]_vars PROVE LogoutInv'
    OBVIOUS
  <2>1. CASE UNCHANGED vars
    BY <2>1 DEF vars, idpVars, txVars, sessionVars, fenceVars, LogoutInv, SessionsTyped,
                LogoutCoversTargets, LoggedOutStaysOut, covered, Live
  <2>2. CASE Next
    <3>1. SessionsTyped
      BY DEF LogoutInv
    <3>2. sessions' \in [Sessions -> SessionRecords] /\ LogoutCoversTargets' /\ LoggedOutStaysOut'
      BY <2>2, <3>1, SessionStep, FencingKeeps, AcceptKeeps
    <3> QED
      BY <2>2, <3>1, <3>2, RestStaysTyped DEF LogoutInv, SessionsTyped
  <2> QED
    BY <2>1, <2>2
<1>3. LogoutInv => LoggedOutStaysOut
  BY DEF LogoutInv
<1> QED
  BY <1>1, <1>2, <1>3, PTL DEF Spec

---------------------------------------------------------------------------
(* A confirmed command rests on its own step-up.                            *)

\* A command keeps its proof or loses it, and none is executed.
Waning(c) ==
  cmds'[c] = cmds[c] \/ cmds'[c] = [cmds[c] EXCEPT !.state = "dropped"] \/ cmds'[c] = [cmds[c] EXCEPT !.state = "executed"]

\* The transactions keep what they are for, and none begins or is forgotten.
SameTxs ==
  /\ UNCHANGED <<purpose, subject>>
  /\ txStatus' \in [Txs -> {"unused", "pending", "exchanging", "consumed", "failed"}]
  /\ \A t \in Txs : txStatus'[t] = "unused" <=> txStatus[t] = "unused"

Waned == cmds' \in [Cmds -> CommandRecords] /\ \A c \in Cmds : Waning(c)

\* What a step does to the transactions and the commands.
LEMMA SameTxsKeepProofs ==
  ASSUME ProofInv, SameTxs, cmds' \in [Cmds -> CommandRecords],
         \A c \in Cmds : \/ Waning(c) \/ cmds'[c].proof = 0
                         \/ /\ cmds'[c].proof \in Started /\ purpose[cmds'[c].proof] = "step_up"
                            /\ subject[cmds'[c].proof] = c
  PROVE  ProofInv'
<1>1. ProofsTyped'
  BY DEF ProofInv, ProofsTyped, SameTxs
<1>2. Started' = Started
  BY DEF SameTxs, Started
<1>3. TxsInOrder'
  BY <1>2 DEF ProofInv, TxsInOrder
<1>4. ASSUME NEW c \in Cmds, Waning(c) PROVE cmds'[c].proof = cmds[c].proof
  <2>1. cmds[c] \in CommandRecords
    BY DEF ProofInv, ProofsTyped
  <2> QED
    BY <1>4, <2>1 DEF Waning, CommandRecords
<1>5. ProofIsOfStepUp'
  BY <1>2, <1>4 DEF ProofInv, ProofIsOfStepUp, SameTxs
<1> QED
  BY <1>1, <1>3, <1>5 DEF ProofInv

\* A transaction that begins is a new one, so the proofs stay what they are.
LEMMA BeginKeepsProofs ==
  ASSUME ProofInv, NEW p \in {"login", "lease_check", "owner_link", "step_up"}, NEW s \in Nat, begin(p, s)
  PROVE  ProofInv'
<1>1. PICK n \in Nat : Started = 1..n
  BY DEF ProofInv, TxsInOrder
<1>2. NextTx = n + 1
  <2>1. Cardinality(1..n) = IF 1 > n THEN 0 ELSE n - 1 + 1
    BY FS_Interval
  <2> QED
    BY <1>1, <2>1 DEF NextTx
<1>3. NextTx \in Txs /\ NextTx \notin Started
  BY <1>1, <1>2 DEF begin
<1>4. /\ txStatus' = [txStatus EXCEPT ![NextTx] = "pending"]
      /\ purpose' = [purpose EXCEPT ![NextTx] = p] /\ subject' = [subject EXCEPT ![NextTx] = s]
      /\ UNCHANGED cmds
  BY DEF begin, cmdVars
<1>n. n + 1 \in Txs
  BY <1>2, <1>3
<1>5. Started' = Started \cup {n + 1}
  BY <1>2, <1>n, <1>4 DEF Started, ProofInv, ProofsTyped
<1>6. Started' = 1..(n + 1)
  BY <1>1, <1>5
<1>7. TxsInOrder'
  BY <1>6 DEF TxsInOrder
<1>8. ProofsTyped'
  BY <1>4 DEF ProofInv, ProofsTyped
<1>9. ProofIsOfStepUp'
  <2>1. ASSUME NEW c \in Cmds, cmds[c].proof # 0
        PROVE  /\ cmds[c].proof \in Started'
               /\ purpose'[cmds[c].proof] = "step_up" /\ subject'[cmds[c].proof] = c
    <3>1. /\ cmds[c].proof \in Started /\ cmds[c].proof \in Txs
          /\ purpose[cmds[c].proof] = "step_up" /\ subject[cmds[c].proof] = c
      BY <2>1 DEF ProofInv, ProofIsOfStepUp, Started
    <3>2. cmds[c].proof # NextTx
      BY <3>1, <1>3
    <3> QED
      BY <3>1, <3>2, <1>4, <1>5 DEF ProofInv, ProofsTyped
  <2> QED
    BY <2>1, <1>4 DEF ProofIsOfStepUp
<1> QED
  BY <1>7, <1>8, <1>9 DEF ProofInv

\* Revoking a session drops commands and executes none.
LEMMA DroppedWanes ==
  ASSUME ProofInv, NEW ss, cmds' = dropped(ss)
  PROVE  Waned /\ \A c \in Cmds : cmds'[c].state = "executed" => cmds[c].state = "executed"
<1>1. ASSUME NEW c \in Cmds
      PROVE  cmds[c] \in CommandRecords /\ [cmds[c] EXCEPT !.state = "dropped"] \in CommandRecords
  BY DEF ProofInv, ProofsTyped, CommandRecords
<1>2. cmds' \in [Cmds -> CommandRecords]
  BY <1>1 DEF dropped
<1> QED
  BY <1>1, <1>2 DEF Waned, Waning, dropped, CommandRecords

Executes(c) == cmds[c].state # cmds'[c].state /\ cmds'[c].state = "executed"

\* The inductive step: the proofs stay what they are, and nothing but a
\* confirmation executes a command.
LEMMA ProofStep ==
  ASSUME ProofInv, Next
  PROVE  ProofInv' /\ \A c \in Cmds : Executes(c) => confirm(c)
<1> DEFINE Calm == \A c \in Cmds : ~Executes(c)
           Goal == ProofInv' /\ \A c \in Cmds : Executes(c) => confirm(c)
<1>t. /\ txStatus \in [Txs -> {"unused", "pending", "exchanging", "consumed", "failed"}]
      /\ cmds \in [Cmds -> CommandRecords]
  BY DEF ProofInv, ProofsTyped
<1>c. ASSUME NEW c \in Cmds
      PROVE  /\ cmds[c] \in CommandRecords /\ [cmds[c] EXCEPT !.state = "dropped"] \in CommandRecords
             /\ [cmds[c] EXCEPT !.state = "executed"] \in CommandRecords
  BY <1>t DEF CommandRecords
<1>k. ASSUME UNCHANGED cmds PROVE Waned /\ Calm
  BY <1>k, <1>t DEF Waned, Waning, Executes
<1>d. ASSUME NEW ss, cmds' = dropped(ss) PROVE Waned /\ Calm
  BY <1>d, DroppedWanes DEF Executes
<1>w. ASSUME SameTxs, Waned, Calm PROVE Goal
  BY <1>w, SameTxsKeepProofs DEF Waned
<1>u. ASSUME UNCHANGED <<purpose, subject, txStatus>> PROVE SameTxs
  BY <1>u, <1>t DEF SameTxs
<1>x. ASSUME NEW t \in Txs, NEW st \in {"exchanging", "consumed", "failed"},
             txStatus[t] # "unused", txStatus' = [txStatus EXCEPT ![t] = st], UNCHANGED <<purpose, subject>>
      PROVE  SameTxs
  BY <1>x, <1>t DEF SameTxs
<1>1. CASE IdpNext
  BY <1>1, <1>k, <1>u, <1>w DEF IdpNext, signInAtIdp, signOutAtIdp, issueLogout, txVars, cmdVars
<1>2. CASE BeginNext
  <2>1. ASSUME NEW p \in {"login", "lease_check", "owner_link", "step_up"}, NEW s \in Nat, begin(p, s) PROVE Goal
    <3>1. Calm
      BY <2>1, <1>k DEF begin, cmdVars
    <3> QED
      BY <2>1, <3>1, BeginKeepsProofs
  <2>2. CASE login \/ ownerLink
    BY <2>2, <2>1 DEF login, ownerLink
  <2>3. ASSUME NEW s \in Sessions, lease(s) PROVE Goal
    BY <2>3, <2>1 DEF lease, Sessions
  <2>4. ASSUME NEW c \in Cmds, stepUp(c) PROVE Goal
    BY <2>4, <2>1 DEF stepUp, Cmds
  <2> QED
    BY <1>2, <2>2, <2>3, <2>4 DEF BeginNext
<1>3. CASE CallbackNext
  <2> SUFFICES ASSUME NEW t \in Txs,
          \/ claim(t) \/ fail(t) \/ refuse(t) \/ demote(t) \/ signUpBesideOwner(t) \/ changeAddress(t)
          \/ signIn(t) \/ refuseSession(t) \/ checkLease(t) \/ completeStepUp(t)
          \/ \E k \in Sids : rejectTrustedIdentity(t, k)
          \/ \E k \in Sids, m \in MailClaims, f \in MfaClaims : exchange(t, k, m, f)
        PROVE Goal
    BY <1>3 DEF CallbackNext
  <2>s. ASSUME NEW st \in {"consumed", "failed"}, ready(t), settle(t, st) PROVE SameTxs
    BY <2>s, <1>x DEF ready, settle
  <2>1. CASE claim(t)
    BY <2>1, <1>x, <1>k, <1>w DEF claim, cmdVars
  <2>2. CASE fail(t)
    BY <2>2, <1>x, <1>k, <1>w DEF fail, cmdVars
  <2>3. CASE refuse(t) \/ signUpBesideOwner(t) \/ refuseSession(t)
    BY <2>3, <2>s, <1>k, <1>w DEF refuse, signUpBesideOwner, refuseSession, continues
  <2>4. CASE demote(t) \/ changeAddress(t)
    BY <2>4, <2>s, <1>d, <1>w DEF demote, changeAddress, markUnverified, revokeOidcUserSessions
  <2>5. CASE signIn(t)
    <3>1. ready(t) /\ settle(t, "consumed") /\ (cmds' = dropped(Sessions) \/ cmds' = cmds)
      BY <2>5 DEF signIn
    <3> QED
      BY <3>1, <2>s, <1>k, <1>d, <1>w
  <2>6. CASE checkLease(t)
    <3>1. ready(t) /\ settle(t, "consumed") /\ (cmds' = cmds \/ \E ss : cmds' = dropped(ss))
      BY <2>6 DEF checkLease, continues, revokeOidcUserSessions
    <3> QED
      BY <3>1, <2>s, <1>k, <1>d, <1>w
  <2>7. CASE completeStepUp(t)
    <3>1. ready(t) /\ purpose[t] = "step_up"
      BY <2>7 DEF completeStepUp, continues
    <3>2. SameTxs
      BY <2>7, <3>1, <2>s DEF completeStepUp
    <3>3. CASE UNCHANGED cmds
      BY <3>2, <3>3, <1>k, <1>w
    <3>4. CASE cmds' = [cmds EXCEPT ![subject[t]].proof = t]
      <4>1. t \in Started /\ t \in Nat
        BY <3>1 DEF ready, Started, Txs
      <4>2. ASSUME NEW c \in Cmds PROVE [cmds[c] EXCEPT !.proof = t] \in CommandRecords
        BY <1>c, <4>1 DEF CommandRecords
      <4>3. cmds' \in [Cmds -> CommandRecords]
        BY <3>4, <4>2, <1>t
      <4>4. ASSUME NEW c \in Cmds PROVE cmds'[c] = cmds[c] \/ (c = subject[t] /\ cmds'[c].proof = t /\ cmds'[c].state = cmds[c].state)
        BY <3>4, <1>t, <1>c DEF CommandRecords
      <4>5. Calm
        BY <4>4 DEF Executes
      <4>6. ProofInv'
        BY <3>1, <3>2, <4>1, <4>3, <4>4, SameTxsKeepProofs DEF Waning
      <4> QED
        BY <4>5, <4>6
    <3> QED
      BY <2>7, <3>3, <3>4 DEF completeStepUp
  <2>8. ASSUME NEW k \in Sids, rejectTrustedIdentity(t, k) PROVE Goal
    <3>1. SameTxs
      BY <2>8, <1>x DEF rejectTrustedIdentity
    <3> QED
      BY <2>8, <3>1, <1>d, <1>w DEF rejectTrustedIdentity, markUnverified, revokeOidcUserSessions
  <2>9. ASSUME NEW k \in Sids, NEW m \in MailClaims, NEW f \in MfaClaims, exchange(t, k, m, f) PROVE Goal
    BY <2>9, <1>u, <1>k, <1>w DEF exchange, cmdVars
  <2> QED
    BY <2>1, <2>2, <2>3, <2>4, <2>5, <2>6, <2>7, <2>8, <2>9
<1>4. CASE CommandNext
  <2>1. ASSUME NEW s \in Sessions, prepare(s) PROVE Goal
    <3>1. PICK c \in Cmds : cmds' = [cmds EXCEPT ![c] = [state |-> "pending", session |-> s, proof |-> 0]]
      BY <2>1 DEF prepare
    <3>2. [state |-> "pending", session |-> s, proof |-> 0] \in CommandRecords
      BY DEF CommandRecords, Sessions
    <3>3. cmds' \in [Cmds -> CommandRecords]
      BY <3>1, <3>2, <1>t
    <3>4. ASSUME NEW d \in Cmds PROVE cmds'[d] = cmds[d] \/ (cmds'[d].proof = 0 /\ cmds'[d].state = "pending")
      BY <3>1, <1>t
    <3>5. SameTxs
      BY <2>1, <1>u DEF prepare, txVars
    <3>6. ProofInv'
      BY <3>3, <3>4, <3>5, SameTxsKeepProofs DEF Waning
    <3> QED
      BY <3>4, <3>6 DEF Executes
  <2>2. ASSUME NEW s \in Sessions, logoutSession(s) PROVE Goal
    BY <2>2, <1>u, <1>d, <1>w DEF logoutSession, revokeOidcUserSessions, txVars
  <2>3. ASSUME NEW c \in Cmds, confirm(c) PROVE Goal
    <3>1. SameTxs
      BY <2>3, <1>u DEF confirm, txVars
    <3>2. cmds' = [cmds EXCEPT ![c].state = "executed"]
      BY <2>3 DEF confirm
    <3>3. cmds' \in [Cmds -> CommandRecords]
      BY <3>2, <1>c, <1>t
    <3>4. ASSUME NEW d \in Cmds PROVE Waning(d) /\ (d # c => cmds'[d] = cmds[d])
      BY <3>2, <1>t DEF Waning
    <3>5. ProofInv'
      BY <3>1, <3>3, <3>4, SameTxsKeepProofs
    <3> QED
      BY <2>3, <3>4, <3>5 DEF Executes
  <2>4. ASSUME NEW c \in Cmds, cancel(c) PROVE Goal
    <3>1. SameTxs
      BY <2>4, <1>u DEF cancel, txVars
    <3>2. cmds' = [cmds EXCEPT ![c].state = "dropped"]
      BY <2>4 DEF cancel
    <3>3. cmds' \in [Cmds -> CommandRecords]
      BY <3>2, <1>c, <1>t
    <3>4. Waned /\ Calm
      BY <3>2, <3>3, <1>t, <1>c DEF Waned, Waning, Executes, CommandRecords
    <3> QED
      BY <3>1, <3>4, <1>w
  <2>5. ASSUME NEW c \in Cmds, lapseCommand(c) PROVE Goal
    BY <2>5, <1>u, <1>k, <1>w DEF lapseCommand, txVars
  <2> QED
    BY <1>4, <2>1, <2>2, <2>3, <2>4, <2>5 DEF CommandNext
<1>5. CASE AdminNext
  <2>1. CASE revokeOidcLocalSessions \/ logoutCommit \/ setAccountAccess
    BY <2>1, <1>u, <1>d, <1>w DEF revokeOidcLocalSessions, logoutCommit, setAccountAccess, revokeOidcUserSessions, txVars
  <2>2. CASE (\E i \in Tokens : logout(i)) \/ prepareOidcOwnerLink \/ linkExpires \/ bootstrapOwner
    BY <2>2, <1>u, <1>k, <1>w DEF logout, prepareOidcOwnerLink, linkExpires, bootstrapOwner, txVars, cmdVars
  <2> QED
    BY <1>5, <2>1, <2>2 DEF AdminNext
<1>6. CASE ClockNext
  <2>1. CASE (\E t \in Txs : age(t) \/ expireTime(t)) \/ \E s \in Sessions : lapse(s)
    BY <2>1, <1>u, <1>k, <1>w DEF age, expireTime, lapse, txVars, cmdVars
  <2>2. CASE expireOidcTransientData
    <3>1. /\ txStatus' = [t \in Txs |-> IF t \in expired /\ unfinished(t) THEN "failed" ELSE txStatus[t]]
          /\ cmds' = [c \in Cmds |-> IF c \in oldCmds /\ cmds[c].state = "pending" THEN [cmds[c] EXCEPT !.state = "dropped"] ELSE cmds[c]]
          /\ UNCHANGED <<purpose, subject>>
      BY <2>2 DEF expireOidcTransientData
    <3>2. SameTxs
      BY <3>1, <1>t DEF SameTxs, unfinished
    <3>3. Waned /\ Calm
      BY <3>1, <1>t, <1>c DEF Waned, Waning, Executes, CommandRecords
    <3> QED
      BY <3>2, <3>3, <1>w
  <2> QED
    BY <1>6, <2>1, <2>2 DEF ClockNext
<1> QED
  BY <1>1, <1>2, <1>3, <1>4, <1>5, <1>6 DEF Next

\* Nothing has begun, and no command has a proof.
LEMMA ProofInit == Init => ProofInv
<1> SUFFICES ASSUME Init PROVE ProofInv
  OBVIOUS
<1>1. ProofsTyped
  BY DEF Init, UserInit, CommandInit, ProofsTyped, NoCommand, CommandRecords
<1>2. Started = {}
  BY DEF Init, UserInit, CommandInit, Started
<1>3. TxsInOrder
  <2>1. Started = 1..0
    BY <1>2
  <2> QED
    BY <2>1 DEF TxsInOrder
<1>4. ProofIsOfStepUp
  BY DEF Init, UserInit, CommandInit, ProofIsOfStepUp, NoCommand
<1> QED
  BY <1>1, <1>3, <1>4 DEF ProofInv

\* A command runs at most once, in a live and leased session of a verified
\* user, and on the evidence of the step-up that was begun for that command.
THEOREM CommandsAreBacked == Spec => ConfirmedCommandIsBacked
<1> DEFINE Backed ==
      \A c \in Cmds : cmds[c].state # cmds'[c].state /\ cmds'[c].state = "executed" =>
        LET s == cmds[c].session
            t == sessions[s].tx
        IN /\ cmds[c].state = "pending" /\ active /\ verified
           /\ Live(s) /\ s \in curSessions /\ s \notin lapsed /\ t \notin aged
           /\ purpose[t] = "step_up" /\ subject[t] = c
<1>1. Init => ProofInv
  BY ProofInit
<1>2. ProofInv /\ [Next]_vars => ProofInv'
  <2> SUFFICES ASSUME ProofInv, [Next]_vars PROVE ProofInv'
    OBVIOUS
  <2>1. CASE UNCHANGED vars
    BY <2>1 DEF vars, txVars, cmdVars, ProofInv, ProofsTyped, TxsInOrder, ProofIsOfStepUp, Started
  <2> QED
    BY <2>1, ProofStep
<1>3. ProofInv /\ [Next]_vars => [Backed]_vars
  <2> SUFFICES ASSUME ProofInv, Next PROVE Backed
    OBVIOUS
  <2> SUFFICES ASSUME NEW c \in Cmds, Executes(c)
               PROVE  LET s == cmds[c].session
                          t == sessions[s].tx
                      IN /\ cmds[c].state = "pending" /\ active /\ verified
                         /\ Live(s) /\ s \in curSessions /\ s \notin lapsed /\ t \notin aged
                         /\ purpose[t] = "step_up" /\ subject[t] = c
    BY DEF Executes
  <2>1. confirm(c)
    BY ProofStep
  <2>2. purpose[cmds[c].proof] = "step_up" /\ subject[cmds[c].proof] = c
    BY <2>1 DEF confirm, proven, ProofInv, ProofIsOfStepUp
  <2> QED
    BY <2>1, <2>2 DEF confirm, locked, proven, Usable, resolves, leased
<1> QED
  BY <1>1, <1>2, <1>3, PTL DEF Spec, ConfirmedCommandIsBacked

---------------------------------------------------------------------------
(* Reports, penalties and appeals: the inductive invariant.                 *)

CaseRows ==
  /\ caseState \in [CaseIds -> {"none", "open", "resolved"}]
  /\ caseKind \in [CaseIds -> {"none", "report", "appeal"}]
  /\ caseSource = [c \in CaseIds |-> caseSource[c]]
  /\ caseResolution \in [CaseIds -> {"none", "dismissed", "actioned", "upheld", "reduced", "reversed"}]

CaseInv == CaseRows /\ (\A c \in CaseIds : trust_cases_checks(c)) /\ trust_cases_open_source_uidx

\* A report belongs to a report case of its item, and a report case has a report.
ReportsHaveCases ==
  \A r \in reports : /\ r[3] \in CaseIds /\ caseState[r[3]] # "none"
                     /\ caseKind[r[3]] = "report" /\ caseSource[r[3]] = r[2]
CasesHaveReports ==
  \A c \in CaseIds : caseState[c] # "none" /\ caseKind[c] = "report" =>
    \E r \in reports : r[3] = c /\ r[2] = caseSource[c]

ReportInv ==
  /\ reports \subseteq (Reporters \cup Guests) \X Items \X CaseIds
  /\ ReportsHaveCases /\ CasesHaveReports /\ OpenReportHasOpenCase /\ trust_reports_actor_target_uidx

\* A hide that was never made is neither released nor appealed.
HideInv ==
  /\ hideItem = [h \in HideIds |-> hideItem[h]] /\ hideCase = [h \in HideIds |-> hideCase[h]]
  /\ hideAppeal = [h \in HideIds |-> hideAppeal[h]]
  /\ \A h \in HideIds : hideItem[h] = "none" => h \notin hideReleased /\ hideAppeal[h] = "none"
  /\ \A h \in HideIds : hideAppeal[h] = "reversed" => h \in hideReleased
  /\ trust_content_hides_active_uidx

PenaltyStates == {"none", "active"} \cup Ends
PenaltyKinds == {"none", "warning", "restriction", "suspension", "removal"}
PenaltyScopes == {"none", "creator_capability", "account"} \cup TRUST_RESTRICTIONS
Capabilities == {"none", "active", "suspended", "removed"}
Accesses == {"active", "access_suspended", "closed"}

PenaltyRows ==
  /\ penState \in [PenaltyIds -> PenaltyStates]
  /\ penKind \in [PenaltyIds -> PenaltyKinds] /\ penScope \in [PenaltyIds -> PenaltyScopes]
  /\ penReplaces \in [PenaltyIds -> PenaltyIds \cup {0}]
  /\ penCase = [p \in PenaltyIds |-> penCase[p]]
  /\ elapsed \subseteq penTimed

StandingTyped ==
  /\ capability \in Capabilities /\ access \in Accesses /\ baseline \in {"active", "suspended"}
  /\ session \in BOOLEAN /\ published \in BOOLEAN /\ liveOrders \in BOOLEAN

\* A penalty that was never applied has an empty row; any other has the shape the owner gave it.
EmptyRow(p) ==
  /\ penKind[p] = "none" /\ penReplaces[p] = 0 /\ penScope[p] = "none"
  /\ p \notin penTimed /\ p \notin helpLink
RowsAreShaped ==
  \A p \in PenaltyIds : /\ penState[p] = "none" => EmptyRow(p)
                        /\ penState[p] # "none" => <<penKind[p], penScope[p]>> \in SlotShapes

LinksAreOfAccount == \A p \in helpLink : penScope[p] = "account" /\ penKind[p] \in {"suspension", "removal"}

PenaltyInv ==
  /\ PenaltyRows /\ StandingTyped /\ RowsAreShaped /\ LinksAreOfAccount
  /\ (\A p \in PenaltyIds : trust_penalties_checks(p)) /\ trust_penalties_active_uidx
  /\ StandingMatchesPenalties /\ OutOfStandingIsOut /\ LockedOutUserHasLink

\* An appeal is about an applied penalty, and a replacement about a reduced one.
AppealInv ==
  /\ penAppeal = [p \in PenaltyIds |-> penAppeal[p]]
  /\ \A p \in PenaltyIds : penState[p] = "none" => penAppeal[p] = "none"
  /\ \A q \in PenaltyIds : penReplaces[q] # 0 => penAppeal[penReplaces[q]] = "reduced" /\ penAppeal[q] = "none"
  /\ \A p \in PenaltyIds :
       /\ penAppeal[p] = "reversed" => penState[p] # "active"
       /\ penAppeal[p] = "reduced" =>
            penState[p] = "reduced" /\ \E q \in PenaltyIds : {q} = {r \in PenaltyIds : penReplaces[r] = p}

TrustInv == CaseInv /\ ReportInv /\ HideInv /\ PenaltyInv /\ AppealInv

---------------------------------------------------------------------------
(* What penalties require, and what recomputing a standing leaves.          *)

CapSev(rows) == CapabilitySeverity[withBaseline(requiredCapabilityState(rows))]
AccSev(rows) == AccessSeverity[requiredAccess(rows)]
Removes(rows) == \E scope \in {"creator_capability", "account"} : <<"removal", scope>> \in rows

\* A standing is at least what the low rows and at most what the high rows require.
Between(st, low, high) ==
  /\ st.cap # "none" =>
       CapSev(low) <= CapabilitySeverity[st.cap] /\ CapabilitySeverity[st.cap] <= CapSev(high)
  /\ AccSev(low) <= AccessSeverity[st.acc] /\ AccessSeverity[st.acc] <= AccSev(high)

Standings == [cap : Capabilities, acc : Accesses]

LEMMA Severities ==
  /\ CapabilitySeverity["none"] = 0 /\ CapabilitySeverity["active"] = 0
  /\ CapabilitySeverity["suspended"] = 1 /\ CapabilitySeverity["removed"] = 2
  /\ AccessSeverity["active"] = 0 /\ AccessSeverity["access_suspended"] = 1 /\ AccessSeverity["closed"] = 2
BY DEF CapabilitySeverity, AccessSeverity

LEMMA CapSevIs ==
  ASSUME baseline \in {"active", "suspended"}, NEW rows
  PROVE  /\ withBaseline(requiredCapabilityState(rows)) \in {"active", "suspended", "removed"}
         /\ CapSev(rows) = IF Removes(rows) THEN 2
                           ELSE IF <<"suspension", "creator_capability">> \in rows \/ baseline = "suspended" THEN 1 ELSE 0
<1>1. requiredCapabilityState(rows) = IF Removes(rows) THEN "removed"
        ELSE IF <<"suspension", "creator_capability">> \in rows THEN "suspended" ELSE "active"
  BY DEF requiredCapabilityState, Removes
<1> QED
  BY <1>1, Severities DEF withBaseline, CapSev

LEMMA AccSevIs ==
  ASSUME NEW rows
  PROVE  /\ requiredAccess(rows) \in {"active", "access_suspended", "closed"}
         /\ AccSev(rows) = IF <<"removal", "account">> \in rows THEN 2
                           ELSE IF <<"suspension", "account">> \in rows THEN 1 ELSE 0
BY Severities DEF requiredAccess, AccSev

\* More rows require no less.
LEMMA SeveritiesGrow ==
  ASSUME baseline \in {"active", "suspended"}, NEW low, NEW high, low \subseteq high
  PROVE  CapSev(low) <= CapSev(high) /\ AccSev(low) <= AccSev(high)
<1>1. Removes(low) => Removes(high)
  BY DEF Removes
<1>2. CapSev(low) <= CapSev(high)
  BY <1>1, CapSevIs
<1>3. AccSev(low) <= AccSev(high)
  BY AccSevIs
<1> QED
  BY <1>2, <1>3

\* A row that is not about the account does not change what is required of it.
LEMMA AccountRowsOnly ==
  ASSUME NEW low, NEW high, low \subseteq high, \A r \in high \ low : r[2] # "account"
  PROVE  AccSev(low) = AccSev(high)
<1>1. ASSUME NEW k, <<k, "account">> \in high PROVE <<k, "account">> \in low
  BY <1>1
<1> QED
  BY <1>1, AccSevIs

\* The severity of a new standing: the capability is what the rows in force
\* require, the access too or it stays.
LEMMA StandingAfterIs ==
  ASSUME baseline \in {"active", "suspended"}, NEW st \in Standings, NEW rows, NEW byActor \in BOOLEAN, NEW scope
  PROVE  /\ standingAfter(st, rows, byActor, scope) \in Standings
         /\ st.cap = "none" => standingAfter(st, rows, byActor, scope).cap = "none"
         /\ st.cap # "none" =>
              /\ standingAfter(st, rows, byActor, scope).cap # "none"
              /\ IF byActor \/ CapSev(rows) < CapabilitySeverity[st.cap]
                 THEN CapabilitySeverity[standingAfter(st, rows, byActor, scope).cap] = CapSev(rows)
                 ELSE standingAfter(st, rows, byActor, scope).cap = st.cap
         /\ IF /\ byActor \/ AccSev(rows) < AccessSeverity[st.acc]
               /\ scope = "account" \/ \E r \in rows : r[2] = "account"
            THEN AccessSeverity[standingAfter(st, rows, byActor, scope).acc] = AccSev(rows)
            ELSE standingAfter(st, rows, byActor, scope).acc = st.acc
<1> DEFINE cap == withBaseline(requiredCapabilityState(rows))
           acc == requiredAccess(rows)
<1>1. /\ cap \in {"active", "suspended", "removed"} /\ CapSev(rows) = CapabilitySeverity[cap]
      /\ acc \in Accesses /\ AccSev(rows) = AccessSeverity[acc]
  BY CapSevIs, AccSevIs DEF CapSev, AccSev, Accesses
<1>2. standingAfter(st, rows, byActor, scope) =
        [cap |-> IF st.cap # "none" /\ (byActor \/ CapabilitySeverity[cap] < CapabilitySeverity[st.cap]) THEN cap ELSE st.cap,
         acc |-> IF /\ byActor \/ AccessSeverity[acc] < AccessSeverity[st.acc]
                    /\ scope = "account" \/ \E r \in rows : r[2] = "account"
                 THEN acc ELSE st.acc]
  BY DEF standingAfter
<1> HIDE DEF cap, acc
<1> QED
  BY <1>1, <1>2 DEF Standings, Capabilities, Accesses

\* The same when an actor recomputes it.
LEMMA StandingByActorIs ==
  ASSUME baseline \in {"active", "suspended"}, NEW st \in Standings, NEW rows, NEW scope
  PROVE  LET n == standingAfter(st, rows, TRUE, scope)
         IN /\ n \in Standings /\ (st.cap = "none" => n.cap = "none")
            /\ st.cap # "none" => n.cap # "none" /\ CapabilitySeverity[n.cap] = CapSev(rows)
            /\ IF scope = "account" \/ \E r \in rows : r[2] = "account"
               THEN AccessSeverity[n.acc] = AccSev(rows) ELSE n.acc = st.acc
<1> DEFINE cap == withBaseline(requiredCapabilityState(rows))
           acc == requiredAccess(rows)
<1>1. /\ cap \in {"active", "suspended", "removed"} /\ CapSev(rows) = CapabilitySeverity[cap]
      /\ acc \in Accesses /\ AccSev(rows) = AccessSeverity[acc]
  BY CapSevIs, AccSevIs DEF CapSev, AccSev, Accesses
<1>2. standingAfter(st, rows, TRUE, scope) =
        [cap |-> IF st.cap # "none" THEN cap ELSE st.cap,
         acc |-> IF scope = "account" \/ \E r \in rows : r[2] = "account" THEN acc ELSE st.acc]
  BY DEF standingAfter
<1> DEFINE n == standingAfter(st, rows, TRUE, scope)
<1> HIDE DEF cap, acc, n
<1>3. n = [cap |-> IF st.cap # "none" THEN cap ELSE st.cap,
           acc |-> IF scope = "account" \/ \E r \in rows : r[2] = "account" THEN acc ELSE st.acc]
  BY <1>2 DEF n
<1>4. n \in Standings /\ n.cap = (IF st.cap # "none" THEN cap ELSE st.cap)
      /\ n.acc = IF scope = "account" \/ \E r \in rows : r[2] = "account" THEN acc ELSE st.acc
  BY <1>1, <1>3 DEF Standings, Capabilities, Accesses
<1>5. st.cap # "none" => n.cap # "none" /\ CapabilitySeverity[n.cap] = CapSev(rows)
  BY <1>1, <1>4
<1>6. IF scope = "account" \/ \E r \in rows : r[2] = "account"
      THEN AccessSeverity[n.acc] = AccSev(rows) ELSE n.acc = st.acc
  BY <1>1, <1>4
<1> QED
  BY <1>4, <1>5, <1>6 DEF n

\* The rows in force and the active rows shrink, the latter by rows of one scope.
Shrinks(low, high, low2, high2, scope) ==
  low2 \subseteq low /\ low2 \subseteq high2 /\ high2 \subseteq high /\ \A r \in high \ high2 : r[2] = scope

\* Ending rows of one scope and recomputing leaves a standing between what is left.
LEMMA EndingStaysBetween ==
  ASSUME baseline \in {"active", "suspended"}, NEW st \in Standings, NEW byActor \in BOOLEAN, NEW scope,
         NEW low, NEW high, Between(st, low, high),
         NEW low2, NEW high2, Shrinks(low, high, low2, high2, scope)
  PROVE  /\ Between(standingAfter(st, low2, byActor, scope), low2, high2)
         /\ standingAfter(st, low2, byActor, scope) \in Standings
         /\ standingAfter(st, low2, byActor, scope).cap = "removed" => st.cap = "removed"
         /\ st.cap = "none" => standingAfter(st, low2, byActor, scope).cap = "none"
<1> DEFINE new == standingAfter(st, low2, byActor, scope)
<1>1. /\ CapSev(low2) <= CapSev(low) /\ CapSev(low2) <= CapSev(high2)
      /\ AccSev(low2) <= AccSev(low) /\ AccSev(low2) <= AccSev(high2)
  BY SeveritiesGrow DEF Shrinks
<1>2. scope # "account" => AccSev(high2) = AccSev(high)
  BY AccountRowsOnly DEF Shrinks
<1>3. \A rows : CapSev(rows) \in 0..2 /\ AccSev(rows) \in 0..2
  BY CapSevIs, AccSevIs
<1>4. /\ CapabilitySeverity[st.cap] \in 0..2 /\ AccessSeverity[st.acc] \in 0..2
      /\ new \in Standings /\ CapabilitySeverity[new.cap] \in 0..2 /\ AccessSeverity[new.acc] \in 0..2
  BY Severities, StandingAfterIs DEF Standings, Capabilities, Accesses
<1>5. new.cap # "none" => CapabilitySeverity[new.cap] = CapSev(low2)
  BY <1>1, <1>3, <1>4, StandingAfterIs DEF Between
<1>6. AccSev(low2) <= AccessSeverity[new.acc] /\ AccessSeverity[new.acc] <= AccSev(high2)
  BY <1>1, <1>2, <1>3, <1>4, StandingAfterIs DEF Between
<1>7. new.cap = "removed" => st.cap = "removed"
  <2>1. CASE st.cap # "none"
    <3>1. CapSev(low2) <= CapabilitySeverity[st.cap]
      BY <2>1, <1>1, <1>3, <1>4 DEF Between
    <3> QED
      BY <2>1, <3>1, <1>5, Severities DEF Standings, Capabilities
  <2> QED
    BY <2>1, StandingAfterIs
<1>9. st.cap = "none" => new.cap = "none"
  BY DEF standingAfter
<1> HIDE DEF new
<1>8. Between(new, low2, high2)
  BY <1>1, <1>3, <1>5, <1>6 DEF Between
<1> QED
  BY <1>4, <1>7, <1>8, <1>9 DEF new

\* A suspension or a removal that is added is met at once.
LEMMA AddingStaysBetween ==
  ASSUME baseline \in {"active", "suspended"}, NEW st \in Standings,
         NEW low, NEW high, Between(st, low, high), low \subseteq high, NEW slot \in SlotShapes
  PROVE  LET new == IF slot[1] \in {"suspension", "removal"}
                    THEN standingAfter(st, low \cup {slot}, TRUE, slot[2]) ELSE st
         IN /\ Between(new, low \cup {slot}, high \cup {slot}) /\ new \in Standings
            /\ new.cap = "removed" => st.cap = "removed" \/ (st.cap # "none" /\ slot[1] = "removal")
<1> DEFINE new == IF slot[1] \in {"suspension", "removal"}
                  THEN standingAfter(st, low \cup {slot}, TRUE, slot[2]) ELSE st
           low2 == low \cup {slot}
           high2 == high \cup {slot}
<1>0. \A rows : CapSev(rows) \in 0..2 /\ AccSev(rows) \in 0..2
  BY CapSevIs, AccSevIs
<1>s. CapabilitySeverity[st.cap] \in 0..2 /\ AccessSeverity[st.acc] \in 0..2
  BY Severities DEF Standings, Capabilities, Accesses
<1>1. /\ CapSev(low2) <= CapSev(high2) /\ AccSev(low2) <= AccSev(high2)
      /\ CapSev(high) <= CapSev(high2) /\ AccSev(high) <= AccSev(high2)
  BY SeveritiesGrow
<1>2. slot[2] # "account" => AccSev(low2) = AccSev(low)
  BY AccountRowsOnly
<1>3. CASE slot[1] \in {"suspension", "removal"}
  <2> DEFINE scope == slot[2]
  <2>0. new = standingAfter(st, low2, TRUE, scope)
    BY <1>3
  <2> HIDE DEF new, low2, high2, scope
  <2>1. /\ new \in Standings /\ (st.cap = "none" => new.cap = "none")
        /\ st.cap # "none" => new.cap # "none" /\ CapabilitySeverity[new.cap] = CapSev(low2)
        /\ \/ AccessSeverity[new.acc] = AccSev(low2)
           \/ new.acc = st.acc /\ scope # "account"
    <3>1. LET n == standingAfter(st, low2, TRUE, scope)
          IN /\ n \in Standings /\ (st.cap = "none" => n.cap = "none")
             /\ st.cap # "none" => n.cap # "none" /\ CapabilitySeverity[n.cap] = CapSev(low2)
             /\ IF scope = "account" \/ \E r \in low2 : r[2] = "account"
                THEN AccessSeverity[n.acc] = AccSev(low2) ELSE n.acc = st.acc
      BY StandingByActorIs
    <3> QED
      BY <3>1, <2>0
  <2>a. CapSev(low2) \in 0..2 /\ AccSev(low2) \in 0..2 /\ CapSev(high2) \in 0..2 /\ AccSev(high2) \in 0..2
        /\ AccSev(low) \in 0..2 /\ AccSev(high) \in 0..2
    BY <1>0
  <2>b. scope # "account" => AccSev(low2) = AccSev(low)
    BY <1>2 DEF scope
  <2>2. Between(new, low2, high2)
    <3>1. AccSev(low2) <= AccessSeverity[new.acc] /\ AccessSeverity[new.acc] <= AccSev(high2)
      BY <2>1, <2>a, <2>b, <1>s, <1>1 DEF Between
    <3>2. new.cap # "none" => CapSev(low2) <= CapabilitySeverity[new.cap] /\ CapabilitySeverity[new.cap] <= CapSev(high2)
      BY <2>1, <2>a, <1>1
    <3> QED
      BY <3>1, <3>2 DEF Between
  <2>3. ASSUME new.cap = "removed", slot[1] # "removal" PROVE st.cap = "removed"
    <3>1. slot = <<"suspension", slot[2]>>
      BY <1>3, <2>3 DEF SlotShapes
    <3>2. CapSev(low2) = 2 /\ st.cap # "none"
      BY <2>1, <2>3, Severities
    <3>3. Removes(low2)
      BY <3>2, CapSevIs
    <3>4. Removes(low)
      BY <3>1, <3>3 DEF Removes, low2
    <3>5. CapSev(low) = 2
      BY <3>4, CapSevIs
    <3> QED
      BY <3>2, <3>5, <1>s, Severities DEF Between, Standings, Capabilities
  <2>4. new.cap = "removed" => st.cap = "removed" \/ (st.cap # "none" /\ slot[1] = "removal")
    BY <2>1, <2>3
  <2> QED
    BY <2>1, <2>2, <2>4 DEF new, low2, high2
<1>4. CASE slot[1] \notin {"suspension", "removal"}
  <2>1. slot[1] \in {"warning", "restriction"} /\ slot[2] # "account"
    BY <1>4 DEF SlotShapes, TRUST_RESTRICTIONS
  <2>2. Removes(low2) <=> Removes(low)
    BY <2>1 DEF Removes
  <2>3. <<"suspension", "creator_capability">> \in low2 <=> <<"suspension", "creator_capability">> \in low
    BY <2>1
  <2>4. CapSev(low2) = CapSev(low)
    BY <2>2, <2>3, CapSevIs
  <2>5. Between(st, low2, high2)
    BY <2>1, <2>4, <1>0, <1>s, <1>1, <1>2 DEF Between
  <2> QED
    BY <1>4, <2>5
<1> QED
  BY <1>3, <1>4

---------------------------------------------------------------------------
(* Penalties and the standing, one kind of step at a time.                  *)

Active == {p \in PenaltyIds : penState[p] = "active"}

\* What the triggers of the penalties, the help links and the capability events accept.
PenaltyGuards ==
  /\ \A p \in PenaltyIds : trust_guard_penalty(p) /\ trust_help_link_guard(p)
  /\ capability_events_actor_check

LEMMA MatchesIsBetween ==
  ASSUME PenaltyInv
  PROVE  /\ Between(Standing, rowsOf(activePenalties), rowsOf(Active))
         /\ Standing \in Standings /\ baseline \in {"active", "suspended"}
         /\ activePenalties \subseteq Active
BY DEF PenaltyInv, StandingMatchesPenalties, Between, CapSev, AccSev, Standing, Standings, StandingTyped, Active,
       activePenalties, InForce

\* The standing after a step, read as a bound on its rows.
LEMMA BetweenMatches ==
  ASSUME UNCHANGED baseline, NEW low, NEW high,
         rowsOf(activePenalties)' = low, rowsOf(Active)' = high, Between(Standing', low, high)
  PROVE  StandingMatchesPenalties'
<1>1. rowsOf({p \in PenaltyIds : penState[p] = "active"})' = high
  BY DEF Active
<1> QED
  BY <1>1 DEF StandingMatchesPenalties, Between, CapSev, AccSev, Standing, withBaseline

\* Writing a standing keeps its type and lets nobody in; orders in progress
\* must have ended if it takes the capability away.
LEMMA SetStandingKeeps ==
  ASSUME PenaltyInv, NEW to \in Standings, setStanding(to), liveOrders' \in BOOLEAN, liveOrders' => liveOrders,
         liveOrders' => (to.cap = "removed" => capability = "removed")
  PROVE  StandingTyped' /\ OutOfStandingIsOut' /\ Standing' = to
<1>1. Standing' = to
  BY DEF setStanding, Standing, Standings
<1>2. StandingTyped'
  BY DEF setStanding, PenaltyInv, StandingTyped, Standings
<1>3. ASSUME session' PROVE access' = "active"
  <2>1. session /\ to = Standing /\ access' = to.acc
    BY <1>3 DEF setStanding
  <2>2. access = "active"
    BY <2>1 DEF PenaltyInv, OutOfStandingIsOut
  <2>3. Standing.acc = access
    BY DEF Standing
  <2> QED
    BY <2>1, <2>2, <2>3
<1>4. published' => capability' = "active"
  BY DEF setStanding, PenaltyInv, OutOfStandingIsOut
<1>5. liveOrders' => capability' # "removed"
  BY DEF setStanding, PenaltyInv, OutOfStandingIsOut
<1> QED
  BY <1>1, <1>2, <1>3, <1>4, <1>5 DEF OutOfStandingIsOut

\* Rows that keep their contents, with a row ended or a step of the help links.
LEMMA RowsStandStill ==
  ASSUME PenaltyInv, UNCHANGED <<penKind, penScope, penTimed, penReplaces, penCase>>,
         penState' \in [PenaltyIds -> PenaltyStates],
         \A q \in PenaltyIds : penState'[q] = penState[q] \/ (penState[q] = "active" /\ penState'[q] \in Ends),
         elapsed' \subseteq penTimed, elapsed \subseteq elapsed',
         helpLink' \subseteq helpLink \cup {q \in PenaltyIds : InForce(q) /\ penScope[q] = "account"},
         helpLink \ readShut' \subseteq helpLink', readShut \subseteq readShut',
         helpSession' \subseteq helpSession \cup {q \in helpLink \cap helpLink' : q \notin readShut},
         \A q \in acknowledged' \ acknowledged : penKind[q] = "warning" /\ penState'[q] = penState[q]
  PROVE  /\ PenaltyRows' /\ RowsAreShaped' /\ LinksAreOfAccount' /\ LockedOutUserHasLink'
         /\ (\A p \in PenaltyIds : trust_penalties_checks(p)') /\ trust_penalties_active_uidx'
         /\ \A p \in PenaltyIds : trust_guard_penalty(p) /\ trust_help_link_guard(p)
<1>k. \A q \in PenaltyIds : penState[q] \in PenaltyStates /\ penKind[q] \in PenaltyKinds
  BY DEF PenaltyInv, PenaltyRows
<1>e. \A st \in Ends : st # "none" /\ st # "active"
  BY DEF Ends
<1>s. ASSUME NEW q \in PenaltyIds, InForce(q), penScope[q] = "account"
      PROVE  penKind[q] \in {"suspension", "removal"}
  <2>1. <<penKind[q], penScope[q]>> \in SlotShapes
    BY <1>s DEF PenaltyInv, RowsAreShaped, InForce
  <2> QED
    BY <1>s, <2>1 DEF SlotShapes, TRUST_RESTRICTIONS
<1>1. PenaltyRows'
  BY DEF PenaltyInv, PenaltyRows
<1>2. RowsAreShaped'
  <2>1. ASSUME NEW q \in PenaltyIds, penState'[q] = "none" PROVE EmptyRow(q)'
    <3>1. penState[q] = "none"
      BY <2>1, <1>e
    <3>2. EmptyRow(q) /\ ~InForce(q)
      BY <3>1 DEF PenaltyInv, RowsAreShaped, InForce
    <3> QED
      BY <3>2 DEF EmptyRow
  <2>2. ASSUME NEW q \in PenaltyIds, penState'[q] # "none" PROVE <<penKind'[q], penScope'[q]>> \in SlotShapes
    <3>1. penState[q] # "none"
      BY <2>2
    <3> QED
      BY <3>1 DEF PenaltyInv, RowsAreShaped
  <2> QED
    BY <2>1, <2>2 DEF RowsAreShaped
<1>3. LinksAreOfAccount'
  BY <1>s DEF PenaltyInv, LinksAreOfAccount
<1>4. LockedOutUserHasLink'
  <2> SUFFICES ASSUME NEW q \in PenaltyIds, InForce(q)', penScope[q] = "account", q \notin readShut'
               PROVE  q \in helpLink'
    BY DEF LockedOutUserHasLink
  <2>1. InForce(q) /\ q \notin readShut
    BY <1>e DEF InForce
  <2> QED
    BY <2>1 DEF PenaltyInv, LockedOutUserHasLink
<1>5. ASSUME NEW q \in PenaltyIds PROVE trust_penalties_checks(q)'
  <2>1. trust_penalties_checks(q)
    BY DEF PenaltyInv
  <2> QED
    BY <2>1 DEF trust_penalties_checks
<1>6. trust_penalties_active_uidx'
  <2>1. \A q \in PenaltyIds : penState'[q] = "active" => penState[q] = "active"
    BY <1>e
  <2> QED
    BY <2>1 DEF PenaltyInv, trust_penalties_active_uidx, SameSlot
<1>7. ASSUME NEW q \in PenaltyIds PROVE trust_guard_penalty(q)
  <2>1. ASSUME penState[q] = "none" PROVE penState'[q] = "none" /\ q \notin acknowledged'
    <3>1. penKind[q] = "none"
      BY <2>1 DEF PenaltyInv, RowsAreShaped, EmptyRow
    <3>2. q \notin acknowledged
      BY <3>1 DEF PenaltyInv, trust_penalties_checks
    <3> QED
      BY <2>1, <3>1, <3>2
  <2> QED
    BY <2>1 DEF trust_guard_penalty
<1>8. ASSUME NEW q \in PenaltyIds PROVE trust_help_link_guard(q)
  BY DEF PenaltyInv, LinksAreOfAccount, trust_help_link_guard
<1> QED
  BY <1>1, <1>2, <1>3, <1>4, <1>5, <1>6, <1>7, <1>8

\* Ending a penalty (lift, expirePenalty and a reversal).
LEMMA EndStep ==
  ASSUME PenaltyInv, NEW p \in PenaltyIds, NEW state \in {"expired", "lifted", "reversed"}, NEW byActor \in BOOLEAN,
         state = "expired" => ~byActor, endPenalty(p, state, byActor)
  PROVE  PenaltyInv' /\ PenaltyGuards
<1> DEFINE low2 == rowsOf(activePenalties \ {p})
           high2 == rowsOf(Active \ {p})
           to == standingAfter(Standing, low2, byActor, penScope[p])
<1>1. /\ penState[p] = "active" /\ (state = "expired" => p \in elapsed)
      /\ penState' = [penState EXCEPT ![p] = state]
      /\ setStanding(to)
      /\ UNCHANGED <<penKind, penScope, penTimed, penReplaces, penCase, acknowledged,
                     liveOrders, helpVars, clockVars, mode>>
  BY DEF endPenalty
<1>2. /\ Between(Standing, rowsOf(activePenalties), rowsOf(Active))
      /\ Standing \in Standings /\ baseline \in {"active", "suspended"} /\ activePenalties \subseteq Active
  BY MatchesIsBetween
<1>3. /\ low2 \subseteq rowsOf(activePenalties) /\ low2 \subseteq high2 /\ high2 \subseteq rowsOf(Active)
      /\ \A r \in rowsOf(Active) \ high2 : r[2] = penScope[p]
  BY <1>2 DEF rowsOf
<1> HIDE DEF low2, high2
<1>4. /\ Between(to, low2, high2) /\ to \in Standings /\ (to.cap = "removed" => Standing.cap = "removed")
  <2> DEFINE low == rowsOf(activePenalties)
             high == rowsOf(Active)
             st == Standing
             scope == penScope[p]
  <2>1. /\ baseline \in {"active", "suspended"} /\ st \in Standings /\ Between(st, low, high)
        /\ Shrinks(low, high, low2, high2, scope)
    BY <1>2, <1>3 DEF Shrinks
  <2>2. to = standingAfter(st, low2, byActor, scope)
    OBVIOUS
  <2> HIDE DEF low, high, st, scope, to
  <2>3. /\ Between(standingAfter(st, low2, byActor, scope), low2, high2)
        /\ standingAfter(st, low2, byActor, scope) \in Standings
        /\ standingAfter(st, low2, byActor, scope).cap = "removed" => st.cap = "removed"
    BY <2>1, EndingStaysBetween
  <2> QED
    BY <2>2, <2>3 DEF st
<1>t. penState \in [PenaltyIds -> PenaltyStates]
  BY DEF PenaltyInv, PenaltyRows
<1>5. activePenalties' = activePenalties \ {p} /\ Active' = Active \ {p}
  BY <1>1, <1>t DEF activePenalties, Active, InForce, clockVars
<1>6. rowsOf(activePenalties)' = low2 /\ rowsOf(Active)' = high2
  BY <1>1, <1>5 DEF rowsOf, low2, high2
<1> HIDE DEF to
<1>7. StandingTyped' /\ OutOfStandingIsOut' /\ Standing' = to
  <2>1. liveOrders' = liveOrders /\ liveOrders \in BOOLEAN /\ Standing.cap = capability
    BY <1>1 DEF PenaltyInv, StandingTyped, Standing
  <2> QED
    BY <2>1, <1>1, <1>4, SetStandingKeeps
<1>8. StandingMatchesPenalties'
  BY <1>1, <1>4, <1>6, <1>7, BetweenMatches DEF setStanding
<1>9. /\ PenaltyRows' /\ RowsAreShaped' /\ LinksAreOfAccount' /\ LockedOutUserHasLink'
      /\ (\A q \in PenaltyIds : trust_penalties_checks(q)') /\ trust_penalties_active_uidx'
      /\ \A q \in PenaltyIds : trust_guard_penalty(q) /\ trust_help_link_guard(q)
  <2>1. penState' \in [PenaltyIds -> PenaltyStates]
    BY <1>1, <1>t DEF PenaltyStates, Ends
  <2>2. \A q \in PenaltyIds : penState'[q] = penState[q] \/ (penState[q] = "active" /\ penState'[q] \in Ends)
    BY <1>1, <1>t DEF Ends
  <2>3. elapsed \subseteq penTimed
    BY DEF PenaltyInv, PenaltyRows
  <2> QED
    BY <1>1, <2>1, <2>2, <2>3, RowsStandStill DEF helpVars, clockVars
<1>10. capability_events_actor_check
  <2> SUFFICES ASSUME state = "expired" PROVE capability' \in {capability, "active"}
    BY <1>1, <1>t DEF capability_events_actor_check
  <2>0. capability' = to.cap /\ Standing.cap = capability /\ capability \in Capabilities
    BY <1>1 DEF setStanding, Standing, PenaltyInv, StandingTyped
  <2>1. /\ (capability = "none" => to.cap = "none")
        /\ capability # "none" =>
             /\ to.cap # "none"
             /\ IF CapSev(low2) < CapabilitySeverity[capability]
                THEN CapabilitySeverity[to.cap] = CapSev(low2) ELSE to.cap = capability
    BY <1>2, <2>0, StandingAfterIs DEF to
  <2>2. CapSev(low2) \in 0..2 /\ to.cap \in Capabilities
    BY <1>2, <1>4, CapSevIs DEF Standings
  <2>3. ASSUME capability = "removed" PROVE CapSev(low2) = 2
    <3>1. CapSev(rowsOf(Active)) = 2
      BY <1>2, <2>0, <2>3, CapSevIs, Severities DEF Between
    <3>2. Removes(rowsOf(Active))
      BY <1>2, <3>1, CapSevIs
    <3>3. PICK q \in Active : penKind[q] = "removal" /\ penScope[q] \in {"creator_capability", "account"}
      BY <3>2 DEF Removes, rowsOf
    <3>4. trust_penalties_checks(q) /\ elapsed \subseteq penTimed
      BY DEF PenaltyInv, PenaltyRows, Active
    <3>5. q \notin elapsed /\ p \in elapsed
      BY <1>1, <3>3, <3>4 DEF trust_penalties_checks
    <3>6. q \in activePenalties \ {p}
      BY <3>5 DEF Active, activePenalties, InForce
    <3>7. Removes(low2)
      BY <3>3, <3>6 DEF Removes, rowsOf, low2
    <3> QED
      BY <1>2, <3>7, CapSevIs
  <2> QED
    BY <2>0, <2>1, <2>2, <2>3, Severities DEF Capabilities
<1> QED
  BY <1>7, <1>8, <1>9, <1>10 DEF PenaltyInv, PenaltyGuards

\* An appeal reverses a penalty that ended meanwhile: only the standing is computed again.
LEMMA RecomputeStep ==
  ASSUME PenaltyInv, NEW scope,
         setStanding(standingAfter(Standing, rowsOf(activePenalties), TRUE, scope)),
         UNCHANGED <<penaltyRows, liveOrders, helpVars, clockVars, mode>>
  PROVE  PenaltyInv' /\ PenaltyGuards
<1> DEFINE low == rowsOf(activePenalties)
           high == rowsOf(Active)
           to == standingAfter(Standing, low, TRUE, scope)
<1>0. setStanding(to)
  BY DEF setStanding
<1>1. UNCHANGED <<penState, penKind, penScope, penTimed, penReplaces, penCase, acknowledged,
                  liveOrders, helpLink, helpSession, elapsed, readShut>>
  BY DEF penaltyRows, helpVars, clockVars
<1>2. /\ Between(Standing, low, high) /\ low \subseteq high
      /\ Standing \in Standings /\ baseline \in {"active", "suspended"}
  BY MatchesIsBetween DEF rowsOf
<1>s. Shrinks(low, high, low, high, scope)
  BY <1>2 DEF Shrinks
<1>3. low' = low /\ high' = high
  BY <1>1 DEF rowsOf, activePenalties, Active, InForce
<1> HIDE DEF low, high
<1>4. Between(to, low, high) /\ to \in Standings /\ (to.cap = "removed" => Standing.cap = "removed")
  <2>1. /\ Between(standingAfter(Standing, low, TRUE, scope), low, high)
        /\ standingAfter(Standing, low, TRUE, scope) \in Standings
        /\ standingAfter(Standing, low, TRUE, scope).cap = "removed" => Standing.cap = "removed"
    BY <1>2, <1>s, EndingStaysBetween
  <2> QED
    BY <2>1
<1> HIDE DEF to
<1>5. StandingTyped' /\ OutOfStandingIsOut' /\ Standing' = to
  <2>1. liveOrders' = liveOrders /\ liveOrders \in BOOLEAN /\ Standing.cap = capability
    BY <1>1 DEF PenaltyInv, StandingTyped, Standing
  <2> QED
    BY <2>1, <1>0, <1>1, <1>4, SetStandingKeeps
<1>6. StandingMatchesPenalties'
  BY <1>0, <1>3, <1>4, <1>5, BetweenMatches DEF setStanding, low, high
<1>7. /\ PenaltyRows' /\ RowsAreShaped' /\ LinksAreOfAccount' /\ LockedOutUserHasLink'
      /\ (\A q \in PenaltyIds : trust_penalties_checks(q)') /\ trust_penalties_active_uidx'
      /\ \A q \in PenaltyIds : trust_guard_penalty(q) /\ trust_help_link_guard(q)
  <2>1. penState \in [PenaltyIds -> PenaltyStates] /\ elapsed \subseteq penTimed
    BY DEF PenaltyInv, PenaltyRows
  <2> QED
    BY <1>1, <2>1, RowsStandStill
<1>8. capability_events_actor_check
  BY <1>1 DEF capability_events_actor_check
<1> QED
  BY <1>5, <1>6, <1>7, <1>8 DEF PenaltyInv, PenaltyGuards

\* Applying a penalty: it replaces the one an appeal reduced, ends those of
\* its slot whose time has passed, and is met at once.
LEMMA ApplyStep ==
  ASSUME PenaltyInv, NEW p, NEW slot \in SlotShapes, NEW timed \in BOOLEAN, NEW freeze \in BOOLEAN, NEW source,
         NEW gone \in PenaltyIds \cup {0}, gone # 0 => InForce(gone),
         applyInternal(p, slot, timed, source, freeze, gone)
  PROVE  PenaltyInv' /\ PenaltyGuards
<1> DEFINE kind == slot[1]
           scope == slot[2]
           over == {q \in PenaltyIds : SameSlot(q, kind, scope) /\ q \in elapsed}
           after == rowsOf(activePenalties \ {gone})
           st1 == IF gone = 0 THEN Standing ELSE standingAfter(Standing, after, TRUE, penScope[gone])
           st2 == IF over = {} THEN st1 ELSE standingAfter(st1, after, FALSE, scope)
           final == IF kind \in {"suspension", "removal"}
                    THEN standingAfter(st2, after \cup {slot}, TRUE, scope) ELSE st2
           high1 == rowsOf(Active \ {gone})
           high2 == rowsOf((Active \ {gone}) \ over)
<1>1. /\ NextPenalty(p)
      /\ timed => kind \in {"restriction", "suspension"}
      /\ kind # "warning" =>
           ~ \E q \in PenaltyIds \ {gone} : SameSlot(q, kind, scope) /\ q \notin elapsed
      /\ penState' = [q \in PenaltyIds |->
           IF q = p THEN "active" ELSE IF kind # "warning" /\ q \in over THEN "expired"
           ELSE IF q = gone THEN "reduced" ELSE penState[q]]
      /\ penKind' = [penKind EXCEPT ![p] = kind]
      /\ penScope' = [penScope EXCEPT ![p] = scope]
      /\ penTimed' = IF timed THEN penTimed \cup {p} ELSE penTimed
      /\ penReplaces' = [penReplaces EXCEPT ![p] = gone]
      /\ penCase' = [penCase EXCEPT ![p] = source]
      /\ UNCHANGED <<acknowledged, elapsed, readShut>>
  BY DEF applyInternal, clockVars
<1>2. /\ setStanding(final)
      /\ liveOrders' = (liveOrders /\ ~ freeze
          /\ (kind = "removal" => scope # "creator_capability" /\ capability = "none"))
      /\ IF scope = "account" THEN issueLink(p) ELSE UNCHANGED helpVars
  BY DEF applyInternal
<1>t. /\ penState \in [PenaltyIds -> PenaltyStates] /\ penKind \in [PenaltyIds -> PenaltyKinds]
      /\ penScope \in [PenaltyIds -> PenaltyScopes] /\ penReplaces \in [PenaltyIds -> PenaltyIds \cup {0}]
      /\ elapsed \subseteq penTimed /\ penCase = [q \in PenaltyIds |-> penCase[q]]
  BY DEF PenaltyInv, PenaltyRows
<1>3. /\ p \in PenaltyIds /\ penState[p] = "none"
      /\ p \notin penTimed /\ p \notin elapsed /\ p \notin helpLink /\ penKind[p] = "none"
  <2>1. p \in PenaltyIds /\ penState[p] = "none"
    BY <1>1 DEF NextPenalty
  <2>2. EmptyRow(p)
    BY <2>1 DEF PenaltyInv, RowsAreShaped
  <2> QED
    BY <2>1, <2>2, <1>t DEF EmptyRow
<1>4. slot = <<kind, scope>> /\ kind \in PenaltyKinds /\ scope \in PenaltyScopes
      /\ (scope = "account" => kind \in {"suspension", "removal"})
  BY DEF SlotShapes, PenaltyKinds, PenaltyScopes, TRUST_RESTRICTIONS
<1>5. kind = "warning" => over = {}
  BY <1>t DEF PenaltyInv, trust_penalties_checks, SameSlot
<1>6. /\ Between(Standing, rowsOf(activePenalties), rowsOf(Active))
      /\ Standing \in Standings /\ baseline \in {"active", "suspended"} /\ activePenalties \subseteq Active
      /\ Standing.cap = capability
  BY MatchesIsBetween DEF Standing
<1>7. /\ after \subseteq rowsOf(activePenalties) /\ after \subseteq high1 /\ high1 \subseteq rowsOf(Active)
      /\ \A r \in rowsOf(Active) \ high1 : r[2] = penScope[gone]
      /\ gone = 0 => high1 = rowsOf(Active) /\ after = rowsOf(activePenalties)
  <2>1. 0 \notin PenaltyIds
    BY DEF PenaltyIds
  <2> QED
    BY <1>6, <2>1 DEF rowsOf, Active, activePenalties
<1>8. /\ after \subseteq high2 /\ high2 \subseteq high1 /\ \A r \in high1 \ high2 : r[2] = scope
      /\ over = {} => high2 = high1
  BY <1>6 DEF rowsOf, Active, activePenalties, InForce, SameSlot
<1>9. /\ Active' = ((Active \ {gone}) \ over) \cup {p}
      /\ activePenalties' = (activePenalties \ {gone}) \cup {p}
      /\ p \notin Active
  <2>1. ASSUME NEW q \in PenaltyIds
        PROVE  penState'[q] = "active" <=> q = p \/ (q \in Active /\ q # gone /\ q \notin over)
    BY <1>1, <1>3, <1>5 DEF Active
  <2>2. Active' = ((Active \ {gone}) \ over) \cup {p}
    BY <2>1, <1>3 DEF Active
  <2>3. activePenalties' = {q \in Active' : q \notin elapsed}
    BY <1>1 DEF activePenalties, InForce, Active
  <2>4. activePenalties = {q \in Active : q \notin elapsed}
    BY DEF activePenalties, InForce, Active
  <2>5. \A q \in over : q \in elapsed
    OBVIOUS
  <2> QED
    BY <2>2, <2>3, <2>4, <2>5, <1>3 DEF Active
<1>10. /\ rowsOf(Active)' = high2 \cup {slot} /\ rowsOf(activePenalties)' = after \cup {slot}
  <2>1. ASSUME NEW q \in PenaltyIds
        PROVE  <<penKind'[q], penScope'[q]>> = IF q = p THEN slot ELSE <<penKind[q], penScope[q]>>
    BY <1>1, <1>3, <1>4, <1>t
  <2>2. Active \subseteq PenaltyIds /\ activePenalties \subseteq Active
    BY <1>6 DEF Active
  <2>3. rowsOf(Active)' = {<<penKind'[q], penScope'[q]>> : q \in Active'}
    BY DEF rowsOf
  <2>4. rowsOf(activePenalties)' = {<<penKind'[q], penScope'[q]>> : q \in activePenalties'}
    BY DEF rowsOf
  <2>5. {<<penKind'[q], penScope'[q]>> : q \in Active'} = high2 \cup {slot}
    BY <2>1, <2>2, <1>3, <1>9 DEF rowsOf
  <2>6. {<<penKind'[q], penScope'[q]>> : q \in activePenalties'} = after \cup {slot}
    BY <2>1, <2>2, <1>3, <1>9 DEF rowsOf
  <2> QED
    BY <2>3, <2>4, <2>5, <2>6
<1> HIDE DEF over, after, high1, high2, st1, st2
<1>11. Between(st1, after, high1) /\ st1 \in Standings /\ (st1.cap = "removed" => capability = "removed")
       /\ (capability = "none" => st1.cap = "none")
  <2>1. CASE gone = 0
    BY <2>1, <1>6, <1>7 DEF st1
  <2>2. CASE gone # 0
    <3> DEFINE sc == penScope[gone]
               st == Standing
               low == rowsOf(activePenalties)
               high == rowsOf(Active)
    <3>1. /\ Between(st, low, high) /\ st \in Standings /\ baseline \in {"active", "suspended"}
          /\ Shrinks(low, high, after, high1, sc)
      BY <1>6, <1>7 DEF Shrinks
    <3>2. st1 = standingAfter(st, after, TRUE, sc) /\ st.cap = capability
      BY <2>2, <1>6 DEF st1
    <3> HIDE DEF sc, st, low, high
    <3>3. ASSUME NEW b \in BOOLEAN
          PROVE  /\ Between(standingAfter(st, after, b, sc), after, high1)
                 /\ standingAfter(st, after, b, sc) \in Standings
                 /\ standingAfter(st, after, b, sc).cap = "removed" => st.cap = "removed"
                 /\ st.cap = "none" => standingAfter(st, after, b, sc).cap = "none"
      BY <3>1, EndingStaysBetween
    <3> QED
      BY <3>2, <3>3
  <2> QED
    BY <2>1, <2>2
<1>12. Between(st2, after, high2) /\ st2 \in Standings /\ (st2.cap = "removed" => capability = "removed")
       /\ (capability = "none" => st2.cap = "none")
  <2>1. CASE over = {}
    BY <2>1, <1>8, <1>11 DEF st2
  <2>2. CASE over # {}
    <3> DEFINE sc == scope
    <3>1. Shrinks(after, high1, after, high2, sc)
      BY <1>8 DEF Shrinks
    <3>2. st2 = standingAfter(st1, after, FALSE, sc)
      BY <2>2 DEF st2
    <3> HIDE DEF sc
    <3>3. ASSUME NEW b \in BOOLEAN
          PROVE  /\ Between(standingAfter(st1, after, b, sc), after, high2)
                 /\ standingAfter(st1, after, b, sc) \in Standings
                 /\ standingAfter(st1, after, b, sc).cap = "removed" => st1.cap = "removed"
                 /\ st1.cap = "none" => standingAfter(st1, after, b, sc).cap = "none"
      BY <3>1, <1>6, <1>11, EndingStaysBetween
    <3> QED
      BY <3>2, <3>3, <1>11
  <2> QED
    BY <2>1, <2>2
<1>13. /\ Between(final, after \cup {slot}, high2 \cup {slot}) /\ final \in Standings
       /\ final.cap = "removed" => st2.cap = "removed" \/ (st2.cap # "none" /\ kind = "removal")
  BY <1>6, <1>8, <1>12, AddingStaysBetween
<1> HIDE DEF final, scope, kind
<1>14. StandingTyped' /\ OutOfStandingIsOut' /\ Standing' = final
  <2>1. liveOrders \in BOOLEAN
    BY DEF PenaltyInv, StandingTyped
  <2>2. liveOrders' \in BOOLEAN /\ (liveOrders' => liveOrders)
        /\ (liveOrders' => (kind = "removal" => capability = "none"))
    BY <1>2, <2>1
  <2>3. liveOrders' => (final.cap = "removed" => capability = "removed")
    BY <2>2, <1>12, <1>13
  <2> QED
    BY <2>2, <2>3, <1>2, <1>13, SetStandingKeeps
<1>15. StandingMatchesPenalties'
  BY <1>2, <1>10, <1>13, <1>14, BetweenMatches DEF setStanding
<1>g. /\ gone # 0 => penState[gone] = "active" /\ gone \notin elapsed
      /\ \A q \in over : penState[q] = "active"
  BY DEF InForce, over, SameSlot
<1>16. PenaltyRows'
  <2>1. penState' \in [PenaltyIds -> PenaltyStates]
    BY <1>1, <1>t DEF PenaltyStates, Ends
  <2>2. penKind' \in [PenaltyIds -> PenaltyKinds] /\ penScope' \in [PenaltyIds -> PenaltyScopes]
        /\ penReplaces' \in [PenaltyIds -> PenaltyIds \cup {0}]
    BY <1>1, <1>3, <1>4, <1>t
  <2>3. elapsed' \subseteq penTimed' /\ penCase' = [q \in PenaltyIds |-> penCase'[q]]
    BY <1>1, <1>t
  <2> QED
    BY <2>1, <2>2, <2>3 DEF PenaltyRows
<1>17. RowsAreShaped'
  <2>1. RowsAreShaped /\ 0 \notin PenaltyIds
    BY DEF PenaltyInv, PenaltyIds
  <2>2. ASSUME NEW q \in PenaltyIds
        PROVE  /\ penState'[q] = "none" => EmptyRow(q)'
               /\ penState'[q] # "none" => <<penKind'[q], penScope'[q]>> \in SlotShapes
    <3>1. CASE q = p
      <4>1. penState'[p] = "active" /\ <<penKind'[p], penScope'[p]>> = <<kind, scope>>
        BY <1>1, <1>3, <1>t
      <4> QED
        BY <3>1, <4>1, <1>4
    <3>2. CASE q # p
      <4>1. /\ penKind'[q] = penKind[q] /\ penScope'[q] = penScope[q] /\ penReplaces'[q] = penReplaces[q]
            /\ (q \in penTimed' <=> q \in penTimed) /\ (q \in helpLink' <=> q \in helpLink)
        BY <3>2, <1>1, <1>2, <1>t DEF issueLink, helpVars
      <4>2. penState'[q] = "none" <=> penState[q] = "none"
        BY <3>2, <1>1, <1>g, <2>1
      <4> QED
        BY <4>1, <4>2, <2>1 DEF RowsAreShaped, EmptyRow
    <3> QED
      BY <3>1, <3>2
  <2>3. ASSUME NEW q \in PenaltyIds, penState'[q] = "none" PROVE EmptyRow(q)'
    BY <2>2, <2>3
  <2>4. ASSUME NEW q \in PenaltyIds, penState'[q] # "none" PROVE <<penKind'[q], penScope'[q]>> \in SlotShapes
    BY <2>2, <2>4
  <2> QED
    BY <2>3, <2>4, Zenon DEF RowsAreShaped
<1>18. LinksAreOfAccount' /\ LockedOutUserHasLink'
  <2>1. \A q \in PenaltyIds : q # p => /\ penKind'[q] = penKind[q] /\ penScope'[q] = penScope[q]
                                       /\ (q \in helpLink' <=> q \in helpLink)
    BY <1>1, <1>2, <1>t DEF issueLink, helpVars
  <2>2. penKind'[p] = kind /\ penScope'[p] = scope /\ (p \in helpLink' <=> scope = "account")
    BY <1>1, <1>2, <1>3, <1>t DEF issueLink, helpVars
  <2>3. ASSUME NEW q \in helpLink' PROVE penScope'[q] = "account" /\ penKind'[q] \in {"suspension", "removal"}
    <3>1. CASE q = p
      BY <3>1, <2>2, <2>3, <1>4
    <3>2. CASE q # p
      <4>1. q \in helpLink
        BY <3>2, <2>3, <1>2 DEF issueLink, helpVars
      <4>2. penScope[q] = "account" /\ penKind[q] \in {"suspension", "removal"}
        BY <4>1 DEF PenaltyInv, LinksAreOfAccount
      <4> QED
        BY <3>2, <4>2, <1>1
    <3> QED
      BY <3>1, <3>2
  <2>4. ASSUME NEW q \in PenaltyIds, InForce(q)', penScope'[q] = "account", q \notin readShut' PROVE q \in helpLink'
    <3>1. CASE q = p
      BY <3>1, <2>2, <2>4
    <3>2. CASE q # p
      <4>1. q \in activePenalties'
        BY <2>4 DEF activePenalties
      <4>2. q \in activePenalties
        BY <3>2, <4>1, <1>9
      <4> QED
        BY <3>2, <4>2, <2>1, <2>4, <1>1 DEF PenaltyInv, LockedOutUserHasLink, activePenalties
    <3> QED
      BY <3>1, <3>2
  <2> QED
    BY <2>3, <2>4 DEF LinksAreOfAccount, LockedOutUserHasLink
<1>19. ASSUME NEW q \in PenaltyIds PROVE trust_penalties_checks(q)'
  <2>1. trust_penalties_checks(q)
    BY DEF PenaltyInv
  <2>2. CASE q = p
    <3>1. penKind'[p] = kind /\ penScope'[p] = scope /\ p \notin acknowledged'
          /\ (p \in penTimed' => kind \in {"restriction", "suspension"})
      BY <1>1, <1>3, <1>t, <2>1, <2>2 DEF trust_penalties_checks
    <3>2. <<kind, scope>> \in SlotShapes
      BY <1>4
    <3> QED
      BY <2>2, <3>1, <3>2 DEF trust_penalties_checks, SlotShapes
  <2>3. CASE q # p
    BY <2>1, <2>3, <1>1, <1>t DEF trust_penalties_checks
  <2> QED
    BY <2>2, <2>3
<1>20. trust_penalties_active_uidx'
  <2> SUFFICES ASSUME NEW q \in PenaltyIds, NEW r \in PenaltyIds, q # r, penState'[q] = "active",
                      penKind'[q] # "warning", penState'[r] = "active",
                      penKind'[r] = penKind'[q], penScope'[r] = penScope'[q]
               PROVE  FALSE
    BY DEF trust_penalties_active_uidx, SameSlot
  <2>1. \A x \in PenaltyIds : x # p /\ penState'[x] = "active" =>
          /\ penState[x] = "active" /\ x # gone /\ penKind'[x] = penKind[x] /\ penScope'[x] = penScope[x]
          /\ kind # "warning" => x \notin over
    BY <1>1, <1>t
  <2>2. penKind'[p] = kind /\ penScope'[p] = scope
    BY <1>1, <1>3, <1>t
  <2>3. \A x \in PenaltyIds : x # gone /\ kind # "warning" /\ SameSlot(x, kind, scope) => x \in over
    BY <1>1 DEF over
  <2>4. CASE q # p /\ r # p
    BY <2>1, <2>4 DEF PenaltyInv, trust_penalties_active_uidx, SameSlot
  <2>5. CASE q = p
    BY <2>1, <2>2, <2>3, <2>5 DEF SameSlot
  <2>6. CASE r = p
    BY <2>1, <2>2, <2>3, <2>6 DEF SameSlot
  <2> QED
    BY <2>4, <2>5, <2>6
<1>21. ASSUME NEW q \in PenaltyIds PROVE trust_guard_penalty(q) /\ trust_help_link_guard(q)
  <2>1. trust_penalties_checks(q) /\ 0 \notin PenaltyIds
    BY DEF PenaltyInv, PenaltyIds
  <2>2. q # p => /\ penKind'[q] = penKind[q] /\ penScope'[q] = penScope[q] /\ penReplaces'[q] = penReplaces[q]
                 /\ penCase'[q] = penCase[q] /\ (q \in penTimed' <=> q \in penTimed)
    BY <1>1, <1>t
  <2>3. /\ penState'[q] = penState[q] \/ (q = p /\ penState'[q] = "active")
           \/ (penState[q] = "active" /\ penState'[q] \in Ends)
    BY <1>1, <1>g, <2>1 DEF Ends
  <2>4. penState[q] = "none" => q \notin acknowledged
    <3>1. penState[q] = "none" => penKind[q] = "none"
      BY DEF PenaltyInv, RowsAreShaped, EmptyRow
    <3> QED
      BY <3>1, <2>1 DEF trust_penalties_checks
  <2>5. trust_guard_penalty(q)
    <3>1. CASE penState[q] = "none"
      BY <3>1, <2>3, <2>4, <1>1 DEF trust_guard_penalty
    <3>2. CASE penState[q] # "none"
      BY <3>2, <2>2, <2>3, <1>1, <1>3 DEF trust_guard_penalty
    <3> QED
      BY <3>1, <3>2
  <2>6. helpSession' \subseteq helpSession
    BY <1>2 DEF issueLink, helpVars
  <2> QED
    BY <2>5, <2>6 DEF trust_help_link_guard, PenaltyInv, LinksAreOfAccount
<1>22. capability_events_actor_check
  BY <1>1, <1>3 DEF capability_events_actor_check
<1> QED
  BY <1>14, <1>15, <1>16, <1>17, <1>18, <1>19, <1>20, <1>21, <1>22 DEF PenaltyInv, PenaltyGuards

\* Steps that leave the rows and the standing alone; a penalty may run out.
LEMMA StandingStays ==
  ASSUME PenaltyInv, UNCHANGED <<penState, penKind, penScope, standingVars>>, elapsed \subseteq elapsed'
  PROVE  StandingTyped' /\ StandingMatchesPenalties' /\ OutOfStandingIsOut'
<1> DEFINE low == rowsOf(activePenalties)
           high == rowsOf(Active)
           low2 == rowsOf(activePenalties')
<1>1. UNCHANGED <<capability, baseline, access, session, published, liveOrders, penState, penKind, penScope>>
  BY DEF standingVars
<1>2. /\ Between(Standing, low, high) /\ Standing \in Standings /\ baseline \in {"active", "suspended"}
      /\ activePenalties \subseteq Active
  BY MatchesIsBetween
<1>3. activePenalties' \subseteq activePenalties /\ Active' = Active
  BY <1>1 DEF activePenalties, Active, InForce
<1>4. rowsOf(activePenalties)' = low2 /\ rowsOf(Active)' = high /\ low2 \subseteq low
  BY <1>1, <1>3 DEF rowsOf
<1> HIDE DEF low, high, low2
<1>5. CapSev(low2) <= CapSev(low) /\ AccSev(low2) <= AccSev(low)
  BY <1>2, <1>4, SeveritiesGrow
<1>6. /\ CapSev(low) \in 0..2 /\ AccSev(low) \in 0..2 /\ CapSev(low2) \in 0..2 /\ AccSev(low2) \in 0..2
      /\ CapabilitySeverity[Standing.cap] \in 0..2 /\ AccessSeverity[Standing.acc] \in 0..2
  BY <1>2, CapSevIs, AccSevIs, Severities DEF Standings, Capabilities, Accesses
<1>7. Between(Standing, low2, high)
  BY <1>2, <1>5, <1>6 DEF Between
<1>8. Standing' = Standing
  BY <1>1 DEF Standing
<1>9. StandingMatchesPenalties'
  <2>1. Between(Standing', low2, high)
    BY <1>7, <1>8
  <2> QED
    BY <2>1, <1>1, <1>4, BetweenMatches
<1> QED
  BY <1>1, <1>9 DEF PenaltyInv, StandingTyped, OutOfStandingIsOut

\* The owner's older capability command changes what no penalty caused.
LEMMA CapabilityCommandStep ==
  ASSUME PenaltyInv, NEW action \in {"suspend", "reinstate"}, setCreatorCapability(action)
  PROVE  StandingTyped' /\ StandingMatchesPenalties' /\ OutOfStandingIsOut'
<1> DEFINE low == rowsOf(activePenalties)
           high == rowsOf(Active)
           state == IF action = "suspend" THEN "suspended" ELSE "active"
<1>1. /\ action = "suspend" => capability = "active"
      /\ action = "reinstate" => requiredCapabilityState(low) = "active"
      /\ capability' = state /\ baseline' = state /\ session' = FALSE /\ published' = FALSE
      /\ UNCHANGED <<access, liveOrders, penState, penKind, penScope, elapsed>>
  BY DEF setCreatorCapability, penaltyRows, clockVars
<1>2. /\ Between(Standing, low, high) /\ Standing \in Standings /\ baseline \in {"active", "suspended"}
      /\ Standing.cap = capability /\ Standing.acc = access
  BY MatchesIsBetween DEF Standing
<1>3. rowsOf(activePenalties)' = low /\ rowsOf({p \in PenaltyIds : penState[p] = "active"})' = high
  BY <1>1 DEF rowsOf, activePenalties, Active, InForce
<1>4. \A rows : requiredCapabilityState(rows) \in {"active", "suspended", "removed"}
  BY DEF requiredCapabilityState
<1> HIDE DEF low, high
<1>5. action = "suspend" => requiredCapabilityState(low) = "active"
  <2>1. ASSUME action = "suspend" PROVE CapabilitySeverity[withBaseline(requiredCapabilityState(low))] <= 0
    BY <2>1, <1>1, <1>2, Severities DEF Between, CapSev
  <2> QED
    BY <2>1, <1>2, <1>4, Severities DEF withBaseline
<1>6. requiredCapabilityState(low) = "active"
  BY <1>1, <1>5
<1>a. state \in {"active", "suspended"}
  OBVIOUS
<1> HIDE DEF state
<1>8. StandingMatchesPenalties'
  <2>1. CapabilitySeverity[withBaseline(requiredCapabilityState(low))'] = CapabilitySeverity[state]
    <3>1. requiredCapabilityState(low)' = "active"
      BY <1>3, <1>6 DEF low, requiredCapabilityState
    <3> QED
      BY <3>1, <1>1, <1>a, Severities DEF withBaseline
  <2>2. CapabilitySeverity[state] <= CapabilitySeverity[withBaseline(requiredCapabilityState(high))']
    <3>1. requiredCapabilityState(high)' \in {"active", "suspended", "removed"}
      BY DEF requiredCapabilityState
    <3> QED
      BY <3>1, <1>1, <1>a, Severities DEF withBaseline
  <2>3. low' = low /\ high' = high
    BY <1>3, <1>1 DEF low, high, Active
  <2>4. AccessSeverity[requiredAccess(low)] <= AccessSeverity[access] /\ AccessSeverity[access] <= AccessSeverity[requiredAccess(high)]
    BY <1>2 DEF Between, AccSev
  <2>5. AccessSeverity[requiredAccess(low)'] <= AccessSeverity[access'] /\ AccessSeverity[access'] <= AccessSeverity[requiredAccess(high)']
    BY <2>3, <2>4, <1>1 DEF requiredAccess
  <2>6. CapabilitySeverity[state] \in 0..1
    BY <1>a, Severities
  <2>7. /\ CapabilitySeverity[withBaseline(requiredCapabilityState(low))'] <= CapabilitySeverity[capability']
        /\ CapabilitySeverity[capability'] <= CapabilitySeverity[withBaseline(requiredCapabilityState(high))']
    BY <2>1, <2>2, <2>6, <1>1
  <2> QED
    BY <2>5, <2>7 DEF StandingMatchesPenalties, low, high, Active
<1>9. access \in Accesses /\ liveOrders \in BOOLEAN
  BY DEF PenaltyInv, StandingTyped
<1>10. StandingTyped'
  BY <1>1, <1>9, <1>a DEF StandingTyped, Capabilities
<1> QED
  BY <1>1, <1>8, <1>10, <1>a DEF OutOfStandingIsOut

\* Some numbers have a greatest: requestLink picks the newest penalty.
LEMMA GreatestExists ==
  ASSUME NEW n \in Nat, NEW S \in SUBSET (0..n), S # {}
  PROVE  \E x \in S : \A y \in S : y <= x
<1> DEFINE T == {k \in 0..n : n - k \in S}
           R == OpToRel(<, Nat)
<1>1. PICK x \in S : TRUE
  OBVIOUS
<1>2. n - x \in 0..n /\ n - (n - x) = x
  OBVIOUS
<1>3. T # {}
  BY <1>1, <1>2
<1>4. T \subseteq Nat
  OBVIOUS
<1>5. IsWellFoundedOn(R, Nat)
  BY NatLessThanWellFounded DEF OpToRel
<1>6. \A i, k \in Nat : i < k => <<i, k>> \in R
  BY DEF OpToRel
<1> HIDE DEF R
<1>7. \E m \in T : \A k \in T : ~ (<<k, m>> \in R)
  <2> HIDE DEF T
  <2> QED
    BY <1>3, <1>4, <1>5, WFMin
<1>8. PICK m \in T : \A k \in T : ~ (<<k, m>> \in R)
  BY <1>7
<1>9. n - m \in S /\ m \in 0..n
  BY <1>8
<1>10. ASSUME NEW y \in S PROVE y <= n - m
  <2>1. y \in 0..n /\ n - y \in 0..n /\ n - (n - y) = y
    OBVIOUS
  <2>2. n - y \in T
    BY <2>1
  <2>3. ~ (n - y < m)
    BY <1>4, <1>6, <1>8, <2>2
  <2> QED
    BY <1>9, <2>1, <2>3
<1> QED
  BY <1>9, <1>10

\* Steps that leave the contents of the rows alone.
LEMMA SmallPenaltyStep ==
  ASSUME PenaltyInv,
         \/ UNCHANGED penaltyVars
         \/ \E p \in PenaltyIds : \/ acknowledgeWarning(p) \/ openHelpSession(p) \/ revokeHelpSession(p) \/ PassInstant(p)
         \/ \E action \in {"suspend", "reinstate"} : setCreatorCapability(action)
         \/ requestLink \/ purgeHelp \/ SwitchMode \/ signInAgain \/ publishPage \/ confirmPayment
  PROVE  PenaltyInv' /\ PenaltyGuards
<1> DEFINE Rows ==
             /\ PenaltyRows' /\ RowsAreShaped' /\ LinksAreOfAccount' /\ LockedOutUserHasLink'
             /\ (\A p \in PenaltyIds : trust_penalties_checks(p)') /\ trust_penalties_active_uidx'
             /\ \A p \in PenaltyIds : trust_guard_penalty(p) /\ trust_help_link_guard(p)
           Status == StandingTyped' /\ StandingMatchesPenalties' /\ OutOfStandingIsOut'
           Goal == PenaltyInv' /\ PenaltyGuards
<1>t. /\ penState \in [PenaltyIds -> PenaltyStates] /\ elapsed \subseteq penTimed
      /\ StandingTyped /\ OutOfStandingIsOut
  BY DEF PenaltyInv, PenaltyRows
<1>g. ASSUME Rows, Status, UNCHANGED penState PROVE Goal
  BY <1>g DEF PenaltyInv, PenaltyGuards, capability_events_actor_check
<1>r. ASSUME UNCHANGED <<penaltyRows, helpVars, clockVars>> PROVE Rows
  BY <1>r, <1>t, RowsStandStill DEF penaltyRows, helpVars, clockVars
<1>s. ASSUME UNCHANGED <<penState, penKind, penScope, standingVars>>, elapsed \subseteq elapsed' PROVE Status
  BY <1>s, StandingStays
<1>u. ASSUME UNCHANGED penaltyRows PROVE UNCHANGED <<penState, penKind, penScope>>
  BY <1>u DEF penaltyRows
<1>c. ASSUME UNCHANGED clockVars PROVE elapsed \subseteq elapsed'
  BY <1>c DEF clockVars
<1> HIDE DEF Rows, Status, Goal
<1>1. ASSUME UNCHANGED penaltyVars PROVE Goal
  BY <1>1, <1>r, <1>s, <1>u, <1>c, <1>g DEF penaltyVars
<1>2. ASSUME SwitchMode PROVE Goal
  BY <1>2, <1>r, <1>s, <1>u, <1>c, <1>g DEF SwitchMode
<1>3. ASSUME NEW p \in PenaltyIds, acknowledgeWarning(p) PROVE Goal
  <2>1. Rows
    BY <1>3, <1>t, RowsStandStill DEF acknowledgeWarning, helpVars, clockVars, Rows
  <2>2. Status
    BY <1>3, <1>s, <1>c DEF acknowledgeWarning
  <2> QED
    BY <2>1, <2>2, <1>3, <1>g DEF acknowledgeWarning
<1>4. ASSUME NEW p \in PenaltyIds, openHelpSession(p) PROVE Goal
  <2>0. p \in helpLink /\ p \notin readShut /\ helpSession' = helpSession \cup {p} /\ UNCHANGED <<helpLink, penaltyRows, standingVars, clockVars>>
    BY <1>4 DEF openHelpSession, Readable
  <2>1. Rows
    BY <2>0, <1>t, RowsStandStill DEF penaltyRows, clockVars, Rows
  <2>2. Status
    BY <2>0, <1>s, <1>u, <1>c
  <2> QED
    BY <2>0, <2>1, <2>2, <1>u, <1>g
<1>5. ASSUME NEW p \in PenaltyIds, revokeHelpSession(p) PROVE Goal
  <2>1. Rows
    BY <1>5, <1>t, RowsStandStill DEF revokeHelpSession, penaltyRows, clockVars, Rows
  <2>2. Status
    BY <1>5, <1>s, <1>u, <1>c DEF revokeHelpSession
  <2> QED
    BY <2>1, <2>2, <1>5, <1>u, <1>g DEF revokeHelpSession
<1>6. ASSUME NEW p \in PenaltyIds, PassInstant(p) PROVE Goal
  <2>0. /\ elapsed \subseteq elapsed' /\ elapsed' \subseteq penTimed /\ readShut \subseteq readShut'
        /\ UNCHANGED <<penaltyRows, standingVars, helpVars>>
    BY <1>6, <1>t DEF PassInstant
  <2>1. Rows
    BY <2>0, <1>t, RowsStandStill DEF penaltyRows, helpVars, Rows
  <2>2. Status
    BY <2>0, <1>s, <1>u
  <2> QED
    BY <2>0, <2>1, <2>2, <1>u, <1>g
<1>7. ASSUME requestLink PROVE Goal
  <2> DEFINE open == {p \in PenaltyIds : penScope[p] = "account" /\ InForce(p) /\ p \notin readShut}
             x == CHOOSE p \in open : \A q \in open : q <= p
  <2>0. UNCHANGED <<penaltyRows, standingVars, clockVars>> /\ issueLink(x) /\ open # {}
    BY <1>7 DEF requestLink
  <2>1. x \in open
    <3>1. MaxPenalties \in Nat
      BY TrustAssumptions DEF PenaltiesAssumption
    <3>2. open \in SUBSET (0..MaxPenalties)
      BY <3>1 DEF PenaltyIds
    <3>3. \E p \in open : \A q \in open : q <= p
      BY <2>0, <3>1, <3>2, GreatestExists
    <3> QED
      BY <3>3
  <2> HIDE DEF x
  <2>2. Rows
    <3>1. /\ helpLink' \subseteq helpLink \cup {q \in PenaltyIds : InForce(q) /\ penScope[q] = "account"}
          /\ helpLink \subseteq helpLink' /\ helpSession' \subseteq helpSession
      BY <2>0, <2>1 DEF issueLink
    <3>2. UNCHANGED <<penState, penKind, penScope, penTimed, penReplaces, penCase, acknowledged, elapsed, readShut>>
      BY <2>0 DEF penaltyRows, clockVars
    <3> QED
      BY <3>1, <3>2, <1>t, RowsStandStill DEF Rows
  <2>3. Status
    BY <2>0, <1>s, <1>u, <1>c
  <2> QED
    BY <2>0, <2>2, <2>3, <1>u, <1>g
<1>8. ASSUME purgeHelp PROVE Goal
  <2>1. Rows
    BY <1>8, <1>t, RowsStandStill DEF purgeHelp, penaltyRows, clockVars, Rows
  <2>2. Status
    BY <1>8, <1>s, <1>u, <1>c DEF purgeHelp
  <2> QED
    BY <2>1, <2>2, <1>8, <1>u, <1>g DEF purgeHelp
<1>9. ASSUME NEW action \in {"suspend", "reinstate"}, setCreatorCapability(action) PROVE Goal
  <2>1. Rows
    BY <1>9, <1>r DEF setCreatorCapability
  <2>2. Status
    BY <1>9, CapabilityCommandStep DEF Status
  <2> QED
    BY <2>1, <2>2, <1>9, <1>u, <1>g DEF setCreatorCapability
<1>10. ASSUME signInAgain \/ publishPage \/ confirmPayment PROVE Goal
  <2>0. /\ UNCHANGED <<penaltyRows, helpVars, clockVars, capability, baseline, access>>
        /\ session' => session \/ access = "active"
        /\ published' => published \/ capability = "active"
        /\ liveOrders' => liveOrders \/ capability = "active"
        /\ session' \in BOOLEAN /\ published' \in BOOLEAN /\ liveOrders' \in BOOLEAN
    <3>b. session \in BOOLEAN /\ published \in BOOLEAN /\ liveOrders \in BOOLEAN
      BY <1>t DEF StandingTyped
    <3>1. CASE signInAgain
      <4>1. /\ access = "active" /\ session' = TRUE
            /\ UNCHANGED <<capability, baseline, access, published, liveOrders, penaltyRows, helpVars, clockVars>>
        BY <3>1 DEF signInAgain
      <4> QED
        BY <4>1, <3>b
    <3>2. CASE publishPage
      <4>1. /\ capability = "active" /\ published' = TRUE
            /\ UNCHANGED <<capability, baseline, access, session, liveOrders, penaltyRows, helpVars, clockVars>>
        BY <3>2 DEF publishPage
      <4> QED
        BY <4>1, <3>b
    <3>3. CASE confirmPayment
      <4>1. /\ capability = "active" /\ liveOrders' = TRUE
            /\ UNCHANGED <<capability, baseline, access, session, published, penaltyRows, helpVars, clockVars>>
        BY <3>3 DEF confirmPayment
      <4> QED
        BY <4>1, <3>b
    <3> QED
      BY <1>10, <3>1, <3>2, <3>3
  <2>1. Rows
    BY <2>0, <1>r
  <2>2. StandingMatchesPenalties'
    <3>1. rowsOf(activePenalties)' = rowsOf(activePenalties) /\ rowsOf(Active)' = rowsOf(Active)
      BY <2>0 DEF rowsOf, activePenalties, Active, InForce, penaltyRows, clockVars
    <3>2. Standing' = Standing
      BY <2>0 DEF Standing
    <3> QED
      BY <2>0, <3>1, <3>2, MatchesIsBetween, BetweenMatches
  <2>3. StandingTyped' /\ OutOfStandingIsOut'
    BY <2>0, <1>t DEF StandingTyped, OutOfStandingIsOut
  <2> QED
    BY <2>0, <2>1, <2>2, <2>3, <1>u, <1>g DEF Status
<1> QED
  BY <1>1, <1>2, <1>3, <1>4, <1>5, <1>6, <1>7, <1>8, <1>9, <1>10 DEF Goal

---------------------------------------------------------------------------
(* Cases, reports, hides and appeals.                                       *)

CaseMove ==
  \/ UNCHANGED caseVars
  \/ \E kind \in {"report", "appeal"}, c \in CaseIds : \E source : openCase(kind, source, c)
  \/ \E c \in CaseIds : \E resolution : resolveCase(c, resolution)

\* A case is opened once per source and resolved once.
LEMMA CaseStep ==
  ASSUME CaseInv, CaseMove
  PROVE  CaseInv' /\ \A c \in CaseIds : trust_guard_case(c)
<1> DEFINE Goal == CaseInv' /\ \A c \in CaseIds : trust_guard_case(c)
<1>t. /\ caseState \in [CaseIds -> {"none", "open", "resolved"}]
      /\ caseKind \in [CaseIds -> {"none", "report", "appeal"}]
      /\ caseSource = [c \in CaseIds |-> caseSource[c]]
      /\ caseResolution \in [CaseIds -> {"none", "dismissed", "actioned", "upheld", "reduced", "reversed"}]
      /\ \A c \in CaseIds : trust_cases_checks(c)
      /\ trust_cases_open_source_uidx
  BY DEF CaseInv, CaseRows
<1>1. CASE UNCHANGED caseVars
  <2>1. UNCHANGED <<caseState, caseKind, caseSource, caseResolution>>
    BY <1>1 DEF caseVars
  <2>2. CaseInv'
    BY <2>1, <1>t DEF CaseInv, CaseRows, trust_cases_checks, trust_cases_open_source_uidx
  <2>3. ASSUME NEW c \in CaseIds PROVE trust_guard_case(c)
    BY <2>1, <1>t DEF trust_guard_case
  <2> QED
    BY <2>2, <2>3
<1>2. ASSUME NEW kind \in {"report", "appeal"}, NEW c \in CaseIds, NEW source, openCase(kind, source, c),
             ~ UNCHANGED caseVars
      PROVE  Goal
  <2>1. /\ findOpenCase(kind, source) = {} /\ caseState[c] = "none"
        /\ caseState' = [caseState EXCEPT ![c] = "open"] /\ caseKind' = [caseKind EXCEPT ![c] = kind]
        /\ caseSource' = [caseSource EXCEPT ![c] = source] /\ UNCHANGED caseResolution
    BY <1>2 DEF openCase, NextCase
  <2>2. CaseRows'
    BY <2>1, <1>t DEF CaseRows
  <2>3. ASSUME NEW d \in CaseIds PROVE trust_cases_checks(d)' /\ trust_guard_case(d)
    BY <2>1, <1>t DEF trust_cases_checks, trust_guard_case
  <2>4. \A d \in CaseIds : caseState[d] = "open" /\ caseKind[d] = kind => caseSource[d] # source
    BY <2>1 DEF findOpenCase
  <2>5. trust_cases_open_source_uidx'
    <3> SUFFICES ASSUME NEW d \in CaseIds, NEW e \in CaseIds, d # e, caseState'[d] = "open", caseState'[e] = "open",
                        caseKind'[d] = caseKind'[e]
                 PROVE  caseSource'[d] # caseSource'[e]
      BY DEF trust_cases_open_source_uidx
    <3>1. \A x \in CaseIds : x # c => caseState'[x] = caseState[x] /\ caseKind'[x] = caseKind[x] /\ caseSource'[x] = caseSource[x]
      BY <2>1, <1>t
    <3>2. caseKind'[c] = kind /\ caseSource'[c] = source
      BY <2>1, <1>t
    <3> QED
      BY <3>1, <3>2, <2>4, <1>t DEF trust_cases_open_source_uidx
  <2> QED
    BY <2>2, <2>3, <2>5 DEF CaseInv
<1>3. ASSUME NEW c \in CaseIds, NEW resolution, resolveCase(c, resolution) PROVE Goal
  <2>1. /\ caseState[c] = "open" /\ resolution \in resolutions(caseKind[c])
        /\ caseState' = [caseState EXCEPT ![c] = "resolved"]
        /\ caseResolution' = [caseResolution EXCEPT ![c] = resolution]
        /\ UNCHANGED <<caseKind, caseSource>>
    BY <1>3 DEF resolveCase
  <2>2. \A kind : resolutions(kind) \subseteq {"dismissed", "actioned", "upheld", "reduced", "reversed"}
    BY DEF resolutions
  <2>3. CaseRows'
    BY <2>1, <2>2, <1>t DEF CaseRows
  <2>4. ASSUME NEW d \in CaseIds PROVE trust_cases_checks(d)' /\ trust_guard_case(d)
    <3>1. trust_cases_checks(d) /\ caseKind[d] \in {"none", "report", "appeal"}
      BY <1>t
    <3>2. CASE d = c
      <4>1. caseState'[d] = "resolved" /\ caseResolution'[d] = resolution /\ caseKind'[d] = caseKind[d] /\ caseSource'[d] = caseSource[d]
        BY <2>1, <3>2, <1>t
      <4> QED
        BY <4>1, <2>1, <2>2, <3>2 DEF trust_cases_checks, trust_guard_case
    <3>3. CASE d # c
      <4>1. caseState'[d] = caseState[d] /\ caseResolution'[d] = caseResolution[d] /\ caseKind'[d] = caseKind[d] /\ caseSource'[d] = caseSource[d]
        BY <2>1, <3>3, <1>t
      <4> QED
        BY <4>1, <3>1, <1>t DEF trust_cases_checks, trust_guard_case
    <3> QED
      BY <3>2, <3>3
  <2>5. trust_cases_open_source_uidx'
    BY <2>1, <1>t DEF trust_cases_open_source_uidx
  <2> QED
    BY <2>3, <2>4, <2>5 DEF CaseInv
<1> QED
  BY <1>1, <1>2, <1>3 DEF CaseMove

\* Steps that make and close no report: cases of appeals come and go.
LEMMA ReportsStay ==
  ASSUME CaseInv, ReportInv, UNCHANGED <<reports, openReports>>,
         \/ UNCHANGED caseVars
         \/ \E c \in CaseIds : \E source : openCase("appeal", source, c)
         \/ \E c \in CaseIds : \E resolution \in {"upheld", "reduced", "reversed"} : resolveCase(c, resolution)
  PROVE  ReportInv' /\ trust_guard_report
<1>t. /\ caseState \in [CaseIds -> {"none", "open", "resolved"}] /\ caseKind \in [CaseIds -> {"none", "report", "appeal"}]
      /\ caseSource = [c \in CaseIds |-> caseSource[c]]
  BY DEF CaseInv, CaseRows
\* The cases of reports stay what they are, and no report case begins.
<1> DEFINE ReportCasesStay ==
      \A c \in CaseIds :
        /\ caseState[c] # "none" /\ caseKind[c] = "report" =>
             caseState'[c] = caseState[c] /\ caseKind'[c] = "report" /\ caseSource'[c] = caseSource[c]
        /\ caseState'[c] # "none" /\ caseKind'[c] = "report" =>
             caseState[c] # "none" /\ caseKind[c] = "report"
<1>1. ReportCasesStay
  <2>1. CASE UNCHANGED caseVars
    BY <2>1 DEF caseVars
  <2>2. ASSUME NEW c \in CaseIds, NEW source, openCase("appeal", source, c), ~ UNCHANGED caseVars
        PROVE  ReportCasesStay
    <3>1. /\ caseState[c] = "none"
          /\ caseState' = [caseState EXCEPT ![c] = "open"] /\ caseKind' = [caseKind EXCEPT ![c] = "appeal"]
          /\ caseSource' = [caseSource EXCEPT ![c] = source]
      BY <2>2 DEF openCase, NextCase
    <3> QED
      BY <3>1, <1>t
  <2>3. ASSUME NEW c \in CaseIds, NEW resolution \in {"upheld", "reduced", "reversed"}, resolveCase(c, resolution)
        PROVE  ReportCasesStay
    <3>1. caseKind[c] # "report" /\ caseState[c] = "open"
      BY <2>3 DEF resolveCase, resolutions
    <3> QED
      BY <2>3, <3>1, <1>t DEF resolveCase
  <2> QED
    BY <2>1, <2>2, <2>3
<1>2. ASSUME NEW r \in reports
      PROVE  /\ r[3] \in CaseIds /\ caseState[r[3]] # "none" /\ caseKind[r[3]] = "report" /\ caseSource[r[3]] = r[2]
             /\ r \in openReports <=> caseState[r[3]] = "open"
  BY DEF ReportInv, ReportsHaveCases, OpenReportHasOpenCase
<1>3. ReportsHaveCases'
  BY <1>1, <1>2 DEF ReportsHaveCases
<1>4. CasesHaveReports'
  BY <1>1 DEF ReportInv, CasesHaveReports
<1>5. OpenReportHasOpenCase'
  <2>1. ASSUME NEW r \in reports PROVE (r \in openReports) = (caseState'[r[3]] = "open")
    BY <1>1, <1>2
  <2> QED
    BY <2>1 DEF OpenReportHasOpenCase
<1>6. trust_guard_report
  BY DEF trust_guard_report
<1>7. reports' \subseteq (Reporters \cup Guests) \X Items \X CaseIds /\ trust_reports_actor_target_uidx'
  BY DEF ReportInv, trust_reports_actor_target_uidx
<1> QED
  BY <1>3, <1>4, <1>5, <1>6, <1>7 DEF ReportInv

\* A report joins the open case of its item or opens one.
LEMMA SubmitStep ==
  ASSUME CaseInv, ReportInv, NEW r \in Reporters \cup Guests, NEW i \in Items, NEW c \in CaseIds, submitReport(r, i, c)
  PROVE  ReportInv' /\ trust_guard_report
<1> DEFINE new == <<r, i, c>>
<1>t. /\ caseState \in [CaseIds -> {"none", "open", "resolved"}] /\ caseKind \in [CaseIds -> {"none", "report", "appeal"}]
      /\ caseSource = [d \in CaseIds |-> caseSource[d]]
  BY DEF CaseInv, CaseRows
<1>1. /\ r \notin Guests => ~ \E old \in reports : old[1] = r /\ old[2] = i
      /\ openCase("report", i, c)
      /\ reports' = reports \cup {new} /\ openReports' = openReports \cup {new}
  BY DEF submitReport
<1>2. new[1] = r /\ new[2] = i /\ new[3] = c /\ new \in (Reporters \cup Guests) \X Items \X CaseIds
  OBVIOUS
<1> HIDE DEF new
<1>3. /\ caseState'[c] = "open" /\ caseKind'[c] = "report" /\ caseSource'[c] = i
      /\ \A d \in CaseIds : d # c =>
           caseState'[d] = caseState[d] /\ caseKind'[d] = caseKind[d] /\ caseSource'[d] = caseSource[d]
      /\ \/ caseState[c] = "open" /\ caseKind[c] = "report" /\ caseSource[c] = i
         \/ caseState[c] = "none"
  <2>1. CASE findOpenCase("report", i) # {}
    <3>1. c \in findOpenCase("report", i) /\ UNCHANGED caseVars
      BY <1>1, <2>1 DEF openCase
    <3> QED
      BY <3>1 DEF findOpenCase, caseVars
  <2>2. CASE findOpenCase("report", i) = {}
    <3>1. /\ caseState[c] = "none"
          /\ caseState' = [caseState EXCEPT ![c] = "open"] /\ caseKind' = [caseKind EXCEPT ![c] = "report"]
          /\ caseSource' = [caseSource EXCEPT ![c] = i]
      BY <1>1, <2>2 DEF openCase, NextCase
    <3> QED
      BY <3>1, <1>t
  <2> QED
    BY <2>1, <2>2
<1>4. ASSUME NEW x \in reports
      PROVE  /\ x[3] \in CaseIds /\ caseState[x[3]] # "none" /\ caseKind[x[3]] = "report" /\ caseSource[x[3]] = x[2]
             /\ x \in openReports <=> caseState[x[3]] = "open"
  BY DEF ReportInv, ReportsHaveCases, OpenReportHasOpenCase
<1>5. ASSUME NEW x \in reports
      PROVE  /\ caseState'[x[3]] = caseState[x[3]] /\ caseKind'[x[3]] = "report" /\ caseSource'[x[3]] = x[2]
  BY <1>3, <1>4
<1>6. ReportsHaveCases'
  BY <1>1, <1>2, <1>3, <1>4, <1>5 DEF ReportsHaveCases
<1>7. CasesHaveReports'
  <2> SUFFICES ASSUME NEW d \in CaseIds, caseState'[d] # "none", caseKind'[d] = "report"
               PROVE  \E x \in reports' : x[3] = d /\ x[2] = caseSource'[d]
    BY DEF CasesHaveReports
  <2>1. CASE d = c
    BY <2>1, <1>1, <1>2, <1>3
  <2>2. CASE d # c
    <3>1. \E x \in reports : x[3] = d /\ x[2] = caseSource[d]
      BY <2>2, <1>3 DEF ReportInv, CasesHaveReports
    <3> QED
      BY <3>1, <2>2, <1>1, <1>3
  <2> QED
    BY <2>1, <2>2
<1>8. ASSUME NEW x \in reports' PROVE (x \in openReports') = (caseState'[x[3]] = "open")
  <2>1. CASE x = new
    BY <2>1, <1>1, <1>2, <1>3
  <2>2. CASE x # new
    BY <2>2, <1>1, <1>4, <1>5
  <2> QED
    BY <2>1, <2>2
<1>9. OpenReportHasOpenCase'
  BY <1>8 DEF OpenReportHasOpenCase
<1>10. trust_reports_actor_target_uidx'
  <2>1. Reporters \cap Guests = {}
    BY TrustAssumptions DEF ReportCasesAssumption
  <2>2. ASSUME NEW x \in reports, x[1] \in Reporters PROVE ~(x[1] = new[1] /\ x[2] = new[2])
    BY <2>1, <2>2, <1>1, <1>2
  <2> QED
    BY <2>2, <1>1 DEF ReportInv, trust_reports_actor_target_uidx
<1>11. trust_guard_report
  <2>1. new \in reports => new \in openReports
    BY <1>2, <1>3, <1>4
  <2> QED
    BY <2>1, <1>1, <1>2, <1>3 DEF trust_guard_report
<1>12. reports' \subseteq (Reporters \cup Guests) \X Items \X CaseIds
  BY <1>1, <1>2 DEF ReportInv
<1> QED
  BY <1>6, <1>7, <1>9, <1>10, <1>11, <1>12 DEF ReportInv

\* Closing a report case closes its reports.
LEMMA CloseStep ==
  ASSUME CaseInv, ReportInv, NEW c \in CaseIds, NEW resolution, resolveCase(c, resolution),
         openReports' = {r \in openReports : r[3] # c}, UNCHANGED reports
  PROVE  ReportInv' /\ trust_guard_report
<1>t. caseState \in [CaseIds -> {"none", "open", "resolved"}]
  BY DEF CaseInv, CaseRows
<1>1. /\ caseState[c] = "open" /\ caseState' = [caseState EXCEPT ![c] = "resolved"]
      /\ UNCHANGED <<caseKind, caseSource, reports>>
      /\ openReports' = {r \in openReports : r[3] # c}
  BY DEF resolveCase
<1>2. ASSUME NEW x \in reports
      PROVE  /\ x[3] \in CaseIds /\ caseState[x[3]] # "none" /\ caseKind[x[3]] = "report" /\ caseSource[x[3]] = x[2]
             /\ x \in openReports <=> caseState[x[3]] = "open"
  BY DEF ReportInv, ReportsHaveCases, OpenReportHasOpenCase
<1>3. \A d \in CaseIds : caseState'[d] # "none" <=> caseState[d] # "none"
  BY <1>1, <1>t
<1>4. ReportsHaveCases'
  BY <1>1, <1>2, <1>3 DEF ReportsHaveCases
<1>5. CasesHaveReports'
  BY <1>1, <1>3 DEF ReportInv, CasesHaveReports
<1>6. ASSUME NEW x \in reports PROVE (x \in openReports') = (caseState'[x[3]] = "open")
  <2>1. CASE x[3] = c
    <3>1. caseState'[x[3]] = "resolved" /\ x \notin openReports'
      BY <2>1, <1>1, <1>2, <1>t
    <3> QED
      BY <3>1
  <2>2. CASE x[3] # c
    <3>1. caseState'[x[3]] = caseState[x[3]] /\ (x \in openReports' <=> x \in openReports)
      BY <2>2, <1>1, <1>2, <1>t
    <3> QED
      BY <3>1, <1>2
  <2> QED
    BY <2>1, <2>2
<1>7. OpenReportHasOpenCase'
  BY <1>1, <1>6 DEF OpenReportHasOpenCase
<1>8. trust_guard_report /\ trust_reports_actor_target_uidx'
  BY <1>1 DEF trust_guard_report, ReportInv, trust_reports_actor_target_uidx
<1> QED
  BY <1>1, <1>4, <1>5, <1>7, <1>8 DEF ReportInv

\* Hides: made from the open case of a reported item, released once, and
\* released by the decision that reverses them.
LEMMA HideStep ==
  ASSUME ReportInv, HideInv, reports \subseteq reports',
         \/ UNCHANGED <<hideVars, hideAppeal>>
         \/ \E h \in HideIds :
              \/ \E c \in CaseIds : hide(c, h) /\ UNCHANGED hideAppeal
              \/ restore(h) /\ UNCHANGED hideAppeal
              \/ \E c \in CaseIds :
                   \/ submitHideAppeal(h, c)
                   \/ \E decision \in {"upheld", "reversed"} : decideHide(h, c, decision)
  PROVE  HideInv' /\ \A h \in HideIds : trust_guard_content_hide(h)
<1> DEFINE Goal == HideInv' /\ \A h \in HideIds : trust_guard_content_hide(h)
<1>t. /\ hideItem = [h \in HideIds |-> hideItem[h]] /\ hideCase = [h \in HideIds |-> hideCase[h]]
      /\ hideAppeal = [h \in HideIds |-> hideAppeal[h]]
      /\ \A h \in HideIds : hideItem[h] = "none" => h \notin hideReleased /\ hideAppeal[h] = "none"
      /\ \A h \in HideIds : hideAppeal[h] = "reversed" => h \in hideReleased
      /\ trust_content_hides_active_uidx
  BY DEF HideInv
\* Steps that make no hide.
<1>k. ASSUME UNCHANGED <<hideItem, hideCase>>, hideReleased \subseteq hideReleased',
             hideAppeal' = [h \in HideIds |-> hideAppeal'[h]],
             \A h \in HideIds : hideItem[h] = "none" => h \notin hideReleased' /\ hideAppeal'[h] = "none",
             \A h \in HideIds : hideAppeal'[h] = "reversed" => h \in hideReleased'
      PROVE  Goal
  <2>1. trust_content_hides_active_uidx'
    BY <1>k, <1>t DEF trust_content_hides_active_uidx
  <2>2. HideInv'
    BY <1>k, <1>t, <2>1 DEF HideInv
  <2>3. \A h \in HideIds : trust_guard_content_hide(h)
    BY <1>k DEF trust_guard_content_hide
  <2> QED
    BY <2>2, <2>3
<1>1. ASSUME UNCHANGED <<hideVars, hideAppeal>> PROVE Goal
  BY <1>1, <1>t, <1>k DEF hideVars
<1>2. ASSUME NEW h \in HideIds, NEW c \in CaseIds, hide(c, h), UNCHANGED hideAppeal PROVE Goal
  <2>1. /\ caseState[c] = "open" /\ caseKind[c] = "report" /\ ~ Hidden(caseSource[c]) /\ hideItem[h] = "none"
        /\ hideItem' = [hideItem EXCEPT ![h] = caseSource[c]] /\ hideCase' = [hideCase EXCEPT ![h] = c]
        /\ UNCHANGED hideReleased
    BY <1>2 DEF hide
  <2>2. /\ hideItem'[h] = caseSource[c] /\ hideCase'[h] = c
        /\ \A g \in HideIds : g # h => hideItem'[g] = hideItem[g] /\ hideCase'[g] = hideCase[g]
        /\ hideItem' = [g \in HideIds |-> hideItem'[g]] /\ hideCase' = [g \in HideIds |-> hideCase'[g]]
    BY <2>1, <1>t
  <2>3. trust_content_hides_active_uidx'
    <3>1. \A g \in HideIds : g # h /\ hideItem[g] = caseSource[c] => g \in hideReleased
      BY <2>1 DEF Hidden
    <3> QED
      BY <3>1, <2>1, <2>2, <1>t DEF trust_content_hides_active_uidx
  <2>4. HideInv'
    <3>1. \A g \in HideIds : hideItem'[g] = "none" => g \notin hideReleased' /\ hideAppeal'[g] = "none"
      BY <1>2, <2>1, <2>2, <1>t
    <3>2. \A g \in HideIds : hideAppeal'[g] = "reversed" => g \in hideReleased'
      BY <1>2, <2>1, <1>t
    <3> QED
      BY <1>2, <1>t, <2>2, <2>3, <3>1, <3>2 DEF HideInv
  <2>6. \E r \in reports : r[2] = caseSource[c] /\ r[3] = c
    BY <2>1 DEF ReportInv, CasesHaveReports
  <2>7. ASSUME NEW g \in HideIds PROVE trust_guard_content_hide(g)
    BY <2>1, <2>2, <2>6, <1>t DEF trust_guard_content_hide
  <2> QED
    BY <2>4, <2>7
<1>3. ASSUME NEW h \in HideIds, restore(h), UNCHANGED hideAppeal PROVE Goal
  BY <1>3, <1>t, <1>k DEF restore
<1>4. ASSUME NEW h \in HideIds, NEW c \in CaseIds, submitHideAppeal(h, c) PROVE Goal
  <2>1. /\ hideItem[h] # "none" /\ hideAppeal[h] = "none" /\ hideAppeal' = [hideAppeal EXCEPT ![h] = "open"]
        /\ UNCHANGED <<hideItem, hideCase, hideReleased>>
    BY <1>4 DEF submitHideAppeal, hideVars
  <2> QED
    BY <2>1, <1>t, <1>k
<1>5. ASSUME NEW h \in HideIds, NEW c \in CaseIds, NEW decision \in {"upheld", "reversed"}, decideHide(h, c, decision)
      PROVE  Goal
  <2>1. /\ hideAppeal[h] = "open" /\ hideAppeal' = [hideAppeal EXCEPT ![h] = decision]
        /\ UNCHANGED <<hideItem, hideCase>>
        /\ hideReleased' = IF decision = "reversed" THEN hideReleased \cup {h} ELSE hideReleased
    BY <1>5 DEF decideHide, releaseForAppeal, hideVars
  <2>2. hideItem[h] # "none"
    BY <2>1, <1>t
  <2> QED
    BY <2>1, <2>2, <1>t, <1>k
<1> QED
  BY <1>1, <1>2, <1>3, <1>4, <1>5
\* Penalties that change no appeal: each row stays, ends or begins, and no row
\* begins as a replacement.
LEMMA AppealsStand ==
  ASSUME PenaltyInv, AppealInv, UNCHANGED penAppeal, UNCHANGED penReplaces,
         \A q \in PenaltyIds : \/ penState'[q] = penState[q]
                               \/ penState[q] = "active" /\ penState'[q] \in Ends
                               \/ penState[q] = "none"
  PROVE  AppealInv'
<1>e. \A st \in Ends : st # "none" /\ st # "active"
  BY DEF Ends
<1>1. \A q \in PenaltyIds : penState'[q] = "none" => penAppeal[q] = "none"
  BY <1>e DEF AppealInv
<1>2. ASSUME NEW q \in PenaltyIds, penAppeal[q] = "reversed" PROVE penState'[q] # "active"
  BY <1>2, <1>e DEF AppealInv
<1>3. ASSUME NEW q \in PenaltyIds, penAppeal[q] = "reduced"
      PROVE  penState'[q] = "reduced" /\ \E x \in PenaltyIds : {x} = {r \in PenaltyIds : penReplaces[r] = q}
  BY <1>3 DEF AppealInv
<1> QED
  BY <1>1, <1>2, <1>3 DEF AppealInv

\* Submitting or deciding an appeal about one penalty.
LEMMA AppealStep ==
  ASSUME PenaltyInv, AppealInv, NEW p \in PenaltyIds, NEW state \in {"open", "upheld", "reversed"},
         penAppeal[p] \in {"none", "open"}, penState[p] # "none", penReplaces[p] = 0 \/ penAppeal[p] = "open",
         penAppeal' = [penAppeal EXCEPT ![p] = state], UNCHANGED penReplaces,
         \A q \in PenaltyIds : \/ penState'[q] = penState[q]
                               \/ penState[q] = "active" /\ penState'[q] \in Ends,
         state = "reversed" => penState'[p] # "active"
  PROVE  AppealInv'
<1>e. \A st \in Ends : st # "none" /\ st # "active"
  BY DEF Ends
<1>t. penAppeal = [q \in PenaltyIds |-> penAppeal[q]] /\ penReplaces \in [PenaltyIds -> PenaltyIds \cup {0}]
  BY DEF AppealInv, PenaltyInv, PenaltyRows
<1>0. penAppeal'[p] = state /\ \A q \in PenaltyIds : q # p => penAppeal'[q] = penAppeal[q]
  BY <1>t
<1>1. \A q \in PenaltyIds : penState'[q] = "none" => penAppeal'[q] = "none"
  BY <1>0, <1>e DEF AppealInv
<1>2. ASSUME NEW q \in PenaltyIds, penAppeal'[q] = "reversed" PROVE penState'[q] # "active"
  BY <1>0, <1>2, <1>e DEF AppealInv
<1>3. ASSUME NEW q \in PenaltyIds, penAppeal'[q] = "reduced"
      PROVE  penState'[q] = "reduced" /\ \E x \in PenaltyIds : {x} = {r \in PenaltyIds : penReplaces'[r] = q}
  BY <1>0, <1>3 DEF AppealInv
<1>4. ASSUME NEW q \in PenaltyIds, penReplaces[q] # 0
      PROVE  penAppeal'[penReplaces[q]] = "reduced" /\ penAppeal'[q] = "none"
  <2>1. penAppeal[penReplaces[q]] = "reduced" /\ penAppeal[q] = "none" /\ penReplaces[q] \in PenaltyIds
    BY <1>4, <1>t DEF AppealInv
  <2>2. penReplaces[q] # p
    <3>1. penAppeal[p] # "reduced"
      OBVIOUS
    <3> QED
      BY <2>1, <3>1
  <2>3. q # p
    BY <1>4, <2>1
  <2> QED
    BY <2>1, <2>2, <2>3, <1>0
<1>5. penAppeal' = [q \in PenaltyIds |-> penAppeal'[q]]
  BY <1>t
<1> QED
  BY <1>1, <1>2, <1>3, <1>4, <1>5 DEF AppealInv

\* A decision that reduces a penalty replaces it by exactly one.
LEMMA ReducedStep ==
  ASSUME PenaltyInv, AppealInv, NEW p \in PenaltyIds, NEW c, NEW q, NEW slot, NEW timed, decideReduced(p, c, q, slot, timed)
  PROVE  AppealInv'
<1> DEFINE kind == slot[1]
           over == {x \in PenaltyIds : SameSlot(x, slot[1], slot[2]) /\ x \in elapsed}
<1>1. /\ NextPenalty(q) /\ InForce(p) /\ penAppeal[p] = "open"
      /\ penAppeal' = [penAppeal EXCEPT ![p] = "reduced"]
      /\ penReplaces' = [penReplaces EXCEPT ![q] = p]
      /\ penState' = [x \in PenaltyIds |->
           IF x = q THEN "active" ELSE IF kind # "warning" /\ x \in over THEN "expired"
           ELSE IF x = p THEN "reduced" ELSE penState[x]]
  BY DEF decideReduced, applyInternal
<1>t. /\ penAppeal = [x \in PenaltyIds |-> penAppeal[x]] /\ penReplaces \in [PenaltyIds -> PenaltyIds \cup {0}]
      /\ 0 \notin PenaltyIds
  BY TrustAssumptions DEF AppealInv, PenaltyInv, PenaltyRows, PenaltyIds, PenaltiesAssumption
<1>2. /\ q \in PenaltyIds /\ penState[q] = "none" /\ penAppeal[q] = "none" /\ penReplaces[q] = 0
      /\ p # q /\ p \notin over /\ penState[p] = "active"
  <2>1. q \in PenaltyIds /\ penState[q] = "none"
    BY <1>1 DEF NextPenalty
  <2>2. EmptyRow(q)
    BY <2>1 DEF PenaltyInv, RowsAreShaped
  <2> QED
    BY <1>1, <2>1, <2>2 DEF EmptyRow, AppealInv, InForce
<1>3. /\ penAppeal'[p] = "reduced" /\ penAppeal'[q] = "none"
      /\ \A x \in PenaltyIds : x # p => penAppeal'[x] = penAppeal[x]
      /\ penReplaces'[q] = p
      /\ \A x \in PenaltyIds : x # q => penReplaces'[x] = penReplaces[x]
  BY <1>1, <1>2, <1>t
<1>4. /\ penState'[p] = "reduced" /\ penState'[q] = "active"
      /\ \A x \in PenaltyIds : x # p /\ x # q =>
           penState'[x] = penState[x] \/ (penState[x] = "active" /\ penState'[x] = "expired")
  BY <1>1, <1>2 DEF SameSlot
<1> HIDE DEF kind, over
<1>5. \A x \in PenaltyIds : penReplaces[x] # p
  <2>1. ASSUME NEW x \in PenaltyIds, penReplaces[x] = p PROVE FALSE
    BY <2>1, <1>1, <1>t DEF AppealInv
  <2> QED
    BY <2>1
<1>6. {q} = {r \in PenaltyIds : penReplaces'[r] = p}
  BY <1>2, <1>3, <1>5
<1>7. ASSUME NEW x \in PenaltyIds, penAppeal'[x] = "reduced"
      PROVE  penState'[x] = "reduced" /\ \E y \in PenaltyIds : {y} = {r \in PenaltyIds : penReplaces'[r] = x}
  <2>1. CASE x = p
    BY <2>1, <1>2, <1>4, <1>6
  <2>2. CASE x # p
    <3>1. penAppeal[x] = "reduced" /\ x # q
      BY <2>2, <1>2, <1>3, <1>7
    <3>2. penState[x] = "reduced"
      BY <3>1 DEF AppealInv
    <3>3. PICK y \in PenaltyIds : {y} = {r \in PenaltyIds : penReplaces[r] = x}
      BY <3>1 DEF AppealInv
    <3>4. penReplaces[q] # x
      BY <1>2, <1>t
    <3>5. {r \in PenaltyIds : penReplaces'[r] = x} = {r \in PenaltyIds : penReplaces[r] = x}
      BY <1>3, <2>2, <3>4
    <3> QED
      BY <1>4, <2>2, <3>1, <3>2, <3>3, <3>5
  <2> QED
    BY <2>1, <2>2
<1>8. ASSUME NEW x \in PenaltyIds, penReplaces'[x] # 0
      PROVE  penAppeal'[penReplaces'[x]] = "reduced" /\ penAppeal'[x] = "none"
  <2>1. CASE x = q
    BY <2>1, <1>3
  <2>2. CASE x # q
    <3>1. penReplaces'[x] = penReplaces[x] /\ penAppeal[x] = "none" /\ penAppeal[penReplaces[x]] = "reduced"
          /\ penReplaces[x] \in PenaltyIds
      BY <2>2, <1>3, <1>8, <1>t DEF AppealInv
    <3> QED
      BY <3>1, <1>1, <1>3
  <2> QED
    BY <2>1, <2>2
<1>9. \A x \in PenaltyIds : penState'[x] = "none" => penAppeal'[x] = "none"
  BY <1>2, <1>3, <1>4 DEF AppealInv
<1>10. \A x \in PenaltyIds : penAppeal'[x] = "reversed" => penState'[x] # "active"
  BY <1>2, <1>3, <1>4 DEF AppealInv
<1>11. penAppeal' = [x \in PenaltyIds |-> penAppeal'[x]]
  BY <1>1, <1>t
<1> QED
  BY <1>7, <1>8, <1>9, <1>10, <1>11 DEF AppealInv
---------------------------------------------------------------------------
(* Every step.                                                              *)

\* Ending a penalty moves only its own state.
LEMMA EndedRows ==
  ASSUME PenaltyInv, NEW p \in PenaltyIds, NEW state \in Ends, NEW byActor, endPenalty(p, state, byActor)
  PROVE  /\ UNCHANGED penReplaces /\ penState[p] = "active" /\ penState'[p] = state
         /\ \A q \in PenaltyIds : penState'[q] = penState[q] \/ (penState[q] = "active" /\ penState'[q] \in Ends)
<1>1. penState[p] = "active" /\ penState' = [penState EXCEPT ![p] = state] /\ UNCHANGED penReplaces
  BY DEF endPenalty
<1>2. penState \in [PenaltyIds -> PenaltyStates]
  BY DEF PenaltyInv, PenaltyRows
<1> HIDE DEF Ends
<1> QED
  BY <1>1, <1>2

\* The owner's and the user's commands, time and maintenance.
LEMMA PenaltySide ==
  ASSUME PenaltyInv, AppealInv, PenaltyCommand \/ ExpirePenalties \/ PurgeHelp
  PROVE  PenaltyInv' /\ PenaltyGuards /\ AppealInv'
<1> DEFINE Goal == PenaltyInv' /\ PenaltyGuards /\ AppealInv'
<1>0. UNCHANGED penAppeal
  BY DEF PenaltyCommand, ExpirePenalties, PurgeHelp, restOfPenalties, appealVars
<1>e. "expired" \in Ends /\ "lifted" \in Ends
  BY DEF Ends
<1>k. ASSUME UNCHANGED <<penState, penReplaces>> PROVE AppealInv'
  BY <1>0, <1>k, AppealsStand
<1>r. ASSUME UNCHANGED penaltyRows PROVE UNCHANGED <<penState, penReplaces>>
  BY <1>r DEF penaltyRows
<1>1. ASSUME NEW p \in PenaltyIds, NEW slot \in Slots, NEW timed \in BOOLEAN, NEW freeze \in BOOLEAN, NEW source,
             apply(p, slot, timed, source, freeze)
      PROVE  Goal
  <2>1. applyInternal(p, slot, timed, source, freeze, 0) /\ slot \in SlotShapes
    BY <1>1, TrustAssumptions DEF apply, PenaltiesAssumption
  <2>2. PenaltyInv' /\ PenaltyGuards
    <3>1. 0 \in PenaltyIds \cup {0} /\ (0 # 0 => InForce(0))
      OBVIOUS
    <3> QED
      BY <2>1, <3>1, ApplyStep
  <2>3. AppealInv'
    <3> DEFINE over == {x \in PenaltyIds : SameSlot(x, slot[1], slot[2]) /\ x \in elapsed}
    <3>1. /\ NextPenalty(p) /\ penReplaces' = [penReplaces EXCEPT ![p] = 0]
          /\ penState' = [x \in PenaltyIds |->
               IF x = p THEN "active" ELSE IF slot[1] # "warning" /\ x \in over THEN "expired"
               ELSE IF x = 0 THEN "reduced" ELSE penState[x]]
      BY <2>1 DEF applyInternal
    <3>2. penState[p] = "none" /\ penReplaces \in [PenaltyIds -> PenaltyIds \cup {0}] /\ 0 \notin PenaltyIds
      BY <3>1, TrustAssumptions DEF NextPenalty, PenaltyInv, PenaltyRows, PenaltyIds, PenaltiesAssumption
    <3>3. penReplaces[p] = 0
      BY <3>2 DEF PenaltyInv, RowsAreShaped, EmptyRow
    <3>4. UNCHANGED penReplaces
      BY <3>1, <3>2, <3>3
    <3>5. \A x \in over : penState[x] = "active"
      BY DEF SameSlot
    <3> HIDE DEF over
    <3>6. \A x \in PenaltyIds : \/ penState'[x] = penState[x]
                                \/ penState[x] = "active" /\ penState'[x] \in Ends
                                \/ penState[x] = "none"
      <4>1. ASSUME NEW x \in PenaltyIds, x # p
            PROVE  penState'[x] = penState[x] \/ (x \in over /\ penState'[x] = "expired")
        <5>1. penState'[x] = IF x = p THEN "active" ELSE IF slot[1] # "warning" /\ x \in over THEN "expired"
                             ELSE IF x = 0 THEN "reduced" ELSE penState[x]
          BY <3>1
        <5> QED
          BY <5>1, <4>1, <3>2
      <4> HIDE DEF over
      <4> QED
        BY <4>1, <3>2, <3>5, <1>e
    <3> QED
      BY <1>0, <3>4, <3>6, AppealsStand
  <2> QED
    BY <2>2, <2>3
<1>2. ASSUME NEW p \in PenaltyIds, lift(p) \/ expirePenalty(p) PROVE Goal
  <2>1. PICK state \in {"lifted", "expired"}, byActor \in BOOLEAN :
          endPenalty(p, state, byActor) /\ (state = "expired" => ~byActor)
    BY <1>2 DEF lift, expirePenalty
  <2>2. PenaltyInv' /\ PenaltyGuards
    BY <2>1, EndStep
  <2>3. AppealInv'
    BY <2>1, <1>0, <1>e, EndedRows, AppealsStand
  <2> QED
    BY <2>2, <2>3
<1>s. ASSUME \/ \E p \in PenaltyIds : \/ acknowledgeWarning(p) \/ openHelpSession(p) \/ revokeHelpSession(p) \/ PassInstant(p)
             \/ \E action \in {"suspend", "reinstate"} : setCreatorCapability(action)
             \/ requestLink \/ purgeHelp \/ SwitchMode \/ signInAgain \/ publishPage \/ confirmPayment
      PROVE  Goal
  <2>1. PenaltyInv' /\ PenaltyGuards
    BY <1>s, SmallPenaltyStep
  <2>2. UNCHANGED <<penState, penReplaces>>
    BY <1>s, <1>r DEF acknowledgeWarning, openHelpSession, revokeHelpSession, PassInstant, setCreatorCapability,
      requestLink, purgeHelp, SwitchMode, signInAgain, publishPage, confirmPayment
  <2> QED
    BY <2>1, <2>2, <1>k
<1> HIDE DEF Goal
<1>3. CASE PenaltyCommand
  BY <1>1, <1>2, <1>s, <1>3 DEF PenaltyCommand, Goal
<1>4. CASE ExpirePenalties
  BY <1>2, <1>4 DEF ExpirePenalties, Goal
<1>5. CASE PurgeHelp
  BY <1>s, <1>5 DEF PurgeHelp, Goal
<1> QED
  BY <1>3, <1>4, <1>5 DEF Goal

\* Submitting and deciding appeals about penalties.
LEMMA PenaltyAppealSide ==
  ASSUME PenaltyInv, AppealInv, NEW p \in PenaltyIds, NEW c \in CaseIds,
         \/ submitPenaltyAppeal(p, c) \/ decideUpheld(p, c) \/ decideReversed(p, c)
         \/ \E q \in PenaltyIds, slot \in Slots, timed \in BOOLEAN : decideReduced(p, c, q, slot, timed)
  PROVE  PenaltyInv' /\ PenaltyGuards /\ AppealInv'
<1> DEFINE Goal == PenaltyInv' /\ PenaltyGuards /\ AppealInv'
<1>o. ASSUME penAppeal[p] = "open" PROVE penState[p] # "none"
  BY <1>o DEF AppealInv
<1>u. ASSUME UNCHANGED penaltyVars PROVE PenaltyInv' /\ PenaltyGuards /\ UNCHANGED <<penState, penReplaces>>
  BY <1>u, SmallPenaltyStep DEF penaltyVars, penaltyRows
<1>1. ASSUME submitPenaltyAppeal(p, c) PROVE Goal
  <2>1. /\ InForce(p) /\ penReplaces[p] = 0 /\ penAppeal[p] = "none"
        /\ penAppeal' = [penAppeal EXCEPT ![p] = "open"] /\ UNCHANGED penaltyVars
    BY <1>1 DEF submitPenaltyAppeal
  <2>2. penState[p] # "none"
    BY <2>1 DEF InForce
  <2> QED
    BY <2>1, <2>2, <1>u, AppealStep
<1>2. ASSUME decideUpheld(p, c) PROVE Goal
  <2>1. penAppeal[p] = "open" /\ penAppeal' = [penAppeal EXCEPT ![p] = "upheld"] /\ UNCHANGED penaltyVars
    BY <1>2 DEF decideUpheld
  <2> QED
    BY <2>1, <1>o, <1>u, AppealStep
<1>3. ASSUME decideReversed(p, c) PROVE Goal
  <2>1. penAppeal[p] = "open" /\ penAppeal' = [penAppeal EXCEPT ![p] = "reversed"]
    BY <1>3 DEF decideReversed
  <2>2. CASE penState[p] = "active"
    <3>1. endPenalty(p, "reversed", TRUE)
      BY <1>3, <2>2 DEF decideReversed
    <3>2. PenaltyInv' /\ PenaltyGuards
      BY <3>1, EndStep
    <3>3. "reversed" \in Ends /\ "reversed" # "active"
      BY DEF Ends
    <3>4. /\ UNCHANGED penReplaces /\ penState'[p] = "reversed"
          /\ \A q \in PenaltyIds : penState'[q] = penState[q] \/ (penState[q] = "active" /\ penState'[q] \in Ends)
      BY <3>1, <3>3, EndedRows
    <3> QED
      BY <2>1, <3>2, <3>4, <1>o, AppealStep
  <2>3. CASE penState[p] # "active"
    <3>1. /\ setStanding(standingAfter(Standing, rowsOf(activePenalties), TRUE, penScope[p]))
          /\ UNCHANGED <<penaltyRows, liveOrders, helpVars, clockVars, mode>>
      BY <1>3, <2>3 DEF decideReversed
    <3>2. PenaltyInv' /\ PenaltyGuards
      BY <3>1, RecomputeStep
    <3>3. UNCHANGED <<penState, penReplaces>>
      BY <3>1 DEF penaltyRows
    <3> QED
      BY <2>1, <2>3, <3>2, <3>3, <1>o, AppealStep
  <2> QED
    BY <2>2, <2>3
<1>4. ASSUME NEW q \in PenaltyIds, NEW slot \in Slots, NEW timed \in BOOLEAN, decideReduced(p, c, q, slot, timed)
      PROVE  Goal
  <2>1. InForce(p) /\ applyInternal(q, slot, timed, penCase[p], FALSE, p) /\ slot \in SlotShapes
    BY <1>4, TrustAssumptions DEF decideReduced, PenaltiesAssumption
  <2>2. PenaltyInv' /\ PenaltyGuards
    <3>1. ASSUME NEW freeze \in BOOLEAN, applyInternal(q, slot, timed, penCase[p], freeze, p) PROVE PenaltyInv' /\ PenaltyGuards
      BY <2>1, <3>1, ApplyStep
    <3> QED
      BY <2>1, <3>1
  <2>3. AppealInv'
    BY <1>4, ReducedStep
  <2> QED
    BY <2>2, <2>3
<1> QED
  BY <1>1, <1>2, <1>3, <1>4
\* What the tables accept of a step.
TrustGuards ==
  /\ \A c \in CaseIds : trust_guard_case(c)
  /\ trust_guard_report
  /\ \A h \in HideIds : trust_guard_content_hide(h)
  /\ PenaltyGuards

LEMMA TrustStep ==
  ASSUME TrustInv, [TrustNext]_trustVars
  PROVE  TrustInv' /\ TrustGuards
<1> DEFINE Cases == CaseInv' /\ \A c \in CaseIds : trust_guard_case(c)
           Reports == ReportInv' /\ trust_guard_report
           Hides == HideInv' /\ \A h \in HideIds : trust_guard_content_hide(h)
           Goal == TrustInv' /\ TrustGuards
<1>t. CaseInv /\ ReportInv /\ HideInv /\ PenaltyInv /\ AppealInv
  BY DEF TrustInv
<1>g. ASSUME Cases, Reports, Hides, PenaltyInv', PenaltyGuards, AppealInv' PROVE Goal
  BY <1>g DEF TrustInv, TrustGuards
<1>c. ASSUME CaseMove PROVE Cases
  BY <1>c, <1>t, CaseStep
<1>u. ASSUME UNCHANGED caseVars PROVE CaseMove
  BY <1>u DEF CaseMove
<1>r. ASSUME UNCHANGED reportVars,
             \/ UNCHANGED caseVars
             \/ \E c \in CaseIds : \E source : openCase("appeal", source, c)
             \/ \E c \in CaseIds : \E resolution \in {"upheld", "reduced", "reversed"} : resolveCase(c, resolution)
      PROVE  Cases /\ Reports
  <2>1. CaseMove
    BY <1>r DEF CaseMove
  <2>2. UNCHANGED <<reports, openReports>>
    BY <1>r DEF reportVars
  <2>3. Reports
    BY <1>r, <1>t, <2>2, ReportsStay
  <2> QED
    BY <2>1, <2>3, <1>c
<1>h. ASSUME UNCHANGED <<hideVars, hideAppeal>>, Reports PROVE Hides
  <2>1. reports \subseteq reports'
    BY <1>h DEF trust_guard_report
  <2> QED
    BY <1>h, <1>t, <2>1, HideStep
<1>p. ASSUME UNCHANGED penaltyVars PROVE PenaltyInv' /\ PenaltyGuards /\ UNCHANGED <<penState, penReplaces>>
  BY <1>p, <1>t, SmallPenaltyStep DEF penaltyVars, penaltyRows
<1>a. ASSUME UNCHANGED penaltyVars, UNCHANGED penAppeal PROVE PenaltyInv' /\ PenaltyGuards /\ AppealInv'
  BY <1>a, <1>p, <1>t, AppealsStand
<1> HIDE DEF Cases, Hides
<1>1. CASE UNCHANGED trustVars
  <2>1. UNCHANGED <<caseVars, penaltyVars, reportVars, hideVars, penAppeal, hideAppeal>>
    BY <1>1 DEF trustVars, appealVars
  <2>2. Cases /\ Reports
    BY <2>1, <1>r
  <2> QED
    BY <2>1, <2>2, <1>h, <1>a, <1>g
<1>2. CASE PenaltyCommand \/ ExpirePenalties \/ PurgeHelp
  <2>1. UNCHANGED <<caseVars, reportVars, hideVars, hideAppeal>>
    BY <1>2 DEF PenaltyCommand, ExpirePenalties, PurgeHelp, restOfPenalties, appealVars
  <2>2. Cases /\ Reports
    BY <2>1, <1>r
  <2>3. PenaltyInv' /\ PenaltyGuards /\ AppealInv'
    BY <1>2, <1>t, PenaltySide
  <2> QED
    BY <2>1, <2>2, <2>3, <1>h, <1>g
<1>3. CASE ReportCommand
  <2>0. UNCHANGED <<penaltyVars, penAppeal, hideAppeal>>
    BY <1>3 DEF ReportCommand, appealVars
  <2>p. PenaltyInv' /\ PenaltyGuards /\ AppealInv'
    BY <2>0, <1>a
  <2>1. ASSUME NEW r \in Reporters \cup Guests, NEW i \in Items, NEW c \in CaseIds, submitReport(r, i, c) PROVE Goal
    <3>1. CaseMove /\ UNCHANGED hideVars
      BY <2>1 DEF submitReport, CaseMove
    <3>2. Reports
      BY <2>1, <1>t, SubmitStep
    <3> QED
      BY <3>1, <3>2, <2>0, <2>p, <1>c, <1>h, <1>g
  <2>2. ASSUME ForgetGuest PROVE Goal
    <3>1. UNCHANGED <<reports, openReports, hideVars, caseVars>>
      BY <2>2 DEF ForgetGuest
    <3>2. Reports
      BY <3>1, <1>t, ReportsStay
    <3> QED
      BY <3>1, <3>2, <2>0, <2>p, <1>c, <1>u, <1>h, <1>g
  <2>3. ASSUME NEW c \in CaseIds, NEW h \in HideIds, hide(c, h) PROVE Goal
    <3>1. UNCHANGED <<reportVars, caseVars>>
      BY <2>3 DEF hide
    <3>2. Cases /\ Reports
      BY <3>1, <1>r
    <3>3. reports \subseteq reports'
      BY <3>1 DEF reportVars
    <3>4. Hides
      BY <2>0, <2>3, <3>3, <1>t, HideStep DEF Hides
    <3> QED
      BY <3>2, <3>4, <2>p, <1>g
  <2>4. ASSUME NEW h \in HideIds, restore(h) PROVE Goal
    <3>1. UNCHANGED <<reportVars, caseVars>>
      BY <2>4 DEF restore
    <3>2. Cases /\ Reports
      BY <3>1, <1>r
    <3>3. reports \subseteq reports'
      BY <3>1 DEF reportVars
    <3>4. Hides
      BY <2>0, <2>4, <3>3, <1>t, HideStep DEF Hides
    <3> QED
      BY <3>2, <3>4, <2>p, <1>g
  <2>5. ASSUME NEW c \in CaseIds, NEW resolution \in {"dismissed", "actioned"},
               closeReportCase(c, resolution, \E p \in PenaltyIds : penCase[p] = c)
        PROVE  Goal
    <3>1. resolveCase(c, resolution) /\ openReports' = {r \in openReports : r[3] # c} /\ UNCHANGED <<reports, hideVars>>
      BY <2>5 DEF closeReportCase
    <3>2. CaseMove
      BY <3>1 DEF CaseMove
    <3>3. Reports
      BY <3>1, <1>t, CloseStep
    <3> QED
      BY <3>1, <3>2, <3>3, <2>0, <2>p, <1>c, <1>h, <1>g
  <2> HIDE DEF Goal
  <2> QED
    BY <1>3, <2>1, <2>2, <2>3, <2>4, <2>5 DEF ReportCommand, Goal
<1>4. CASE AppealCommand
  <2>1. ASSUME NEW p \in PenaltyIds, NEW c \in CaseIds,
               \/ submitPenaltyAppeal(p, c) \/ decideUpheld(p, c) \/ decideReversed(p, c)
               \/ \E q \in PenaltyIds, slot \in Slots, timed \in BOOLEAN : decideReduced(p, c, q, slot, timed)
        PROVE  Goal
    <3>1. /\ UNCHANGED <<reportVars, hideVars, hideAppeal>>
          /\ \/ openCase("appeal", PenaltySource(p), c)
             \/ resolveCase(c, "upheld") \/ resolveCase(c, "reversed") \/ resolveCase(c, "reduced")
      BY <2>1 DEF submitPenaltyAppeal, decideUpheld, decideReversed, decideReduced
    <3>2. Cases /\ Reports
      BY <3>1, <1>r
    <3>3. PenaltyInv' /\ PenaltyGuards /\ AppealInv'
      BY <2>1, <1>t, PenaltyAppealSide
    <3> QED
      BY <3>1, <3>2, <3>3, <1>h, <1>g
  <2>2. ASSUME NEW h \in HideIds, NEW c \in CaseIds,
               submitHideAppeal(h, c) \/ \E decision \in {"upheld", "reversed"} : decideHide(h, c, decision)
        PROVE  Goal
    <3>1. /\ UNCHANGED <<reportVars, penaltyVars, penAppeal>>
          /\ \/ openCase("appeal", HideSource(h), c)
             \/ resolveCase(c, "upheld") \/ resolveCase(c, "reversed")
      BY <2>2 DEF submitHideAppeal, decideHide
    <3>2. Cases /\ Reports
      BY <3>1, <1>r
    <3>3. reports \subseteq reports'
      BY <3>1 DEF reportVars
    <3>4. Hides
      BY <2>2, <3>3, <1>t, HideStep DEF Hides
    <3> QED
      BY <3>1, <3>2, <3>4, <1>a, <1>g
  <2> HIDE DEF Goal
  <2> QED
    BY <1>4, <2>1, <2>2 DEF AppealCommand, Goal
<1> QED
  BY <1>1, <1>2, <1>3, <1>4 DEF TrustNext

LEMMA TrustInitially == TrustInit => TrustInv
<1> SUFFICES ASSUME TrustInit PROVE TrustInv
  OBVIOUS
<1>1. CaseInv
  BY DEF TrustInit, CasesInit, CaseInv, CaseRows, trust_cases_checks, trust_cases_open_source_uidx
<1>2. ReportInv
  BY <1>1 DEF TrustInit, ReportsInit, CasesInit, ReportInv, ReportsHaveCases, CasesHaveReports, OpenReportHasOpenCase,
    trust_reports_actor_target_uidx
<1>3. HideInv
  BY DEF TrustInit, ReportsInit, HideInv, trust_content_hides_active_uidx
<1>4. /\ penState = [p \in PenaltyIds |-> "none"] /\ penKind = [p \in PenaltyIds |-> "none"]
      /\ penScope = [p \in PenaltyIds |-> "none"] /\ penReplaces = [p \in PenaltyIds |-> 0]
      /\ penCase = [p \in PenaltyIds |-> 0] /\ penTimed = {} /\ elapsed = {} /\ acknowledged = {}
      /\ capability \in {"none", "active"} /\ baseline = "active" /\ access = "active"
      /\ session = FALSE /\ published = FALSE /\ liveOrders = FALSE /\ helpLink = {}
      /\ penAppeal = [p \in PenaltyIds |-> "none"]
  BY DEF TrustInit, PenaltiesInit
<1>5. PenaltyInv
  <2>1. PenaltyRows /\ RowsAreShaped
    BY <1>4 DEF PenaltyRows, PenaltyStates, PenaltyKinds, PenaltyScopes, RowsAreShaped, EmptyRow
  <2>2. StandingTyped /\ OutOfStandingIsOut
    BY <1>4 DEF StandingTyped, Capabilities, Accesses, OutOfStandingIsOut
  <2>3. LinksAreOfAccount /\ (\A p \in PenaltyIds : trust_penalties_checks(p)) /\ trust_penalties_active_uidx
    BY <1>4 DEF LinksAreOfAccount, trust_penalties_checks, trust_penalties_active_uidx, SameSlot
  <2>4. \A p \in PenaltyIds : ~InForce(p) /\ penState[p] # "active"
    BY <1>4 DEF InForce
  <2>5. LockedOutUserHasLink
    BY <2>4 DEF LockedOutUserHasLink
  <2>6. rowsOf(activePenalties) = {} /\ rowsOf({p \in PenaltyIds : penState[p] = "active"}) = {}
    BY <2>4 DEF rowsOf, activePenalties
  <2>7. requiredCapabilityState({}) = "active" /\ requiredAccess({}) = "active" /\ withBaseline("active") = "active"
    BY <1>4 DEF requiredCapabilityState, requiredAccess, withBaseline
  <2>8. StandingMatchesPenalties
    <3>1. /\ CapabilitySeverity["active"] = 0 /\ CapabilitySeverity["none"] = 0 /\ AccessSeverity["active"] = 0
      BY Severities
    <3>2. /\ withBaseline(requiredCapabilityState(rowsOf(activePenalties))) = "active"
          /\ withBaseline(requiredCapabilityState(rowsOf({p \in PenaltyIds : penState[p] = "active"}))) = "active"
          /\ requiredAccess(rowsOf(activePenalties)) = "active"
          /\ requiredAccess(rowsOf({p \in PenaltyIds : penState[p] = "active"})) = "active"
      BY <2>6, <2>7
    <3>3. CapabilitySeverity[capability] = 0 /\ AccessSeverity[access] = 0
      BY <1>4, <3>1
    <3> QED
      BY <3>1, <3>2, <3>3 DEF StandingMatchesPenalties
  <2> QED
    BY <2>1, <2>2, <2>3, <2>5, <2>8 DEF PenaltyInv
<1>6. AppealInv
  BY <1>4 DEF AppealInv
<1> QED
  BY <1>1, <1>2, <1>3, <1>5, <1>6 DEF TrustInv

\* The standing of a user is what the penalties in force require whatever
\* commands, appeals, report cases and maintenance runs interleave, and reports,
\* help links and decided appeals agree with their cases and penalties
\* (recomputeStanding, setStanding, issueLink, decide, closeReportCase).
THEOREM StandingIsRight == FairSpec => []TrustIsConsistent
<1>1. TrustInv /\ [TrustNext]_trustVars => TrustInv'
  BY TrustStep
<1>2. TrustInv => TrustIsConsistent
  <2> SUFFICES ASSUME TrustInv PROVE TrustIsConsistent
    OBVIOUS
  <2>1. StandingMatchesPenalties /\ OutOfStandingIsOut /\ LockedOutUserHasLink /\ OpenReportHasOpenCase
    BY DEF TrustInv, PenaltyInv, ReportInv
  <2>2. DecisionTakesEffect
    BY DEF TrustInv, AppealInv, HideInv, DecisionTakesEffect
  <2> QED
    BY <2>1, <2>2 DEF TrustIsConsistent
<1> QED
  BY <1>1, <1>2, TrustInitially, PTL DEF FairSpec

\* No command of the moderation services dies on a trigger or a unique index:
\* every row a step writes is one that the tables accept (the trust_guard_*
\* triggers and the indexes of migrations 0046 to 0057).
THEOREM TriggersAreSatisfied == FairSpec => TriggersAccept
<1>1. TrustInv /\ [TrustNext]_trustVars => TrustInv'
  BY TrustStep
<1> DEFINE Accepted ==
      /\ \A c \in CaseIds : trust_guard_case(c) /\ trust_cases_checks(c)'
      /\ \A p \in PenaltyIds :
           trust_guard_penalty(p) /\ trust_penalties_checks(p)' /\ trust_help_link_guard(p)
      /\ \A h \in HideIds : trust_guard_content_hide(h)
      /\ trust_guard_report /\ capability_events_actor_check
      /\ trust_cases_open_source_uidx' /\ trust_penalties_active_uidx'
      /\ trust_content_hides_active_uidx' /\ trust_reports_actor_target_uidx'
<1>2. ASSUME TrustInv, [TrustNext]_trustVars PROVE Accepted
  <2>1. TrustInv' /\ TrustGuards
    BY <1>2, TrustStep
  <2>2. \A c \in CaseIds : trust_cases_checks(c)'
    BY <2>1 DEF TrustInv, CaseInv
  <2>3. \A p \in PenaltyIds : trust_penalties_checks(p)'
    BY <2>1 DEF TrustInv, PenaltyInv
  <2>4. /\ trust_cases_open_source_uidx' /\ trust_penalties_active_uidx'
        /\ trust_content_hides_active_uidx' /\ trust_reports_actor_target_uidx'
    BY <2>1 DEF TrustInv, CaseInv, ReportInv, HideInv, PenaltyInv
  <2> QED
    BY <2>1, <2>2, <2>3, <2>4 DEF TrustGuards, PenaltyGuards
<1>3. TrustInv /\ [TrustNext]_trustVars => [Accepted]_trustVars
  BY <1>2
<1> QED
  BY <1>1, <1>3, TrustInitially, PTL DEF FairSpec, TriggersAccept, trust_cases_checks, trust_penalties_checks
=============================================================================
