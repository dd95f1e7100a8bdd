---------------------------- MODULE OidcSessions ----------------------------
(***************************************************************************)
(* Sign-in of one person through the identity provider (IdP): browser      *)
(* transactions, local sessions and their five-minute leases, the fences   *)
(* that back-channel and local logouts leave behind, and the sensitive     *)
(* commands a person confirms after a step-up.                             *)
(*                                                                         *)
(* The authorization version is not counted: what matters is whether an    *)
(* actor was bound at the present version, so the sets curTx, curSessions  *)
(* and curCmds hold those and every increment empties them.  Instants are  *)
(* not counted either.  An authentication is a number, "through now" is    *)
(* the set or the number of what exists now, and a session's lease ends    *)
(* when the transaction that gave it is five minutes old (aged).           *)
(***************************************************************************)
EXTENDS Naturals, FiniteSets

CONSTANTS Sids,          \* sessions of the person at the IdP
          MaxTx,         \* bound: browser transactions
          MaxSessions,   \* bound: local sessions
          MaxAuths,      \* bound: authentications at the IdP
          MaxCommands,   \* bound: pending commands
          MaxLogouts,    \* bound: back-channel logout tokens
          PendingLimit,  \* pending commands a person may hold (10 in the code)
          MailClaims,    \* what an ID token may say of the address
          MfaClaims,     \* what it may say of the second factor
          NoSid

Txs == 1 .. MaxTx
Sessions == 1 .. MaxSessions
Cmds == 1 .. MaxCommands
Tokens == 1 .. MaxLogouts

VARIABLES
  idpLive, authOf, auths, tokens,               \* the IdP
  account, mail, verified, active, owner, link, \* identity_users, _accounts, _oidc_owner_links
  txStatus, purpose, subject, asked, evidence,  \* identity_oidc_transactions
  curTx, pinned, aged, expired,
  sessions, lapsed, curSessions, holds,         \* identity_sessions, _oidc_sessions
  sidFence, subFence, localFence, seen, leaving,\* identity_oidc_revocations, _logout_events
  cmds, curCmds, oldCmds                        \* identity_oidc_pending_commands, _proof_bindings

idpVars == <<idpLive, authOf, auths, tokens>>
userVars == <<account, mail, verified, active, owner, link>>
txVars == <<txStatus, purpose, subject, asked, evidence, curTx, pinned, aged, expired>>
sessionVars == <<sessions, lapsed, curSessions, holds>>
fenceVars == <<sidFence, subFence, localFence, seen, leaving>>
cmdVars == <<cmds, curCmds, oldCmds>>
vars == <<idpVars, userVars, txVars, sessionVars, fenceVars, cmdVars>>

NoEvidence == [sid |-> NoSid, auth |-> 0, mail |-> "none", mfa |-> "none"]
NoSession == [state |-> "none", sid |-> NoSid, auth |-> 0, mfa |-> "none", tx |-> 0]
NoCommand == [state |-> "none", session |-> 0, proof |-> 0]

TypeOK ==
  /\ idpLive \subseteq Sids /\ authOf \in [Sids -> 0 .. MaxAuths] /\ auths \in 0 .. MaxAuths
  /\ account \in {"none", "user", "stranger"} /\ mail \in {"none", "a", "b"}
  /\ link \in {"none", "open", "consumed"}
  /\ txStatus \in [Txs -> {"unused", "pending", "exchanging", "consumed", "failed"}]
  /\ expired \subseteq aged /\ aged \subseteq Txs
  /\ \A s \in Sessions : sessions[s].state \in {"none", "live", "revoked"}
  /\ \A c \in Cmds : cmds[c].state \in {"none", "pending", "executed", "dropped"}

\* A person without a user row, or an owner whose row predates the IdP.
UserInit ==
  /\ mail \in {"none", "a"} /\ verified = (mail # "none") /\ owner = (mail # "none")
  /\ account = "none" /\ active = TRUE /\ link = "none"

\* No command waits for its proof.
CommandInit == cmds = [c \in Cmds |-> NoCommand] /\ curCmds = {} /\ oldCmds = {}

Init ==
  /\ idpLive = {} /\ authOf = [k \in Sids |-> 0] /\ auths = 0
  /\ tokens = [i \in Tokens |-> NoSid]
  /\ UserInit
  /\ txStatus = [t \in Txs |-> "unused"] /\ purpose = [t \in Txs |-> "login"]
  /\ subject = [t \in Txs |-> 0] /\ asked = [t \in Txs |-> 0] /\ evidence = [t \in Txs |-> NoEvidence]
  /\ curTx = {} /\ pinned = {} /\ aged = {} /\ expired = {}
  /\ sessions = [s \in Sessions |-> NoSession] /\ lapsed = {} /\ curSessions = {} /\ holds = {}
  /\ sidFence = {} /\ subFence = 0 /\ localFence = {} /\ seen = {} /\ leaving = [token |-> 0, targets |-> {}]
  /\ CommandInit

---------------------------------------------------------------------------
(* The identity provider (external).                                       *)

signInAtIdp(k) ==
  /\ auths < MaxAuths /\ auths' = auths + 1
  /\ authOf' = [authOf EXCEPT ![k] = auths + 1]
  /\ authOf[k] = 0 \/ k \in idpLive
  /\ idpLive' = idpLive \union {k}
  /\ UNCHANGED <<tokens, userVars, txVars, sessionVars, fenceVars, cmdVars>>

signOutAtIdp(k) ==
  /\ k \in idpLive /\ idpLive' = idpLive \ {k}
  /\ UNCHANGED <<authOf, auths, tokens, userVars, txVars, sessionVars, fenceVars, cmdVars>>

\* A logout token names an IdP session or, here as "sub", the whole subject.
issueLogout(i, key) ==
  /\ tokens[i] = NoSid /\ \A j \in Tokens : j < i => tokens[j] # NoSid
  /\ key # "sub" => authOf[key] > 0 /\ key \notin idpLive
  /\ tokens' = [tokens EXCEPT ![i] = key]
  /\ UNCHANGED <<idpLive, authOf, auths, userVars, txVars, sessionVars, fenceVars, cmdVars>>

---------------------------------------------------------------------------
(* Predicates of the store.                                                *)

Live(s) == sessions[s].state = "live"
Started == {t \in Txs : txStatus[t] # "unused"}
NextTx == Cardinality(Started) + 1
NextSession == Cardinality({s \in Sessions : sessions[s].state # "none"}) + 1

\* The session resolver and the actor fence of the commands, lease aside.
resolves(s) ==
  /\ active /\ verified
  /\ Live(s) /\ s \in curSessions /\ s \notin lapsed

\* Fault model of leased: a session is good until its own deadlines.
leasedAlways(s) == s \in Sessions

leased(s) == sessions[s].tx \notin aged

\* The assurance port: a session that authorizes business work is also inside
\* its lease and says whether a second factor is enrolled.
Usable(s) == resolves(s) /\ leased(s) /\ sessions[s].mfa # "unknown"

\* What is left of the sessions and their commands when ss are revoked.
revoked(ss) == [s \in Sessions |-> IF s \in ss /\ Live(s) THEN [sessions[s] EXCEPT !.state = "revoked"] ELSE sessions[s]]
dropped(ss) == [c \in Cmds |-> IF cmds[c].state = "pending" /\ cmds[c].session \in ss THEN [cmds[c] EXCEPT !.state = "dropped"] ELSE cmds[c]]

revokeOidcUserSessions(ss) == sessions' = revoked(ss) /\ cmds' = dropped(ss)

nextVersion == curTx' = {} /\ curSessions' = {} /\ curCmds' = {}

---------------------------------------------------------------------------
(* Browser transactions.                                                   *)

\* asked is the number of authentications before the second of the request:
\* ID tokens carry seconds, so the last one may fall into that second.  Only
\* assertOidcStepUp reads it.
begin(p, s) ==
  /\ NextTx \in Txs
  /\ txStatus' = [txStatus EXCEPT ![NextTx] = "pending"]
  /\ purpose' = [purpose EXCEPT ![NextTx] = p]
  /\ subject' = [subject EXCEPT ![NextTx] = s]
  /\ \E n \in IF p \in {"step_up", "owner_link"} THEN {auths, auths - 1} \cap Nat ELSE {0} : asked' = [asked EXCEPT ![NextTx] = n]
  /\ curTx' = curTx \union {NextTx} /\ pinned' = pinned \union {NextTx}
  /\ UNCHANGED <<evidence, aged, expired, idpVars, userVars, sessionVars, fenceVars, cmdVars>>

login == begin("login", 0)
lease(s) == resolves(s) /\ s \in holds /\ begin("lease_check", s)
ownerLink == link = "open" /\ active /\ begin("owner_link", 0)
stepUp(c) ==
  /\ cmds[c].state = "pending" /\ c \in curCmds /\ c \notin oldCmds
  /\ resolves(cmds[c].session) /\ cmds[c].session \in holds
  /\ begin("step_up", c)

\* The session or the command's session a transaction is bound to.
actorOf(t) == IF purpose[t] = "step_up" THEN cmds[subject[t]].session ELSE subject[t]
bound(t) == purpose[t] \in {"lease_check", "step_up"}

claim(t) ==
  /\ txStatus[t] = "pending" /\ t \notin expired
  /\ txStatus' = [txStatus EXCEPT ![t] = "exchanging"]
  /\ UNCHANGED <<purpose, subject, asked, evidence, curTx, pinned, aged, expired, idpVars, userVars, sessionVars, fenceVars, cmdVars>>

\* The IdP is unavailable, the exchange fails, another account answered.
fail(t) ==
  /\ txStatus[t] \in {"pending", "exchanging"}
  /\ txStatus' = [txStatus EXCEPT ![t] = "failed"] /\ evidence' = [evidence EXCEPT ![t] = NoEvidence]
  /\ UNCHANGED <<purpose, subject, asked, curTx, pinned, aged, expired, idpVars, userVars, sessionVars, fenceVars, cmdVars>>

\* The code is exchanged for claims about a session the IdP holds now.
exchange(t, k, m, f) ==
  /\ txStatus[t] = "exchanging" /\ evidence[t] = NoEvidence
  /\ k \in idpLive /\ m # "malformed"
  /\ bound(t) => resolves(actorOf(t)) /\ actorOf(t) \in holds /\ t \in curTx
  /\ evidence' = [evidence EXCEPT ![t] = [sid |-> k, auth |-> authOf[k], mail |-> m, mfa |-> f]]
  /\ UNCHANGED <<txStatus, purpose, subject, asked, curTx, pinned, aged, expired, idpVars, userVars, sessionVars, fenceVars, cmdVars>>

markUnverified ==
  /\ verified' = FALSE /\ nextVersion
  /\ revokeOidcUserSessions(Sessions)

\* Signed claims that cannot be normalized take the known identity down.
rejectTrustedIdentity(t, k) ==
  /\ txStatus[t] = "exchanging" /\ evidence[t] = NoEvidence /\ k \in idpLive
  /\ "malformed" \in MailClaims /\ account = "user"
  /\ bound(t) => resolves(actorOf(t)) /\ actorOf(t) \in holds /\ t \in curTx
  /\ txStatus' = [txStatus EXCEPT ![t] = "failed"]
  /\ markUnverified
  /\ UNCHANGED <<purpose, subject, asked, evidence, pinned, aged, expired, idpVars, account, mail, active, owner, link,
                 lapsed, holds, fenceVars, oldCmds>>

---------------------------------------------------------------------------
(* Accepting the evidence, in one database transaction with the end of the *)
(* browser transaction.  A denial returns, so what was written before it   *)
(* is committed.                                                           *)

mfaStatus(f) == IF f = "done" THEN "enrolled" ELSE f

\* A fresh primary authentication, with the second factor where there is one.
assertOidcStepUp(t) ==
  /\ evidence[t].mail # "unverified" /\ evidence[t].auth > asked[t]
  /\ evidence[t].mfa \in (IF owner THEN {"done"} ELSE {"absent", "done"})

\* Fault model of fenced: a logout everywhere leaves nothing for callbacks.
fencedByIdp(t) == evidence[t].sid \in sidFence \/ evidence[t].auth <= subFence

fenced(t) ==
  \/ evidence[t].sid \in sidFence
  \/ t \in localFence
  \/ evidence[t].auth <= subFence

\* A logout under way holds the advisory lock of its sid or of the subject.
scopeFree(keys) == leaving.token # 0 => tokens[leaving.token] \notin keys

BadMail == {"unverified", "taken"}

ready(t) ==
  /\ txStatus[t] = "exchanging" /\ evidence[t] # NoEvidence /\ t \notin expired
  /\ scopeFree({evidence[t].sid, "sub"})

refused(t) ==
  \/ t \in aged \/ fenced(t)
  \/ account = "stranger" \/ ~active
  \/ purpose[t] # "login" /\ t \notin curTx
  \/ purpose[t] = "login" /\ account = "none" /\ evidence[t].mail \in BadMail \union {mail}
  \/ purpose[t] = "owner_link" /\ (~owner \/ ~assertOidcStepUp(t) \/ link # "open" \/ t \notin pinned)

newAddress(t) == evidence[t].mail # mail \/ ~verified

settle(t, status) ==
  /\ txStatus' = [txStatus EXCEPT ![t] = status] /\ evidence' = [evidence EXCEPT ![t] = NoEvidence]
  /\ UNCHANGED <<purpose, subject, asked, pinned, aged, expired, idpVars, fenceVars, active, owner, lapsed, oldCmds>>

keepUser == UNCHANGED <<account, mail, verified, link>>
keepVersion == UNCHANGED <<curTx, curSessions, curCmds>>

refuse(t) ==
  /\ ready(t) /\ refused(t)
  /\ settle(t, "consumed") /\ keepUser /\ keepVersion /\ UNCHANGED <<sessions, cmds, holds>>

\* The IdP no longer vouches for the address, or another user has it.
demote(t) ==
  /\ ready(t) /\ ~refused(t) /\ (account = "user" \/ purpose[t] = "owner_link") /\ evidence[t].mail \in BadMail
  /\ markUnverified
  /\ link' = IF purpose[t] = "owner_link" THEN "consumed" ELSE link
  /\ settle(t, "consumed") /\ UNCHANGED <<account, mail, holds>>

\* The owner's subject signs in unlinked with an address nobody has: a new user.
signUpBesideOwner(t) ==
  /\ ready(t) /\ ~refused(t) /\ purpose[t] = "login" /\ account = "none" /\ mail # "none"
  /\ account' = "stranger"
  /\ settle(t, "consumed") /\ keepVersion /\ UNCHANGED <<mail, verified, link, sessions, cmds, holds>>

\* The address changed under a lease check or a step-up: every session ends.
changeAddress(t) ==
  /\ ready(t) /\ ~refused(t) /\ bound(t) /\ evidence[t].mail \notin BadMail /\ newAddress(t)
  /\ mail' = evidence[t].mail /\ verified' = TRUE /\ nextVersion
  /\ revokeOidcUserSessions(Sessions)
  /\ settle(t, "consumed") /\ UNCHANGED <<account, link, holds>>

newSession(t) == [state |-> "live", sid |-> evidence[t].sid, auth |-> evidence[t].auth, mfa |-> evidence[t].mfa, tx |-> t]

\* A login or an owner link: the row, the account and a session of its own.
signIn(t) ==
  LET rebinds == mail # "none" /\ (newAddress(t) \/ purpose[t] = "owner_link")
      admitted == ~(owner /\ evidence[t].mfa # "done")
      kept == IF rebinds THEN revoked(Sessions) ELSE sessions
  IN
  /\ ready(t) /\ ~refused(t) /\ ~bound(t) /\ evidence[t].mail \notin BadMail
  /\ purpose[t] = "login" /\ account = "none" => mail = "none"
  /\ admitted => NextSession \in Sessions
  /\ account' = "user" /\ mail' = evidence[t].mail /\ verified' = TRUE
  /\ link' = IF purpose[t] = "owner_link" THEN "consumed" ELSE link
  /\ sessions' = IF admitted THEN [kept EXCEPT ![NextSession] = newSession(t)] ELSE kept
  /\ cmds' = IF rebinds THEN dropped(Sessions) ELSE cmds
  /\ curTx' = IF rebinds THEN {} ELSE curTx
  /\ curCmds' = IF rebinds THEN {} ELSE curCmds
  /\ curSessions' = (IF rebinds THEN {} ELSE curSessions) \union (IF admitted THEN {NextSession} ELSE {})
  /\ IF admitted THEN \E got \in SUBSET {NextSession} : holds' = holds \union got ELSE holds' = holds
  /\ settle(t, "consumed")

\* Lease checks and step-ups continue the session they were begun from.
continues(t) ==
  /\ ready(t) /\ ~refused(t) /\ bound(t) /\ evidence[t].mail \notin BadMail /\ ~newAddress(t)

heldOpen(s) == Live(s) /\ s \in curSessions /\ s \notin lapsed

refuseSession(t) ==
  /\ continues(t)
  /\ ~heldOpen(actorOf(t)) \/ (purpose[t] = "step_up" /\ ~assertOidcStepUp(t))
  /\ settle(t, "consumed") /\ keepUser /\ keepVersion /\ UNCHANGED <<sessions, cmds, holds>>

checkLease(t) ==
  LET s == actorOf(t)
      same == evidence[t].sid = sessions[s].sid /\ mfaStatus(evidence[t].mfa) = mfaStatus(sessions[s].mfa)
  IN
  /\ continues(t) /\ purpose[t] = "lease_check" /\ heldOpen(s)
  /\ IF same THEN sessions' = [sessions EXCEPT ![s].tx = t] /\ cmds' = cmds ELSE revokeOidcUserSessions({s})
  /\ settle(t, "consumed") /\ keepUser /\ keepVersion /\ UNCHANGED holds

\* The command a confirmation or the end of a step-up finds and locks.
locked(c) == cmds[c].state = "pending" /\ c \in curCmds /\ c \notin oldCmds /\ resolves(cmds[c].session)

\* The token is rotated, and the browser may never receive the new one.  When
\* the command is gone the whole transaction rolls back and the attempt fails.
completeStepUp(t) ==
  LET c == subject[t]
      s == actorOf(t)
  IN
  /\ continues(t) /\ purpose[t] = "step_up" /\ heldOpen(s) /\ assertOidcStepUp(t) /\ keepUser /\ keepVersion
  /\ IF locked(c)
     THEN /\ sessions' = [sessions EXCEPT ![s] = newSession(t)]
          /\ cmds' = [cmds EXCEPT ![c].proof = t]
          /\ holds' \in {holds, holds \ {s}}
          /\ settle(t, "consumed")
     ELSE /\ settle(t, "failed") /\ UNCHANGED <<sessions, cmds, holds>>

---------------------------------------------------------------------------
(* Pending commands.                                                       *)

prepare(s) ==
  LET c == Cardinality({d \in Cmds : cmds[d].state # "none"}) + 1 IN
  /\ c \in Cmds /\ resolves(s) /\ s \in holds
  /\ Cardinality({d \in Cmds : cmds[d].state = "pending" /\ d \notin oldCmds}) < PendingLimit
  /\ cmds' = [cmds EXCEPT ![c] = [state |-> "pending", session |-> s, proof |-> 0]]
  /\ curCmds' = curCmds \union {c}
  /\ UNCHANGED <<oldCmds, idpVars, userVars, txVars, sessionVars, fenceVars>>

\* Fault model of proven: the proof is not tied to the session's evidence.
provenOnce(c) == Usable(cmds[c].session) /\ cmds[c].proof # 0 /\ sessions[cmds[c].session].mfa \in {"absent", "done"}

\* The proof is bound to the transaction the session's evidence comes from.
proven(c) ==
  LET s == cmds[c].session IN
  /\ Usable(s) /\ sessions[s].mfa \in {"absent", "done"}
  /\ cmds[c].proof # 0 /\ cmds[c].proof = sessions[s].tx

\* The request context admits the actor before the command is consumed.
authorize(c) == cmds[c].session \in holds /\ Usable(cmds[c].session)

\* consume: the confirmed command runs in the transaction that ends it.
confirm(c) ==
  /\ cmds[c].state = "pending" /\ authorize(c) /\ locked(c) /\ proven(c)
  /\ cmds' = [cmds EXCEPT ![c].state = "executed"]
  /\ UNCHANGED <<curCmds, oldCmds, idpVars, userVars, txVars, sessionVars, fenceVars>>

cancel(c) ==
  /\ locked(c) /\ cmds[c].session \in holds
  /\ cmds' = [cmds EXCEPT ![c].state = "dropped"]
  /\ UNCHANGED <<curCmds, oldCmds, idpVars, userVars, txVars, sessionVars, fenceVars>>

---------------------------------------------------------------------------
(* Logout.                                                                 *)

\* Local logout of one session; it works without the IdP and without a lease.
logoutSession(s) ==
  /\ resolves(s)
  /\ revokeOidcUserSessions({s})
  /\ UNCHANGED <<lapsed, curSessions, holds, curCmds, oldCmds, idpVars, userVars, txVars, fenceVars>>

\* Logout everywhere also fences the callbacks under way.
revokeOidcLocalSessions ==
  /\ \E s \in Sessions : resolves(s)
  /\ scopeFree({"sub"})
  /\ localFence' = localFence \union Started
  /\ nextVersion /\ revokeOidcUserSessions(Sessions)
  /\ UNCHANGED <<txStatus, purpose, subject, asked, evidence, pinned, aged, expired, idpVars, userVars,
                 lapsed, holds, sidFence, subFence, seen, leaving, oldCmds>>

covered(i) == {s \in Sessions : Live(s) /\ tokens[i] \in {"sub", sessions[s].sid}}

\* Back-channel logout: under the lock of the scope it lists the sessions ...
logout(i) ==
  /\ tokens[i] # NoSid /\ leaving.token = 0
  /\ i \notin seen
  /\ leaving' = [token |-> i, targets |-> covered(i)]
  /\ UNCHANGED <<sidFence, subFence, localFence, seen, idpVars, userVars, txVars, sessionVars, cmdVars>>

\* ... then revokes them under the user's lock and commits with the fence.
logoutCommit ==
  LET key == tokens[leaving.token] IN
  /\ leaving.token # 0
  /\ seen' = seen \union {leaving.token} /\ leaving' = [token |-> 0, targets |-> {}]
  /\ sidFence' = IF key = "sub" THEN sidFence ELSE sidFence \union {key}
  /\ subFence' = IF key = "sub" THEN auths ELSE subFence
  /\ revokeOidcUserSessions(leaving.targets)
  /\ UNCHANGED <<localFence, lapsed, curSessions, holds, curCmds, oldCmds, idpVars, userVars, txVars>>

---------------------------------------------------------------------------
(* Administration, enforcement, clocks and clean-up.                       *)

prepareOidcOwnerLink ==
  /\ owner /\ active /\ verified /\ account = "none" /\ link # "open" /\ scopeFree({"sub"})
  /\ link' = "open" /\ pinned' = {}
  /\ UNCHANGED <<account, mail, verified, active, owner, txStatus, purpose, subject, asked, evidence, curTx, aged, expired,
                 idpVars, sessionVars, fenceVars, cmdVars>>

\* An invitation lasts thirty minutes; nothing else marks its end.
linkExpires ==
  /\ link = "open" /\ link' = "consumed"
  /\ UNCHANGED <<account, mail, verified, active, owner, idpVars, txVars, sessionVars, fenceVars, cmdVars>>

\* Sessions end; their pending commands are left to the actor fence.
bootstrapOwner ==
  /\ mail # "none" /\ active /\ verified /\ ~owner
  /\ owner' = TRUE /\ nextVersion /\ sessions' = revoked(Sessions)
  /\ UNCHANGED <<account, mail, verified, active, link, txStatus, purpose, subject, asked, evidence, pinned, aged, expired,
                 idpVars, lapsed, holds, fenceVars, cmds, oldCmds>>

setAccountAccess ==
  /\ mail # "none" /\ ~owner /\ active' = ~active
  /\ nextVersion /\ revokeOidcUserSessions(Sessions)
  /\ UNCHANGED <<account, mail, verified, owner, link, txStatus, purpose, subject, asked, evidence, pinned, aged, expired,
                 idpVars, lapsed, holds, fenceVars, oldCmds>>

\* Five minutes after its start a transaction gives no lease, after ten it is over.
age(t) ==
  /\ t \in Started \ aged /\ \A u \in Started : u < t => u \in aged
  /\ aged' = aged \union {t}
  /\ UNCHANGED <<txStatus, purpose, subject, asked, evidence, curTx, pinned, expired, idpVars, userVars, sessionVars, fenceVars, cmdVars>>

expireTime(t) ==
  /\ t \in aged \ expired /\ \A u \in Started : u < t => u \in expired
  /\ txStatus[t] \in {"pending", "exchanging"} \/ \E u \in Started : u > t
  /\ expired' = expired \union {t}
  /\ UNCHANGED <<txStatus, purpose, subject, asked, evidence, curTx, pinned, aged, idpVars, userVars, sessionVars, fenceVars, cmdVars>>

\* The idle or the absolute deadline of a session passes.
lapse(s) ==
  /\ Live(s) /\ s \notin lapsed /\ lapsed' = lapsed \union {s}
  /\ UNCHANGED <<sessions, curSessions, holds, idpVars, userVars, txVars, fenceVars, cmdVars>>

lapseCommand(c) ==
  /\ cmds[c].state = "pending" /\ c \notin oldCmds /\ oldCmds' = oldCmds \union {c}
  /\ UNCHANGED <<cmds, curCmds, idpVars, userVars, txVars, sessionVars, fenceVars>>

unfinished(t) == txStatus[t] \in {"pending", "exchanging"}

expireOidcTransientData ==
  /\ \/ \E t \in expired : unfinished(t)
     \/ \E c \in oldCmds : cmds[c].state = "pending"
  /\ txStatus' = [t \in Txs |-> IF t \in expired /\ unfinished(t) THEN "failed" ELSE txStatus[t]]
  /\ evidence' = [t \in Txs |-> IF t \in expired THEN NoEvidence ELSE evidence[t]]
  /\ cmds' = [c \in Cmds |-> IF c \in oldCmds /\ cmds[c].state = "pending" THEN [cmds[c] EXCEPT !.state = "dropped"] ELSE cmds[c]]
  /\ UNCHANGED <<purpose, subject, asked, curTx, pinned, aged, expired, curCmds, oldCmds, idpVars, userVars, sessionVars, fenceVars>>

---------------------------------------------------------------------------

IdpNext ==
  \/ \E k \in Sids : signInAtIdp(k) \/ signOutAtIdp(k)
  \/ \E i \in Tokens, key \in Sids \union {"sub"} : issueLogout(i, key)

BeginNext ==
  \/ login \/ ownerLink
  \/ \E s \in Sessions : lease(s)
  \/ \E c \in Cmds : stepUp(c)

CallbackNext ==
  \E t \in Txs :
    \/ claim(t) \/ fail(t) \/ refuse(t) \/ demote(t) \/ signUpBesideOwner(t) \/ changeAddress(t)
    \/ signIn(t) \/ refuseSession(t) \/ checkLease(t) \/ completeStepUp(t)
    \/ \E k \in Sids : rejectTrustedIdentity(t, k)
    \/ \E k \in Sids, m \in MailClaims, f \in MfaClaims : exchange(t, k, m, f)

CommandNext ==
  \/ \E s \in Sessions : prepare(s) \/ logoutSession(s)
  \/ \E c \in Cmds : confirm(c) \/ cancel(c) \/ lapseCommand(c)

AdminNext ==
  \/ revokeOidcLocalSessions \/ logoutCommit \/ \E i \in Tokens : logout(i)
  \/ prepareOidcOwnerLink \/ linkExpires \/ bootstrapOwner \/ setAccountAccess

ClockNext ==
  \/ \E t \in Txs : age(t) \/ expireTime(t)
  \/ \E s \in Sessions : lapse(s)
  \/ expireOidcTransientData

Next == IdpNext \/ BeginNext \/ CallbackNext \/ CommandNext \/ AdminNext \/ ClockNext

\* Time passes and the worker's clean-up keeps running; nothing is assumed of
\* browsers, of the IdP or of the delivery of logout tokens.
Fairness ==
  /\ WF_vars(\E t \in Txs : age(t) \/ expireTime(t))
  /\ WF_vars(expireOidcTransientData)

Spec == Init /\ [][Next]_vars /\ Fairness

---------------------------------------------------------------------------
(* Properties.                                                             *)

\* A logout reaches every session it covers, in whichever order it and the
\* callbacks arrive (accept, logout and revokeOidcLocalSessions of
\* oidc-session-store.ts): no live session rests on an IdP session whose
\* logout was received, on an authentication older than a logout of the
\* subject, or on a transaction begun before a logout everywhere.
LoggedOutStaysOut ==
  \A s \in Sessions : Live(s) =>
    /\ sessions[s].sid \notin sidFence
    /\ sessions[s].auth > subFence
    /\ sessions[s].tx \notin localFence

\* A confirmed command (consume of oidc-pending-commands.ts) runs at most
\* once, in a session that is live, leased and of a verified, active user at
\* that moment, and on the evidence of a step-up that was begun for it.
ConfirmedCommandIsBacked ==
  [][\A c \in Cmds : cmds[c].state # cmds'[c].state /\ cmds'[c].state = "executed" =>
        LET s == cmds[c].session
            t == sessions[s].tx
        IN /\ cmds[c].state = "pending" /\ active /\ verified
           /\ Live(s) /\ s \in curSessions /\ s \notin lapsed /\ t \notin aged
           /\ purpose[t] = "step_up" /\ subject[t] = c]_vars

\* Once the IdP has ended a session, no local session stays usable on it even
\* when the logout token is lost: the lease runs out and a lease check finds
\* nothing to renew it (oidcLeaseDeadline, readOidcSessionEvidence).
IdpSignOutReachesHere ==
  \A k \in Sids : []<>(k \in idpLive \/ \A s \in Sessions : sessions[s].sid = k => ~Usable(s))

\* Every browser transaction ends, its verifier erased, whether its browser
\* or the instance that claimed it is gone (expireOidcTransientData).
TransactionsEnd == \A t \in Txs : []<>~unfinished(t)
=============================================================================
