------------------------------ MODULE MCAccess ------------------------------
(***************************************************************************)
(* Who may do what, for TLC: sign-in and sessions, and the trust cases     *)
(* with the penalties that take standing away.  They share no state, so    *)
(* `part` chooses what a behaviour is about, the rest stays as it begins,  *)
(* and the state spaces add instead of multiply.                           *)
(*   arrival:   a person signs up and signs in, and the address changes    *)
(*   logout:    a session exists; callbacks race the logouts               *)
(*   command:   a session exists; a command is prepared, proven, confirmed *)
(*   owner:     an owner row is linked to its subject                      *)
(*   penalties: two penalties and one case at a time, with appeals         *)
(*   reports:   reports of a user and a guest, three cases, two hides      *)
(***************************************************************************)
EXTENDS OidcSessions, Enforcement

CONSTANTS k1, k2, pk, r1, g1

VARIABLE part
mcVars == <<part, vars, trustVars>>

\* A warning, and everything that changes the standing.
PenaltySlots ==
  {<<"warning", "none">>} \cup ({"suspension", "removal"} \X {"creator_capability", "account"})

MCSids == {k1, k2}

\* One session, from a finished login of the first transaction on k1.
SignedIn ==
  /\ idpLive = {k1} /\ authOf = [k \in Sids |-> IF k = k1 THEN 1 ELSE 0] /\ auths = 1
  /\ mail = "a" /\ verified = TRUE /\ owner = FALSE /\ account = "user"
  /\ txStatus = [t \in Txs |-> IF t = 1 THEN "consumed" ELSE "unused"]
  /\ curTx = {1} /\ pinned = {1}
  /\ sessions = [s \in Sessions |-> IF s = 1 THEN [state |-> "live", sid |-> k1, auth |-> 1, mfa |-> IF part = "command" THEN "done" ELSE "absent", tx |-> 1] ELSE NoSession]
  /\ curSessions = {1} /\ holds = {1}

Rest ==
  /\ tokens = [i \in Tokens |-> NoSid] /\ active = TRUE /\ link = "none"
  /\ purpose = [t \in Txs |-> "login"] /\ subject = [t \in Txs |-> 0] /\ asked = [t \in Txs |-> 0]
  /\ evidence = [t \in Txs |-> NoEvidence] /\ aged = {} /\ expired = {} /\ lapsed = {}
  /\ sidFence = {} /\ subFence = 0 /\ localFence = {} /\ seen = {} /\ leaving = [token |-> 0, targets |-> {}]
  /\ cmds = [c \in Cmds |-> NoCommand] /\ curCmds = {} /\ oldCmds = {}

MCInit ==
  /\ \/ part \in {"arrival", "owner"} /\ Init /\ (mail # "none" <=> part = "owner")
     \/ part \in {"logout", "command"} /\ SignedIn /\ Rest
     \/ part \in {"penalties", "reports"} /\ Init /\ mail = "none"
  /\ TrustInit
  /\ part # "penalties" => capability = "active"

\* Transactions of the command part do not reach their ten minutes, so the
\* liveness properties are about the other three.
\* A part has two transactions, the command part three, and one IdP session
\* outside the logout part.
Room == part # "command" => NextTx <= 2
SceneSids == IF part = "logout" THEN Sids ELSE {k1}
SceneMail == CASE part = "arrival" -> MailClaims [] part = "owner" -> {"a", "b", "taken"} [] OTHER -> {"a"}
SceneMfa(m) == CASE part = "command" -> {"done"} [] part = "owner" /\ m = "a" -> MfaClaims [] OTHER -> {"absent"}

Round ==
  \E t \in Txs :
    \/ claim(t) \/ refuse(t) \/ signIn(t)
    \/ \E k \in SceneSids, m \in SceneMail : \E f \in SceneMfa(m) : exchange(t, k, m, f)

Address ==
  \E t \in Txs : demote(t) \/ changeAddress(t) \/ fail(t) \/ rejectTrustedIdentity(t, k1)

SignInAtIdp == (part \in {"arrival", "owner"} => auths = 0) /\ \E k \in SceneSids : signInAtIdp(k)
Leases == (Room /\ \E s \in Sessions : lease(s)) \/ \E t \in Txs : checkLease(t) \/ refuseSession(t)
Ages == (\E t \in Txs : age(t) \/ expireTime(t)) \/ expireOidcTransientData

ArrivalNext ==
  \/ SignInAtIdp \/ (Room /\ login) \/ Leases \/ Round \/ Address \/ Ages \/ setAccountAccess

LogoutNext ==
  \/ SignInAtIdp \/ (Room /\ login) \/ Leases \/ Round \/ Ages
  \/ \E k \in Sids : signOutAtIdp(k)
  \/ \E i \in Tokens, key \in Sids \union {"sub"} : issueLogout(i, key)
  \/ revokeOidcLocalSessions \/ logoutCommit \/ \E i \in Tokens : logout(i)
  \/ \E s \in Sessions : logoutSession(s)

\* The part begins and ends with its command.
CommandScene ==
  \/ \E s \in Sessions : prepare(s)
  \/ /\ \A c \in Cmds : cmds[c].state = "pending"
     /\ \/ SignInAtIdp \/ Leases \/ Round \/ expireOidcTransientData
        \/ \E t \in Txs : age(t) \/ completeStepUp(t)
        \/ \E s \in Sessions : lapse(s)
        \/ \E c \in Cmds : stepUp(c) \/ confirm(c) \/ cancel(c) \/ lapseCommand(c)
        \/ bootstrapOwner

OwnerNext ==
  \/ SignInAtIdp
  \/ (Room /\ (login \/ ownerLink)) \/ prepareOidcOwnerLink \/ linkExpires \/ Round \/ Ages
  \/ \E t \in Txs : demote(t) \/ signUpBesideOwner(t)

\* A case at a time and no reports, or no penalties at all.  With two penalties
\* there are no live orders and the emergency mode is not used.
PenaltiesBound ==
  /\ caseState'[2] = "none" /\ reports' = {}
  /\ penState'[2] # "none" => ~liveOrders' /\ mode' = "enabled"
ReportsBound   == \A p \in DOMAIN penState' : penState'[p] = "none"

MCNext ==
  \/ part = "arrival" /\ ArrivalNext /\ UNCHANGED <<part, trustVars>>
  \/ part = "logout" /\ LogoutNext /\ UNCHANGED <<part, trustVars>>
  \/ part = "command" /\ CommandScene /\ UNCHANGED <<part, trustVars>>
  \/ part = "owner" /\ OwnerNext /\ UNCHANGED <<part, trustVars>>
  \/ part = "penalties" /\ TrustNext /\ PenaltiesBound /\ UNCHANGED <<part, vars>>
  \/ part = "reports" /\ TrustNext /\ ReportsBound /\ UNCHANGED <<part, vars>>

Trusts(A) == part = "penalties" /\ A /\ UNCHANGED <<part, vars>>
SignsIn(A) == part \in {"arrival", "logout", "command", "owner"} /\ A /\ UNCHANGED <<part, trustVars>>

\* The fairness of Enforcement and of OidcSessions: the worker's maintenance runs
\* for ever, and transactions grow old.
MCSpec ==
  /\ MCInit /\ [][MCNext]_mcVars
  /\ WF_mcVars(\/ Trusts(ExpirePenalties)
               \/ SignsIn(\E t \in Txs : age(t) \/ expireTime(t)))
  /\ WF_mcVars(SignsIn(expireOidcTransientData))

\* Nothing stays open for ever: a sign-in transaction ends, an account signed out at the
\* identity provider is signed out here, and a lock-out ends with its penalty
\* (expireOidcTransientData, logoutCommit, expirePenalty).
AccessEnds == IdpSignOutReachesHere /\ TransactionsEnd /\ LockOutEnds
=============================================================================
