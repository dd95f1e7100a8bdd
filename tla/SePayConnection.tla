----------------------------- MODULE SePayConnection -----------------------------
(***************************************************************************)
(* One creator's connection to SePay: authorisation attempts and their      *)
(* callbacks, the binding of a bank account, the creator's changes, and the *)
(* renewal of the grant by access(), which web requests and workers call    *)
(* concurrently.                                                           *)
(*                                                                         *)
(* SePay takes a refresh token once: a token whose presentation may have    *)
(* reached the provider must not be presented again.  Every transaction     *)
(* holds the lock of the account, so it is one step; calls of the provider  *)
(* lie between steps.  Scopes, assurance and the idempotency records only   *)
(* refuse commands.                                                        *)
(***************************************************************************)
EXTENDS Naturals

CONSTANTS Runs,         \* concurrent runs of access()
          Binders,      \* concurrent runs of bindAccount()
          Accounts,     \* bank accounts of the tenant that match the destination
          MaxStarts, MaxTokens, MaxCommands, MaxFaults,
          NoRun, NoAccount

ASSUME ConnectionAssumptions ==
  /\ NoRun \notin Runs /\ NoAccount \notin Accounts
  /\ MaxStarts \in Nat /\ MaxTokens \in Nat /\ MaxCommands \in Nat /\ MaxFaults \in Nat

Attempts == 1..MaxStarts
Dead == {"none", "reconnect_required", "disconnected"}
Stored == {"setup_pending", "ready", "paused"} \cup Dead

VARIABLES
  status, version, automation,
  lease, leaseTime,       \* refreshLeaseOwner, refreshLeaseExpiresAt
  account,                \* providerAccountId of the connection
  revision, token, bound, age,  \* the current revision: its refresh token (0: none),
                          \* whether it has a binding, the age of its access token
  starts, oauthAttempt, expected, callback,  \* authorisation attempts and their callbacks
  pc, held, seenVersion, seenRevision,  \* the runs of access()
  binder, bindVersion, bindRevision,    \* the runs of bindAccount()
  issued, spent,          \* refresh tokens the provider gave out and those presented to it
  commands, faults

grantVars == <<revision, token, bound, age>>
connVars  == <<status, version, automation, lease, leaseTime, account, grantVars>>
oauthVars == <<starts, oauthAttempt, expected, callback>>
runVars   == <<pc, held, seenVersion, seenRevision>>
bindVars  == <<binder, bindVersion, bindRevision>>
tokenVars == <<issued, spent>>
vars == <<connVars, oauthVars, runVars, bindVars, tokenVars, commands, faults>>

Init ==
  /\ status = "none" /\ version = 1 /\ automation = "off" /\ account = NoAccount
  /\ lease = NoRun /\ leaseTime = "none"
  /\ revision = 0 /\ token = 0 /\ bound = "no" /\ age = "good"
  /\ starts = 0 /\ oauthAttempt = [a \in Attempts |-> "none"]
  /\ expected = [a \in Attempts |-> 0] /\ callback = [a \in Attempts |-> "none"]
  /\ pc = [p \in Runs |-> "idle"] /\ held = [p \in Runs |-> 0]
  /\ seenVersion = [p \in Runs |-> 0] /\ seenRevision = [p \in Runs |-> 0]
  /\ binder = [b \in Binders |-> NoAccount]
  /\ bindVersion = [b \in Binders |-> 0] /\ bindRevision = [b \in Binders |-> 0]
  /\ issued = 0 /\ spent = {} /\ commands = 0 /\ faults = 0

Command == commands < MaxCommands /\ commands' = commands + 1
ReleaseLease == lease' = NoRun /\ leaseTime' = "none"
NewToken == issued < MaxTokens /\ issued' = issued + 1 /\ token' = issued'
NextVersion == version' = version + 1
---------------------------------------------------------------------------
(* Authorisation. *)

\* start: whatever the connection was, it waits for a new consent, with no grant.
Start ==
  /\ starts < MaxStarts /\ starts' = starts + 1
  /\ oauthAttempt' = [oauthAttempt EXCEPT ![starts'] = "pending"]
  /\ expected' = [expected EXCEPT ![starts'] = version + 1]
  /\ status' = "setup_pending" /\ NextVersion /\ ReleaseLease
  /\ revision' = revision + 1 /\ token' = 0 /\ bound' = "no" /\ age' = "good"
  /\ UNCHANGED <<automation, account, callback, runVars, bindVars, tokenVars, commands, faults>>

\* callback: the attempt is consumed before its code is exchanged.
CallbackTake(a) ==
  /\ oauthAttempt[a] = "pending" /\ version = expected[a] /\ status = "setup_pending"
  /\ oauthAttempt' = [oauthAttempt EXCEPT ![a] = "exchanging"]
  /\ callback' = [callback EXCEPT ![a] = "taken"]
  /\ UNCHANGED <<connVars, starts, expected, runVars, bindVars, tokenVars, commands, faults>>

\* The exchange at the provider answers or fails.
Exchange(a) ==
  /\ callback[a] = "taken"
  /\ \E answer \in {"granted", "lost"} : callback' = [callback EXCEPT ![a] = answer]
  /\ UNCHANGED <<connVars, starts, oauthAttempt, expected, runVars, bindVars, tokenVars, commands, faults>>

\* What the storing transaction of callback checks.
Current(a) == version = expected[a] /\ status = "setup_pending"

\* callback stores the grant, or finds the connection changed, or fails otherwise.
CallbackStore(a) ==
  /\ callback[a] = "granted"
  /\ \/ /\ Current(a) /\ NewToken
        /\ revision' = revision + 1 /\ bound' = "no" /\ age' = "good" /\ NextVersion
        /\ oauthAttempt' = [oauthAttempt EXCEPT ![a] = "completed"]
        /\ callback' = [callback EXCEPT ![a] = "done"]
     \/ /\ callback' = [callback EXCEPT ![a] = "lost"]
        /\ UNCHANGED <<grantVars, version, oauthAttempt, issued>>
  /\ UNCHANGED <<status, automation, lease, leaseTime, account, starts, expected, runVars, bindVars,
                 spent, commands, faults>>

\* callback fails: the attempt is over, and so is the connection unless it moved on.
CallbackFail(a) ==
  /\ callback[a] = "lost" /\ callback' = [callback EXCEPT ![a] = "done"]
  /\ oauthAttempt' = [oauthAttempt EXCEPT ![a] = "failed"]
  /\ IF version = expected[a] THEN status' = "reconnect_required" /\ NextVersion
     ELSE UNCHANGED <<status, version>>
  /\ UNCHANGED <<automation, lease, leaseTime, account, grantVars, starts, expected, runVars,
                 bindVars, tokenVars, commands, faults>>
---------------------------------------------------------------------------
(* Binding. *)

\* bindAccount reads the connection; discovery at the provider follows.
BindRead(b, acc) ==
  /\ binder[b] = NoAccount /\ Command
  /\ status = "setup_pending" /\ lease = NoRun /\ token # 0 /\ age # "over"
  /\ binder' = [binder EXCEPT ![b] = acc]
  /\ bindVersion' = [bindVersion EXCEPT ![b] = version]
  /\ bindRevision' = [bindRevision EXCEPT ![b] = revision]
  /\ UNCHANGED <<connVars, oauthVars, runVars, tokenVars, faults>>

\* What the binding transaction checks.
MayBind(b) ==
  /\ version = bindVersion[b] /\ revision = bindRevision[b]
  /\ status = "setup_pending" /\ lease = NoRun
  /\ account \in {NoAccount, binder[b]}

\* bindAccount writes a revision with the grant it read, or refuses.
BindWrite(b) ==
  /\ binder[b] # NoAccount /\ binder' = [binder EXCEPT ![b] = NoAccount]
  /\ bindVersion' = [bindVersion EXCEPT ![b] = 0] /\ bindRevision' = [bindRevision EXCEPT ![b] = 0]
  /\ \/ /\ MayBind(b)
        /\ account' = binder[b] /\ revision' = revision + 1 /\ bound' = "yes"
        /\ status' = "ready" /\ NextVersion
     \/ UNCHANGED <<account, revision, bound, status, version>>
  /\ UNCHANGED <<automation, lease, leaseTime, token, age, oauthVars, runVars, tokenVars, commands,
                 faults>>
---------------------------------------------------------------------------
(* change: the creator's commands. *)

Pause ==
  /\ Command /\ status = "ready" /\ status' = "paused" /\ NextVersion
  /\ UNCHANGED <<automation, lease, leaseTime, account, grantVars, oauthVars, runVars, bindVars,
                 tokenVars, faults>>

Disconnect ==
  /\ Command /\ status # "none" /\ status' = "disconnected" /\ NextVersion /\ ReleaseLease
  /\ UNCHANGED <<automation, account, grantVars, oauthVars, runVars, bindVars, tokenVars, faults>>

\* The other changes need a bound, valid grant whose renewal is not outstanding.
GrantSettled == /\ lease = NoRun /\ token # 0 /\ bound = "yes" /\ age # "over"
           /\ status \in {"ready", "paused"}

Resume ==
  /\ Command /\ GrantSettled /\ status' = "ready" /\ NextVersion
  /\ UNCHANGED <<automation, lease, leaseTime, account, grantVars, oauthVars, runVars, bindVars,
                 tokenVars, faults>>

\* The webhook secret changes in a new revision with the same grant.
RotateSecret ==
  /\ Command /\ GrantSettled /\ revision' = revision + 1 /\ NextVersion
  /\ UNCHANGED <<status, automation, lease, leaseTime, account, token, bound, age, oauthVars,
                 runVars, bindVars, tokenVars, faults>>

EnableAutomation ==
  /\ Command /\ GrantSettled /\ status = "ready" /\ automation' = "on" /\ NextVersion
  /\ UNCHANGED <<status, lease, leaseTime, account, grantVars, oauthVars, runVars, bindVars,
                 tokenVars, faults>>
---------------------------------------------------------------------------
(* access(): renewal of the grant. *)

Usable == status \in {"ready", "setup_pending"} /\ token # 0

\* Fault model of Prepare: an expired lease is taken over.
PrepareTakeover(p) ==
  /\ pc[p] = "idle" /\ Usable /\ age # "good" /\ leaseTime # "live"
  /\ lease' = p /\ leaseTime' = "live"
  /\ pc' = [pc EXCEPT ![p] = "leased"] /\ held' = [held EXCEPT ![p] = token]
  /\ seenVersion' = [seenVersion EXCEPT ![p] = version]
  /\ seenRevision' = [seenRevision EXCEPT ![p] = revision]
  /\ UNCHANGED <<status, version, automation, account, grantVars, oauthVars, bindVars, tokenVars,
                 commands, faults>>

\* The renewal is leased; an expired lease means that the token may be spent.
Prepare(p) ==
  /\ pc[p] = "idle" /\ Usable
  /\ \/ /\ lease = NoRun /\ age # "good"
        /\ lease' = p /\ leaseTime' = "live"
        /\ pc' = [pc EXCEPT ![p] = "leased"] /\ held' = [held EXCEPT ![p] = token]
        /\ seenVersion' = [seenVersion EXCEPT ![p] = version]
        /\ seenRevision' = [seenRevision EXCEPT ![p] = revision]
        /\ UNCHANGED <<status, version>>
     \/ /\ leaseTime = "expired" /\ status' = "reconnect_required" /\ NextVersion /\ ReleaseLease
        /\ UNCHANGED runVars
  /\ UNCHANGED <<automation, account, grantVars, oauthVars, bindVars, tokenVars, commands, faults>>

\* provider.refresh: the budget refuses before the dispatch, or the token is presented.
Present(p) ==
  /\ pc[p] = "leased"
  /\ \/ pc' = [pc EXCEPT ![p] = "undispatched"] /\ UNCHANGED spent
     \/ /\ spent' = spent \cup {held[p]}
        /\ \E answer \in {"answered", "failed"} : pc' = [pc EXCEPT ![p] = answer]
  /\ UNCHANGED <<connVars, oauthVars, held, seenVersion, seenRevision, bindVars, issued, commands,
                 faults>>

\* What the storing transaction of access checks.
MayStore(p) ==
  /\ version = seenVersion[p] /\ revision = seenRevision[p]
  /\ lease = p /\ leaseTime = "live" /\ status \in {"ready", "setup_pending"}

\* The renewed grant is stored, or the run has failed.
Store(p) ==
  /\ pc[p] = "answered"
  /\ \/ /\ MayStore(p) /\ NewToken
        /\ revision' = revision + 1 /\ age' = "good" /\ NextVersion /\ ReleaseLease
        /\ pc' = [pc EXCEPT ![p] = "idle"] /\ held' = [held EXCEPT ![p] = 0]
     \/ /\ pc' = [pc EXCEPT ![p] = "failed"]
        /\ UNCHANGED <<revision, token, age, version, lease, leaseTime, held, issued>>
  /\ UNCHANGED <<status, automation, account, bound, oauthVars, seenVersion, seenRevision, bindVars,
                 spent, commands, faults>>

\* The catch block: without a dispatch the lease is given back, otherwise the
\* connection has to be made again; a run that lost its lease changes nothing.
Abandon(p) ==
  /\ pc[p] \in {"undispatched", "failed"}
  /\ pc' = [pc EXCEPT ![p] = "idle"] /\ held' = [held EXCEPT ![p] = 0]
  /\ \/ lease # p /\ UNCHANGED <<lease, leaseTime, status, version>>
     \/ lease = p /\ pc[p] = "undispatched" /\ ReleaseLease /\ UNCHANGED <<status, version>>
     \/ /\ lease = p /\ pc[p] = "failed" /\ ReleaseLease
        /\ status' = "reconnect_required" /\ NextVersion
  /\ UNCHANGED <<automation, account, grantVars, oauthVars, seenVersion, seenRevision, bindVars,
                 tokenVars, commands, faults>>
---------------------------------------------------------------------------
(* Time and crashes. *)

\* The access token comes within 30 s of its expiry, then expires.
TokenAges ==
  /\ token # 0 /\ age # "over" /\ age' = IF age = "good" THEN "due" ELSE "over"
  /\ UNCHANGED <<status, version, automation, lease, leaseTime, account, revision, token, bound,
                 oauthVars, runVars, bindVars, tokenVars, commands, faults>>

LeaseExpires ==
  /\ leaseTime = "live" /\ leaseTime' = "expired"
  /\ UNCHANGED <<status, version, automation, lease, account, grantVars, oauthVars, runVars,
                 bindVars, tokenVars, commands, faults>>

\* A process dies in access(): the lease stays behind.
Crash(p) ==
  /\ faults < MaxFaults /\ faults' = faults + 1 /\ pc[p] # "idle"
  /\ pc' = [pc EXCEPT ![p] = "idle"] /\ held' = [held EXCEPT ![p] = 0]
  /\ UNCHANGED <<connVars, oauthVars, seenVersion, seenRevision, bindVars, tokenVars, commands>>

\* A process dies in callback(): the attempt stays consumed.
CrashCallback(a) ==
  /\ faults < MaxFaults /\ faults' = faults + 1 /\ callback[a] \in {"taken", "granted", "lost"}
  /\ callback' = [callback EXCEPT ![a] = "done"]
  /\ UNCHANGED <<connVars, starts, oauthAttempt, expected, runVars, bindVars, tokenVars, commands>>

Next ==
  \/ Start \/ Pause \/ Disconnect \/ Resume \/ RotateSecret \/ EnableAutomation
  \/ TokenAges \/ LeaseExpires
  \/ \E a \in Attempts : \/ CallbackTake(a) \/ Exchange(a) \/ CallbackStore(a) \/ CallbackFail(a)
                         \/ CrashCallback(a)
  \/ \E b \in Binders : BindWrite(b) \/ \E acc \in Accounts : BindRead(b, acc)
  \/ \E p \in Runs : Prepare(p) \/ Present(p) \/ Store(p) \/ Abandon(p) \/ Crash(p)

Spec == Init /\ [][Next]_vars

\* Receipts keep asking for access() while the connection is in use; leases run out,
\* and a run goes on unless it crashes.
FairSpec ==
  /\ Spec /\ WF_vars(LeaseExpires)
  /\ \A p \in Runs : WF_vars(Prepare(p)) /\ WF_vars(Present(p) \/ Store(p) \/ Abandon(p))
---------------------------------------------------------------------------
(* Properties. *)

ConnectionType ==
  /\ status \in Stored /\ version \in Nat /\ automation \in {"on", "off"}
  /\ lease \in Runs \cup {NoRun} /\ leaseTime \in {"none", "live", "expired"}
  /\ lease = NoRun <=> leaseTime = "none"
  /\ account \in Accounts \cup {NoAccount}
  /\ revision \in Nat /\ token \in Nat /\ bound \in {"yes", "no"} /\ age \in {"good", "due", "over"}

AttemptType ==
  /\ starts \in 0..MaxStarts /\ expected \in [Attempts -> Nat]
  /\ oauthAttempt \in [Attempts -> {"none", "pending", "exchanging", "completed", "failed"}]
  /\ callback \in [Attempts -> {"none", "taken", "granted", "lost", "done"}]

RunType ==
  /\ pc \in [Runs -> {"idle", "leased", "undispatched", "answered", "failed"}]
  /\ held \in [Runs -> Nat] /\ seenVersion \in [Runs -> Nat] /\ seenRevision \in [Runs -> Nat]

BinderType ==
  /\ binder \in [Binders -> Accounts \cup {NoAccount}]
  /\ bindVersion \in [Binders -> Nat] /\ bindRevision \in [Binders -> Nat]

CountType == issued \in Nat /\ spent \subseteq Nat /\ commands \in Nat /\ faults \in Nat

\* The columns of the connection, the attempts and the runs; a lease has an owner and
\* an expiry or neither.
TypeOK == ConnectionType /\ AttemptType /\ RunType /\ BinderType /\ CountType

\* No refresh token reaches the provider twice, through crashes, pauses, reconnections
\* and answers that come after the lease.
NeverPresentedTwice ==
  [][\A p \in Runs : pc[p] = "leased" /\ pc'[p] \in {"answered", "failed"} => held[p] \notin spent]_vars

\* A grant that may be spent is out of use: its lease is held, or the creator has to
\* connect again.
SpentGrantIsFenced == token \in spent => lease # NoRun \/ status \in Dead

\* A grant in use comes from the latest consent: a callback of an earlier attempt that
\* answers late never becomes the connection.
LatestConsentHolds ==
  status \notin Dead /\ token # 0 => starts # 0 /\ oauthAttempt[starts] = "completed"

\* The connection keeps the bank account it was first bound to.
IdentityIsStable == [][account # NoAccount => account' = account]_vars

\* A renewal whose process died does not block the connection for ever.
DeadLeaseResolves == []<>(lease = NoRun \/ status # "ready")

\* The grants of a connection are fenced: no refresh token is presented twice, a grant
\* in use is unspent or leased and comes from the latest consent, and the bank account
\* stays (access, callback, start, bindAccount).
GrantsAreFenced ==
  /\ [](TypeOK /\ SpentGrantIsFenced /\ LatestConsentHolds)
  /\ NeverPresentedTwice /\ IdentityIsStable
---------------------------------------------------------------------------
(* What the database demands of a SePay connection and its authorisation
   attempts. The receiving account the connection belongs to stays verified. *)

\* sepay_guard_connection: identity is fixed once bound, a change of anything but the
\* lease has a new version, and a ready connection has a grant and a binding.
guard_connection ==
  /\ account # NoAccount => account' = account
  /\ <<status, automation, account, revision>>' # <<status, automation, account, revision>>
       => version' = version + 1
  /\ status' = "ready" => token' # 0 /\ bound' = "yes" /\ account' # NoAccount

\* sepay_guard_oauth_attempt: bound to the version it starts from, consumed once.
guard_oauth_attempt(a) ==
  \/ oauthAttempt[a] = "none" /\ oauthAttempt'[a] = "pending" /\ expected'[a] = version'
  \/ oauthAttempt[a] = "pending" /\ oauthAttempt'[a] = "exchanging"
  \/ oauthAttempt[a] = "exchanging" /\ oauthAttempt'[a] \in {"completed", "failed"}

\* The database accepts every write of the connection service: an attempt is consumed
\* once, whichever callbacks, crashes and commands raced, and what makes a connection
\* ready carries a grant and the account it was first bound to.
ConnectionGuardsAccept ==
  [][/\ connVars' # connVars => guard_connection
     /\ \A a \in Attempts : oauthAttempt'[a] # oauthAttempt[a] => guard_oauth_attempt(a)]_vars
===============================================================================
