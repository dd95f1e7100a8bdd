--------------------------- MODULE PaymentProofs ---------------------------
(***************************************************************************)
(* Proofs about the money of a creator: SePayConnection for any number of  *)
(* runs, attempts, accounts and commands, and Refunds for any number of    *)
(* obligations and corrections and any price; and about Reminders, which   *)
(* announce its deadlines, for any number of subjects and scanners.        *)
(*                                                                         *)
(* A token stays with one run: a run that is under way holds the lease of  *)
(* the current token, or the token was replaced, or the connection is      *)
(* dead.  The debt of a ruling is a sum over rows that only a ruling or a  *)
(* correction adds to.                                                     *)
(***************************************************************************)
EXTENDS SePayConnection, Refunds, Reminders, FiniteSetTheorems, WellFoundedInduction, TLAPS

-----------------------------------------------------------------------------
(* SePayConnection.                                                        *)

\* Versions only grow, so an attempt whose version is still current is the latest, and
\* nothing has happened to the connection since it was started.
AttemptsInOrder ==
  \A a \in Attempts :
    /\ oauthAttempt[a] # "none" => a <= starts /\ expected[a] <= version
    /\ oauthAttempt[a] # "none" /\ a < starts => expected[a] < version
    /\ callback[a] \in {"taken", "granted", "lost"} => oauthAttempt[a] = "exchanging"
    /\ /\ oauthAttempt[a] \in {"pending", "exchanging"} /\ version = expected[a]
       /\ status = "setup_pending"
       => token = 0 /\ lease = NoRun

\* Tokens are numbered as they are issued.
TokensIssued ==
  /\ token <= issued /\ \A t \in spent : t <= issued /\ t # 0
  /\ \A p \in Runs : pc[p] # "idle" => held[p] <= issued /\ held[p] # 0

\* A run that is under way has the current token to itself.
HeldAlone ==
  /\ \A p \in Runs : pc[p] # "idle" => lease = p \/ held[p] # token \/ status \in Dead
  /\ \A p \in Runs : pc[p] # "idle" /\ lease = p /\ status \notin Dead => held[p] = token
  /\ \A p, q \in Runs : p # q /\ pc[p] # "idle" /\ pc[q] # "idle" => held[p] # held[q]
  /\ \A p \in Runs : pc[p] \in {"leased", "undispatched"} => held[p] \notin spent

ConnectionInv == TypeOK /\ AttemptsInOrder /\ TokensIssued /\ HeldAlone /\ SpentGrantIsFenced

---------------------------------------------------------------------------
\* The columns of the connection keep their types.
LEMMA ConnectionTypeStep ==
  ASSUME TypeOK, [Next]_vars
  PROVE  ConnectionType'
<1> USE ConnectionAssumptions
    DEF TypeOK, ConnectionType, BinderType, CountType, Stored, Dead,
        Command, NextVersion, ReleaseLease, NewToken, connVars, grantVars, oauthVars, runVars,
        bindVars, tokenVars
<1>1. CASE UNCHANGED vars
  BY <1>1 DEF vars
<1>2. CASE Start
  BY <1>2 DEF Start
<1>3. CASE Pause \/ Disconnect \/ Resume
  BY <1>3 DEF Pause, Disconnect, Resume, GrantSettled
<1>4. CASE RotateSecret \/ EnableAutomation \/ TokenAges \/ LeaseExpires
  BY <1>4 DEF RotateSecret, EnableAutomation, TokenAges, LeaseExpires, GrantSettled
<1>5. ASSUME NEW a \in Attempts, CallbackTake(a) \/ Exchange(a) \/ CrashCallback(a) \/ CallbackFail(a)
      PROVE  ConnectionType'
  BY <1>5 DEF CallbackTake, Exchange, CrashCallback, CallbackFail
<1>6. ASSUME NEW a \in Attempts, CallbackStore(a)
      PROVE  ConnectionType'
  BY <1>6 DEF CallbackStore
<1>7. ASSUME NEW b \in Binders, BindWrite(b) \/ \E acc \in Accounts : BindRead(b, acc)
      PROVE  ConnectionType'
  BY <1>7 DEF BindWrite, BindRead, MayBind
<1>8. ASSUME NEW p \in Runs, Prepare(p)
      PROVE  ConnectionType'
  BY <1>8 DEF Prepare
<1>9. ASSUME NEW p \in Runs, Present(p) \/ Crash(p)
      PROVE  ConnectionType'
  BY <1>9 DEF Present, Crash
<1>10. ASSUME NEW p \in Runs, Store(p)
      PROVE  ConnectionType'
  BY <1>10 DEF Store
<1>11. ASSUME NEW p \in Runs, Abandon(p)
      PROVE  ConnectionType'
  BY <1>11 DEF Abandon
<1> QED
  BY <1>1, <1>2, <1>3, <1>4, <1>5, <1>6, <1>7, <1>8, <1>9, <1>10, <1>11 DEF Next

\* The attempts keep their types.
LEMMA AttemptTypeStep ==
  ASSUME TypeOK, [Next]_vars
  PROVE  AttemptType'
<1> USE ConnectionAssumptions
    DEF TypeOK, AttemptType,
        Command, NextVersion, ReleaseLease, NewToken, connVars, grantVars, oauthVars, runVars,
        bindVars, tokenVars
<1>1. CASE UNCHANGED vars
  BY <1>1 DEF vars
<1>2. CASE Start
  BY <1>2 DEF Start, Attempts, ConnectionType
<1>3. CASE Pause \/ Disconnect \/ Resume \/ RotateSecret \/ EnableAutomation \/ TokenAges \/ LeaseExpires
  BY <1>3 DEF Pause, Disconnect, Resume, RotateSecret, EnableAutomation, TokenAges, LeaseExpires
<1>4. ASSUME NEW a \in Attempts, CallbackTake(a) \/ Exchange(a) \/ CrashCallback(a)
      PROVE  AttemptType'
  BY <1>4 DEF CallbackTake, Exchange, CrashCallback
<1>5. ASSUME NEW a \in Attempts, CallbackStore(a) \/ CallbackFail(a)
      PROVE  AttemptType'
  BY <1>5 DEF CallbackStore, CallbackFail
<1>6. ASSUME NEW b \in Binders, BindWrite(b) \/ \E acc \in Accounts : BindRead(b, acc)
      PROVE  AttemptType'
  BY <1>6 DEF BindWrite, BindRead
<1>7. ASSUME NEW p \in Runs, Prepare(p) \/ Present(p) \/ Store(p) \/ Abandon(p) \/ Crash(p)
      PROVE  AttemptType'
  BY <1>7 DEF Prepare, Present, Store, Abandon, Crash
<1> QED
  BY <1>1, <1>2, <1>3, <1>4, <1>5, <1>6, <1>7 DEF Next

\* The runs of access() keep their types.
LEMMA RunTypeStep ==
  ASSUME TypeOK, [Next]_vars
  PROVE  RunType'
<1> USE ConnectionAssumptions
    DEF TypeOK, RunType, ConnectionType,
        Command, NextVersion, ReleaseLease, NewToken, connVars, grantVars, oauthVars, runVars,
        bindVars, tokenVars
<1>1. CASE UNCHANGED vars
  BY <1>1 DEF vars
<1>2. CASE Start \/ Pause \/ Disconnect \/ Resume \/ RotateSecret \/ EnableAutomation \/ TokenAges \/ LeaseExpires
  BY <1>2 DEF Start, Pause, Disconnect, Resume, RotateSecret, EnableAutomation, TokenAges, LeaseExpires
<1>3. ASSUME NEW a \in Attempts, CallbackTake(a) \/ Exchange(a) \/ CallbackStore(a) \/ CallbackFail(a) \/ CrashCallback(a)
      PROVE  RunType'
  BY <1>3 DEF CallbackTake, Exchange, CallbackStore, CallbackFail, CrashCallback
<1>4. ASSUME NEW b \in Binders, BindWrite(b) \/ \E acc \in Accounts : BindRead(b, acc)
      PROVE  RunType'
  BY <1>4 DEF BindWrite, BindRead
<1>5. ASSUME NEW p \in Runs, Prepare(p)
      PROVE  RunType'
  BY <1>5 DEF Prepare
<1>6. ASSUME NEW p \in Runs, Present(p) \/ Crash(p)
      PROVE  RunType'
  BY <1>6 DEF Present, Crash
<1>7. ASSUME NEW p \in Runs, Store(p) \/ Abandon(p)
      PROVE  RunType'
  BY <1>7 DEF Store, Abandon
<1> QED
  BY <1>1, <1>2, <1>3, <1>4, <1>5, <1>6, <1>7 DEF Next

\* The runs of bindAccount() keep their types.
LEMMA BinderTypeStep ==
  ASSUME TypeOK, [Next]_vars
  PROVE  BinderType'
<1> USE ConnectionAssumptions
    DEF TypeOK, BinderType, ConnectionType,
        Command, NextVersion, ReleaseLease, NewToken, connVars, grantVars, oauthVars, runVars,
        bindVars, tokenVars
<1>1. CASE UNCHANGED vars
  BY <1>1 DEF vars
<1>2. CASE Start \/ Pause \/ Disconnect \/ Resume \/ RotateSecret \/ EnableAutomation \/ TokenAges \/ LeaseExpires
  BY <1>2 DEF Start, Pause, Disconnect, Resume, RotateSecret, EnableAutomation, TokenAges, LeaseExpires
<1>3. ASSUME NEW a \in Attempts, CallbackTake(a) \/ Exchange(a) \/ CallbackStore(a) \/ CallbackFail(a) \/ CrashCallback(a)
      PROVE  BinderType'
  BY <1>3 DEF CallbackTake, Exchange, CallbackStore, CallbackFail, CrashCallback
<1>4. ASSUME NEW b \in Binders, BindWrite(b) \/ \E acc \in Accounts : BindRead(b, acc)
      PROVE  BinderType'
  BY <1>4 DEF BindWrite, BindRead
<1>5. ASSUME NEW p \in Runs, Prepare(p) \/ Present(p) \/ Store(p) \/ Abandon(p) \/ Crash(p)
      PROVE  BinderType'
  BY <1>5 DEF Prepare, Present, Store, Abandon, Crash
<1> QED
  BY <1>1, <1>2, <1>3, <1>4, <1>5 DEF Next

\* Only a presentation adds a token, the one that the run holds.
LEMMA SpentStep ==
  ASSUME [Next]_vars
  PROVE  spent' = spent \/ \E p \in Runs : spent' = spent \cup {held[p]}
  BY DEF Next, vars, tokenVars, Start, Pause, Disconnect, Resume, RotateSecret, EnableAutomation,
         TokenAges, LeaseExpires, CallbackTake, Exchange, CallbackStore, CallbackFail, CrashCallback,
         BindRead, BindWrite, Prepare, Present, Store, Abandon, Crash

\* The counters keep their types.
LEMMA CountTypeStep ==
  ASSUME TypeOK, [Next]_vars
  PROVE  CountType'
<1>1. spent' \subseteq Nat
  <2>1. spent \subseteq Nat /\ \A p \in Runs : held[p] \in Nat
    BY DEF TypeOK, CountType, RunType
  <2>2. CASE spent' = spent
    BY <2>1, <2>2
  <2>3. ASSUME NEW p \in Runs, spent' = spent \cup {held[p]} PROVE spent' \subseteq Nat
    BY <2>1, <2>3
  <2> QED
    BY <2>2, <2>3, SpentStep
<1>2. issued' \in Nat /\ commands' \in Nat /\ faults' \in Nat
  <2> SUFFICES ASSUME issued \in Nat, commands \in Nat, faults \in Nat
               PROVE  issued' \in Nat /\ commands' \in Nat /\ faults' \in Nat
    BY DEF TypeOK, CountType
  <2> QED
    BY DEF Next, vars, tokenVars, Start, Pause, Disconnect, Resume, RotateSecret, EnableAutomation,
           TokenAges, LeaseExpires, CallbackTake, Exchange, CallbackStore, CallbackFail,
           CrashCallback, BindRead, BindWrite, Prepare, Present, Store, Abandon, Crash, Command,
           NewToken
<1> QED
  BY <1>1, <1>2 DEF CountType

LEMMA TypeStep ==
  ASSUME TypeOK, [Next]_vars
  PROVE  TypeOK'
  BY ConnectionTypeStep, AttemptTypeStep, RunTypeStep, BinderTypeStep, CountTypeStep DEF TypeOK

\* A step that neither issues nor spends a token and starts no run keeps TokensIssued.
LEMMA TokensFrame ==
  ASSUME TokensIssued, UNCHANGED <<token, issued, spent, pc, held>>
  PROVE  TokensIssued'
  BY DEF TokensIssued

\* A step that leaves the runs, the lease and the tokens alone keeps HeldAlone.
LEMMA HeldFrame ==
  ASSUME HeldAlone, UNCHANGED <<status, lease, token, spent, pc, held>>
  PROVE  HeldAlone'
  BY DEF HeldAlone, Dead

\* The whole of the inductive invariant is kept by every step.
LEMMA ConnectionStep ==
  ASSUME ConnectionInv, [Next]_vars
  PROVE  ConnectionInv'
<1> DEFINE Parts == AttemptsInOrder /\ TokensIssued /\ HeldAlone /\ SpentGrantIsFenced
<1>0. TypeOK'
  BY TypeStep DEF ConnectionInv
<1> SUFFICES Parts'
  BY <1>0 DEF ConnectionInv
<1> USE ConnectionAssumptions
    DEF ConnectionInv, TypeOK, ConnectionType, AttemptType, RunType, BinderType, CountType,
        AttemptsInOrder, TokensIssued, HeldAlone, SpentGrantIsFenced, Dead
<1>1. CASE UNCHANGED vars
  BY <1>1 DEF vars, connVars, grantVars, oauthVars, runVars, bindVars, tokenVars
<1>2. CASE Start
  <2>1. AttemptsInOrder'
    BY <1>2 DEF Start, Attempts, NextVersion, ReleaseLease, runVars, bindVars, tokenVars
  <2>2. TokensIssued'
    BY <1>2 DEF Start, Attempts, NextVersion, ReleaseLease, runVars, bindVars, tokenVars
  <2>3. HeldAlone'
    BY <1>2 DEF Start, Attempts, NextVersion, ReleaseLease, runVars, bindVars, tokenVars
  <2>4. SpentGrantIsFenced'
    BY <1>2 DEF Start, Attempts, NextVersion, ReleaseLease, runVars, bindVars, tokenVars
  <2> QED
    BY <2>1, <2>2, <2>3, <2>4
<1>3. CASE Pause \/ Disconnect \/ Resume \/ RotateSecret \/ EnableAutomation
  <2>1. AttemptsInOrder'
    BY <1>3 DEF Pause, Disconnect, Resume, RotateSecret, EnableAutomation, GrantSettled, Command,
                NextVersion, ReleaseLease, grantVars, oauthVars, runVars,
                bindVars, tokenVars
  <2>2. TokensIssued'
    <3>1. UNCHANGED <<token, issued, spent, pc, held>>
      BY <1>3 DEF Pause, Disconnect, Resume, RotateSecret, EnableAutomation, GrantSettled, grantVars,
               runVars, tokenVars
    <3> QED
      BY <3>1, TokensFrame
  <2>3. HeldAlone'
    BY <1>3 DEF Pause, Disconnect, Resume, RotateSecret, EnableAutomation, GrantSettled, Command,
                NextVersion, ReleaseLease, grantVars, oauthVars, runVars,
                bindVars, tokenVars
  <2>4. SpentGrantIsFenced'
    BY <1>3 DEF Pause, Disconnect, Resume, RotateSecret, EnableAutomation, GrantSettled, Command,
                NextVersion, ReleaseLease, grantVars, oauthVars, runVars,
                bindVars, tokenVars
  <2> QED
    BY <2>1, <2>2, <2>3, <2>4
<1>4. CASE TokenAges \/ LeaseExpires
  <2>1. AttemptsInOrder'
    BY <1>4 DEF TokenAges, LeaseExpires, grantVars, oauthVars, runVars,
                bindVars, tokenVars
  <2>2. TokensIssued'
    <3>1. UNCHANGED <<token, issued, spent, pc, held>>
      BY <1>4 DEF TokenAges, LeaseExpires, grantVars, runVars, tokenVars
    <3> QED
      BY <3>1, TokensFrame
  <2>3. HeldAlone'
    <3>1. UNCHANGED <<status, lease, token, spent, pc, held>>
      BY <1>4 DEF TokenAges, LeaseExpires, grantVars, runVars, tokenVars
    <3> QED
      BY <3>1, HeldFrame
  <2>4. SpentGrantIsFenced'
    BY <1>4 DEF TokenAges, LeaseExpires, grantVars, oauthVars, runVars,
                bindVars, tokenVars
  <2> QED
    BY <2>1, <2>2, <2>3, <2>4
<1>5. ASSUME NEW a \in Attempts, CallbackTake(a) \/ Exchange(a) \/ CrashCallback(a)
      PROVE  Parts'
  <2>1. AttemptsInOrder'
    BY <1>5 DEF CallbackTake, Exchange, CrashCallback, connVars, grantVars, oauthVars, runVars,
                bindVars, tokenVars
  <2>2. TokensIssued'
    <3>1. UNCHANGED <<token, issued, spent, pc, held>>
      BY <1>5 DEF CallbackTake, Exchange, CrashCallback, connVars, grantVars, runVars, tokenVars
    <3> QED
      BY <3>1, TokensFrame
  <2>3. HeldAlone'
    <3>1. UNCHANGED <<status, lease, token, spent, pc, held>>
      BY <1>5 DEF CallbackTake, Exchange, CrashCallback, connVars, grantVars, runVars, tokenVars
    <3> QED
      BY <3>1, HeldFrame
  <2>4. SpentGrantIsFenced'
    BY <1>5 DEF CallbackTake, Exchange, CrashCallback, connVars, grantVars, oauthVars, runVars,
                bindVars, tokenVars
  <2> QED
    BY <2>1, <2>2, <2>3, <2>4
<1>6. ASSUME NEW a \in Attempts, CallbackStore(a) PROVE Parts'
  <2>1. CASE Current(a) /\ NewToken /\ version' = version + 1 /\ callback[a] = "granted"
    <3>1. AttemptsInOrder'
      <4>1. UNCHANGED <<starts, expected, status>>
        BY <1>6 DEF CallbackStore
      <4>2. /\ oauthAttempt' = [oauthAttempt EXCEPT ![a] = "completed"]
            /\ callback' = [callback EXCEPT ![a] = "done"]
        BY <1>6, <2>1 DEF CallbackStore
      <4>3. \A x \in Attempts : x # a => oauthAttempt'[x] = oauthAttempt[x] /\ callback'[x] = callback[x]
        BY <4>2
      <4>4. /\ oauthAttempt[a] = "exchanging" /\ oauthAttempt'[a] = "completed"
            /\ callback'[a] = "done"
        BY <2>1, <4>2
      <4>5. \A x \in Attempts : oauthAttempt[x] # "none" => expected[x] < version + 1
        OBVIOUS
      <4> QED
        BY <2>1, <4>1, <4>3, <4>4, <4>5
    <3>2. TokensIssued'
      BY <1>6, <2>1 DEF CallbackStore, NewToken, NextVersion, Current, Attempts, grantVars,
                        oauthVars, runVars, bindVars
    <3>3. HeldAlone'
      BY <1>6, <2>1 DEF CallbackStore, NewToken, NextVersion, Current, Attempts, grantVars,
                        oauthVars, runVars, bindVars
    <3>4. SpentGrantIsFenced'
      BY <1>6, <2>1 DEF CallbackStore, NewToken, NextVersion, Current, Attempts, grantVars,
                        oauthVars, runVars, bindVars
    <3> QED
      BY <3>1, <3>2, <3>3, <3>4
  <2>2. CASE UNCHANGED <<grantVars, version, oauthAttempt, issued>>
    BY <1>6, <2>2 DEF CallbackStore, grantVars, oauthVars, runVars, bindVars
  <2> QED
    BY <1>6, <2>1, <2>2 DEF CallbackStore, NextVersion
<1>7. ASSUME NEW a \in Attempts, CallbackFail(a) PROVE Parts'
  BY <1>7 DEF CallbackFail, NextVersion, grantVars, oauthVars, runVars, bindVars, tokenVars
<1>8. ASSUME NEW b \in Binders, NEW acc \in Accounts, BindRead(b, acc) PROVE Parts'
  BY <1>8 DEF BindRead, Command, connVars, grantVars, oauthVars, runVars, tokenVars
<1>9. ASSUME NEW b \in Binders, BindWrite(b) PROVE Parts'
  BY <1>9 DEF BindWrite, MayBind, NextVersion, oauthVars, runVars, tokenVars
<1>10. ASSUME NEW p \in Runs, Prepare(p) PROVE Parts'
  BY <1>10 DEF Prepare, Usable, NextVersion, ReleaseLease, grantVars, oauthVars, runVars, bindVars,
               tokenVars
<1>11. ASSUME NEW p \in Runs, Present(p) \/ Crash(p) PROVE Parts'
  <2>1. AttemptsInOrder'
    BY <1>11 DEF Present, Crash, connVars, grantVars, oauthVars, runVars,
                bindVars, tokenVars
  <2>2. TokensIssued'
    <3>1. UNCHANGED <<token, issued, status, lease>>
      BY <1>11 DEF Present, Crash, connVars, grantVars, tokenVars
    <3>2. \A q \in Runs : pc'[q] # "idle" => pc[q] # "idle" /\ held'[q] = held[q]
      BY <1>11 DEF Present, Crash
    <3>3. spent' = spent \/ (pc[p] = "leased" /\ spent' = spent \cup {held[p]})
      BY <1>11 DEF Present, Crash, tokenVars
    <3>4. \A t \in spent' : t <= issued /\ t # 0
      BY <3>3
    <3> QED
      BY <3>1, <3>2, <3>4
  <2>3. HeldAlone'
    BY <1>11 DEF Present, Crash, connVars, grantVars, oauthVars, runVars,
                bindVars, tokenVars
  <2>4. SpentGrantIsFenced'
    BY <1>11 DEF Present, Crash, connVars, grantVars, oauthVars, runVars,
                bindVars, tokenVars
  <2> QED
    BY <2>1, <2>2, <2>3, <2>4
<1>12. ASSUME NEW p \in Runs, Store(p) PROVE Parts'
  BY <1>12 DEF Store, MayStore, NewToken, NextVersion, ReleaseLease, oauthVars, bindVars
<1>13. ASSUME NEW p \in Runs, Abandon(p) PROVE Parts'
  BY <1>13 DEF Abandon, NextVersion, ReleaseLease, grantVars, oauthVars, bindVars, tokenVars
<1> QED
  BY <1>1, <1>2, <1>3, <1>4, <1>5, <1>6, <1>7, <1>8, <1>9, <1>10, <1>11, <1>12, <1>13 DEF Next

LEMMA ConnectionInitial == Init => ConnectionInv
  BY ConnectionAssumptions
  DEF Init, ConnectionInv, TypeOK, ConnectionType, AttemptType, RunType, BinderType, CountType, Stored, Dead, Attempts, AttemptsInOrder, TokensIssued, HeldAlone,
      SpentGrantIsFenced

LEMMA ConnectionInvariant == Spec => []ConnectionInv
<1>1. ConnectionInv /\ [Next]_vars => ConnectionInv'
  BY ConnectionStep
<1> QED
  BY <1>1, ConnectionInitial, PTL DEF Spec
---------------------------------------------------------------------------
\* The columns of the connection, the attempts and the runs have their types.
THEOREM ConnectionTypeOK == Spec => []TypeOK
<1>1. ConnectionInv => TypeOK
  BY DEF ConnectionInv
<1> QED
  BY <1>1, ConnectionInvariant, PTL

\* A grant whose refresh token may be spent is fenced by its lease or needs a new
\* consent (access, callback, start).
THEOREM ConnectionSpentGrantIsFenced == Spec => []SpentGrantIsFenced
<1>1. ConnectionInv => SpentGrantIsFenced
  BY DEF ConnectionInv
<1> QED
  BY <1>1, ConnectionInvariant, PTL

\* access() never presents a refresh token that was presented before.
THEOREM ConnectionNeverPresentedTwice == Spec => NeverPresentedTwice
<1>1. ConnectionInv /\ [Next]_vars =>
        [\A p \in Runs : pc[p] = "leased" /\ pc'[p] \in {"answered", "failed"}
                          => held[p] \notin spent]_vars
  BY DEF ConnectionInv, HeldAlone
<1> QED
  BY <1>1, ConnectionInvariant, PTL DEF Spec, NeverPresentedTwice

\* A connection keeps the account of its first binding (bindAccount).
THEOREM ConnectionIdentityIsStable == Spec => IdentityIsStable
<1>1. TypeOK /\ [Next]_vars => [account # NoAccount => account' = account]_vars
  <2> SUFFICES ASSUME TypeOK, Next, account # NoAccount PROVE account' = account
    BY DEF vars
  <2> QED
    BY DEF Next, Start, Pause, Disconnect, Resume, RotateSecret, EnableAutomation, TokenAges,
           LeaseExpires, CallbackTake, Exchange, CallbackStore, CallbackFail, CrashCallback, BindRead,
           BindWrite, MayBind, Prepare, Present, Store, Abandon, Crash, connVars
<1> QED
  BY <1>1, ConnectionTypeOK, PTL DEF Spec, IdentityIsStable
---------------------------------------------------------------------------
\* A grant that is in use comes from the latest attempt.
LEMMA ConsentStep ==
  ASSUME ConnectionInv, LatestConsentHolds, [Next]_vars
  PROVE  LatestConsentHolds'
<1> USE ConnectionAssumptions 
    DEF ConnectionInv, TypeOK, ConnectionType, AttemptType, AttemptsInOrder, LatestConsentHolds, Dead
<1>1. CASE UNCHANGED vars
  BY <1>1 DEF vars, connVars, grantVars, oauthVars
<1>2. CASE Start
  BY <1>2 DEF Start
<1>3. CASE Pause \/ Disconnect \/ Resume \/ RotateSecret \/ EnableAutomation \/ TokenAges \/ LeaseExpires
  BY <1>3 DEF Pause, Disconnect, Resume, RotateSecret, EnableAutomation, GrantSettled, TokenAges,
              LeaseExpires, grantVars, oauthVars
<1>4. ASSUME NEW a \in Attempts, CallbackTake(a) \/ Exchange(a) \/ CrashCallback(a) \/ CallbackFail(a)
      PROVE  LatestConsentHolds'
  BY <1>4 DEF CallbackTake, Exchange, CrashCallback, CallbackFail, connVars, grantVars, Attempts
<1>5. ASSUME NEW a \in Attempts, CallbackStore(a) PROVE LatestConsentHolds'
  <2>1. CASE Current(a) /\ oauthAttempt' = [oauthAttempt EXCEPT ![a] = "completed"] /\ callback[a] = "granted"
    <3>1. a = starts
      BY <2>1 DEF Current, Attempts
    <3> QED
      BY <1>5, <2>1, <3>1 DEF CallbackStore, Attempts
  <2>2. CASE UNCHANGED <<grantVars, version, oauthAttempt, issued>>
    BY <1>5, <2>2 DEF CallbackStore, grantVars
  <2> QED
    BY <1>5, <2>1, <2>2 DEF CallbackStore
<1>6. ASSUME NEW b \in Binders, BindWrite(b) \/ \E acc \in Accounts : BindRead(b, acc)
      PROVE  LatestConsentHolds'
  BY <1>6 DEF BindWrite, BindRead, MayBind, connVars, grantVars, oauthVars
<1>7. ASSUME NEW p \in Runs, Prepare(p) \/ Present(p) \/ Crash(p) PROVE LatestConsentHolds'
  BY <1>7 DEF Prepare, Usable, Present, Crash, connVars, grantVars, oauthVars
<1>8. ASSUME NEW p \in Runs, Store(p) PROVE LatestConsentHolds'
  <2>1. CASE MayStore(p)
    <3>1. status \notin Dead /\ token # 0
      BY <1>8, <2>1 DEF Store, MayStore, HeldAlone, TokensIssued
    <3> QED
      BY <1>8, <3>1 DEF Store, oauthVars
  <2>2. CASE UNCHANGED token
    BY <1>8, <2>2 DEF Store, oauthVars
  <2> QED
    BY <1>8, <2>1, <2>2 DEF Store
<1>9. ASSUME NEW p \in Runs, Abandon(p) PROVE LatestConsentHolds'
  BY <1>9 DEF Abandon, grantVars, oauthVars
<1> QED
  BY <1>1, <1>2, <1>3, <1>4, <1>5, <1>6, <1>7, <1>8, <1>9 DEF Next

\* A late callback of an earlier attempt never becomes the connection (callback, start).
THEOREM ConnectionLatestConsent == Spec => []LatestConsentHolds
<1>1. Init => LatestConsentHolds
  BY DEF Init, LatestConsentHolds, Dead
<1>2. ConnectionInv /\ LatestConsentHolds /\ [Next]_vars => LatestConsentHolds'
  BY ConsentStep
<1> QED
  BY <1>1, <1>2, ConnectionInvariant, PTL DEF Spec

\* Grants are fenced, for every number of runs, consents and accounts.
THEOREM ConnectionGrantsAreFenced == Spec => GrantsAreFenced
  BY ConnectionTypeOK, ConnectionSpentGrantIsFenced, ConnectionLatestConsent,
     ConnectionNeverPresentedTwice, ConnectionIdentityIsStable, PTL DEF GrantsAreFenced

-----------------------------------------------------------------------------
(* What the triggers on the connection demand. *)

\* What is in use is bound, what is bound has a grant and an account, and a binding
\* that is under way read a revision with a grant.
BoundIsBacked ==
  /\ status \in {"ready", "paused"} => bound = "yes"
  /\ bound = "yes" => token # 0 /\ account # NoAccount
  /\ \A b \in Binders : bindRevision[b] <= revision
  /\ \A b \in Binders : binder[b] # NoAccount /\ bindRevision[b] = revision => token # 0

\* A new token is a positive number, and a binding that is still current has one.
LEMMA BackedStep ==
  ASSUME ConnectionInv, BoundIsBacked, [Next]_vars
  PROVE  BoundIsBacked'
<1> USE ConnectionAssumptions
    DEF ConnectionInv, TypeOK, ConnectionType, BinderType, CountType, BoundIsBacked
<1>1. CASE UNCHANGED vars
  BY <1>1 DEF vars, connVars, grantVars, bindVars
<1>2. CASE Start
  BY <1>2 DEF Start, bindVars
<1>3. CASE Pause \/ Disconnect \/ Resume \/ RotateSecret \/ EnableAutomation \/ TokenAges \/ LeaseExpires
  BY <1>3 DEF Pause, Disconnect, Resume, RotateSecret, EnableAutomation, GrantSettled, TokenAges,
              LeaseExpires, grantVars, bindVars
<1>4. ASSUME NEW a \in Attempts, CallbackTake(a) \/ Exchange(a) \/ CrashCallback(a) \/ CallbackFail(a)
      PROVE  BoundIsBacked'
  BY <1>4 DEF CallbackTake, Exchange, CrashCallback, CallbackFail, connVars, grantVars, bindVars
<1>5. ASSUME NEW a \in Attempts, CallbackStore(a) PROVE BoundIsBacked'
  <2>1. CASE Current(a) /\ NewToken /\ revision' = revision + 1 /\ bound' = "no"
    <3>1. token' # 0 /\ status' = "setup_pending"
      BY <1>5, <2>1 DEF CallbackStore, Current, NewToken
    <3> QED
      BY <1>5, <2>1, <3>1 DEF CallbackStore, bindVars
  <2>2. CASE UNCHANGED grantVars
    BY <1>5, <2>2 DEF CallbackStore, grantVars, bindVars
  <2> QED
    BY <1>5, <2>1, <2>2 DEF CallbackStore
<1>6. ASSUME NEW b \in Binders, NEW acc \in Accounts, BindRead(b, acc) PROVE BoundIsBacked'
  BY <1>6 DEF BindRead, connVars, grantVars
<1>7. ASSUME NEW b \in Binders, BindWrite(b) PROVE BoundIsBacked'
  <2>1. CASE MayBind(b) /\ account' = binder[b] /\ revision' = revision + 1 /\ bound' = "yes"
    <3>1. token' = token /\ token # 0 /\ account' # NoAccount
      BY <1>7, <2>1 DEF BindWrite, MayBind
    <3> QED
      BY <1>7, <2>1, <3>1 DEF BindWrite
  <2>2. CASE UNCHANGED <<account, revision, bound, status, version>>
    BY <1>7, <2>2 DEF BindWrite
  <2> QED
    BY <1>7, <2>1, <2>2 DEF BindWrite
<1>8. ASSUME NEW p \in Runs, Prepare(p) \/ Present(p) \/ Crash(p) \/ Abandon(p) PROVE BoundIsBacked'
  BY <1>8 DEF Prepare, Present, Crash, Abandon, connVars, grantVars, bindVars
<1>9. ASSUME NEW p \in Runs, Store(p) PROVE BoundIsBacked'
  <2>1. CASE NewToken /\ revision' = revision + 1
    <3>1. token' # 0
      BY <2>1 DEF NewToken
    <3> QED
      BY <1>9, <2>1, <3>1 DEF Store, bindVars
  <2>2. CASE UNCHANGED <<revision, token>>
    BY <1>9, <2>2 DEF Store, bindVars
  <2> QED
    BY <1>9, <2>1, <2>2 DEF Store
<1> QED
  BY <1>1, <1>2, <1>3, <1>4, <1>5, <1>6, <1>7, <1>8, <1>9 DEF Next

\* The database demands nothing of the connection that a step does not fulfil.
LEMMA ConnectionAccepted ==
  ASSUME ConnectionInv, BoundIsBacked, BoundIsBacked', [Next]_vars, connVars' # connVars
  PROVE  guard_connection
<1> USE DEF ConnectionInv, TypeOK, ConnectionType, CountType
<1>1. account # NoAccount => account' = account
  BY DEF Next, Start, Pause, Disconnect, Resume, RotateSecret, EnableAutomation, TokenAges,
         LeaseExpires, CallbackTake, Exchange, CallbackStore, CallbackFail, CrashCallback, BindRead,
         BindWrite, MayBind, Prepare, Present, Store, Abandon, Crash, connVars, vars
<1>2. <<status, automation, account, revision>>' # <<status, automation, account, revision>>
        => version' = version + 1
  BY DEF Next, Start, Pause, Disconnect, Resume, RotateSecret, EnableAutomation, TokenAges,
         LeaseExpires, CallbackTake, Exchange, CallbackStore, CallbackFail, CrashCallback, BindRead,
         BindWrite, Prepare, Present, Store, Abandon, Crash, NextVersion, connVars, grantVars, vars
<1>3. status' = "ready" => token' # 0 /\ bound' = "yes" /\ account' # NoAccount
  BY DEF BoundIsBacked
<1> QED
  BY <1>1, <1>2, <1>3 DEF guard_connection

\* An attempt goes from its start over its callback to its end, each time once.
LEMMA AttemptAccepted ==
  ASSUME ConnectionInv, [Next]_vars, NEW a \in Attempts, oauthAttempt'[a] # oauthAttempt[a]
  PROVE  guard_oauth_attempt(a)
<1> USE DEF ConnectionInv, TypeOK, ConnectionType, AttemptType, AttemptsInOrder, guard_oauth_attempt
<1>1. CASE Start
  <2>1. a = starts' /\ oauthAttempt'[a] = "pending" /\ expected'[a] = version'
    BY <1>1 DEF Start, NextVersion
  <2>2. oauthAttempt[a] = "none"
    BY <1>1, <2>1 DEF Start, Attempts
  <2> QED
    BY <2>1, <2>2
<1>2. ASSUME NEW b \in Attempts, CallbackTake(b) \/ CallbackStore(b) \/ CallbackFail(b)
      PROVE  guard_oauth_attempt(a)
  BY <1>2 DEF CallbackTake, CallbackStore, CallbackFail
<1> QED
  BY <1>1, <1>2
  DEF Next, Pause, Disconnect, Resume, RotateSecret, EnableAutomation, TokenAges, LeaseExpires, Exchange,
      CrashCallback, BindRead, BindWrite, Prepare, Present, Store, Abandon, Crash, oauthVars, vars

\* The triggers of a connection and its attempts never refuse what start, callback,
\* bindAccount, change and access write.
THEOREM ConnectionIsAccepted == Spec => ConnectionGuardsAccept
<1>1. Init => BoundIsBacked
  BY DEF Init, BoundIsBacked
<1>2. ConnectionInv /\ BoundIsBacked /\ [Next]_vars => BoundIsBacked'
  BY BackedStep
<1>3. ConnectionInv /\ BoundIsBacked /\ BoundIsBacked' /\ [Next]_vars =>
        [/\ connVars' # connVars => guard_connection
         /\ \A a \in Attempts : oauthAttempt'[a] # oauthAttempt[a] => guard_oauth_attempt(a)]_vars
  BY ConnectionAccepted, AttemptAccepted
<1> QED
  BY <1>1, <1>2, <1>3, ConnectionInvariant, PTL DEF Spec, ConnectionGuardsAccept

-----------------------------------------------------------------------------
(* Refunds.                                                                *)

\* Rows are numbered as they are created, and a ruling comes before what it owes.
RowsInOrder ==
  /\ created = 1 .. Cardinality(created)
  /\ \A o \in Obligations : source[o] = "none" <=> state[o] = "none"
  /\ ruling = <<>> => \A o \in created : source[o] \notin RulingSource

RefundInv == RefundCasesAgree /\ RowsInOrder

-----------------------------------------------------------------------------
(* Sums over the obligations.                                              *)

Rows == Cardinality(Obligations)

\* A function that adds a weight up, row after row.
Adds(upTo, weight, n) ==
  /\ upTo \in [0 .. n -> Nat] /\ upTo[0] = 0
  /\ \A k \in 1 .. n : upTo[k] = upTo[k - 1] + weight[k]

\* What holds of 0 and of the successor of each number up to n holds up to n.
LEMMA UpTo ==
  ASSUME NEW n \in Nat, NEW S, 0 \in S, \A k \in 1 .. n : k - 1 \in S => k \in S
  PROVE  0 .. n \subseteq S
<1> DEFINE T == {k \in 0 .. n : k \notin S}
           R == OpToRel(<, Nat)
<1> SUFFICES ASSUME T # {} PROVE FALSE
  OBVIOUS
<1>1. T \subseteq Nat
  OBVIOUS
<1>2. IsWellFoundedOn(R, Nat)
  BY NatLessThanWellFounded DEF OpToRel
<1>3. \A i, k \in Nat : i < k => <<i, k>> \in R
  BY DEF OpToRel
<1> HIDE DEF R
<1>4. \E m \in T : \A k \in T : ~ (<<k, m>> \in R)
  <2> HIDE DEF T
  <2> QED
    BY <1>1, <1>2, WFMin
<1>5. PICK m \in T : \A k \in T : ~ (<<k, m>> \in R)
  BY <1>4
<1>6. m \in 1 .. n /\ m - 1 \in 0 .. n /\ m - 1 < m
  BY <1>5
<1>7. m - 1 \notin T
  BY <1>3, <1>5, <1>6, <1>1
<1> QED
  BY <1>5, <1>6, <1>7

\* Every weight can be added up.
LEMMA AddsExists ==
  ASSUME NEW n \in Nat, NEW weight \in [1 .. n -> Nat]
  PROVE  \E upTo : Adds(upTo, weight, n)
<1> DEFINE S == {k \in 0 .. n : \E upTo : Adds(upTo, weight, k)}
<1>1. 0 \in S
  <2>1. Adds([k \in 0 .. 0 |-> 0], weight, 0)
    BY DEF Adds
  <2> QED
    BY <2>1
<1>2. ASSUME NEW k \in 1 .. n, k - 1 \in S PROVE k \in S
  <2>1. PICK g : Adds(g, weight, k - 1)
    BY <1>2
  <2> DEFINE h == [j \in 0 .. k |-> IF j = k THEN g[k - 1] + weight[k] ELSE g[j]]
  <2>2. g \in [0 .. (k - 1) -> Nat] /\ weight[k] \in Nat
    BY <2>1 DEF Adds
  <2>3. g[k - 1] \in Nat /\ h[k] = g[k - 1] + weight[k]
    BY <2>2
  <2>4. \A j \in 0 .. (k - 1) : h[j] = g[j] /\ g[j] \in Nat
    BY <2>2
  <2>5. h \in [0 .. k -> Nat]
    BY <2>2, <2>3
  <2>6. h[0] = 0
    BY <2>1, <2>4 DEF Adds
  <2>7. ASSUME NEW j \in 1 .. k PROVE h[j] = h[j - 1] + weight[j]
    <3>1. CASE j = k
      BY <3>1, <2>3, <2>4
    <3>2. CASE j # k
      <4>1. j \in 1 .. (k - 1) /\ j \in 0 .. (k - 1) /\ j - 1 \in 0 .. (k - 1)
        BY <3>2
      <4>2. g[j] = g[j - 1] + weight[j]
        BY <4>1, <2>1 DEF Adds
      <4> QED
        BY <4>1, <4>2, <2>4
    <3> QED
      BY <3>1, <3>2
  <2>8. Adds(h, weight, k)
    <3> HIDE DEF h
    <3> QED
      BY <2>5, <2>6, <2>7 DEF Adds
  <2> QED
    BY <2>8
<1>3. 0 .. n \subseteq S
  <2> HIDE DEF S
  <2> QED
    BY <1>1, <1>2, UpTo
<1> QED
  BY <1>3

\* The recursive function of sum is the one that adds up.
LEMMA SumAddsUp ==
  ASSUME NEW weight \in [Obligations -> Nat]
  PROVE  Rows \in Nat /\ \E upTo : Adds(upTo, weight, Rows) /\ sum(weight) = upTo[Rows]
<1>1. Rows \in Nat /\ Obligations = 1 .. Rows
  BY RefundConstants, FS_CardinalityType DEF Rows
<1> DEFINE F(g) == [k \in 0 .. Rows |-> IF k = 0 THEN 0 ELSE g[k - 1] + weight[k]]
           upTo == CHOOSE g : g = F(g)
<1>2. sum(weight) = upTo[Rows]
  BY DEF sum, Rows
<1>3. PICK a : Adds(a, weight, Rows)
  BY <1>1, AddsExists
<1>4. a = F(a)
  <2>1. ASSUME NEW k \in 0 .. Rows PROVE a[k] = F(a)[k]
    BY <1>1, <1>3 DEF Adds
  <2> QED
    BY <1>3, <2>1 DEF Adds
<1>5. upTo = F(upTo)
  <2> HIDE DEF F
  <2> QED
    BY <1>4
<1> HIDE DEF upTo
<1>6. DOMAIN upTo = 0 .. Rows /\ upTo[0] = 0
  BY <1>1, <1>5
<1>7. \A k \in 1 .. Rows : upTo[k] = upTo[k - 1] + weight[k]
  BY <1>1, <1>5
<1>8. 0 .. Rows \subseteq {k \in 0 .. Rows : upTo[k] \in Nat}
  <2>1. 0 \in {k \in 0 .. Rows : upTo[k] \in Nat}
    BY <1>1, <1>6
  <2>2. ASSUME NEW k \in 1 .. Rows, k - 1 \in {j \in 0 .. Rows : upTo[j] \in Nat}
        PROVE  k \in {j \in 0 .. Rows : upTo[j] \in Nat}
    BY <1>1, <1>7, <2>2
  <2> QED
    BY <1>1, <2>1, <2>2, UpTo
<1>9. upTo \in [0 .. Rows -> Nat]
  BY <1>5, <1>8
<1> QED
  BY <1>1, <1>2, <1>6, <1>7, <1>9 DEF Adds

LEMMA SumType == ASSUME NEW weight \in [Obligations -> Nat] PROVE sum(weight) \in Nat
  BY SumAddsUp DEF Adds

\* A smaller weight has a smaller sum.
LEMMA SumMonotone ==
  ASSUME NEW v \in [Obligations -> Nat], NEW w \in [Obligations -> Nat],
         \A o \in Obligations : v[o] <= w[o]
  PROVE  sum(v) <= sum(w)
<1>1. Rows \in Nat /\ Obligations = 1 .. Rows
  BY RefundConstants, FS_CardinalityType DEF Rows
<1>2. PICK a : Adds(a, v, Rows) /\ sum(v) = a[Rows]
  BY SumAddsUp
<1>3. PICK b : Adds(b, w, Rows) /\ sum(w) = b[Rows]
  BY SumAddsUp
<1> DEFINE S == {k \in 0 .. Rows : a[k] <= b[k]}
<1>4. 0 \in S
  BY <1>1, <1>2, <1>3 DEF Adds
<1>5. ASSUME NEW k \in 1 .. Rows, k - 1 \in S PROVE k \in S
  <2>1. a[k - 1] <= b[k - 1] /\ v[k] <= w[k] /\ v[k] \in Nat /\ w[k] \in Nat
    BY <1>1, <1>5
  <2>2. k \in 0 .. Rows /\ k - 1 \in 0 .. Rows
    BY <1>1
  <2>3. a \in [0 .. Rows -> Nat] /\ b \in [0 .. Rows -> Nat]
    BY <1>2, <1>3 DEF Adds
  <2>4. a[k - 1] \in Nat /\ b[k - 1] \in Nat
    BY <2>2, <2>3
  <2>5. a[k] = a[k - 1] + v[k] /\ b[k] = b[k - 1] + w[k]
    BY <1>2, <1>3 DEF Adds
  <2>6. a[k] <= b[k]
    BY <2>1, <2>4, <2>5
  <2> QED
    BY <2>2, <2>6
<1>6. 0 .. Rows \subseteq S
  <2> HIDE DEF S
  <2> QED
    BY <1>1, <1>4, <1>5, UpTo
<1> QED
  BY <1>1, <1>2, <1>3, <1>6

\* The sum grows by what one row adds.
LEMMA SumOfOneMore ==
  ASSUME NEW v \in [Obligations -> Nat], NEW w \in [Obligations -> Nat],
         NEW x \in Obligations, NEW d \in Nat,
         w[x] = v[x] + d, \A o \in Obligations \ {x} : w[o] = v[o]
  PROVE  sum(w) = sum(v) + d
<1>1. Rows \in Nat /\ Obligations = 1 .. Rows /\ x \in 1 .. Rows
  BY RefundConstants, FS_CardinalityType DEF Rows
<1>2. PICK a : Adds(a, v, Rows) /\ sum(v) = a[Rows]
  BY SumAddsUp
<1>3. PICK b : Adds(b, w, Rows) /\ sum(w) = b[Rows]
  BY SumAddsUp
<1> DEFINE S == {k \in 0 .. Rows : b[k] = a[k] + (IF k < x THEN 0 ELSE d)}
<1>4. 0 \in S
  BY <1>1, <1>2, <1>3 DEF Adds
<1>5. ASSUME NEW k \in 1 .. Rows, k - 1 \in S PROVE k \in S
  <2>1. b[k - 1] = a[k - 1] + (IF k - 1 < x THEN 0 ELSE d)
    BY <1>1, <1>5
  <2>2. k \in Obligations /\ v[k] \in Nat /\ w[k] \in Nat
    BY <1>1
  <2>3. w[k] = v[k] + (IF k = x THEN d ELSE 0)
    <3>1. CASE k = x
      BY <3>1
    <3>2. CASE k # x
      <4>1. k \in Obligations \ {x}
        BY <2>2, <3>2
      <4>2. w[k] = v[k]
        BY <4>1
      <4> QED
        BY <4>2, <3>2, <2>2
    <3> QED
      BY <3>1, <3>2
  <2>4. k \in 0 .. Rows /\ k - 1 \in 0 .. Rows
    BY <1>1
  <2>5. a \in [0 .. Rows -> Nat] /\ b \in [0 .. Rows -> Nat]
    BY <1>2, <1>3 DEF Adds
  <2>6. a[k - 1] \in Nat /\ b[k - 1] \in Nat
    BY <2>4, <2>5
  <2>7. a[k] = a[k - 1] + v[k] /\ b[k] = b[k - 1] + w[k]
    BY <1>2, <1>3 DEF Adds
  <2>8. b[k] = a[k] + (IF k < x THEN 0 ELSE d)
    <3>1. k \in Int /\ x \in Int
      BY <1>1
    <3>2. CASE k < x
      BY <3>1, <3>2, <2>1, <2>2, <2>3, <2>6, <2>7
    <3>3. CASE k = x
      BY <3>1, <3>3, <2>1, <2>2, <2>3, <2>6, <2>7
    <3>4. CASE k > x
      BY <3>1, <3>4, <2>1, <2>2, <2>3, <2>6, <2>7
    <3> QED
      BY <3>1, <3>2, <3>3, <3>4
  <2> QED
    BY <2>4, <2>8
<1>6. 0 .. Rows \subseteq S
  <2> HIDE DEF S
  <2> QED
    BY <1>1, <1>4, <1>5, UpTo
<1> QED
  BY <1>1, <1>2, <1>3, <1>6
\* No weight, no sum.
LEMMA SumOfNothing ==
  ASSUME NEW v \in [Obligations -> Nat], \A o \in Obligations : v[o] = 0
  PROVE  sum(v) = 0
<1>1. Rows \in Nat /\ Obligations = 1 .. Rows
  BY RefundConstants, FS_CardinalityType DEF Rows
<1>2. PICK a : Adds(a, v, Rows) /\ sum(v) = a[Rows]
  BY SumAddsUp
<1> DEFINE S == {k \in 0 .. Rows : a[k] = 0}
<1>3. 0 \in S
  BY <1>1, <1>2 DEF Adds
<1>4. ASSUME NEW k \in 1 .. Rows, k - 1 \in S PROVE k \in S
  <2>1. a[k - 1] = 0 /\ v[k] = 0 /\ k \in 0 .. Rows
    BY <1>1, <1>4
  <2>2. a[k] = a[k - 1] + v[k]
    BY <1>2 DEF Adds
  <2> QED
    BY <2>1, <2>2
<1>5. 0 .. Rows \subseteq S
  <2> HIDE DEF S
  <2> QED
    BY <1>1, <1>3, <1>4, UpTo
<1> QED
  BY <1>1, <1>2, <1>5

-----------------------------------------------------------------------------
(* Debts.                                                                  *)

\* What the counted obligations weigh in a state.
Weight(os, f) == [o \in Obligations |-> IF o \in os THEN f[o] ELSE 0]

LEMMA WeightType ==
  ASSUME NEW os, NEW f \in [Obligations -> 0 .. Amount]
  PROVE  Weight(os, f) \in [Obligations -> Nat]
  BY RefundConstants DEF Weight

\* Totals are natural numbers.
LEMMA TotalType ==
  ASSUME RefundTypeOK, NEW os
  PROVE  total(os) \in Nat
<1>1. Weight(os, amount) \in [Obligations -> Nat]
  BY WeightType DEF RefundTypeOK
<1> QED
  BY <1>1, SumType DEF total, Weight

\* What is counted does not grow when amounts and obligations only shrink.
LEMMA DebtShrinks ==
  ASSUME RefundTypeOK, RefundTypeOK',
         NEW S, NEW T, S \subseteq T,
         \A o \in S : amount'[o] <= amount[o]
  PROVE  sum(Weight(S, amount')) <= sum(Weight(T, amount))
<1> DEFINE v == Weight(S, amount')
           w == Weight(T, amount)
<1>1. v \in [Obligations -> Nat] /\ w \in [Obligations -> Nat]
  BY WeightType DEF RefundTypeOK
<1>2. ASSUME NEW o \in Obligations PROVE v[o] <= w[o]
  <2>1. v[o] = (IF o \in S THEN amount'[o] ELSE 0) /\ w[o] = (IF o \in T THEN amount[o] ELSE 0)
    BY DEF Weight
  <2>2. w[o] \in Nat
    BY <1>1
  <2> QED
    BY <2>1, <2>2
<1> HIDE DEF v, w
<1> QED
  BY <1>1, <1>2, SumMonotone DEF v, w

\* One obligation more adds its amount.
LEMMA DebtOfOneMore ==
  ASSUME RefundTypeOK, RefundTypeOK',
         NEW x \in Obligations, NEW S, NEW d \in Nat, x \notin S,
         amount' = [amount EXCEPT ![x] = d]
  PROVE  sum(Weight(S \cup {x}, amount')) = sum(Weight(S, amount)) + d
<1> DEFINE v == Weight(S, amount)
           w == Weight(S \cup {x}, amount')
<1>1. v \in [Obligations -> Nat] /\ w \in [Obligations -> Nat]
  BY WeightType DEF RefundTypeOK
<1>2. w[x] = d /\ v[x] = 0
  BY DEF Weight, RefundTypeOK
<1>3. \A o \in Obligations \ {x} : w[o] = v[o]
  BY DEF Weight, RefundTypeOK
<1> HIDE DEF v, w
<1>4. sum(w) = sum(v) + d
  BY <1>1, <1>2, <1>3, SumOfOneMore
<1> QED
  BY <1>4 DEF v, w
\* Nothing is owed before anything is counted.
LEMMA NoDebt ==
  ASSUME RefundTypeOK
  PROVE  sum(Weight({}, amount)) = 0
<1>1. Weight({}, amount) \in [Obligations -> Nat]
  BY WeightType DEF RefundTypeOK
<1>2. \A o \in Obligations : Weight({}, amount)[o] = 0
  BY DEF Weight
<1> QED
  BY <1>1, <1>2, SumOfNothing

-----------------------------------------------------------------------------
(* What the two commands that write several rows do.                       *)

\* A new obligation takes the next row (createObligation).
LEMMA CreateStep ==
  ASSUME RefundTypeOK, RowsInOrder,
         NEW src \in Sources \ {"none"}, NEW vnd \in 0 .. Amount, createObligation(src, vnd)
  PROVE  /\ nextObligation \in Obligations \ created
         /\ source[nextObligation] = "none" /\ state[nextObligation] = "none"
         /\ created' = created \cup {nextObligation}
         /\ created' = 1 .. Cardinality(created')
         /\ \A o \in Obligations : source'[o] = "none" <=> state'[o] = "none"
<1> DEFINE n == Cardinality(created)
<1>1. IsFiniteSet(created) /\ n \in Nat
  <2>1. created \subseteq Obligations
    BY DEF created
  <2> QED
    BY <2>1, RefundConstants, FS_Subset, FS_CardinalityType
<1>2. created = 1 .. n /\ nextObligation = n + 1 /\ nextObligation \in Obligations
  BY DEF RowsInOrder, nextObligation, createObligation
<1>3. nextObligation \notin created
  BY <1>1, <1>2
<1>4. source[nextObligation] = "none" /\ state[nextObligation] = "none"
  BY <1>2, <1>3 DEF created, RowsInOrder
<1>5. source' = [source EXCEPT ![nextObligation] = src]
  BY DEF createObligation
<1>6. created' = created \cup {nextObligation}
  BY <1>2, <1>5 DEF created, RefundTypeOK
<1>7. created' = 1 .. (n + 1)
  BY <1>1, <1>2, <1>6
<1>8. Cardinality(created') = n + 1
  BY <1>1, <1>3, <1>6, FS_AddElement
<1>9. ASSUME NEW o \in Obligations PROVE source'[o] = "none" <=> state'[o] = "none"
  BY <1>2 DEF createObligation, RowsInOrder, RefundTypeOK
<1> QED
  BY <1>2, <1>3, <1>4, <1>6, <1>7, <1>8, <1>9

\* A reduction lowers what has not been sent and waives what it uses up (adjustAmount).
LEMMA AdjustStep ==
  ASSUME RefundTypeOK, NEW reduction \in Int, adjustAmount(reduction)
  PROVE  /\ \E gone \in SUBSET adjustable :
               /\ state' = [o \in Obligations |-> IF o \in gone THEN "waived" ELSE state[o]]
               /\ overdue' = overdue \ gone
         /\ amount' \in [Obligations -> 0 .. Amount]
         /\ \A o \in Obligations : amount'[o] <= amount[o]
         /\ \A o \in Obligations : amount'[o] # amount[o] => o \in adjustable
         /\ UNCHANGED <<source, sent, due, confirm, purged, denied>>
<1> DEFINE newer(o) == total({q \in adjustable : q > o})
           cut(o)   == IF o \in adjustable THEN Min({amount[o], monus(reduction, newer(o))}) ELSE 0
           gone     == {o \in adjustable : cut(o) = amount[o]}
<1>1. ASSUME NEW o \in Obligations
      PROVE  cut(o) \in 0 .. amount[o]
  <2>1. amount[o] \in Nat /\ newer(o) \in Nat
    BY TotalType, RefundConstants DEF RefundTypeOK
  <2> HIDE DEF newer
  <2>2. monus(reduction, newer(o)) \in Nat
    BY <2>1 DEF monus
  <2>3. ASSUME NEW m \in Nat PROVE Min({amount[o], m}) \in 0 .. amount[o]
    <3>1. \E x \in {amount[o], m} : \A y \in {amount[o], m} : x <= y
      BY <2>1
    <3> QED
      BY <2>1, <3>1 DEF Min
  <2> QED
    BY <2>1, <2>2, <2>3
<1>2. /\ amount' = [o \in Obligations |->
                       IF o \in adjustable \ gone THEN amount[o] - cut(o) ELSE amount[o]]
      /\ state' = [o \in Obligations |-> IF o \in gone THEN "waived" ELSE state[o]]
      /\ overdue' = overdue \ gone
      /\ UNCHANGED <<source, sent, due, confirm, purged, denied>>
  BY DEF adjustAmount
<1>3. gone \subseteq adjustable
  OBVIOUS
<1>4. \A o \in Obligations : amount[o] \in 0 .. Amount
  BY DEF RefundTypeOK
<1> HIDE DEF cut, gone
<1>5. ASSUME NEW o \in Obligations
      PROVE  /\ amount'[o] \in 0 .. Amount /\ amount'[o] <= amount[o]
             /\ amount'[o] # amount[o] => o \in adjustable
  BY <1>1, <1>2, <1>4, RefundConstants
<1>6. amount' \in [Obligations -> 0 .. Amount]
  BY <1>2, <1>5
<1> QED
  BY <1>2, <1>3, <1>5, <1>6
-----------------------------------------------------------------------------
(* Every step keeps the invariant.                                         *)

\* The steps that neither create an obligation nor change an amount.
Quiet ==
  \/ \E o \in Obligations : \/ party(o) \/ owner(o) \/ maintain(o) \/ timePasses(o)
  \/ \E m \in {"enabled", "disabled"} : setMode(m)
  \/ observeResolutionMode \/ fileLateClaim \/ escalateUnanswered
  \/ UNCHANGED refundVars

\* What the columns of an obligation may hold.
LEMMA RefundTypeStep ==
  ASSUME RefundTypeOK, [RefundNext]_refundVars
  PROVE  RefundTypeOK'
<1> USE DEF RefundTypeOK, obligationVars, caseVars, claimVars, rulingVars, modeVars
<1>s. /\ \A st \in {"awaiting_destination", "awaiting_send", "sent", "received",
                     "presumed_received", "not_received", "waived"} : st \in RefundStates
      /\ \A tm \in {"none", "running", "stored", "lapsed"} : tm \in Timers
      /\ \A c \in {"awaiting_creator", "escalated", "refund_owed", "rejected"} : c \in Claims
      /\ \A src \in {"ruling", "correction", "late_payment", "late_payment_provider"} : src \in Sources
  BY DEF RefundStates, Timers, Claims, Sources, RulingSource
<1>c. ASSUME NEW src \in Sources, NEW vnd \in 0 .. Amount, createObligation(src, vnd)
      PROVE  /\ source' \in [Obligations -> Sources] /\ amount' \in [Obligations -> 0 .. Amount]
             /\ state' \in [Obligations -> RefundStates]
             /\ UNCHANGED <<sent, due, confirm, purged>>
  BY <1>c, <1>s DEF createObligation
<1> HIDE DEF RefundTypeOK
<1>1. ASSUME NEW vnd \in 0 .. Amount, rule(vnd) PROVE RefundTypeOK'
  BY <1>1, <1>s, <1>c DEF rule, RefundTypeOK
<1>2. ASSUME NEW vnd \in 0 .. Amount, correctRuling(vnd) PROVE RefundTypeOK'
  <2>1. total(counted) \in Nat /\ total(adjustable) \in Nat
    BY TotalType
  <2>2. /\ ruling' = <<vnd>> /\ corrections' \in 0 .. MaxCorrections
        /\ UNCHANGED <<modeVars, claimVars>>
    BY <1>2, RefundConstants DEF correctRuling, RefundTypeOK
  <2>3. CASE vnd > total(counted)
    <3>1. vnd - total(counted) \in 0 .. Amount
      BY <2>1, <2>3, RefundConstants
    <3>2. createObligation("correction", vnd - total(counted)) /\ UNCHANGED caseVars
      BY <1>2, <2>3 DEF correctRuling
    <3> QED
      BY <2>2, <3>1, <3>2, <1>s, <1>c DEF RefundTypeOK
  <2>4. CASE ~ (vnd > total(counted))
    <3>1. PICK reduction \in Int : adjustAmount(reduction)
      BY <1>2, <2>1, <2>4 DEF correctRuling, monus
    <3>2. PICK gone \in SUBSET adjustable :
            /\ state' = [o \in Obligations |-> IF o \in gone THEN "waived" ELSE state[o]]
            /\ overdue' = overdue \ gone
      BY <3>1, AdjustStep
    <3>3. /\ amount' \in [Obligations -> 0 .. Amount]
          /\ UNCHANGED <<source, sent, due, confirm, purged, denied>>
      BY <3>1, AdjustStep
    <3> QED
      BY <2>2, <3>2, <3>3, <1>s DEF RefundTypeOK
  <2> QED
    BY <2>3, <2>4
<1>3. ASSUME NEW o \in Obligations, party(o) PROVE RefundTypeOK'
  <2>1. CASE enterDestination(o)
    BY <2>1, <1>s DEF enterDestination, RefundTypeOK
  <2>2. CASE recordSend(o)
    BY <2>2, <1>s DEF recordSend, RefundTypeOK
  <2>3. ASSUME NEW r \in BOOLEAN, confirmReceipt(o, r) PROVE RefundTypeOK'
    BY <2>3, <1>s DEF confirmReceipt, RefundTypeOK
  <2> QED
    BY <1>3, <2>1, <2>2, <2>3 DEF party
<1>4. ASSUME NEW o \in Obligations, owner(o) PROVE RefundTypeOK'
  <2>1. CASE acceptReceiptEvidence(o)
    BY <2>1, <1>s DEF acceptReceiptEvidence, resolveRefundCase, RefundTypeOK
  <2>2. CASE requireResend(o)
    BY <2>2, <1>s DEF requireResend, resolveRefundCase, RefundTypeOK
  <2>3. CASE waive(o)
    BY <2>3, <1>s DEF waive, resolveRefundCase, RefundTypeOK
  <2>4. CASE extendDeadline(o)
    BY <2>4, <1>s DEF extendDeadline, resolveRefundCase, RefundTypeOK
  <2> QED
    BY <1>4, <2>1, <2>2, <2>3, <2>4 DEF owner
<1>5. ASSUME NEW o \in Obligations, maintain(o) PROVE RefundTypeOK'
  BY <1>5, <1>s DEF maintain, scanOverdue, presumeReceived, purgeDestinations, RefundTypeOK
<1>6. ASSUME NEW o \in Obligations, timePasses(o) PROVE RefundTypeOK'
  <2>1. \A timer : later(timer) \in Timers
    BY <1>s DEF later
  <2>2. /\ due' \in [Obligations -> Timers] /\ confirm' \in [Obligations -> Timers]
        /\ respond' \in Timers
    BY <1>6, <2>1 DEF timePasses, RefundTypeOK
  <2>3. UNCHANGED <<source, amount, state, sent, purged, caseVars, rulingVars, modeVars, claim, late>>
    BY <1>6 DEF timePasses
  <2> QED
    BY <2>2, <2>3 DEF RefundTypeOK
<1>7. ASSUME NEW m \in {"enabled", "disabled"}, setMode(m) PROVE RefundTypeOK'
  BY <1>7 DEF setMode, RefundTypeOK
<1>8. CASE observeResolutionMode
  BY <1>8 DEF observeResolutionMode, enabled, RefundTypeOK
<1>9. CASE fileLateClaim \/ escalateUnanswered
  BY <1>9, <1>s DEF fileLateClaim, escalateUnanswered, RefundTypeOK
<1>10. CASE recordProviderLatePayment
  <2>1. Amount \in 0 .. Amount
    BY RefundConstants
  <2> QED
    BY <1>10, <1>s, <1>c, <2>1 DEF recordProviderLatePayment, RefundTypeOK
<1>11. ASSUME NEW b \in BOOLEAN, NEW vnd \in 1 .. Amount,
              answerLateClaim(b, vnd) \/ ruleLateClaim(b, vnd)
       PROVE  RefundTypeOK'
  <2>1. vnd \in 0 .. Amount
    BY RefundConstants
  <2> QED
    BY <1>11, <1>s, <1>c, <2>1 DEF answerLateClaim, ruleLateClaim, RefundTypeOK
<1>12. CASE UNCHANGED refundVars
  BY <1>12 DEF refundVars, RefundTypeOK
<1> QED
  BY <1>1, <1>2, <1>3, <1>4, <1>5, <1>6, <1>7, <1>8, <1>9, <1>10, <1>11, <1>12 DEF RefundNext

\* The cases follow the states of the obligations and the claim.
LEMMA CasesStep ==
  ASSUME RefundTypeOK, RowsInOrder, CasesMatchStates, [RefundNext]_refundVars
  PROVE  CasesMatchStates'
<1> USE DEF obligationVars, caseVars, claimVars, rulingVars, modeVars
<1>t. /\ overdue \subseteq Obligations /\ denied \subseteq Obligations
      /\ state \in [Obligations -> RefundStates] /\ late \in BOOLEAN
  BY DEF RefundTypeOK
<1>c. ASSUME NEW src \in Sources \ {"none"}, NEW vnd \in 0 .. Amount,
             createObligation(src, vnd), UNCHANGED caseVars
      PROVE  /\ \A o \in overdue' : state'[o] = "awaiting_send"
             /\ denied' = {o \in Obligations : state'[o] = "not_received"}
  <2>1. nextObligation \in Obligations /\ state[nextObligation] = "none"
    BY <1>c, CreateStep
  <2>2. state' = [state EXCEPT ![nextObligation] = "awaiting_destination"]
    BY <1>c DEF createObligation
  <2> QED
    BY <1>t, <1>c, <2>1, <2>2 DEF CasesMatchStates
<1>1. ASSUME NEW vnd \in 0 .. Amount, rule(vnd) PROVE CasesMatchStates'
  <2>1. "ruling" \in Sources \ {"none"}
    BY DEF Sources, RulingSource
  <2> QED
    BY <1>1, <2>1, <1>c DEF rule, CasesMatchStates
<1>2. ASSUME NEW vnd \in 0 .. Amount, correctRuling(vnd) PROVE CasesMatchStates'
  <2>1. total(counted) \in Nat /\ total(adjustable) \in Nat /\ UNCHANGED claimVars
    BY <1>2, TotalType DEF correctRuling
  <2>3. CASE vnd > total(counted)
    <3>1. vnd - total(counted) \in 0 .. Amount /\ "correction" \in Sources \ {"none"}
      BY <2>1, <2>3, RefundConstants DEF Sources, RulingSource
    <3>2. createObligation("correction", vnd - total(counted)) /\ UNCHANGED caseVars
      BY <1>2, <2>3 DEF correctRuling
    <3> QED
      BY <2>1, <3>1, <3>2, <1>c DEF CasesMatchStates
  <2>4. CASE ~ (vnd > total(counted))
    <3>1. PICK reduction \in Int : adjustAmount(reduction)
      BY <1>2, <2>1, <2>4 DEF correctRuling, monus
    <3>2. PICK gone \in SUBSET adjustable :
            /\ state' = [o \in Obligations |-> IF o \in gone THEN "waived" ELSE state[o]]
            /\ overdue' = overdue \ gone
      BY <3>1, AdjustStep
    <3>3. denied' = denied
      BY <3>1, AdjustStep
    <3>4. \A o \in gone : state[o] # "not_received"
      BY DEF adjustable
    <3> QED
      BY <1>t, <2>1, <3>2, <3>3, <3>4 DEF CasesMatchStates
  <2> QED
    BY <2>3, <2>4
<1>3. ASSUME NEW o \in Obligations, party(o) PROVE CasesMatchStates'
  <2>1. CASE enterDestination(o)
    BY <2>1, <1>t DEF enterDestination, CasesMatchStates
  <2>2. CASE recordSend(o)
    BY <2>2, <1>t DEF recordSend, CasesMatchStates
  <2>3. ASSUME NEW r \in BOOLEAN, confirmReceipt(o, r) PROVE CasesMatchStates'
    BY <2>3, <1>t DEF confirmReceipt, CasesMatchStates
  <2> QED
    BY <1>3, <2>1, <2>2, <2>3 DEF party
<1>4. ASSUME NEW o \in Obligations, owner(o) PROVE CasesMatchStates'
  <2>1. CASE acceptReceiptEvidence(o)
    BY <2>1, <1>t DEF acceptReceiptEvidence, resolveRefundCase, CasesMatchStates
  <2>2. CASE requireResend(o)
    BY <2>2, <1>t DEF requireResend, resolveRefundCase, CasesMatchStates
  <2>3. CASE waive(o)
    BY <2>3, <1>t DEF waive, resolveRefundCase, CasesMatchStates
  <2>4. CASE extendDeadline(o)
    BY <2>4, <1>t DEF extendDeadline, resolveRefundCase, CasesMatchStates
  <2> QED
    BY <1>4, <2>1, <2>2, <2>3, <2>4 DEF owner
<1>5. ASSUME NEW o \in Obligations, maintain(o) PROVE CasesMatchStates'
  <2>1. CASE scanOverdue(o)
    BY <2>1, <1>t DEF scanOverdue, CasesMatchStates
  <2>2. CASE presumeReceived(o)
    BY <2>2, <1>t DEF presumeReceived, CasesMatchStates
  <2>3. CASE purgeDestinations(o)
    BY <2>3, <1>t DEF purgeDestinations, CasesMatchStates
  <2> QED
    BY <1>5, <2>1, <2>2, <2>3 DEF maintain
<1>6. ASSUME NEW o \in Obligations, timePasses(o) PROVE CasesMatchStates'
  <2>1. UNCHANGED <<state, overdue, denied, claim, late>>
    BY <1>6 DEF timePasses
  <2> QED
    BY <2>1 DEF CasesMatchStates
<1>7. CASE observeResolutionMode \/ \E m \in {"enabled", "disabled"} : setMode(m)
  BY <1>7 DEF setMode, observeResolutionMode, CasesMatchStates
<1>8. CASE fileLateClaim \/ escalateUnanswered
  BY <1>8, <1>t DEF fileLateClaim, escalateUnanswered, CasesMatchStates
<1>9. CASE recordProviderLatePayment
  <2>1. Amount \in 0 .. Amount /\ "late_payment_provider" \in Sources \ {"none"}
    BY RefundConstants DEF Sources
  <2>2. /\ \A o \in overdue' : state'[o] = "awaiting_send"
        /\ denied' = {o \in Obligations : state'[o] = "not_received"}
    BY <1>9, <1>c, <2>1 DEF recordProviderLatePayment, CasesMatchStates
  <2>3. late' = (claim' = "escalated")
    BY <1>9, <1>t DEF recordProviderLatePayment, CasesMatchStates
  <2> QED
    BY <2>2, <2>3 DEF CasesMatchStates
<1>10. ASSUME NEW b \in BOOLEAN, NEW vnd \in 1 .. Amount,
              answerLateClaim(b, vnd) \/ ruleLateClaim(b, vnd)
       PROVE  CasesMatchStates'
  <2>1. vnd \in 0 .. Amount /\ "late_payment" \in Sources \ {"none"}
    BY RefundConstants DEF Sources
  <2>2. /\ \A o \in overdue' : state'[o] = "awaiting_send"
        /\ denied' = {o \in Obligations : state'[o] = "not_received"}
    BY <1>10, <1>c, <2>1 DEF answerLateClaim, ruleLateClaim, CasesMatchStates
  <2>3. late' = (claim' = "escalated")
    BY <1>10, <1>t DEF answerLateClaim, ruleLateClaim, CasesMatchStates
  <2> QED
    BY <2>2, <2>3 DEF CasesMatchStates
<1>11. CASE UNCHANGED refundVars
  BY <1>11 DEF refundVars, CasesMatchStates
<1> QED
  BY <1>1, <1>2, <1>3, <1>4, <1>5, <1>6, <1>7, <1>8, <1>9, <1>10, <1>11 DEF RefundNext

\* A quiet step moves created obligations only, and what it waives stays waived.
LEMMA QuietStep ==
  ASSUME RefundTypeOK, Quiet
  PROVE  /\ UNCHANGED <<source, amount, ruling>> /\ (claim' = "paid" <=> claim = "paid")
         /\ \A o \in Obligations : state'[o] = "none" <=> state[o] = "none"
         /\ \A o \in Obligations :
              state[o] = "waived" /\ o \notin sent => state'[o] = "waived" /\ o \notin sent'
<1> USE DEF obligationVars, caseVars, claimVars, rulingVars, modeVars
<1> DEFINE Goal == /\ UNCHANGED <<source, amount, ruling>> /\ (claim' = "paid" <=> claim = "paid")
                   /\ \A o \in Obligations : state'[o] = "none" <=> state[o] = "none"
                   /\ \A o \in Obligations :
                        state[o] = "waived" /\ o \notin sent => state'[o] = "waived" /\ o \notin sent'
<1> SUFFICES Goal
  BY DEF Goal
<1> HIDE DEF Goal
<1>t. state \in [Obligations -> RefundStates]
  BY DEF RefundTypeOK
<1>3. ASSUME NEW o \in Obligations, party(o) PROVE Goal
  <2>1. CASE enterDestination(o)
    BY <2>1, <1>t DEF Goal, enterDestination
  <2>2. CASE recordSend(o)
    BY <2>2, <1>t DEF Goal, recordSend
  <2>3. ASSUME NEW r \in BOOLEAN, confirmReceipt(o, r) PROVE Goal
    BY <2>3, <1>t DEF Goal, confirmReceipt
  <2> QED
    BY <1>3, <2>1, <2>2, <2>3 DEF party
<1>4. ASSUME NEW o \in Obligations, owner(o) PROVE Goal
  <2>1. CASE acceptReceiptEvidence(o)
    BY <2>1, <1>t DEF Goal, acceptReceiptEvidence
  <2>2. CASE requireResend(o)
    BY <2>2, <1>t DEF Goal, requireResend
  <2>3. CASE waive(o)
    BY <2>3, <1>t DEF Goal, waive
  <2>4. CASE extendDeadline(o)
    BY <2>4, <1>t DEF Goal, extendDeadline
  <2> QED
    BY <1>4, <2>1, <2>2, <2>3, <2>4 DEF owner
<1>5. ASSUME NEW o \in Obligations, maintain(o) PROVE Goal
  <2>1. CASE scanOverdue(o)
    BY <2>1 DEF Goal, scanOverdue
  <2>2. CASE presumeReceived(o)
    BY <2>2, <1>t DEF Goal, presumeReceived
  <2>3. CASE purgeDestinations(o)
    BY <2>3 DEF Goal, purgeDestinations
  <2> QED
    BY <1>5, <2>1, <2>2, <2>3 DEF maintain
<1>6. ASSUME NEW o \in Obligations, timePasses(o) PROVE Goal
  BY <1>6 DEF Goal, timePasses
<1>7. CASE observeResolutionMode
  BY <1>7 DEF Goal, observeResolutionMode
<1>10. ASSUME NEW m \in {"enabled", "disabled"}, setMode(m) PROVE Goal
  BY <1>10 DEF Goal, setMode
<1>8. CASE fileLateClaim \/ escalateUnanswered
  BY <1>8 DEF Goal, fileLateClaim, escalateUnanswered
<1>9. CASE UNCHANGED refundVars
  BY <1>9 DEF Goal, refundVars
<1> QED
  BY <1>3, <1>4, <1>5, <1>6, <1>7, <1>8, <1>9, <1>10 DEF Quiet

\* Rows stay in order.
LEMMA RowsStep ==
  ASSUME RefundTypeOK, RowsInOrder, [RefundNext]_refundVars
  PROVE  RowsInOrder'
<1> USE DEF obligationVars, caseVars, claimVars, rulingVars, modeVars
<1>c. ASSUME NEW src \in Sources \ {"none"}, NEW vnd \in 0 .. Amount, createObligation(src, vnd),
             ruling' = <<>> => ruling = <<>> /\ src \notin RulingSource
      PROVE  RowsInOrder'
  <2>1. /\ nextObligation \in Obligations /\ created' = created \cup {nextObligation}
        /\ created' = 1 .. Cardinality(created')
        /\ \A o \in Obligations : source'[o] = "none" <=> state'[o] = "none"
    BY <1>c, CreateStep
  <2>2. source' = [source EXCEPT ![nextObligation] = src]
    BY <1>c DEF createObligation
  <2>3. source \in [Obligations -> Sources]
    BY DEF RefundTypeOK
  <2>4. ASSUME ruling' = <<>>, NEW o \in created' PROVE source'[o] \notin RulingSource
    <3>1. CASE o = nextObligation
      BY <1>c, <2>1, <2>2, <2>3, <2>4, <3>1
    <3>2. CASE o # nextObligation
      <4>1. o \in created /\ o \in Obligations
        BY <2>1, <2>4, <3>2 DEF created
      <4>2. source'[o] = source[o]
        BY <2>2, <2>3, <3>2, <4>1
      <4> QED
        BY <1>c, <2>4, <4>1, <4>2 DEF RowsInOrder
    <3> QED
      BY <3>1, <3>2
  <2> QED
    BY <2>1, <2>4 DEF RowsInOrder
<1>s. /\ {"ruling", "correction", "late_payment", "late_payment_provider"} \subseteq Sources \ {"none"}
      /\ "late_payment" \notin RulingSource /\ "late_payment_provider" \notin RulingSource
      /\ Amount \in 0 .. Amount
  BY RefundConstants DEF Sources, RulingSource
<1>q. ASSUME UNCHANGED source, \A o \in Obligations : state'[o] = "none" <=> state[o] = "none",
             ruling' = <<>> => ruling = <<>>
      PROVE  RowsInOrder'
  <2>1. created' = created
    BY <1>q DEF created
  <2> QED
    BY <1>q, <2>1 DEF RowsInOrder
<1>1. ASSUME NEW vnd \in 0 .. Amount, rule(vnd) PROVE RowsInOrder'
  <2>1. ruling' # <<>>
    BY <1>1 DEF rule
  <2>2. createObligation("ruling", vnd) \/ UNCHANGED obligationVars
    BY <1>1 DEF rule
  <2> QED
    BY <2>1, <2>2, <1>c, <1>q, <1>s
<1>2. ASSUME NEW vnd \in 0 .. Amount, correctRuling(vnd) PROVE RowsInOrder'
  <2>1. total(counted) \in Nat /\ total(adjustable) \in Nat /\ ruling' # <<>>
    BY <1>2, TotalType DEF correctRuling
  <2>2. CASE vnd > total(counted)
    <3>1. vnd - total(counted) \in 0 .. Amount
      BY <2>1, <2>2, RefundConstants
    <3>2. createObligation("correction", vnd - total(counted))
      BY <1>2, <2>2 DEF correctRuling
    <3> QED
      BY <2>1, <3>1, <3>2, <1>c, <1>s
  <2>3. CASE ~ (vnd > total(counted))
    <3>1. PICK reduction \in Int : adjustAmount(reduction)
      BY <1>2, <2>1, <2>3 DEF correctRuling, monus
    <3>2. PICK gone \in SUBSET adjustable :
            state' = [o \in Obligations |-> IF o \in gone THEN "waived" ELSE state[o]]
      BY <3>1, AdjustStep
    <3>3. UNCHANGED source
      BY <3>1, AdjustStep
    <3>4. \A o \in gone : state[o] # "none"
      BY DEF adjustable
    <3> QED
      BY <2>1, <3>2, <3>3, <3>4, <1>q
  <2> QED
    BY <2>2, <2>3
<1>3. CASE Quiet
  BY <1>3, <1>q, QuietStep
<1>4. CASE recordProviderLatePayment
  <2>1. createObligation("late_payment_provider", Amount) \/ UNCHANGED obligationVars
    BY <1>4 DEF recordProviderLatePayment
  <2>2. UNCHANGED ruling
    BY <1>4 DEF recordProviderLatePayment
  <2> QED
    BY <2>1, <2>2, <1>c, <1>q, <1>s
<1>5. ASSUME NEW b \in BOOLEAN, NEW vnd \in 1 .. Amount,
             answerLateClaim(b, vnd) \/ ruleLateClaim(b, vnd)
      PROVE  RowsInOrder'
  <2>1. createObligation("late_payment", vnd) \/ UNCHANGED obligationVars
    BY <1>5 DEF answerLateClaim, ruleLateClaim
  <2>2. UNCHANGED ruling /\ vnd \in 0 .. Amount
    BY <1>5, RefundConstants DEF answerLateClaim, ruleLateClaim
  <2> QED
    BY <2>1, <2>2, <1>c, <1>q, <1>s
<1> QED
  BY <1>1, <1>2, <1>3, <1>4, <1>5 DEF RefundNext, Quiet

\* The debt of the ruling stays within the price: a ruling is the first thing counted, a
\* correction tops the debt up to its own amount or reduces it, nothing else raises it.
LEMMA DebtStep ==
  ASSUME RefundTypeOK, RowsInOrder, DebtWithinOrder, [RefundNext]_refundVars
  PROVE  DebtWithinOrder'
<1>t. RefundTypeOK' /\ total(counted) \in Nat
  BY RefundTypeStep, TotalType
<1>w. /\ total(counted) = sum(Weight(counted, amount))
      /\ total(counted)' = sum(Weight(counted', amount'))
  BY DEF total, Weight
<1>n. total(counted)' \in Nat
  <2>1. Weight(counted', amount') \in [Obligations -> Nat]
    BY <1>t, WeightType DEF RefundTypeOK
  <2> QED
    BY <1>w, <2>1, SumType
<1>a. Amount \in Nat
  BY RefundConstants
<1> SUFFICES ASSUME claim' = "paid" PROVE total(counted)' <= Amount
  BY DEF DebtWithinOrder
<1>s. source \in [Obligations -> Sources] /\ state \in [Obligations -> RefundStates]
  BY DEF RefundTypeOK
<1>c. ASSUME NEW src \in RulingSource, NEW vnd \in 0 .. Amount, createObligation(src, vnd)
      PROVE  total(counted)' = total(counted) + vnd
  <2> DEFINE x == nextObligation
  <2>1. src \in Sources \ {"none"}
    BY DEF Sources, RulingSource
  <2>2. /\ x \in Obligations /\ x \notin created /\ source[x] = "none"
        /\ created' = created \cup {x}
    BY <1>c, <2>1, CreateStep
  <2>3. /\ source' = [source EXCEPT ![x] = src] /\ amount' = [amount EXCEPT ![x] = vnd]
        /\ state' = [state EXCEPT ![x] = "awaiting_destination"] /\ sent' = sent
    BY <1>c DEF createObligation
  <2> HIDE DEF x
  <2>4. x \notin counted
    BY <2>2 DEF counted
  <2>5. counted' = counted \cup {x}
    <3>1. x \in counted'
      BY <1>s, <2>2, <2>3 DEF counted
    <3>2. ASSUME NEW o \in created, o # x PROVE o \in counted <=> o \in counted'
      <4>1. o \in Obligations /\ o \in created'
        BY <2>2 DEF created
      <4>2. source'[o] = source[o] /\ state'[o] = state[o]
        BY <1>s, <2>3, <3>2, <4>1
      <4> QED
        BY <2>3, <4>1, <4>2 DEF counted
    <3>3. counted \subseteq created /\ counted' \subseteq created'
      BY DEF counted
    <3> QED
      BY <2>2, <2>4, <3>1, <3>2, <3>3
  <2>6. sum(Weight(counted \cup {x}, amount')) = sum(Weight(counted, amount)) + vnd
    <3>1. vnd \in Nat
      BY <1>a
    <3>2. amount' = [amount EXCEPT ![x] = vnd]
      BY <2>3
    <3> QED
      BY <1>t, <2>2, <2>4, <3>1, <3>2, DebtOfOneMore
  <2> QED
    BY <1>w, <2>5, <2>6
<1>q. ASSUME UNCHANGED <<source, claim>>, \A o \in Obligations : amount'[o] <= amount[o],
             counted' \subseteq counted
      PROVE  total(counted)' <= Amount
  <2>1. counted \subseteq Obligations
    BY DEF counted, created
  <2>2. total(counted)' <= total(counted)
    BY <1>t, <1>w, <1>q, <2>1, DebtShrinks
  <2>3. total(counted) <= Amount
    BY <1>q DEF DebtWithinOrder
  <2> QED
    BY <1>t, <1>n, <1>a, <2>2, <2>3
<1>1. ASSUME NEW vnd \in 0 .. Amount, rule(vnd) PROVE total(counted)' <= Amount
  <2>1. counted = {}
    BY <1>1 DEF rule, RowsInOrder, counted
  <2>2. total(counted) = 0
    BY <1>w, <2>1, NoDebt
  <2>3. CASE vnd > 0
    <3>1. createObligation("ruling", vnd) /\ "ruling" \in RulingSource
      BY <1>1, <2>3 DEF rule, RulingSource
    <3> QED
      BY <1>c, <1>a, <2>2, <3>1
  <2>4. CASE ~ (vnd > 0)
    <3>1. UNCHANGED obligationVars
      BY <1>1, <2>4 DEF rule
    <3>2. counted' = counted /\ amount' = amount
      BY <3>1 DEF obligationVars, counted, created
    <3>3. sum(Weight(counted', amount')) = sum(Weight(counted, amount))
      BY <3>2
    <3>4. total(counted)' = 0
      BY <1>w, <2>2, <3>3
    <3> QED
      BY <1>a, <3>4
  <2> QED
    BY <2>3, <2>4
<1>2. ASSUME NEW vnd \in 0 .. Amount, correctRuling(vnd) PROVE total(counted)' <= Amount
  <2>1. total(adjustable) \in Nat /\ UNCHANGED claim
    BY <1>2, TotalType DEF correctRuling, claimVars
  <2>2. CASE vnd > total(counted)
    <3>1. vnd - total(counted) \in 0 .. Amount
      BY <1>t, <1>a, <2>2
    <3>2. createObligation("correction", vnd - total(counted)) /\ "correction" \in RulingSource
      BY <1>2, <2>2 DEF correctRuling, RulingSource
    <3>3. total(counted)' = total(counted) + (vnd - total(counted))
      BY <1>c, <3>1, <3>2
    <3> QED
      BY <1>t, <1>a, <3>3
  <2>3. CASE ~ (vnd > total(counted))
    <3>1. PICK reduction \in Int : adjustAmount(reduction)
      BY <1>2, <1>t, <2>1, <2>3 DEF correctRuling, monus
    <3>2. PICK gone \in SUBSET adjustable :
            state' = [o \in Obligations |-> IF o \in gone THEN "waived" ELSE state[o]]
      BY <3>1, AdjustStep
    <3>3. UNCHANGED <<source, sent>> /\ \A o \in Obligations : amount'[o] <= amount[o]
      BY <3>1, AdjustStep
    <3>4. ASSUME NEW o \in counted' PROVE o \in counted
      <4>1. o \in Obligations /\ o \in created /\ source[o] \in RulingSource
        BY <3>3 DEF counted, created
      <4>2. state'[o] # "waived" \/ o \in sent
        BY <3>3 DEF counted
      <4>3. state[o] # "waived" \/ o \in sent
        BY <3>2, <4>1, <4>2
      <4> QED
        BY <4>1, <4>3 DEF counted
    <3> QED
      BY <1>q, <2>1, <3>3, <3>4
  <2> QED
    BY <2>2, <2>3
<1>3. CASE Quiet
  <2>1. /\ UNCHANGED <<source, amount>> /\ claim = "paid"
        /\ \A o \in Obligations :
              state[o] = "waived" /\ o \notin sent => state'[o] = "waived" /\ o \notin sent'
    BY <1>3, QuietStep
  <2>2. counted' \subseteq counted
    BY <2>1 DEF counted, created
  <2>3. \A o \in Obligations : amount[o] \in Nat /\ amount'[o] <= amount[o]
    BY <1>a, <2>1 DEF RefundTypeOK
  <2> QED
    BY <1>q, <2>1, <2>2, <2>3
<1>4. CASE recordProviderLatePayment \/ \E b \in BOOLEAN, vnd \in 1 .. Amount :
                                          answerLateClaim(b, vnd) \/ ruleLateClaim(b, vnd)
  BY <1>4 DEF recordProviderLatePayment, answerLateClaim, ruleLateClaim
<1> QED
  BY <1>1, <1>2, <1>3, <1>4 DEF RefundNext, Quiet

-----------------------------------------------------------------------------
\* Nothing is owed at first.
LEMMA RefundInvInit == RefundInit => RefundInv
<1> SUFFICES ASSUME RefundInit PROVE RefundInv
  OBVIOUS
<1>1. RefundTypeOK
  <2>1. /\ "none" \in Sources /\ "none" \in RefundStates /\ "none" \in Timers
        /\ {"paid", "none"} \subseteq Claims /\ 0 \in 0 .. Amount /\ 0 \in 0 .. MaxCorrections
    BY RefundConstants DEF Sources, RefundStates, Timers, Claims
  <2> QED
    BY <2>1 DEF RefundInit, RefundTypeOK
<1>2. created = {} /\ counted = {}
  BY DEF RefundInit, created, counted
<1>3. DebtWithinOrder
  <2>1. total(counted) = 0
    BY <1>1, <1>2, NoDebt DEF total, Weight
  <2> QED
    BY <2>1, RefundConstants DEF DebtWithinOrder
<1>4. CasesMatchStates
  BY DEF RefundInit, CasesMatchStates
<1>5. RowsInOrder
  <2>1. Cardinality(created) = 0
    BY <1>2, FS_EmptySet
  <2>2. created = 1 .. Cardinality(created)
    BY <1>2, <2>1
  <2> QED
    BY <1>2, <2>2 DEF RefundInit, RowsInOrder
<1> QED
  BY <1>1, <1>3, <1>4, <1>5 DEF RefundInv, RefundCasesAgree

LEMMA RefundInvStep == RefundInv /\ [RefundNext]_refundVars => RefundInv'
  BY RefundTypeStep, RowsStep, DebtStep, CasesStep DEF RefundInv, RefundCasesAgree

\* The ruling and its corrections never make the creator owe more than the price of the
\* order, and the owner's open cases are those the obligations and the late claim call
\* for, for any number of obligations and corrections and any price.
THEOREM RefundsAgree == RefundSpec => []RefundCasesAgree
<1>1. RefundInv => RefundCasesAgree
  BY DEF RefundInv
<1> QED
  BY RefundInvInit, RefundInvStep, <1>1, PTL DEF RefundSpec

-----------------------------------------------------------------------------
(* The database accepts every step.                                        *)

\* A step that leaves an obligation alone is accepted.
LEMMA GuardFrame ==
  ASSUME NEW o \in Obligations,
         source'[o] = source[o], amount'[o] = amount[o], state'[o] = state[o],
         due'[o] = due[o], confirm'[o] = confirm[o], o \in purged' => o \in purged
  PROVE  guardRefundObligation(o)
  BY DEF guardRefundObligation

LEMMA GuardOfCreate ==
  ASSUME RefundTypeOK, RowsInOrder,
         NEW src \in Sources \ {"none"}, NEW vnd \in 0 .. Amount, createObligation(src, vnd),
         NEW o \in Obligations
  PROVE  guardRefundObligation(o)
<1>1. /\ nextObligation \in Obligations
      /\ source[nextObligation] = "none" /\ state[nextObligation] = "none"
  BY CreateStep
<1>2. /\ source' = [source EXCEPT ![nextObligation] = src]
      /\ amount' = [amount EXCEPT ![nextObligation] = vnd]
      /\ state' = [state EXCEPT ![nextObligation] = "awaiting_destination"]
      /\ UNCHANGED <<sent, due, confirm, purged>>
  BY DEF createObligation
<1>3. CASE o = nextObligation
  BY <1>1, <1>2, <1>3 DEF guardRefundObligation, refundTransitions, RefundTypeOK
<1>4. CASE o # nextObligation
  BY <1>2, <1>4, GuardFrame DEF RefundTypeOK
<1> QED
  BY <1>3, <1>4

LEMMA GuardOfAdjust ==
  ASSUME RefundTypeOK, NEW reduction \in Int, adjustAmount(reduction), NEW o \in Obligations
  PROVE  guardRefundObligation(o)
<1>1. PICK gone \in SUBSET adjustable :
        state' = [x \in Obligations |-> IF x \in gone THEN "waived" ELSE state[x]]
  BY AdjustStep
<1>2. /\ amount' \in [Obligations -> 0 .. Amount]
      /\ amount'[o] <= amount[o] /\ (amount'[o] # amount[o] => o \in adjustable)
      /\ UNCHANGED <<source, sent, due, confirm, purged>>
  BY AdjustStep
<1>3. state'[o] = (IF o \in gone THEN "waived" ELSE state[o])
  BY <1>1
<1>4. o \in adjustable => state[o] \in {"awaiting_destination", "awaiting_send"} /\ o \notin sent
  BY DEF adjustable
<1>5. amount[o] \in Nat /\ amount'[o] \in Nat
  BY <1>2, RefundConstants DEF RefundTypeOK
<1>6. amount[o] # amount'[o] =>
        /\ state[o] \in {"awaiting_destination", "awaiting_send"} /\ o \notin sent
        /\ amount'[o] < amount[o]
  BY <1>2, <1>4, <1>5
<1>7. state[o] # state'[o] => <<state[o], state'[o]>> \in refundTransitions
  BY <1>1, <1>3, <1>4 DEF refundTransitions
<1> QED
  BY <1>2, <1>3, <1>6, <1>7 DEF guardRefundObligation

LEMMA GuardStep ==
  ASSUME RefundTypeOK, RowsInOrder, RefundNext, NEW o \in Obligations
  PROVE  guardRefundObligation(o)
<1> USE DEF obligationVars, caseVars, claimVars, rulingVars, modeVars
<1>t. /\ state \in [Obligations -> RefundStates]
      /\ due \in [Obligations -> Timers] /\ confirm \in [Obligations -> Timers]
  BY DEF RefundTypeOK
<1>s. /\ {"ruling", "correction", "late_payment", "late_payment_provider"} \subseteq Sources \ {"none"}
      /\ Amount \in 0 .. Amount /\ 1 .. Amount \subseteq 0 .. Amount
  BY RefundConstants DEF Sources, RulingSource
<1>u. UNCHANGED <<source, amount, state, due, confirm, purged>> => guardRefundObligation(o)
  BY GuardFrame
<1>x. ASSUME NEW x \in Obligations, x # o, UNCHANGED <<source, amount>>,
             state' = [state EXCEPT ![x] = state'[x]], due' = [due EXCEPT ![x] = due'[x]],
             confirm' = [confirm EXCEPT ![x] = confirm'[x]], purged' \ {x} \subseteq purged
      PROVE  guardRefundObligation(o)
  BY <1>t, <1>x, GuardFrame
<1>1. ASSUME NEW vnd \in 0 .. Amount, rule(vnd) PROVE guardRefundObligation(o)
  BY <1>1, <1>s, <1>u, GuardOfCreate DEF rule
<1>2. ASSUME NEW vnd \in 0 .. Amount, correctRuling(vnd) PROVE guardRefundObligation(o)
  <2>1. total(counted) \in Nat /\ total(adjustable) \in Nat
    BY TotalType
  <2>2. CASE vnd > total(counted)
    <3>1. vnd - total(counted) \in 0 .. Amount
      BY <2>1, <2>2, RefundConstants
    <3>2. createObligation("correction", vnd - total(counted))
      BY <1>2, <2>2 DEF correctRuling
    <3> QED
      BY <1>s, <3>1, <3>2, GuardOfCreate
  <2>3. CASE ~ (vnd > total(counted))
    <3>1. PICK reduction \in Int : adjustAmount(reduction)
      BY <1>2, <2>1, <2>3 DEF correctRuling, monus
    <3> QED
      BY <3>1, GuardOfAdjust
  <2> QED
    BY <2>2, <2>3
<1>3. ASSUME NEW x \in Obligations, party(x) PROVE guardRefundObligation(o)
  <2>1. CASE x # o
    <3>1. /\ UNCHANGED <<source, amount, purged>>
          /\ state' = [state EXCEPT ![x] = state'[x]] /\ due' = [due EXCEPT ![x] = due'[x]]
          /\ confirm' = [confirm EXCEPT ![x] = confirm'[x]]
      BY <1>t, <1>3 DEF party, enterDestination, recordSend, confirmReceipt
    <3> QED
      BY <1>x, <2>1, <3>1
  <2>2. CASE x = o
    <3>1. CASE enterDestination(o)
      BY <1>t, <3>1 DEF enterDestination, guardRefundObligation, refundTransitions
    <3>2. CASE recordSend(o)
      BY <1>t, <3>2 DEF recordSend, guardRefundObligation, refundTransitions
    <3>3. ASSUME NEW r \in BOOLEAN, confirmReceipt(o, r) PROVE guardRefundObligation(o)
      BY <1>t, <3>3 DEF confirmReceipt, guardRefundObligation, refundTransitions
    <3> QED
      BY <1>3, <2>2, <3>1, <3>2, <3>3 DEF party
  <2> QED
    BY <2>1, <2>2
<1>4. ASSUME NEW x \in Obligations, owner(x) PROVE guardRefundObligation(o)
  <2>1. CASE x # o
    <3>1. /\ UNCHANGED <<source, amount, purged>>
          /\ state' = [state EXCEPT ![x] = state'[x]] /\ due' = [due EXCEPT ![x] = due'[x]]
          /\ confirm' = [confirm EXCEPT ![x] = confirm'[x]]
      BY <1>t, <1>4 DEF owner, acceptReceiptEvidence, requireResend, waive, extendDeadline
    <3> QED
      BY <1>x, <2>1, <3>1
  <2>2. CASE x = o
    <3>1. CASE acceptReceiptEvidence(o)
      BY <1>t, <3>1 DEF acceptReceiptEvidence, guardRefundObligation, refundTransitions
    <3>2. CASE requireResend(o)
      BY <1>t, <3>2 DEF requireResend, guardRefundObligation, refundTransitions
    <3>3. CASE waive(o)
      BY <1>t, <3>3 DEF waive, guardRefundObligation, refundTransitions
    <3>4. CASE extendDeadline(o)
      BY <1>t, <3>4 DEF extendDeadline, guardRefundObligation, refundTransitions
    <3> QED
      BY <1>4, <2>2, <3>1, <3>2, <3>3, <3>4 DEF owner
  <2> QED
    BY <2>1, <2>2
<1>5. ASSUME NEW x \in Obligations, maintain(x) PROVE guardRefundObligation(o)
  <2>1. CASE scanOverdue(x)
    BY <1>u, <2>1 DEF scanOverdue
  <2>2. CASE presumeReceived(x)
    <3>1. CASE x # o
      BY <1>t, <2>2, <3>1, GuardFrame DEF presumeReceived
    <3>2. CASE x = o
      BY <1>t, <2>2, <3>2 DEF presumeReceived, guardRefundObligation, refundTransitions
    <3> QED
      BY <3>1, <3>2
  <2>3. CASE purgeDestinations(x)
    BY <2>3 DEF purgeDestinations, guardRefundObligation
  <2> QED
    BY <1>5, <2>1, <2>2, <2>3 DEF maintain
<1>6. ASSUME NEW x \in Obligations, timePasses(x) PROVE guardRefundObligation(o)
  <2>1. UNCHANGED <<source, amount, state, purged>>
    BY <1>6 DEF timePasses
  <2>2. /\ due'[o] = due[o] \/ due'[o] \in {"stored", "lapsed"}
        /\ confirm'[o] = confirm[o] \/ confirm'[o] \in {"stored", "lapsed"}
    BY <1>t, <1>6 DEF timePasses, later
  <2> QED
    BY <2>1, <2>2 DEF guardRefundObligation
<1>7. CASE observeResolutionMode \/ fileLateClaim \/ escalateUnanswered
  BY <1>7, <1>u DEF observeResolutionMode, fileLateClaim, escalateUnanswered
<1>8. ASSUME NEW m \in {"enabled", "disabled"}, setMode(m) PROVE guardRefundObligation(o)
  BY <1>8, <1>u DEF setMode
<1>9. CASE recordProviderLatePayment
  BY <1>9, <1>s, <1>u, GuardOfCreate DEF recordProviderLatePayment
<1>10. ASSUME NEW b \in BOOLEAN, NEW vnd \in 1 .. Amount,
              answerLateClaim(b, vnd) \/ ruleLateClaim(b, vnd)
       PROVE  guardRefundObligation(o)
  BY <1>10, <1>s, <1>u, GuardOfCreate DEF answerLateClaim, ruleLateClaim
<1> QED
  BY <1>1, <1>2, <1>3, <1>4, <1>5, <1>6, <1>7, <1>8, <1>9, <1>10 DEF RefundNext

\* No command and no item of the scan changes an obligation in a way the database's
\* guard would abort (guard_refund_obligation), whatever happened to the order before.
THEOREM RefundGuardsHold == RefundSpec => RefundGuardsAccept
<1>1. RefundInv /\ [RefundNext]_refundVars
        => [\A o \in Obligations : guardRefundObligation(o)]_refundVars
  BY GuardStep DEF RefundInv, RefundCasesAgree
<1> QED
  BY RefundInvInit, RefundInvStep, <1>1, PTL DEF RefundSpec, RefundGuardsAccept


-----------------------------------------------------------------------------
(* Reminders.                                                              *)

Passes == [at : Nat, next : Nat, owed : SUBSET Subjects, on : BOOLEAN]

RemindersTyped ==
  /\ now \in Nat
  /\ row \in [Subjects -> [state : {"none", "open", "acted"}, started : Nat, deadline : Nat]]
  /\ pause \in Nat \X Nat
  /\ scan \in [Scanners -> Passes]

\* A pass has the time it began at.
PassesAreBehind == \A w \in Scanners : scan[w].at <= now

KeysAreTimed == (\A l \in ledger : l[3] \in Nat) /\ \A n \in told : n[1][3] \in Nat

\* What was told is in the ledger, or was old enough to be deleted from it.
ToldIsKept == \A n \in told : n[1] \in ledger \/ now > n[1][3] + Retention

RemindersInv ==
  /\ RemindersTyped
  /\ PassesAreBehind
  /\ KeysAreTimed
  /\ ToldIsKept
  /\ RemindedOnceWhileKept

\* A deadline is an instant, or null while a pause holds it.
LEMMA EffectiveIsNat ==
  ASSUME RemindersTyped, NEW s \in Subjects
  PROVE  effective(s) \in Nat
  BY RemindersAssumption DEF RemindersTyped, effective, Held, RemindersAssumption

\* Every step keeps the invariant, and what it tells is so.
LEMMA RemindersStep ==
  ASSUME RemindersInv, RemindersNext
  PROVE  RemindersInv' /\ RemindedAsItIs
<1> DEFINE Goal == RemindersInv' /\ RemindedAsItIs
<1> SUFFICES Goal
  OBVIOUS
<1> HIDE DEF Goal
<1>0. /\ RemindersTyped /\ PassesAreBehind /\ KeysAreTimed /\ ToldIsKept /\ RemindedOnceWhileKept
      /\ Subjects' = Subjects
  BY DEF RemindersInv, RemindersNext, Subjects, start, extend, act, observePause, resume, tick,
     passStep, runOnce, readOpenClocks, remindOne, retention, die, remindFails
<1>1. ASSUME NEW s \in Subjects, start(s) \/ extend(s) \/ act(s) PROVE Goal
  <2>1. RemindersTyped' /\ PassesAreBehind'
    BY <1>0, <1>1, RemindersAssumption DEF start, extend, act, setDeadline, RemindersTyped,
       Passes, PassesAreBehind, RemindersAssumption
  <2>2. KeysAreTimed' /\ ToldIsKept' /\ RemindedOnceWhileKept' /\ RemindedAsItIs
    BY <1>0, <1>1, RemindersAssumption DEF start, extend, act, setDeadline, KeysAreTimed,
       ToldIsKept, RemindedOnceWhileKept, RemindedAsItIs, RemindersTyped, Passes, PassesAreBehind,
       RemindersAssumption
  <2> QED
    BY <2>1, <2>2 DEF Goal, RemindersInv
<1>2. CASE observePause \/ resume
  <2>1. RemindersTyped' /\ PassesAreBehind'
    BY <1>0, <1>2, RemindersAssumption DEF observePause, resume, RemindersTyped, Passes,
       PassesAreBehind, RemindersAssumption
  <2>2. KeysAreTimed' /\ ToldIsKept' /\ RemindedOnceWhileKept' /\ RemindedAsItIs
    BY <1>0, <1>2, RemindersAssumption DEF observePause, resume, KeysAreTimed, ToldIsKept,
       RemindedOnceWhileKept, RemindedAsItIs, RemindersTyped, Passes, PassesAreBehind,
       RemindersAssumption
  <2> QED
    BY <2>1, <2>2 DEF Goal, RemindersInv
<1>3. CASE tick
  <2>1. RemindersTyped' /\ PassesAreBehind'
    BY <1>0, <1>3, RemindersAssumption DEF tick, RemindersTyped, Passes, PassesAreBehind,
       RemindersAssumption
  <2>2. KeysAreTimed' /\ ToldIsKept' /\ RemindedOnceWhileKept' /\ RemindedAsItIs
    BY <1>0, <1>3, RemindersAssumption DEF tick, KeysAreTimed, ToldIsKept, RemindedOnceWhileKept,
       RemindedAsItIs, RemindersTyped, Passes, PassesAreBehind, RemindersAssumption
  <2> QED
    BY <2>1, <2>2 DEF Goal, RemindersInv
<1>4. ASSUME NEW w \in Scanners, runOnce(w) \/ die(w) PROVE Goal
  <2>1. RemindersTyped' /\ PassesAreBehind'
    <3>1. /\ Idle \in Passes /\ Idle.at <= now
          /\ [at |-> now, next |-> 1, owed |-> {}, on |-> TRUE] \in Passes
      BY <1>0 DEF Idle, RemindersTyped, Passes
    <3>2. PICK r \in Passes : r.at <= now /\ scan' = [scan EXCEPT ![w] = r]
      <4>1. CASE die(w)
        BY <3>1, <4>1 DEF die
      <4>2. CASE runOnce(w)
        <5>1. now <= now
          BY <1>0 DEF RemindersTyped
        <5> QED
          BY <3>1, <4>2, <5>1 DEF runOnce
      <4> QED
        BY <1>4, <4>1, <4>2
    <3>3. scan' \in [Scanners -> Passes] /\ \A v \in Scanners : scan'[v].at <= now
      <4>1. scan \in [Scanners -> Passes] /\ \A v \in Scanners : scan[v].at <= now
        BY <1>0 DEF RemindersTyped, PassesAreBehind
      <4> QED
        BY <3>2, <4>1
    <3> QED
      BY <1>0, <1>4, <3>3 DEF runOnce, die, RemindersTyped, PassesAreBehind, Passes
  <2>2. KeysAreTimed' /\ ToldIsKept' /\ RemindedOnceWhileKept' /\ RemindedAsItIs
    BY <1>0, <1>4, RemindersAssumption DEF runOnce, die, Idle, KeysAreTimed, ToldIsKept,
       RemindedOnceWhileKept, RemindedAsItIs, RemindersTyped, Passes, PassesAreBehind,
       RemindersAssumption
  <2> QED
    BY <2>1, <2>2 DEF Goal, RemindersInv
<1>5. ASSUME NEW w \in Scanners, readOpenClocks(w) PROVE Goal
  <2>1. RemindersTyped' /\ PassesAreBehind'
    <3>1. PICK todo \in SUBSET Subjects :
            scan' = [scan EXCEPT ![w] =
                       [at |-> scan[w].at, next |-> scan[w].next + 1, owed |-> todo, on |-> TRUE]]
      BY <1>5 DEF readOpenClocks, newest, candidates
    <3>2. PICK r \in Passes : r.at <= now /\ scan' = [scan EXCEPT ![w] = r]
      <4>1. scan[w].at \in Nat /\ scan[w].next \in Nat /\ scan[w].at <= now
        BY <1>0 DEF RemindersTyped, PassesAreBehind, Passes
      <4>2. [at |-> scan[w].at, next |-> scan[w].next + 1, owed |-> todo, on |-> TRUE] \in Passes
        BY <4>1 DEF Passes
      <4> WITNESS [at |-> scan[w].at, next |-> scan[w].next + 1, owed |-> todo, on |-> TRUE] \in Passes
      <4> QED
        BY <3>1, <4>1, <4>2
    <3>3. scan' \in [Scanners -> Passes] /\ \A v \in Scanners : scan'[v].at <= now
      <4>1. scan \in [Scanners -> Passes] /\ \A v \in Scanners : scan[v].at <= now
        BY <1>0 DEF RemindersTyped, PassesAreBehind
      <4> QED
        BY <3>2, <4>1
    <3> QED
      <4>1. UNCHANGED <<now, row, pause>>
        BY <1>5 DEF readOpenClocks
      <4> QED
        BY <1>0, <3>3, <4>1 DEF RemindersTyped, PassesAreBehind, Passes
  <2>2. KeysAreTimed' /\ ToldIsKept' /\ RemindedOnceWhileKept' /\ RemindedAsItIs
    BY <1>0, <1>5, RemindersAssumption DEF readOpenClocks, newest, candidates, KeysAreTimed,
       ToldIsKept, RemindedOnceWhileKept, RemindedAsItIs, RemindersTyped, Passes, PassesAreBehind,
       RemindersAssumption
  <2> QED
    BY <2>1, <2>2 DEF Goal, RemindersInv
<1>6. ASSUME NEW w \in Scanners, NEW s \in Subjects, remindFails(w, s) PROVE Goal
  <2>1. RemindersTyped' /\ PassesAreBehind'
    BY <1>0, <1>6, RemindersAssumption DEF remindFails, leave, RemindersTyped, Passes,
       PassesAreBehind, RemindersAssumption
  <2>2. KeysAreTimed' /\ ToldIsKept' /\ RemindedOnceWhileKept' /\ RemindedAsItIs
    BY <1>0, <1>6, RemindersAssumption DEF remindFails, leave, KeysAreTimed, ToldIsKept,
       RemindedOnceWhileKept, RemindedAsItIs, RemindersTyped, Passes, PassesAreBehind,
       RemindersAssumption
  <2> QED
    BY <2>1, <2>2 DEF Goal, RemindersInv
<1>7. ASSUME NEW w \in Scanners, NEW s \in Subjects, remindOne(w, s) PROVE Goal
  <2>1. RemindersTyped' /\ PassesAreBehind'
    BY <1>0, <1>7, RemindersAssumption DEF remindOne, leave, RemindersTyped, Passes,
       PassesAreBehind, RemindersAssumption
  <2>2. KeysAreTimed' /\ ToldIsKept' /\ RemindedOnceWhileKept' /\ RemindedAsItIs
    <3> DEFINE stage == reminderStage(s, scan[w].at)
               key   == <<s, stage, effective(s)>>
    <3>1. CASE UNCHANGED <<ledger, told>>
      BY <1>0, <1>7, <3>1 DEF remindOne, KeysAreTimed, ToldIsKept, RemindedOnceWhileKept,
         RemindedAsItIs
    <3>2. CASE /\ readOpenClock(s, scan[w].at) /\ key \notin ledger /\ stage # "none"
               /\ ledger' = ledger \cup {key}
               /\ told' = told \cup {<<key, IF <<key, 1>> \in told THEN 2 ELSE 1>>}
      <4>1. now' = now /\ row' = row
        BY <1>7 DEF remindOne
      <4>2. effective(s) \in Nat /\ key[1] = s /\ key[3] = effective(s) /\ key[2] = stage
        BY <1>0, EffectiveIsNat
      <4>3. <<key, 1>> \in told => now > effective(s) + Retention
        BY <1>0, <3>2, <4>2 DEF ToldIsKept
      <4>4. row[s].state = "open"
        BY <3>2 DEF readOpenClock, candidates
      <4>5. stage = "missed" => now >= effective(s)
        <5>1. scan[w].at \in Nat /\ now \in Nat /\ scan[w].at <= now
          BY <1>0 DEF RemindersTyped, Passes, PassesAreBehind
        <5>2. stage = "missed" => scan[w].at >= effective(s)
          BY DEF reminderStage
        <5> QED
          BY <4>2, <5>1, <5>2
      <4> HIDE DEF key, stage
      <4> DEFINE new == <<key, IF <<key, 1>> \in told THEN 2 ELSE 1>>
      <4>6. /\ told' = told \cup {new} /\ ledger' = ledger \cup {key}
            /\ new[1] = key /\ (new[2] = 2 => <<key, 1>> \in told)
        BY <3>2
      <4> HIDE DEF new
      <4>7. KeysAreTimed' /\ ToldIsKept'
        BY <1>0, <4>1, <4>2, <4>6 DEF KeysAreTimed, ToldIsKept
      <4>8. RemindedOnceWhileKept'
        BY <1>0, <4>1, <4>2, <4>3, <4>6 DEF RemindedOnceWhileKept
      <4>9. RemindedAsItIs
        BY <4>2, <4>4, <4>5, <4>6 DEF RemindedAsItIs
      <4> QED
        BY <4>7, <4>8, <4>9
    <3> QED
      BY <1>7, <3>1, <3>2 DEF remindOne, ledgerFree
  <2> QED
    BY <2>1, <2>2 DEF Goal, RemindersInv
<1>8. ASSUME NEW w \in Scanners, retention(w) PROVE Goal
  <2>1. RemindersTyped' /\ PassesAreBehind'
    BY <1>0, <1>8, RemindersAssumption DEF retention, Idle, RemindersTyped, Passes,
       PassesAreBehind, RemindersAssumption
  <2>2. KeysAreTimed' /\ ToldIsKept' /\ RemindedOnceWhileKept' /\ RemindedAsItIs
    <3>1. PICK gone \in SUBSET {l \in ledger : l[3] + Retention < scan[w].at} :
            ledger' = ledger \ gone
      BY <1>8 DEF retention
    <3>2. \A l \in gone : now > l[3] + Retention
      BY <1>0, RemindersAssumption DEF KeysAreTimed, RemindersTyped, Passes, PassesAreBehind,
         RemindersAssumption
    <3>3. told' = told /\ now' = now
      BY <1>8 DEF retention
    <3>4. ToldIsKept'
      BY <1>0, <3>1, <3>2, <3>3 DEF ToldIsKept
    <3> QED
      BY <1>0, <3>1, <3>3, <3>4 DEF KeysAreTimed, RemindedOnceWhileKept, RemindedAsItIs
  <2> QED
    BY <2>1, <2>2 DEF Goal, RemindersInv
<1> QED
  BY <1>1, <1>2, <1>3, <1>4, <1>5, <1>6, <1>7, <1>8 DEF RemindersNext, passStep


LEMMA RemindersInvariant == RemindersSpec => []RemindersInv
<1>1. RemindersInit => RemindersInv
  BY DEF RemindersInit, None, Idle, RemindersInv, RemindersTyped, Passes, PassesAreBehind,
         KeysAreTimed, ToldIsKept, RemindedOnceWhileKept, Subjects
<1>2. RemindersInv /\ [RemindersNext]_remindersVars => RemindersInv'
  <2>1. RemindersInv /\ UNCHANGED remindersVars => RemindersInv'
    BY DEF remindersVars, RemindersInv, RemindersTyped, Passes, PassesAreBehind, KeysAreTimed,
           ToldIsKept, RemindedOnceWhileKept, Subjects
  <2> QED
    BY <2>1, RemindersStep
<1> QED
  BY <1>1, <1>2, PTL DEF RemindersSpec

\* remindOne: a reminder is about the subject as it is when the reminder commits, and the
\* ledger keeps it from being sent twice, with any number of workers, pauses and extensions.
THEOREM RemindersStayCurrent == RemindersSpec => RemindersAreCurrent
<1>1. RemindersInv => RemindedOnceWhileKept
  BY DEF RemindersInv
<1>2. RemindersInv /\ [RemindersNext]_remindersVars => [RemindedAsItIs]_remindersVars
  BY RemindersStep
<1> QED
  BY <1>1, <1>2, RemindersInvariant, PTL DEF RemindersSpec, RemindersAreCurrent

=============================================================================
