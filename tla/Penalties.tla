----------------------------- MODULE Penalties ------------------------------
(***************************************************************************)
(* Penalties of one user and what they do to his standing: the creator     *)
(* capability, the access of his account, his sessions, his published page *)
(* and the commissions in progress (packages/trust/src/penalty-service.ts, *)
(* packages/identity/src/enforcement-port.ts), the help links that stay    *)
(* open to a locked-out user (help-link-service.ts), and the maintenance   *)
(* that ends penalties whose time is over (enforcement-maintenance.ts).    *)
(* Every command takes the user's fence and row locks first, so a          *)
(* transaction is one step.  Instants are flags that time raises: the end  *)
(* of a penalty and the end of its read-only window.  The appeal window    *)
(* and the pause that holds it open only ever refuse an appeal: an appeal  *)
(* that is not made covers them.                                           *)
(***************************************************************************)
EXTENDS TrustCases

CONSTANTS
  MaxPenalties,   \* bound: how many penalties are ever applied
  Slots           \* pairs of kind and scope the owner applies

TRUST_RESTRICTIONS == {"commission_intake", "commission_buying", "dispute_opening", "reporting"}

\* What normalizeApply lets through: a warning has no target, a restriction has
\* its own targets, a suspension or a removal is of the capability or the account.
SlotShapes ==
  {<<"warning", "none">>} \cup ({"restriction"} \X TRUST_RESTRICTIONS)
    \cup ({"suspension", "removal"} \X {"creator_capability", "account"})

\* What the constants stand for.
PenaltiesAssumption ==
  /\ MaxPenalties \in Nat
  /\ Slots \subseteq SlotShapes

VARIABLES
  mode,        \* trust enforcement enabled or disabled in the deployment
  penState,    \* state of each penalty row
  penKind,     \* warning, restriction, suspension or removal
  penScope,    \* the restriction, or the target of a suspension or removal
  penTimed,    \* penalties with an end instant
  elapsed,     \* ... whose end instant has passed
  penReplaces, \* the penalty an appeal replaced by this one
  penCase,     \* source case, 0 for a public report
  acknowledged,\* warnings the user has acknowledged
  capability,  \* creator capability: none, active, suspended, removed
  baseline,    \* latest capability event that no penalty caused
  access,      \* account access: active, access_suspended, closed
  session,     \* the user has an application session
  published,   \* the creator page has a published revision
  liveOrders,  \* paid commissions are in progress
  helpLink,    \* penalties with an unrevoked help link
  helpSession, \* penalties with an open session of that link
  readShut     \* penalties whose read-only window has passed

penaltyRows == <<penState, penKind, penScope, penTimed, penReplaces, penCase, acknowledged>>
standingVars == <<capability, baseline, access, session, published, liveOrders>>
helpVars == <<helpLink, helpSession>>
clockVars == <<elapsed, readShut>>
penaltyVars == <<penaltyRows, standingVars, helpVars, clockVars, mode>>

PenaltyIds == 1..MaxPenalties
Ends == {"expired", "lifted", "reversed", "reduced"}

PenaltiesInit ==
  /\ mode = "enabled"
  /\ penState = [p \in PenaltyIds |-> "none"]
  /\ penKind = [p \in PenaltyIds |-> "none"]
  /\ penScope = [p \in PenaltyIds |-> "none"]
  /\ penTimed = {} /\ elapsed = {}
  /\ penReplaces = [p \in PenaltyIds |-> 0]
  /\ penCase = [p \in PenaltyIds |-> 0]
  /\ acknowledged = {}
  /\ capability \in {"none", "active"}
  /\ baseline = "active"
  /\ access = "active"
  /\ session = FALSE /\ published = FALSE /\ liveOrders = FALSE
  /\ helpLink = {} /\ helpSession = {} /\ readShut = {}

-----------------------------------------------------------------------------
(* Standing.                                                               *)

InForce(p) == penState[p] = "active" /\ p \notin elapsed

activePenalties == {p \in PenaltyIds : InForce(p)}

CapabilitySeverity == [none |-> 0, active |-> 0, suspended |-> 1, removed |-> 2]
AccessSeverity == [active |-> 0, access_suspended |-> 1, closed |-> 2]

\* A penalty row as the standing reads it: its kind and its scope.
rowsOf(ps) == {<<penKind[p], penScope[p]>> : p \in ps}

requiredCapabilityState(rows) ==
  IF \E scope \in {"creator_capability", "account"} : <<"removal", scope>> \in rows THEN "removed"
  ELSE IF <<"suspension", "creator_capability">> \in rows THEN "suspended" ELSE "active"

requiredAccess(rows) ==
  IF <<"removal", "account">> \in rows THEN "closed"
  ELSE IF <<"suspension", "account">> \in rows THEN "access_suspended" ELSE "active"

withBaseline(required) ==
  IF CapabilitySeverity[baseline] > CapabilitySeverity[required] THEN baseline ELSE required

\* The standing that recomputeStanding leaves: an actor may set what the
\* penalties in force require, maintenance may only weaken what stands, and
\* the account is touched only when an account penalty is involved.
standingAfter(standing, rows, byActor, endingScope) ==
  LET cap == withBaseline(requiredCapabilityState(rows))
      acc == requiredAccess(rows)
  IN [cap |-> IF /\ standing.cap # "none"
                 /\ byActor \/ CapabilitySeverity[cap] < CapabilitySeverity[standing.cap]
              THEN cap ELSE standing.cap,
      acc |-> IF /\ byActor \/ AccessSeverity[acc] < AccessSeverity[standing.acc]
                 /\ endingScope = "account" \/ \E r \in rows : r[2] = "account"
              THEN acc ELSE standing.acc]

Standing == [cap |-> capability, acc |-> access]

\* Writes the standing: every change bumps the authorization version and
\* revokes the sessions, and leaving the active capability clears the page.
setStanding(to) ==
  /\ capability' = to.cap /\ access' = to.acc
  /\ session' = (session /\ to = Standing)
  /\ published' = (published /\ (capability = "active" => to.cap = "active"))
  /\ UNCHANGED baseline

-----------------------------------------------------------------------------
(* Applying and ending a penalty.                                          *)

SameSlot(p, kind, scope) == penState[p] = "active" /\ penKind[p] = kind /\ penScope[p] = scope

NextPenalty(p) ==
  /\ p \in PenaltyIds
  /\ penState[p] = "none"
  /\ \A q \in PenaltyIds : q < p => penState[q] # "none"

\* Issues the link of an account penalty: older links of the penalty and
\* their sessions are revoked.
issueLink(p) ==
  /\ helpLink' = helpLink \cup {p}
  /\ helpSession' = helpSession \ {p}

\* applyInternal.  gone is a penalty that this transaction has already ended
\* (0 for none, reduced by an appeal decision otherwise).
applyInternal(p, slot, timed, source, freeze, gone) ==
  LET kind == slot[1]
      scope == slot[2]
      lapsed == {q \in PenaltyIds : SameSlot(q, kind, scope) /\ q \in elapsed}
      after == rowsOf(activePenalties \ {gone})
      \* ending the reduced penalty, then the lapsed ones, then the new row
      afterGone == IF gone = 0 THEN Standing ELSE standingAfter(Standing, after, TRUE, penScope[gone])
      afterLapsed == IF lapsed = {} THEN afterGone ELSE standingAfter(afterGone, after, FALSE, scope)
      final == IF kind \in {"suspension", "removal"}
               THEN standingAfter(afterLapsed, after \cup {slot}, TRUE, scope) ELSE afterLapsed
  IN /\ NextPenalty(p)
     /\ scope = "creator_capability" => capability # "none"
     /\ timed => kind \in {"restriction", "suspension"}
     /\ freeze => kind = "suspension" /\ scope = "creator_capability"
     /\ kind # "warning" =>
          ~ \E q \in PenaltyIds \ {gone} : SameSlot(q, kind, scope) /\ q \notin elapsed
     /\ penState' = [q \in PenaltyIds |->
          IF q = p THEN "active" ELSE IF kind # "warning" /\ q \in lapsed THEN "expired"
          ELSE IF q = gone THEN "reduced" ELSE penState[q]]
     /\ penKind' = [penKind EXCEPT ![p] = kind]
     /\ penScope' = [penScope EXCEPT ![p] = scope]
     /\ penTimed' = IF timed THEN penTimed \cup {p} ELSE penTimed
     /\ penReplaces' = [penReplaces EXCEPT ![p] = gone]
     /\ penCase' = [penCase EXCEPT ![p] = source]
     /\ setStanding(final)
     /\ liveOrders' = (liveOrders /\ ~ freeze
          /\ (kind = "removal" => scope # "creator_capability" /\ capability = "none"))
     /\ IF scope = "account" THEN issueLink(p) ELSE UNCHANGED helpVars
     /\ UNCHANGED <<acknowledged, clockVars, mode>>

\* Fault model of endPenalty: an ended penalty may be ended again.
endPenaltyTwice(p, state, byActor) ==
  /\ penState[p] # "none"
  /\ state = "expired" => p \in elapsed
  /\ penState' = [penState EXCEPT ![p] = state]
  /\ setStanding(standingAfter(Standing, rowsOf(activePenalties \ {p}), byActor, penScope[p]))
  /\ UNCHANGED <<penKind, penScope, penTimed, penReplaces, penCase, acknowledged,
                 liveOrders, helpVars, clockVars, mode>>

\* end: the row leaves "active" and the standing is recomputed with it.
endPenalty(p, state, byActor) ==
  /\ penState[p] = "active"
  /\ state = "expired" => p \in elapsed
  /\ penState' = [penState EXCEPT ![p] = state]
  /\ setStanding(standingAfter(Standing, rowsOf(activePenalties \ {p}), byActor, penScope[p]))
  /\ UNCHANGED <<penKind, penScope, penTimed, penReplaces, penCase, acknowledged,
                 liveOrders, helpVars, clockVars, mode>>

\* The owner applies a penalty that a report case or a public report supports.
apply(p, slot, timed, source, freeze) ==
  /\ mode = "enabled"
  /\ applyInternal(p, slot, timed, source, freeze, 0)

lift(p) ==
  /\ mode = "enabled"
  /\ endPenalty(p, "lifted", TRUE)

acknowledgeWarning(p) ==
  /\ mode = "enabled" /\ session
  /\ penKind[p] = "warning" /\ p \notin acknowledged
  /\ acknowledged' = acknowledged \cup {p}
  /\ UNCHANGED <<penState, penKind, penScope, penTimed, penReplaces, penCase,
                 standingVars, helpVars, clockVars, mode>>

\* The owner's older capability command: suspends only while enforcement is
\* disabled, reinstates only when no penalty in force requires otherwise.
setCreatorCapability(action) ==
  /\ action = "suspend" => mode = "disabled" /\ capability = "active"
  /\ action = "reinstate" =>
       /\ requiredCapabilityState(rowsOf(activePenalties)) = "active"
       /\ capability = "suspended" /\ access = "active"
  /\ LET state == IF action = "suspend" THEN "suspended" ELSE "active"
     IN capability' = state /\ baseline' = state
  /\ session' = FALSE /\ published' = FALSE
  /\ UNCHANGED <<access, liveOrders, penaltyRows, helpVars, clockVars, mode>>

-----------------------------------------------------------------------------
(* Help links.                                                             *)

Readable(p) ==
  /\ penScope[p] = "account" /\ p \notin readShut
  /\ InForce(p) \/ penState[p] \in {"reversed", "reduced"}

\* openSession: exchanges the token of the live link.
openHelpSession(p) ==
  /\ p \in helpLink \ helpSession
  /\ Readable(p)
  /\ helpSession' = helpSession \cup {p}
  /\ UNCHANGED <<helpLink, penaltyRows, standingVars, clockVars, mode>>

revokeHelpSession(p) ==
  /\ p \in helpSession
  /\ helpSession' = helpSession \ {p}
  /\ UNCHANGED <<helpLink, penaltyRows, standingVars, clockVars, mode>>

\* requestLink: the newest readable account penalty of the address gets a new
\* link; quotas and unknown addresses leave everything as it is.
requestLink ==
  LET open == {p \in PenaltyIds : penScope[p] = "account" /\ InForce(p) /\ p \notin readShut}
  IN /\ mode = "enabled" /\ open # {}
     /\ issueLink(CHOOSE p \in open : \A q \in open : q <= p)
     /\ UNCHANGED <<penaltyRows, standingVars, clockVars, mode>>

-----------------------------------------------------------------------------
(* Maintenance and time.                                                   *)

\* One transaction of the expiry loop; a contended or failing penalty is left
\* for the next run.
expirePenalty(p) == endPenalty(p, "expired", FALSE)

\* The rest of the run: links past their read-only window and expired
\* sessions go.
purgeHelp ==
  /\ helpLink \cap readShut # {}
  /\ helpLink' = helpLink \ readShut
  /\ helpSession' = helpSession \ readShut
  /\ UNCHANGED <<penaltyRows, standingVars, clockVars, mode>>

\* A deployment turns enforcement on or off.
SwitchMode ==
  /\ mode' = IF mode = "enabled" THEN "disabled" ELSE "enabled"
  /\ UNCHANGED <<penaltyRows, standingVars, helpVars, clockVars>>

\* An instant of penalty p passes.
PassInstant(p) ==
  /\ \/ p \in penTimed \ elapsed /\ elapsed' = elapsed \cup {p} /\ UNCHANGED readShut
     \/ p \notin readShut /\ penScope[p] = "account"
        /\ readShut' = readShut \cup {p} /\ UNCHANGED elapsed
  /\ UNCHANGED <<penaltyRows, standingVars, helpVars, mode>>

-----------------------------------------------------------------------------
(* What the rest of the system does under this standing.                   *)

signInAgain ==
  /\ access = "active" /\ ~ session
  /\ session' = TRUE
  /\ UNCHANGED <<capability, baseline, access, published, liveOrders,
                 penaltyRows, helpVars, clockVars, mode>>

publishPage ==
  /\ session /\ capability = "active" /\ access = "active" /\ ~ published
  /\ published' = TRUE
  /\ UNCHANGED <<capability, baseline, access, session, liveOrders,
                 penaltyRows, helpVars, clockVars, mode>>

\* A payment is confirmed only for an eligible creator.
confirmPayment ==
  /\ capability = "active" /\ access = "active" /\ ~ liveOrders
  /\ liveOrders' = TRUE
  /\ UNCHANGED <<capability, baseline, access, session, published,
                 penaltyRows, helpVars, clockVars, mode>>

\* The row a penalty write may leave behind, as its trigger states it.
trust_guard_penalty(p) ==
  /\ penState[p] = "none" => penState'[p] \in {"none", "active"} /\ ~(p \in acknowledged')
  /\ penState[p] # "none" =>
       /\ penKind'[p] = penKind[p] /\ penScope'[p] = penScope[p]
       /\ penReplaces'[p] = penReplaces[p] /\ penCase'[p] = penCase[p]
       /\ (p \in penTimed') = (p \in penTimed)
       /\ penState'[p] # penState[p] => penState[p] = "active" /\ penState'[p] \in Ends
       /\ p \in acknowledged' \ acknowledged => penKind[p] = "warning" /\ penState'[p] = penState[p]

\* The shape checks of the penalty table: only a restriction has no target,
\* only a restriction or a suspension has an end, only a warning is
\* acknowledged.
trust_penalties_checks(p) ==
  /\ penKind[p] = "warning" => penScope[p] = "none"
  /\ penKind[p] = "restriction" => penScope[p] \in TRUST_RESTRICTIONS
  /\ penKind[p] \in {"suspension", "removal"} => penScope[p] \in {"creator_capability", "account"}
  /\ p \in penTimed => penKind[p] \in {"restriction", "suspension"}
  /\ p \in acknowledged => penKind[p] = "warning"

\* A link belongs to an account suspension or removal, and a session is made
\* only from an unrevoked link.
trust_help_link_guard(p) ==
  /\ p \in helpLink => penScope[p] = "account" /\ penKind[p] \in {"suspension", "removal"}
  /\ p \in helpSession' \ helpSession => p \in helpLink /\ p \in helpLink' /\ p \notin readShut

\* Unique indexes: one active row per restriction, and per target of a
\* suspension or a removal.
trust_penalties_active_uidx ==
  \A p, q \in PenaltyIds :
    (p # q /\ penState[p] = "active" /\ penKind[p] # "warning") => ~ SameSlot(q, penKind[p], penScope[p])

\* A capability event without an actor is a reinstatement after an expiry.
capability_events_actor_check ==
  \A p \in PenaltyIds :
    (penState[p] = "active" /\ penState'[p] = "expired" /\ \A q \in PenaltyIds : penState[q] = "none" => penState'[q] = "none")
      => capability' \in {capability, "active"}
=============================================================================
