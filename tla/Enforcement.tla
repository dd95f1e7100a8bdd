---------------------------- MODULE Enforcement -----------------------------
(***************************************************************************)
(* Reports, penalties and appeals of one user together.  An appeal         *)
(* (packages/trust/src/appeal-service.ts) is made once about a penalty or  *)
(* a hide, from the user's own session or, when he is locked out, from the *)
(* session of a help link; it opens a case, and the owner's decision ends  *)
(* the penalty, replaces it by a milder one or releases the hide in the    *)
(* transaction that resolves the case.                                     *)
(***************************************************************************)
EXTENDS Penalties, ReportCases

ASSUME TrustAssumptions == MaxCasesAssumption /\ PenaltiesAssumption /\ ReportCasesAssumption

VARIABLES
  penAppeal,    \* state of the appeal about each penalty
  hideAppeal    \* state of the appeal about each hide

appealVars == <<penAppeal, hideAppeal>>
trustVars == <<caseVars, penaltyVars, reportVars, hideVars, appealVars>>

\* The appeal is its own case source; penalties and hides are told apart.
PenaltySource(p) == <<"penalty", p>>
HideSource(h) == <<"hide", h>>

TrustInit ==
  /\ CasesInit /\ PenaltiesInit /\ ReportsInit
  /\ penAppeal = [p \in PenaltyIds |-> "none"]
  /\ hideAppeal = [h \in HideIds |-> "none"]

-----------------------------------------------------------------------------
\* submit about a penalty: in force, not a warning, not itself a replacement.
submitPenaltyAppeal(p, c) ==
  /\ mode = "enabled"
  /\ session \/ p \in helpSession
  /\ InForce(p) /\ penKind[p] # "warning" /\ penReplaces[p] = 0
  /\ penAppeal[p] = "none"
  /\ openCase("appeal", PenaltySource(p), c)
  /\ penAppeal' = [penAppeal EXCEPT ![p] = "open"]
  /\ UNCHANGED <<hideAppeal, penaltyVars, reportVars, hideVars>>

submitHideAppeal(h, c) ==
  /\ mode = "enabled" /\ session
  /\ hideItem[h] # "none" /\ h \notin hideReleased
  /\ hideAppeal[h] = "none"
  /\ openCase("appeal", HideSource(h), c)
  /\ hideAppeal' = [hideAppeal EXCEPT ![h] = "open"]
  /\ UNCHANGED <<penAppeal, penaltyVars, reportVars, hideVars>>

\* The replacement is milder: no higher kind, inside the old scope, and a
\* shorter one of the same kind.
KindRank == [warning |-> 0, restriction |-> 1, suspension |-> 2, removal |-> 3]
milder(p, slot, timed) ==
  /\ KindRank[slot[1]] <= KindRank[penKind[p]]
  /\ IF slot[1] = "restriction"
     THEN penKind[p] # "restriction" \/ slot[2] = penScope[p]
     ELSE slot[2] = penScope[p] \/ (penScope[p] = "account" /\ slot[2] = "creator_capability")
  /\ slot[1] = penKind[p] => timed

\* Fault model of decideReversed: the case is decided, the penalty stays.
decideReversedPaperOnly(p, c) ==
  /\ mode = "enabled"
  /\ penAppeal[p] = "open" /\ caseSource[c] = PenaltySource(p)
  /\ resolveCase(c, "reversed")
  /\ penAppeal' = [penAppeal EXCEPT ![p] = "reversed"]
  /\ UNCHANGED <<penaltyVars, hideAppeal, reportVars, hideVars>>

\* decide, one action per decision.  A penalty that ended while the appeal was
\* open is not ended again: only the standing is computed once more.
decideUpheld(p, c) ==
  /\ mode = "enabled"
  /\ penAppeal[p] = "open" /\ caseSource[c] = PenaltySource(p)
  /\ resolveCase(c, "upheld")
  /\ penAppeal' = [penAppeal EXCEPT ![p] = "upheld"]
  /\ UNCHANGED <<penaltyVars, hideAppeal, reportVars, hideVars>>

decideReversed(p, c) ==
  /\ mode = "enabled"
  /\ penAppeal[p] = "open" /\ caseSource[c] = PenaltySource(p)
  /\ resolveCase(c, "reversed")
  /\ penAppeal' = [penAppeal EXCEPT ![p] = "reversed"]
  /\ IF penState[p] = "active" THEN endPenalty(p, "reversed", TRUE)
     ELSE /\ setStanding(standingAfter(Standing, rowsOf(activePenalties), TRUE, penScope[p]))
          /\ UNCHANGED <<penaltyRows, liveOrders, helpVars, clockVars, mode>>
  /\ UNCHANGED <<hideAppeal, reportVars, hideVars>>

decideReduced(p, c, q, slot, timed) ==
  /\ mode = "enabled"
  /\ penAppeal[p] = "open" /\ caseSource[c] = PenaltySource(p)
  /\ InForce(p)
  /\ slot[1] \in {"restriction", "suspension"} /\ milder(p, slot, timed)
  /\ resolveCase(c, "reduced")
  /\ penAppeal' = [penAppeal EXCEPT ![p] = "reduced"]
  /\ applyInternal(q, slot, timed, penCase[p], FALSE, p)
  /\ UNCHANGED <<hideAppeal, reportVars, hideVars>>

decideHide(h, c, decision) ==
  /\ mode = "enabled"
  /\ hideAppeal[h] = "open" /\ caseSource[c] = HideSource(h)
  /\ decision \in {"upheld", "reversed"}
  /\ resolveCase(c, decision)
  /\ hideAppeal' = [hideAppeal EXCEPT ![h] = decision]
  /\ IF decision = "reversed" THEN releaseForAppeal(h) ELSE UNCHANGED hideVars
  /\ UNCHANGED <<penAppeal, penaltyVars, reportVars>>

-----------------------------------------------------------------------------
restOfPenalties == UNCHANGED <<reportVars, hideVars, appealVars>>

PenaltyCommand ==
  /\ \/ \E p \in PenaltyIds, slot \in Slots, timed, freeze \in BOOLEAN,
           source \in {0} \cup {c \in CaseIds : caseKind[c] = "report"} :
          apply(p, slot, timed, source, freeze)
     \/ \E p \in PenaltyIds : lift(p)
     \/ \E p \in PenaltyIds : acknowledgeWarning(p)
     \/ \E action \in {"suspend", "reinstate"} : setCreatorCapability(action)
     \/ \E p \in PenaltyIds : openHelpSession(p)
     \/ \E p \in PenaltyIds : revokeHelpSession(p)
     \/ requestLink
     \/ SwitchMode
     \/ \E p \in PenaltyIds : PassInstant(p)
     \/ signInAgain
     \/ publishPage
     \/ confirmPayment
  /\ UNCHANGED caseVars /\ restOfPenalties

\* A maintenance run, one of its transactions at a time.
ExpirePenalties == (\E p \in PenaltyIds : expirePenalty(p)) /\ UNCHANGED caseVars /\ restOfPenalties
PurgeHelp == purgeHelp /\ UNCHANGED caseVars /\ restOfPenalties

ReportCommand ==
  /\ mode = "enabled"
  /\ \/ \E r \in Reporters \cup Guests, i \in Items, c \in CaseIds : submitReport(r, i, c)
     \/ ForgetGuest
     \/ \E c \in CaseIds, h \in HideIds : hide(c, h)
     \/ \E h \in HideIds : restore(h)
     \/ \E c \in CaseIds, resolution \in {"dismissed", "actioned"} :
          closeReportCase(c, resolution, \E p \in PenaltyIds : penCase[p] = c)
  /\ UNCHANGED <<penaltyVars, appealVars>>

AppealCommand ==
  \/ \E p \in PenaltyIds, c \in CaseIds :
       \/ submitPenaltyAppeal(p, c)
       \/ decideUpheld(p, c)
       \/ decideReversed(p, c)
       \/ \E q \in PenaltyIds, slot \in Slots, timed \in BOOLEAN : decideReduced(p, c, q, slot, timed)
  \/ \E h \in HideIds, c \in CaseIds :
       \/ submitHideAppeal(h, c)
       \/ \E decision \in {"upheld", "reversed"} : decideHide(h, c, decision)

TrustNext == PenaltyCommand \/ ExpirePenalties \/ PurgeHelp \/ ReportCommand \/ AppealCommand

\* The worker's enforcement maintenance is scheduled for ever.
FairSpec == TrustInit /\ [][TrustNext]_trustVars /\ WF_trustVars(ExpirePenalties)

-----------------------------------------------------------------------------
\* The standing is at least what the penalties in force (and the owner's own
\* suspension) require and at most what the rows still marked active require:
\* applying, lifting, expiring, reversing and reducing never leave a user
\* freer, or more restricted, than his penalties (recomputeStanding).
StandingMatchesPenalties ==
  LET rowsActive == rowsOf({p \in PenaltyIds : penState[p] = "active"})
      rowsInForce == rowsOf(activePenalties)
  IN /\ capability # "none" =>
          /\ CapabilitySeverity[withBaseline(requiredCapabilityState(rowsInForce))] <= CapabilitySeverity[capability]
          /\ CapabilitySeverity[capability] <= CapabilitySeverity[withBaseline(requiredCapabilityState(rowsActive))]
     /\ AccessSeverity[requiredAccess(rowsInForce)] <= AccessSeverity[access]
     /\ AccessSeverity[access] <= AccessSeverity[requiredAccess(rowsActive)]

\* A user out of standing is out everywhere: a closed or suspended account has
\* no session, a page is public only under an active capability, and a removed
\* creator has no commission in progress (setCreatorCapability,
\* setAccountAccess, freezeForRemoval).
OutOfStandingIsOut ==
  /\ session => access = "active"
  /\ published => capability = "active"
  /\ liveOrders => capability # "removed"

\* A user whom an account penalty in force locks out of the product still
\* holds an unrevoked help link to it until its read-only window ends: issue
\* revokes an older link only together with inserting the new one.
LockedOutUserHasLink ==
  \A p \in PenaltyIds : (InForce(p) /\ penScope[p] = "account" /\ p \notin readShut) => p \in helpLink

\* A decided appeal has taken effect and stays in effect: what was reversed is
\* not active, what was reduced was replaced by exactly one penalty, and that
\* replacement was never appealed in its turn (decide, applyReplacement).
DecisionTakesEffect ==
  /\ \A p \in PenaltyIds :
       /\ penAppeal[p] = "reversed" => penState[p] # "active"
       /\ penAppeal[p] = "reduced" =>
            penState[p] = "reduced" /\ \E q \in PenaltyIds : {q} = {r \in PenaltyIds : penReplaces[r] = p}
       /\ penReplaces[p] # 0 => penAppeal[p] = "none"
  /\ \A h \in HideIds : hideAppeal[h] = "reversed" => h \in hideReleased

\* A report is open exactly as long as its case is, however reports, closing
\* and reopening of the item's case follow each other (submit,
\* closeReportCase).
OpenReportHasOpenCase ==
  \A r \in reports : (r \in openReports) = (caseState[r[3]] = "open")

\* Every step writes only rows that the table triggers and unique indexes
\* accept, so that no command of the services dies on a constraint (the
\* trust_guard_* triggers of migrations 0046 to 0057).
TriggersAccept ==
  [][/\ \A c \in CaseIds : trust_guard_case(c) /\ trust_cases_checks(c)'
     /\ \A p \in PenaltyIds :
          trust_guard_penalty(p) /\ trust_penalties_checks(p)' /\ trust_help_link_guard(p)
     /\ \A h \in HideIds : trust_guard_content_hide(h)
     /\ trust_guard_report /\ capability_events_actor_check
     /\ trust_cases_open_source_uidx' /\ trust_penalties_active_uidx'
     /\ trust_content_hides_active_uidx' /\ trust_reports_actor_target_uidx']_trustVars

\* A lock-out ends: an account that is not active either has an account penalty
\* in force or becomes active, because maintenance ends elapsed penalties and
\* gives the account back with the last of them (runOnce, end).
LockOutEnds ==
  []<>(access = "active" \/ \E p \in activePenalties : penScope[p] = "account")

\* The standing is what the penalties require, a user out of standing is out everywhere,
\* and reports, help links and appeals agree with their cases and penalties (setStanding,
\* closeReportCase, issueLink, decide).
TrustIsConsistent ==
  /\ StandingMatchesPenalties /\ OutOfStandingIsOut /\ LockedOutUserHasLink
  /\ DecisionTakesEffect /\ OpenReportHasOpenCase
=============================================================================
