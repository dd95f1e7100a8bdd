----------------------------- MODULE TrustCases -----------------------------
(***************************************************************************)
(* Moderation cases (packages/trust/src/case-port.ts): a case is opened    *)
(* once per kind and source while it is open, collects events and is       *)
(* resolved once with a resolution its kind allows.  The two kinds that    *)
(* trust itself opens are modelled: a report case about an item and an     *)
(* appeal case about an appeal.  Case numbers are handed out in order.     *)
(* The version column only refuses commands that were composed against an  *)
(* older row; a refused command changes nothing and is not a step.         *)
(***************************************************************************)
EXTENDS Naturals, FiniteSets

CONSTANT MaxCases   \* bound: how many cases are ever opened

\* What the constants stand for.
MaxCasesAssumption == MaxCases \in Nat

VARIABLES caseState, caseKind, caseSource, caseResolution

caseVars == <<caseState, caseKind, caseSource, caseResolution>>

CaseIds == 1..MaxCases

\* What a case of each kind may be resolved to.
resolutions(kind) ==
  IF kind = "report" THEN {"dismissed", "actioned"}
  ELSE {"upheld", "reduced", "reversed"}

CasesInit ==
  /\ caseState = [c \in CaseIds |-> "none"]
  /\ caseKind = [c \in CaseIds |-> "none"]
  /\ caseSource = [c \in CaseIds |-> <<>>]
  /\ caseResolution = [c \in CaseIds |-> "none"]

findOpenCase(kind, source) ==
  {c \in CaseIds : caseState[c] = "open" /\ caseKind[c] = kind /\ caseSource[c] = source}

NextCase(c) ==
  /\ c \in CaseIds
  /\ caseState[c] = "none"
  /\ \A d \in CaseIds : d < c => caseState[d] # "none"

\* Inserts the case, or finds the open one that the unique index protects.
openCase(kind, source, c) ==
  IF findOpenCase(kind, source) # {}
  THEN c \in findOpenCase(kind, source) /\ UNCHANGED caseVars
  ELSE /\ NextCase(c)
       /\ caseState' = [caseState EXCEPT ![c] = "open"]
       /\ caseKind' = [caseKind EXCEPT ![c] = kind]
       /\ caseSource' = [caseSource EXCEPT ![c] = source]
       /\ UNCHANGED caseResolution

resolveCase(c, resolution) ==
  /\ caseState[c] = "open"
  /\ resolution \in resolutions(caseKind[c])
  /\ caseState' = [caseState EXCEPT ![c] = "resolved"]
  /\ caseResolution' = [caseResolution EXCEPT ![c] = resolution]
  /\ UNCHANGED <<caseKind, caseSource>>

\* The row a case update may leave behind, as its table constraints and its
\* trigger state it: identity is immutable, an open case has no resolution,
\* a resolved one has a resolution of its kind and never changes again.
trust_guard_case(c) ==
  /\ caseState[c] = "none" => caseState'[c] \in {"none", "open"}
  /\ caseState[c] = "open" =>
       /\ caseState'[c] \in {"open", "resolved"}
       /\ caseKind'[c] = caseKind[c] /\ caseSource'[c] = caseSource[c]
       /\ caseState'[c] = "resolved" => caseResolution'[c] \in resolutions(caseKind[c])
  /\ caseState[c] = "resolved" =>
       /\ caseState'[c] = "resolved"
       /\ caseResolution'[c] = caseResolution[c]

\* The table's own checks: a resolution belongs to a resolved case of a kind
\* that allows it.
trust_cases_checks(c) ==
  /\ (caseState[c] = "resolved") = (caseResolution[c] # "none")
  /\ caseState[c] = "resolved" => caseResolution[c] \in resolutions(caseKind[c])

\* Unique index: one open case per kind and source.
trust_cases_open_source_uidx ==
  \A c, d \in CaseIds :
    (c # d /\ caseState[c] = "open" /\ caseState[d] = "open" /\ caseKind[c] = caseKind[d])
      => caseSource[c] # caseSource[d]
=============================================================================
