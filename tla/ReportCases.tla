---------------------------- MODULE ReportCases -----------------------------
(***************************************************************************)
(* Reports about private commission content of one owner and what the      *)
(* platform owner does with them: packages/trust/src/                      *)
(* private-report-service.ts groups the reports about an item in one open  *)
(* case, content-hide-service.ts hides and restores the item from that     *)
(* case and closes it.  A report is <<reporter, item, case>>; a signed-in  *)
(* reporter reports an item once, a guest (a network) may report a package *)
(* again after a day.  Hide numbers are handed out in order.               *)
(***************************************************************************)
EXTENDS TrustCases

CONSTANTS
  Packages,    \* reported items that are commission packages
  Messages,    \* items that are messages or files
  Briefs,      \* items that are briefs, which cannot be hidden
  Reporters,   \* signed-in reporters
  Guests,      \* guest networks
  MaxHides     \* bound: how many hides are ever made

\* What the constants stand for.
ReportCasesAssumption == MaxHides \in Nat /\ Reporters \cap Guests = {}

VARIABLES
  reports,      \* every report
  openReports,  \* the reports still open
  guestRecent,  \* <<guest, item>> accepted within the last day
  hideItem, hideCase, hideReleased

reportVars == <<reports, openReports, guestRecent>>
hideVars == <<hideItem, hideCase, hideReleased>>

Items == Packages \cup Messages \cup Briefs
HideIds == 1..MaxHides

ReportsInit ==
  /\ reports = {} /\ openReports = {} /\ guestRecent = {}
  /\ hideItem = [h \in HideIds |-> "none"]
  /\ hideCase = [h \in HideIds |-> 0]
  /\ hideReleased = {}

Hidden(i) == \E h \in HideIds : hideItem[h] = i /\ h \notin hideReleased

\* submit: a guest reports packages only and spends a challenge; the item's
\* advisory lock serialises the grouping into its one open case.  The rate
\* limit only refuses.
submitReport(r, i, c) ==
  /\ r \in Guests => i \in Packages /\ <<r, i>> \notin guestRecent
  /\ r \notin Guests => ~ \E old \in reports : old[1] = r /\ old[2] = i
  /\ openCase("report", i, c)
  /\ reports' = reports \cup {<<r, i, c>>}
  /\ openReports' = openReports \cup {<<r, i, c>>}
  /\ guestRecent' = IF r \in Guests THEN guestRecent \cup {<<r, i>>} ELSE guestRecent
  /\ UNCHANGED hideVars

\* A day passes for a guest's accepted report.
ForgetGuest ==
  /\ guestRecent # {}
  /\ guestRecent' = {}
  /\ UNCHANGED <<reports, openReports, hideVars, caseVars>>

hide(c, h) ==
  /\ caseState[c] = "open" /\ caseKind[c] = "report" /\ caseSource[c] \notin Briefs
  /\ ~ Hidden(caseSource[c])
  /\ hideItem[h] = "none" /\ \A g \in HideIds : g < h => hideItem[g] # "none"
  /\ hideItem' = [hideItem EXCEPT ![h] = caseSource[c]]
  /\ hideCase' = [hideCase EXCEPT ![h] = c]
  /\ UNCHANGED <<hideReleased, reportVars, caseVars>>

\* restore: only from the open case that hid the item.
restore(h) ==
  /\ hideItem[h] # "none" /\ h \notin hideReleased
  /\ caseState[hideCase[h]] = "open"
  /\ hideReleased' = hideReleased \cup {h}
  /\ UNCHANGED <<hideItem, hideCase, reportVars, caseVars>>

\* closeReportCase: "actioned" exactly when a hide or a penalty of this case
\* exists; every open report of the case closes with it.
closeReportCase(c, resolution, punished) ==
  /\ caseKind[c] = "report"
  /\ (resolution = "actioned") = (punished \/ \E h \in HideIds : hideCase[h] = c)
  /\ resolveCase(c, resolution)
  /\ openReports' = {r \in openReports : r[3] # c}
  /\ UNCHANGED <<reports, guestRecent, hideVars>>

releaseForAppeal(h) == hideReleased' = hideReleased \cup {h} /\ UNCHANGED <<hideItem, hideCase>>

\* Rows the report trigger accepts: a report starts open in an open case of
\* its item, closes once and is never deleted.
trust_guard_report ==
  /\ reports \subseteq reports'
  /\ \A r \in reports' \ reports :
       /\ r \in openReports'
       /\ caseState'[r[3]] = "open" /\ caseKind'[r[3]] = "report" /\ caseSource'[r[3]] = r[2]
  /\ (openReports' \ openReports) \cap reports = {}

\* Unique index: a signed-in reporter reports an item once.
trust_reports_actor_target_uidx ==
  \A r, s \in reports : (r[1] = s[1] /\ r[1] \in Reporters /\ r[2] = s[2]) => r = s

\* Rows the hide trigger accepts: a hide starts in the open case of a reported
\* item and is released once.
trust_guard_content_hide(h) ==
  /\ (hideItem[h] = "none" /\ hideItem'[h] # "none") =>
       /\ caseState[hideCase'[h]] = "open" /\ h \notin hideReleased'
       /\ \E r \in reports : r[2] = hideItem'[h] /\ r[3] = hideCase'[h]
  /\ h \in hideReleased => h \in hideReleased'
  /\ hideItem[h] # "none" => hideItem'[h] = hideItem[h] /\ hideCase'[h] = hideCase[h]

trust_content_hides_active_uidx ==
  \A g, h \in HideIds :
    (g # h /\ hideItem[g] = hideItem[h] /\ hideItem[g] # "none") => {g, h} \cap hideReleased # {}
=============================================================================
