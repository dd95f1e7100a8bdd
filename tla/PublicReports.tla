--------------------------- MODULE PublicReports ---------------------------
(***************************************************************************)
(* Reports of published content and their triage: guest challenges, the    *)
(* abuse limits, reports bound to the exact revision that was visible, and *)
(* the visibility holds an owner puts on a target                          *)
(* (packages/trust/src/report-service.ts, triage-service.ts, migration     *)
(* 0022).  A target is "page" or a showcase.                               *)
(*                                                                         *)
(* The challenge's signature and proof of work, step-up proofs, versions   *)
(* and idempotent replays only refuse a command.                           *)
(***************************************************************************)
EXTENDS Naturals, FiniteSets

CONSTANTS Reports,         \* 1 .. n, handed out in order
          Guests, Actors,  \* requesters: networks, signed-in users
          Challenges,      \* guest challenges
          ActiveLimit,     \* ACTIVE_CHALLENGE_LIMIT
          RequesterLimit,  \* accepted reports of a requester in its window
          TargetLimit      \* TARGET_REVISION_LIMIT

VARIABLES report,     \* public_content_reports
          hold,       \* public_visibility_holds of a report
          challenge,  \* public_report_challenges
          accepted    \* accepted security events that have not expired

reportVars == <<report, hold, challenge, accepted>>

NoReport == [state |-> "none"]

ReportsInit ==
  /\ report = [r \in Reports |-> NoReport]
  /\ hold = [r \in Reports |-> "none"]
  /\ challenge = [c \in Challenges |-> "none"]
  /\ accepted = {}

filed      == {r \in Reports : report[r] # NoReport}
nextReport == Cardinality(filed) + 1

-----------------------------------------------------------------------------
(* Guest challenges: one network, at most ActiveLimit unconsumed.          *)

issueReportChallenge(c) ==
  /\ challenge[c] = "none"
  /\ Cardinality({d \in Challenges : challenge[d] = "issued"}) < ActiveLimit
  /\ challenge' = [challenge EXCEPT ![c] = "issued"]
  /\ UNCHANGED <<report, hold, accepted>>

\* Ten minutes pass; a later issue deletes the row.
challengeExpires(c) ==
  /\ challenge[c] \in {"issued", "consumed"}
  /\ challenge' = [challenge EXCEPT ![c] = "none"]
  /\ UNCHANGED <<report, hold, accepted>>

\* The retention of security events passes.
securityEventExpires(e) ==
  /\ e \in accepted
  /\ accepted' = accepted \ {e}
  /\ UNCHANGED <<report, hold, challenge>>

-----------------------------------------------------------------------------
(* Intake.                                                                 *)

acceptedBy(q) == {e \in accepted : e.requester = q}
acceptedOn(t, n) == {e \in accepted : e.target = t /\ e.revision = n}

\* A signed-in user is remembered by the report, a guest by the security event.
duplicateExists(q, t, n) ==
  IF q \in Actors
  THEN \E r \in filed : /\ report[r].requester = q
                        /\ report[r].target = t /\ report[r].revision = n
  ELSE \E e \in accepted : e.requester = q /\ e.target = t /\ e.revision = n

withinLimits(q, t, n) ==
  /\ Cardinality(acceptedBy(q)) < RequesterLimit
  /\ Cardinality(acceptedOn(t, n)) < TargetLimit
  /\ ~duplicateExists(q, t, n)

\* A guest presents a signed, solved, unexpired challenge that nobody consumed.
challengeAccepted(q, c) == q \in Guests => challenge[c] = "issued"

\* visible: the target is shown by revision n now, read under the page lock.
submitReport(q, c, t, n, visible) ==
  /\ nextReport \in Reports
  /\ challengeAccepted(q, c)
  /\ visible
  /\ withinLimits(q, t, n)
  /\ report' = [report EXCEPT ![nextReport] =
                  [state |-> "open", target |-> t, revision |-> n, requester |-> q]]
  /\ accepted' = accepted \cup {[requester |-> q, target |-> t, revision |-> n, id |-> nextReport]}
  /\ challenge' = IF q \in Guests THEN [challenge EXCEPT ![c] = "consumed"] ELSE challenge
  /\ UNCHANGED hold

\* A guest's report that is refused after the challenge was accepted: the
\* transaction commits, the challenge is spent.
submitReportRejected(q, c, t, n, visible) ==
  /\ q \in Guests
  /\ challengeAccepted(q, c)
  /\ ~visible \/ ~withinLimits(q, t, n)
  /\ challenge' = [challenge EXCEPT ![c] = "consumed"]
  /\ UNCHANGED <<report, hold, accepted>>

-----------------------------------------------------------------------------
(* Triage, under the page lock.                                            *)

activeHolds == {r \in Reports : hold[r] = "active"}

dismiss(r) ==
  /\ report[r].state = "open"
  /\ report' = [report EXCEPT ![r].state = "dismissed"]
  /\ UNCHANGED <<hold, challenge, accepted>>

\* One active hold per target: a second one violates the unique index.
hide(r) ==
  /\ report[r].state = "open"
  /\ \A q \in activeHolds : report[q].target # report[r].target
  /\ report' = [report EXCEPT ![r].state = "held"]
  /\ hold' = [hold EXCEPT ![r] = "active"]
  /\ UNCHANGED <<challenge, accepted>>

restore(r) ==
  /\ report[r].state = "held"
  /\ hold[r] = "active"
  /\ report' = [report EXCEPT ![r].state = "closed"]
  /\ hold' = [hold EXCEPT ![r] = "released"]
  /\ UNCHANGED <<challenge, accepted>>

-----------------------------------------------------------------------------
(* What the other components read.                                         *)

pageHeld      == \E r \in activeHolds : report[r].target = "page"
heldShowcases == {report[r].target : r \in activeHolds} \ {"page"}

\* The (target, revision) pairs whose media is evidence.
evidence == {<<report[r].target, report[r].revision>> :
               r \in {q \in filed : report[q].state = "open"} \cup activeHolds}

-----------------------------------------------------------------------------
ReportsTypeOK ==
  /\ hold \in [Reports -> {"none", "active", "released"}]
  /\ challenge \in [Challenges -> {"none", "issued", "consumed"}]
  /\ \A r \in filed : report[r].state \in {"open", "dismissed", "held", "closed"}

\* The guards of migration 0022 on reports and holds.
triageGuards ==
  \A r \in Reports :
    /\ (report[r] # NoReport /\ report'[r] # report[r]) =>
         /\ <<report[r].state, report'[r].state>> \in
              {<<"open", "dismissed">>, <<"open", "held">>, <<"held", "closed">>}
         /\ report'[r] = [report[r] EXCEPT !.state = report'[r].state]
    /\ report[r] = NoReport /\ report'[r] # NoReport => report'[r].state = "open"
    /\ (hold[r] = "none" /\ hold'[r] # "none") => report'[r].state = "held"
    /\ (hold[r] = "active" /\ hold'[r] # "active") =>
         hold'[r] = "released" /\ report'[r].state = "closed"
    /\ hold[r] = "released" => hold'[r] = "released"
=============================================================================
