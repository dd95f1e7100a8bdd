-------------------------- MODULE CreatorApplication --------------------------
(***************************************************************************)
(* The creator applications of one applicant and their review by the       *)
(* owners: packages/identity/src/creator-application-service.ts and        *)
(* packages/admin/src/creator-review-service.ts.  Every command carries    *)
(* the application version its sender last read and aborts when another is *)
(* stored; reading (getForApplicant, getDetail, listSubmitted) is always   *)
(* possible, so the steps below are those of senders who have read the     *)
(* stored version, and the version itself is left out.                     *)
(***************************************************************************)
EXTENDS Naturals, FiniteSets

CONSTANTS MaxApps,    \* bound on the applications of the applicant
          MaxRevs,    \* bound on the revisions of all applications
          Owners,     \* the reviewers
          NoOwner

ASSUME ApplicationBounds == /\ MaxApps \in Nat \ {0}
                            /\ MaxRevs \in Nat \ {0}
                            /\ NoOwner \notin Owners

VARIABLES
    appState,   \* state of application a, "none" before it exists
    rev,        \* identifier of the current revision, 0 for none
    sent,       \* applications whose current revision has submittedAt
    proposed,   \* account version the current revision names, or 0
    emailOK,    \* applications under review that hold the user's present address
    reviewer,   \* the owner whose claim is stored
    live,       \* applications whose claim has not expired
    cooling,    \* rejected applications before cooldownUntil
    latest,     \* the application with the greatest updatedAt, or 0
    overtaken,  \* history: applications opened behind a later updatedAt
    capability, \* the capability granted: [app, rev, acc], app 0 for none
    session     \* rights with which the applicant's open session was made

appVars == <<appState, rev, sent, proposed, emailOK, reviewer, live, cooling,
             latest, overtaken, capability, session>>

Apps == 1..MaxApps
AppStates == {"none", "draft", "submitted", "under_review", "changes_requested",
              "approved", "rejected", "withdrawn"}
Nonterminal == {"draft", "submitted", "under_review", "changes_requested"}
Editable == {"draft", "changes_requested"}
NoCapability == [app |-> 0, rev |-> 0, acc |-> 0]

AppInit ==
    /\ appState = [a \in Apps |-> "none"]
    /\ rev = [a \in Apps |-> 0]
    /\ sent = {}
    /\ proposed = [a \in Apps |-> 0]
    /\ emailOK = {}
    /\ reviewer = [a \in Apps |-> NoOwner]
    /\ live = {}
    /\ cooling = {}
    /\ latest = 0
    /\ overtaken = {}
    /\ capability = NoCapability
    /\ session = "buyer"   \* the applicant is signed in

\* creator_applications_one_nonterminal_uidx, for a row that becomes nonterminal.
OneNonterminal(a) == \A b \in Apps \ {a} : appState[b] \notin Nonterminal

\* updatedAt of application a is written.  A command reads its clock before it
\* waits for the row, so a late one leaves a behind an application that another
\* command stamped meanwhile.  A sender has read the version he writes over, so
\* the row never falls behind its own previous stamp.
stamp(a, late) ==
    /\ latest' = IF late /\ latest # 0 THEN latest ELSE a
    /\ overtaken' = IF latest' = a THEN overtaken ELSE overtaken \cup {a}

-----------------------------------------------------------------------------
\* The applicant.

\* The identifier of a new revision row.
NewRevision == CHOOSE r \in 1..(MaxRevs + 1) :
                 /\ \A a \in Apps : rev[a] < r
                 /\ r = 1 \/ \E a \in Apps : rev[a] = r - 1

\* The current revision is edited in place until it is submitted; the first
\* change after a submitted revision was sent back starts a new one.
NextRevision(a) == IF appState[a] = "changes_requested" /\ a \in sent THEN NewRevision ELSE rev[a]

\* saveDraft on the editable application (account v, or 0 for none).
saveDraft(v) ==
    LET a == latest IN
    /\ a # 0 /\ appState[a] \in Editable
    /\ NextRevision(a) <= MaxRevs
    /\ rev' = [rev EXCEPT ![a] = NextRevision(a)]
    /\ sent' = sent \ {a}
    /\ proposed' = [proposed EXCEPT ![a] = v]
    /\ UNCHANGED <<appState, emailOK, reviewer, live, cooling, latest, overtaken,
                   capability, session>>

\* saveDraft when the latest application cannot be edited: a new application,
\* unless the last rejection is cooling down or another one is nonterminal.  A
\* clock read before a rejection is within its cooldown.
startDraft(v, late) ==
    /\ latest # 0 => appState[latest] \notin Editable
    /\ cooling = {}
    /\ late /\ latest # 0 => appState[latest] # "rejected"
    /\ NewRevision <= MaxRevs
    /\ Cardinality({a \in Apps : appState[a] # "none"}) < MaxApps
    /\ LET a == Cardinality({b \in Apps : appState[b] # "none"}) + 1 IN
         /\ OneNonterminal(a)
         /\ appState' = [appState EXCEPT ![a] = "draft"]
         /\ rev' = [rev EXCEPT ![a] = NewRevision]
         /\ proposed' = [proposed EXCEPT ![a] = v]
         /\ stamp(a, late)
    /\ UNCHANGED <<sent, emailOK, reviewer, live, cooling, capability, session>>

\* submit with account v; age, attestations and a verified address are
\* conditions on data that the model leaves out.
submit(v) ==
    LET a == latest IN
    /\ a # 0 /\ appState[a] \in Editable
    /\ NextRevision(a) <= MaxRevs
    /\ rev' = [rev EXCEPT ![a] = NextRevision(a)]
    /\ sent' = sent \cup {a}
    /\ proposed' = [proposed EXCEPT ![a] = v]
    /\ emailOK' = emailOK \cup {a}
    /\ appState' = [appState EXCEPT ![a] = "submitted"]
    /\ UNCHANGED <<reviewer, live, cooling, latest, overtaken,
                   capability, session>>

withdraw ==
    LET a == latest IN
    /\ a # 0 /\ appState[a] \in Nonterminal
    /\ appState' = [appState EXCEPT ![a] = "withdrawn"]
    /\ reviewer' = [reviewer EXCEPT ![a] = NoOwner]
    /\ live' = live \ {a}
    /\ emailOK' = emailOK \ {a}
    /\ UNCHANGED <<rev, sent, proposed, cooling, latest, overtaken,
                   capability, session>>

-----------------------------------------------------------------------------
\* The owners.

claim(o, a, late) ==
    /\ \/ appState[a] = "submitted"
       \/ appState[a] = "under_review" /\ a \notin live
    /\ appState' = [appState EXCEPT ![a] = "under_review"]
    /\ reviewer' = [reviewer EXCEPT ![a] = o]
    /\ live' = live \cup {a}
    /\ stamp(a, late)
    /\ UNCHANGED <<rev, sent, proposed, emailOK, cooling, capability, session>>

ownerHasActiveClaim(o, a) ==
    appState[a] = "under_review" /\ reviewer[a] = o /\ a \in live

\* The part of decide that every action shares.
settleDecision(a, next, late) ==
    /\ appState' = [appState EXCEPT ![a] = next]
    /\ reviewer' = [reviewer EXCEPT ![a] = NoOwner]
    /\ live' = live \ {a}
    /\ emailOK' = emailOK \ {a}
    /\ stamp(a, late)
    /\ UNCHANGED <<rev, sent, proposed>>

\* decide: request_changes and reject.
decide(o, a, next, late) ==
    /\ ownerHasActiveClaim(o, a)
    /\ next \in {"changes_requested", "rejected"}
    /\ settleDecision(a, next, late)
    /\ cooling' = IF next = "rejected" THEN cooling \cup {a} ELSE cooling
    /\ UNCHANGED <<capability, session>>

\* decide: reopen a rejected application; rejectedAt and cooldownUntil are cleared.
reopen(a, late) ==
    /\ appState[a] = "rejected"
    /\ OneNonterminal(a)
    /\ settleDecision(a, "changes_requested", late)
    /\ cooling' = cooling \ {a}
    /\ UNCHANGED <<capability, session>>

\* decide: approve, with the checks of revalidateApproval on the application
\* itself; those on the account are in CreatorOnboarding!approve.  The user's
\* sessions are revoked because his rights changed.
grant(o, a, late) ==
    /\ ownerHasActiveClaim(o, a)
    /\ a \in sent /\ a \in emailOK
    /\ capability = NoCapability
    /\ settleDecision(a, "approved", late)
    /\ capability' = [app |-> a, rev |-> rev[a], acc |-> proposed[a]]
    /\ session' = "none"
    /\ UNCHANGED cooling

-----------------------------------------------------------------------------
\* Time and the identity provider.

claimExpires(a) ==
    /\ a \in live
    /\ live' = live \ {a}
    /\ UNCHANGED <<appState, rev, sent, proposed, emailOK, reviewer, cooling, latest, overtaken,
                   capability, session>>

cooldownEnds(a) ==
    /\ a \in cooling
    /\ cooling' = cooling \ {a}
    /\ UNCHANGED <<appState, rev, sent, proposed, emailOK, reviewer, live, latest, overtaken,
                   capability, session>>

\* The user's address changes; the revisions keep the one they were sent with.
emailChanges ==
    /\ emailOK # {}
    /\ emailOK' = {}
    /\ UNCHANGED <<appState, rev, sent, proposed, reviewer, live, cooling, latest, overtaken,
                   capability, session>>

Rights == IF capability = NoCapability THEN "buyer" ELSE "creator"

\* Single sign-on makes a session with the rights of the moment.
signIn ==
    /\ session = "none"
    /\ session' = Rights
    /\ UNCHANGED <<appState, rev, sent, proposed, emailOK, reviewer, live, cooling, latest,
                   overtaken, capability>>

AppTypeOK ==
    /\ appState \in [Apps -> AppStates]
    /\ rev \in [Apps -> 0..MaxRevs]
    /\ sent \subseteq Apps
    /\ emailOK \subseteq Apps
    /\ reviewer \in [Apps -> Owners \cup {NoOwner}]
    /\ live \subseteq Apps
    /\ cooling \subseteq Apps
    /\ latest \in 0..MaxApps
    /\ overtaken \subseteq Apps
    /\ session \in {"none", "buyer", "creator"}
=============================================================================
