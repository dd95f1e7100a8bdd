------------------------------ MODULE Retention ------------------------------
(***************************************************************************)
(* The retention sweep of packages/database/src/retention-repository.ts:   *)
(* one transaction per dataset that counts the candidates, removes the     *)
(* eligible ones in `enforce` mode and records the run.  READ COMMITTED:   *)
(* every statement of a transaction is a step of its own and sees what the *)
(* others committed in between.  One applicant with his applications and   *)
(* the account versions they name; the datasets of plain rows              *)
(* (provisional accounts, verifications, sessions, throttles) have one row *)
(* each.  Instants are abstracted to the cut-offs: age 1 is past the 30    *)
(* days of an account, age 2 past the 180 days of application content, and *)
(* the cooldown of a rejected application is part of age 1.                *)
(***************************************************************************)
EXTENDS Naturals, FiniteSets, Sequences

CONSTANTS Apps, Accounts,  \* applications and receiving-account versions
          Swept,           \* the datasets of this instance
          Batch,           \* batchSize
          User,            \* the applicant, as the subject of a hold
          Holdable,        \* [dataset, subject] an owner may hold
          NoAccount

\* What the constants stand for.
RetentionAssumption ==
    /\ IsFiniteSet(Apps) /\ IsFiniteSet(Accounts) /\ NoAccount \notin Accounts
    /\ Batch \in Nat \ {0}
ASSUME RetentionAssumption

VARIABLES
    app,         \* app[a]: "none", "open" (draft, changes_requested), "sent"
                 \* (submitted, under_review), "closed" (withdrawn, rejected)
    age,         \* age[a]: time since the last update of a, by cut-off
    link,        \* link[a]: proposed_receiving_account_id of a's revisions
    content,     \* applications with a revision that is not minimised
    number,      \* accounts with minimized_at null and both envelopes present
    capability,  \* the approved application, or <<>>
    challenged,  \* accounts with a challenge that is issued or sent_reported
    owed,        \* pairs <<application, account>> with an open refund obligation
                 \* or an unmatched deposit whose liability is open
    intents,     \* accounts with a payment intent
    rows,        \* rows[d]: "young", "past" its cut-off or "gone"
    shielded,    \* plain datasets whose row some business record refers to
    holds,       \* active holds
    fence, row,  \* holder of the fingerprint fence and of the row lock of p
    writer,      \* [at |-> "idle" | "fence" | "row", on |-> account]
    mode,        \* "report_only", "paused" (enforce, but paused) or "enforce"
    ds, at,      \* position in the sweep: dataset and statement
    counts,      \* [candidates, protected] of the transaction
    picked,      \* accounts selected, fenced or locked by the transaction
    last         \* the row of system_retention_runs the last transaction
                 \* inserted, forgotten when the next one begins

appVars == <<app, age, link, content, capability>>
accountVars == <<number, challenged, owed, intents>>
plainVars == <<rows, shielded>>
lockVars == <<fence, row>>
sweepVars == <<ds, at, counts, picked, last>>
retentionVars == <<appVars, accountVars, plainVars, holds, lockVars, writer, mode, sweepVars>>

RETENTION_DATASETS ==
    <<"provisional_accounts", "verifications", "sessions", "receiving_accounts",
      "application_content", "security_throttles", "tip_claims">>
Order == SelectSeq(RETENTION_DATASETS, LAMBDA d : d \in Swept)
Plain == Swept \cap {"provisional_accounts", "verifications", "sessions", "security_throttles"}
Dataset == Order[ds]
NoCounts == [candidates |-> 0, protected |-> 0]
NoRun == [dataset |-> "none", mode |-> "report_only", candidates |-> 0, protected |-> 0,
          processed |-> 0, outcome |-> "completed"]

SweepInit ==
    /\ app = [a \in Apps |-> "none"]
    /\ age = [a \in Apps |-> 0]
    /\ link = [a \in Apps |-> NoAccount]
    /\ content = {}
    /\ number = Accounts
    /\ capability = <<>>
    /\ challenged = {} /\ owed = {} /\ intents = {}
    /\ rows = [d \in Plain |-> "young"]
    /\ shielded = {}
    /\ holds = {}
    /\ fence = [p \in Accounts |-> "free"]
    /\ row = [p \in Accounts |-> "free"]
    /\ writer \in [at : {"idle"}, on : Accounts]
    /\ mode = "report_only"
    /\ ds = 1 /\ at = "idle" /\ counts = NoCounts /\ picked = {}
    /\ last = NoRun

-----------------------------------------------------------------------------
\* What a dataset may remove: candidates by age, minus the protected ones.

cutoffFor(d) == IF d = "application_content" THEN 2 ELSE 1
activeHold(d, s) == \E h \in holds : h.dataset = d /\ h.subject = s

Ended(a, d) == app[a] = "closed" /\ age[a] >= cutoffFor(d)

\* One item per account, application or row; a tip dataset always has one.
Candidates(d) ==
    CASE d = "receiving_accounts" ->
           {p \in number : \E a \in Apps : link[a] = p /\ Ended(a, d)}
      [] d = "application_content" -> {a \in content : Ended(a, d)}
      [] d = "tip_claims" -> {d}
      [] OTHER -> {x \in {d} : rows[d] = "past"}

receivingAccountRetentionEligibility(p) ==
    /\ p \in Candidates("receiving_accounts")
    /\ capability = <<>>
    /\ p \notin intents
    /\ \A a \in Apps : link[a] = p => app[a] \notin {"open", "sent"}
    /\ p \notin challenged
    /\ \A a \in Apps : <<a, p>> \notin owed
    /\ ~activeHold("receiving_accounts", p) /\ ~activeHold("receiving_accounts", User)

Eligible(d) ==
    CASE d = "receiving_accounts" ->
           {p \in Accounts : receivingAccountRetentionEligibility(p)}
      [] d = "application_content" ->
           {a \in Candidates(d) : /\ capability # <<a>>
                                  /\ \A p \in Accounts : <<a, p>> \notin owed
                                  /\ ~activeHold(d, a) /\ ~activeHold(d, User)}
      [] d = "tip_claims" -> {}
      [] OTHER -> {x \in Candidates(d) : d \notin shielded /\ ~activeHold(d, User)}

countCandidates(d) ==
    [candidates |-> Cardinality(Candidates(d)),
     protected |-> Cardinality(Candidates(d)) - Cardinality(Eligible(d))]

\* limit batchSize: the oldest ones, that is any of them here.
Batches(S) == {T \in SUBSET S : IF Cardinality(S) <= Batch THEN T = S
                                ELSE Cardinality(T) = Batch}

-----------------------------------------------------------------------------
\* The sweep.

ModeOf(d) == IF d = "tip_claims" \/ mode = "report_only" THEN "report_only" ELSE "enforce"
Enforcing == ModeOf(Dataset) = "enforce" /\ mode # "paused"

NextDataset ==
    /\ ds' = IF ds = Len(Order) THEN 1 ELSE ds + 1
    /\ at' = "idle" /\ counts' = NoCounts /\ picked' = {}

recordRun(c, processed, outcome) ==
    last' = [dataset |-> Dataset, mode |-> ModeOf(Dataset), candidates |-> c.candidates,
             protected |-> c.protected, processed |-> processed, outcome |-> outcome]

\* The advisory lock of the dataset is taken, then the candidates are counted.
Count ==
    /\ at = "idle"
    /\ counts' = countCandidates(Dataset)
    /\ at' = "counted"
    /\ last' = NoRun
    /\ UNCHANGED <<appVars, accountVars, plainVars, holds, lockVars, writer, mode, ds, picked>>

\* report_only or paused: the run is recorded, nothing is removed.
Report ==
    /\ at = "counted" /\ ~Enforcing
    /\ recordRun(counts, 0, IF ModeOf(Dataset) = "enforce" THEN "paused" ELSE "completed")
    /\ NextDataset
    /\ UNCHANGED <<appVars, accountVars, plainVars, holds, lockVars, writer, mode>>

\* The deletes of the plain datasets and the minimisation of applications.
enforceDataset ==
    /\ at = "counted" /\ Enforcing /\ Dataset # "receiving_accounts"
    /\ \E S \in Batches(Eligible(Dataset)) :
         /\ \/ /\ Dataset = "application_content"
               /\ content' = content \ S
               /\ link' = [a \in Apps |-> IF a \in S THEN NoAccount ELSE link[a]]
               /\ UNCHANGED rows
            \/ /\ Dataset # "application_content"
               /\ rows' = [d \in Plain |-> IF d \in S THEN "gone" ELSE rows[d]]
               /\ UNCHANGED <<content, link>>
         /\ recordRun(counts, Cardinality(S), "completed")
    /\ NextDataset
    /\ UNCHANGED <<app, age, capability, accountVars, shielded, holds, lockVars, writer, mode>>

\* minimizeReceivingAccounts, statement by statement: the candidates ...
SelectAccounts ==
    /\ at = "counted" /\ Enforcing /\ Dataset = "receiving_accounts"
    /\ picked' \in Batches(Eligible(Dataset))
    /\ at' = "selected"
    /\ UNCHANGED <<appVars, accountVars, plainVars, holds, lockVars, writer, mode, ds, counts, last>>

\* ... whose fence is free; the busy ones are left for a later sweep.
Fenced(S) == {p \in S : fence[p] = "free"}

FenceAccounts ==
    /\ at = "selected"
    /\ fence' = [p \in Accounts |-> IF p \in picked /\ fence[p] = "free" THEN "sweep" ELSE fence[p]]
    /\ picked' = Fenced(picked)
    /\ at' = "fenced"
    /\ UNCHANGED <<appVars, accountVars, plainVars, holds, row, writer, mode, ds, counts, last>>

\* ... locked, when they are still eligible and nobody has the row ...
LockAccounts ==
    /\ at = "fenced"
    /\ picked' = {p \in picked : receivingAccountRetentionEligibility(p) /\ row[p] = "free"}
    /\ row' = [p \in Accounts |-> IF p \in picked' THEN "sweep" ELSE row[p]]
    /\ at' = "locked"
    /\ UNCHANGED <<appVars, accountVars, plainVars, holds, fence, writer, mode, ds, counts, last>>

Unlocked(f, who) == [p \in Accounts |-> IF f[p] = who THEN "free" ELSE f[p]]

\* The triggers on the update take the fence (payments_sepay_account_fence) and
\* refuse to minimise an account with intents.
UpdateAccepted(p) == fence[p] # "writer" /\ p \notin intents

\* ... and updated.  The transaction commits.
MinimizeAccounts ==
    /\ at = "locked"
    /\ \A p \in picked : UpdateAccepted(p)
    /\ number' = number \ picked
    /\ recordRun(counts, Cardinality(picked), "completed")
    /\ fence' = Unlocked(fence, "sweep") /\ row' = Unlocked(row, "sweep")
    /\ NextDataset
    /\ UNCHANGED <<appVars, challenged, owed, intents, plainVars, holds, writer, mode>>

\* Any statement may fail: the dataset is rolled back, a run of outcome "failed"
\* is recorded on its own and the sweep goes on with the next dataset.
FailDataset ==
    /\ at # "idle"
    /\ recordRun(NoCounts, 0, "failed")
    /\ fence' = Unlocked(fence, "sweep") /\ row' = Unlocked(row, "sweep")
    /\ NextDataset
    /\ UNCHANGED <<appVars, accountVars, plainVars, holds, writer, mode>>

-----------------------------------------------------------------------------
\* Everybody else.

\* Fault model of HoldWaits: the trigger on the holds takes no lock.
HoldWaitsNot(d) == FALSE

\* system_guard_retention_hold_change waits for the sweep of the dataset.
HoldWaits(d) == at # "idle" /\ Dataset = d

PlaceHold(h) ==
    /\ h \in Holdable \ holds /\ ~HoldWaits(h.dataset)
    /\ holds' = holds \cup {h}
    /\ UNCHANGED <<appVars, accountVars, plainVars, lockVars, writer, mode, sweepVars>>

ReleaseHold(h) ==
    /\ h \in holds /\ ~HoldWaits(h.dataset)
    /\ holds' = holds \ {h}
    /\ UNCHANGED <<appVars, accountVars, plainVars, lockVars, writer, mode, sweepVars>>

\* The worker is restarted with other options; its first sweep begins anew.
Configure(m) ==
    /\ at = "idle" /\ m # mode
    /\ mode' = m
    /\ ds' = 1 /\ last' = NoRun
    /\ UNCHANGED <<appVars, accountVars, plainVars, holds, lockVars, writer, at, counts, picked>>

\* A draft, a submission: the account has to be valid and its row is locked.
\* One application of a user may be open.
NameAccount(a, p, s) ==
    /\ app[a] \in {"none", "open"} /\ capability = <<>>
    /\ \A b \in Apps \ {a} : app[b] \notin {"open", "sent"}
    /\ p \in number /\ row[p] = "free"
    /\ app' = [app EXCEPT ![a] = s]
    /\ age' = [age EXCEPT ![a] = 0]
    /\ link' = [link EXCEPT ![a] = p]
    /\ content' = content \cup {a}
    /\ UNCHANGED <<capability, accountVars, plainVars, holds, lockVars, writer, mode, sweepVars>>

\* Withdrawal, rejection (closed) and the reopening of a rejected application.
CloseOrReopen(a, s) ==
    /\ \/ app[a] \in {"open", "sent"} /\ s = "closed"
       \/ app[a] = "closed" /\ s = "open" /\ \A b \in Apps : app[b] \notin {"open", "sent"}
    /\ app' = [app EXCEPT ![a] = s]
    /\ age' = [age EXCEPT ![a] = 0]
    /\ UNCHANGED <<link, content, capability, accountVars, plainVars, holds, lockVars, writer,
                   mode, sweepVars>>

Approve(a) ==
    /\ app[a] = "sent" /\ link[a] \in number /\ row[link[a]] = "free"
    /\ app' = [app EXCEPT ![a] = "approved"]
    /\ capability' = <<a>>
    /\ UNCHANGED <<age, link, content, accountVars, plainVars, holds, lockVars, writer, mode,
                   sweepVars>>

\* A challenge is issued for a submitted application; the deposit arrives and
\* has to be refunded; the refund is sent.
Challenge(a) ==
    /\ app[a] = "sent" /\ link[a] \in number /\ row[link[a]] = "free"
    /\ link[a] \notin challenged
    /\ challenged' = challenged \cup {link[a]}
    /\ UNCHANGED <<appVars, number, owed, intents, plainVars, holds, lockVars, writer, mode, sweepVars>>

Deposit(a) ==
    /\ link[a] \in challenged
    /\ challenged' = challenged \ {link[a]}
    /\ owed' = owed \cup {<<a, link[a]>>}
    /\ UNCHANGED <<appVars, number, intents, plainVars, holds, lockVars, writer, mode, sweepVars>>

Refund(x) ==
    /\ x \in owed
    /\ owed' = owed \ {x}
    /\ UNCHANGED <<appVars, number, challenged, intents, plainVars, holds, lockVars, writer, mode,
                   sweepVars>>

\* A payment writer: the fence, the row, then the intent if the account stands.
WriterFence(p) ==
    /\ writer.at = "idle" /\ fence[p] = "free"
    /\ fence' = [fence EXCEPT ![p] = "writer"]
    /\ writer' = [at |-> "fence", on |-> p]
    /\ UNCHANGED <<appVars, accountVars, plainVars, holds, row, mode, sweepVars>>

WriterRow ==
    /\ writer.at = "fence" /\ row[writer.on] = "free"
    /\ row' = [row EXCEPT ![writer.on] = "writer"]
    /\ writer' = [writer EXCEPT !.at = "row"]
    /\ UNCHANGED <<appVars, accountVars, plainVars, holds, fence, mode, sweepVars>>

WriterCommit ==
    /\ writer.at = "row"
    /\ intents' = IF capability # <<>> /\ writer.on \in number THEN intents \cup {writer.on}
                  ELSE intents
    /\ fence' = Unlocked(fence, "writer") /\ row' = Unlocked(row, "writer")
    /\ writer' = [writer EXCEPT !.at = "idle"]
    /\ UNCHANGED <<appVars, number, challenged, owed, plainVars, holds, mode, sweepVars>>

\* Time, and the business records that refer to a plain row.  `now` of a sweep
\* is fixed when it starts, so nothing becomes a candidate while it lasts.
Ages ==
    /\ at = "idle" /\ ds = 1
    /\ \/ \E a \in Apps : /\ app[a] = "closed" /\ age[a] < 2
                          /\ age' = [age EXCEPT ![a] = @ + 1] /\ UNCHANGED rows
       \/ \E d \in Plain : /\ rows[d] = "young"
                           /\ rows' = [rows EXCEPT ![d] = "past"] /\ UNCHANGED age
    /\ UNCHANGED <<app, link, content, capability, accountVars, shielded, holds, lockVars,
                   writer, mode, sweepVars>>

Refer(d) ==
    /\ rows[d] # "gone"
    /\ shielded' = IF d \in shielded THEN shielded \ {d} ELSE shielded \cup {d}
    /\ UNCHANGED <<appVars, accountVars, rows, holds, lockVars, writer, mode, sweepVars>>

-----------------------------------------------------------------------------
Sweep ==
    \/ Count
    \/ Report
    \/ enforceDataset
    \/ SelectAccounts
    \/ FenceAccounts
    \/ LockAccounts
    \/ MinimizeAccounts
    \/ FailDataset

Applicant ==
    \/ \E a \in Apps, p \in Accounts, s \in {"open", "sent"} : NameAccount(a, p, s)
    \/ \E a \in Apps, s \in {"open", "closed"} : CloseOrReopen(a, s)
    \/ \E a \in Apps : Approve(a)
    \/ \E a \in Apps : Challenge(a)
    \/ \E a \in Apps : Deposit(a)
    \/ \E x \in owed : Refund(x)

SweepNext ==
    \/ Sweep
    \/ Applicant
    \/ \E p \in Accounts : WriterFence(p)
    \/ WriterRow
    \/ WriterCommit
    \/ \E h \in Holdable : PlaceHold(h)
    \/ \E h \in holds : ReleaseHold(h)
    \/ \E m \in {"report_only", "paused", "enforce"} : Configure(m)
    \/ Ages
    \/ \E d \in Plain : Refer(d)

SweepSpec == SweepInit /\ [][SweepNext]_retentionVars

-----------------------------------------------------------------------------
(* An account number somebody still needs is there: the account a payment   *)
(* intent pays to, the one of a submitted application and the one of an     *)
(* active challenge, whatever was committed between the statements of       *)
(* minimizeReceivingAccounts.                                               *)
NeededNumberIsKept ==
    /\ intents \cup challenged \subseteq number
    /\ \A a \in Apps : app[a] = "sent" => link[a] \in number

(* The sweep never holds the row of an account whose fence a payment writer *)
(* has: the writer waits for the row with the fence in hand, and the trigger *)
(* on the sweep's update waits for the fence, so both would wait for ever.  *)
NoLockCycle == \A p \in Accounts : ~(row[p] = "sweep" /\ fence[p] = "writer")

(* The check constraints of system_retention_runs accept every run, though  *)
(* the records are counted and removed by two statements: no more removed   *)
(* than counted, nothing removed from a tip dataset or without enforcement. *)
RunsAreRecordable ==
    /\ last.processed <= last.candidates
    /\ last.mode = "report_only" \/ last.outcome # "completed" => last.processed = 0
    /\ last.dataset = "tip_claims" =>
         last.mode = "report_only" /\ last.protected = last.candidates

(* What an owner placed under a hold is not removed while the hold is       *)
(* active, even when the hold arrives while the dataset is being swept.     *)
KeepsHeld ==
    /\ \A p \in number \ number' :
         ~activeHold("receiving_accounts", p) /\ ~activeHold("receiving_accounts", User)
    /\ \A a \in content \ content' :
         ~activeHold("application_content", a) /\ ~activeHold("application_content", User)
    /\ \A d \in Plain : rows[d] # "gone" /\ rows'[d] = "gone" => ~activeHold(d, User)

HeldIsKept == [][KeepsHeld]_retentionVars

(* Retention erases no number that is still needed and nothing under a      *)
(* hold, its locks cannot wait on each other and its runs can be recorded.  *)
RetentionIsSafe ==
    /\ [](NeededNumberIsKept /\ NoLockCycle /\ RunsAreRecordable)
    /\ HeldIsKept

(* A batch that failed or was left out may be resumed: an account that is a *)
(* candidate stays one until its number is minimised or an application      *)
(* names it again.  runRetentionSweep goes on to application_content after  *)
(* receiving_accounts failed, and that clears the reference through which   *)
(* the account is found.                                                    *)
FailedBatchCanResume ==
    [][\A p \in Candidates("receiving_accounts") :
         \/ p \in Candidates("receiving_accounts")'
         \/ p \notin number'
         \/ \E a \in Apps : link'[a] = p]_retentionVars
=============================================================================
