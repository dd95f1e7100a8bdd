# TLA+ specifications of Pawket

Pawket is a marketplace for creator commissions and tips: a Next.js web application and a
worker process over PostgreSQL, with BullMQ queues in Valkey, object storage, an external
identity provider, and SePay as the provider that reports bank transfers.  A command of a user
is one database transaction; the work that follows it travels through a transactional outbox to
the worker, and the worker's scans move whatever only time moves.

This directory holds TLA+ modules of the parts that carry the money and the promises, TLC
configurations that check them on small instances, and proofs that TLAPS checks for every
instance.  `PROJECT.json` records which definition models which lines, what each run checks,
the plausible bug each property was shown to catch, the hazards of the code and the theorems.
Paths below are relative to `src/`.

    tlc -config MCWorker.cfg MCWorker        # a run: configuration and module
    tlapm WorkerProofs.tla                   # the proofs of a module

## 1. Inventory

For each part: its sources, its state and operations, what is hard about it, and when it is
correct.  The modules are listed in section 2.

**Transactional outbox and system queue.**  `packages/database/src/outbox-repository.ts`,
`packages/queue/src/system-queue.ts`, `connection.ts`, `apps/worker/src/worker-runtime.ts`.
Rows of `system_outbox` (published_at, available_at, locked_by, lease_expires_at), jobs kept under
the id of their row, the batch of every dispatcher, the slots of the processor.  Insert, claim a
batch, enqueue (add, inspect, retry), mark failed, run the handler, acknowledge, complete.  Every
command that needs something done later inserts in its own transaction.  *Hard*: two dispatchers
after a lease ran out, a job that runs twice or is forgotten, a queue write that arrives after its
deadline, a completed job whose id blocks a later add.  *Correct when* every event is handled at
least once and published only after that, and a worker that comes late takes nothing from the one
that has replaced it.

**Worker schedule.**  `apps/worker/src/worker-runtime.ts`, `worker-health.ts`.  The poll, the scans
in flight with their freshness, the processors, the shutdown.  *Hard*: a scan that hangs while the
process reports or closes.  *Correct when* users of a resource close before it, and a scan that
stands still shows in the readiness.

**Commission orders up to payment.**  `packages/orders/src/` (order-service, order-persistence,
order-maintenance, lifecycle, payment-lifecycle, policy), `packages/payments/src/`
(commission-intent-port, payment-intent-write, manual-payment-service),
`packages/catalog/src/commission-packages.ts`.  The order with quotes and version, its capacity
reservation, its payment intent with a deadline and account version of its own.  Request, quote,
accept, close, claim a transfer, confirm a payment, expire, sweep.  *Hard*: a dozen ways out of the
pending states that each have to settle slot and intent; deadlines computed in two packages; orders
that compete for the last slot while the limit moves.  *Correct when* slot and intent follow the
order, the limit holds, and every order that waits ends.

**Paid orders: fulfilment, proposals, disputes, rulings.**  `packages/orders/src/`
(fulfillment-service, -maintenance, -timing, resolution-port), `packages/resolutions/src/`
(proposal-service, dispute-service, owner-service, suspension-service, hold-port, maintenance,
deadlines).  The order and its review deadline, revisions, the pending proposal, the open dispute
and its trust case, the refund owed, the pause rows of two services.  *Hard*: deadlines that pauses
move, holds that overlap pauses and each other and give time back when they end, the worker's
completion against everything the parties do at that moment.  *Correct when* an order takes one way
out, owes what that way says and leaves nothing open; agreements act on the facts they were made on;
the buyer never loses review time; and nobody can hold an order for ever.

**Commission refunds.**  `packages/payments/src/commission-refund-*.ts`,
`packages/resolutions/src/owner-service.ts`, `late-claim-service.ts`, `maintenance.ts`.  Obligations
from awaiting a destination to received; send, deny, resend, adjust, waive, presume, the owner's
cases.  *Hard*: the worker presumes receipt while the buyer denies it; a correction lowers what was
sent.  *Correct when* cases and obligations agree and no debt exceeds the order.

**SePay inbox, reconciliation, review.**  `packages/payments/src/sepay-inbox-service.ts`,
`sepay-reconciliation-service.ts`, `sepay-review-service.ts`, `sepay-match.ts`, `tip-expiry.ts`.
Durable rows for provider events, used transactions, intents, runs under way.  *Hard*: the lookup
lies outside of transactions: leases expire, intents are settled or expire, connections change and
replays arrive while it is under way.  *Correct when* one transfer settles one intent, contradicted
evidence settles nothing, a late run writes nothing, and every receipt is decided or shown.

**SePay connection.**  `packages/payments/src/sepay-connection-service.ts`,
`sepay-provider-budget.ts`.  The connection, its grants by revision, the refresh lease, authorisation
attempts, the bound account.  *Hard*: SePay takes a refresh token once, and nobody knows after a
crash or a timeout whether it was taken.  *Correct when* no token is presented twice, only the latest
consent is used, the account never changes, and a lease left behind is resolved.

**Becoming a creator.**  `packages/payments/src/receiving-account-service.ts`,
`verification-deposit-service.ts`, `refund-window-worker.ts`,
`packages/identity/src/creator-application-service.ts`,
`packages/admin/src/creator-review-service.ts`.  Account versions, deposit challenges and refunds;
applications, revisions, decisions, rights and sessions.  *Hard*: reconciling against expiry, a new
proposal and the review.  *Correct when* rights rest on a deposit that is owed back.

**Tips.**  `packages/tips`, `packages/payments/src/tip-*.ts`.  Creation under the owner's policy, the
creator's settings and two limits; report, confirmation, expiry.  *Hard*: concurrent requests of one
sender, one command sent twice, settings that change between two reads.  *Correct when* committed tips
stay within the limits, keep the terms they were made on, and end.

**Private commission files.**  `packages/commission-files`.  Upload grants, scans under a lease, the
copy to the clean bucket, attachment, purge, retention.  *Hard*: a scan that outlives its lease; hold
and deletion in two statements.  *Correct when* only scanned bytes are served and evidence is kept.

**Public media, catalog, public reports.**  `packages/public-media`, `packages/catalog`,
`packages/trust/src/report-service.ts`, `triage-service.ts`.  Assets with attempts and derivatives;
draft, revisions, handles, the published head; reports bound to a revision, and holds.  *Hard*: a late
worker against a second attempt and the cleanup; a publication while a hold is made.  *Correct when*
what is published resolves, what is held is hidden, bytes in use are kept.

**Sign-in, sessions, step-up.**  `packages/identity/src/oidc-*.ts` and the command preparation.
Transactions, sessions with leases, fences of logouts, prepared commands.  *Hard*: a logout that
arrives before the session it ends.  *Correct when* what is logged out stays out and a confirmed
command has a fresh proof.

**Trust.**  `packages/trust`, `packages/identity/src/enforcement-port.ts`.  Cases, private reports,
hides, penalties with standing, help links, appeals.  *Hard*: overlapping penalties with different
ends, appeals against them.  *Correct when* the standing is what the penalties in force require.

**Notifications, security email.**  `packages/notifications`, `apps/worker/src/*-events.ts`,
`packages/identity/src/security-email-handoff.ts`.  *Hard*: events read late, twice and out of order;
a mail with unknown outcome.  *Correct when* the right people are told, each once, and each mail is
accounted for.

**Retention.**  `packages/database/src/retention-repository.ts`.  *Hard*: statements of a sweep
interleave with holds, payments and new links; a dataset fails and the sweep goes on.  *Correct when*
nothing is erased that is held or in use.

**Not modelled.**  SePay webhook authentication, HTTP clients and encryption (pure functions and I/O);
idempotency records (record and command commit together, so a replay is no step; `Tips` has the lock
two requests of one key meet at); the business calendar (date arithmetic, its results are inputs); the
owner bootstrap as a script of one run (its effect is a step of `OidcSessions`); schema, configuration,
logging, storage and metrics; web pages and route handlers (no state of their own).

## 2. Modules

| module | models | composed with |
|---|---|---|
| `Outbox` | outbox, dispatchers, processors; BullMQ as an external part | |
| `WorkerLoop` | the worker's schedule, readiness and shutdown | |
| `OrderLifecycle` | abstract: what one order promises about its slot and its payment | implemented by the next and by `PaidOrder` |
| `CommissionOrders` | orders of one creator up to payment | `OrderLifecycle` |
| `CommissionGuards` | the database triggers of these orders | extends `CommissionOrders` |
| `Deadline` | a deadline that pauses move, as a countdown | used by the next two |
| `CompletionClock` | the effective deadline computed over the pause history | `Deadline` |
| `PaidOrder` | one paid order, with the triggers of its tables | `Deadline`, `OrderLifecycle` |
| `Refunds` | the refund obligations of one order | |
| `SePayInbox` | inbox, reconciliation and review of one connection, with the triggers | |
| `SePayConnection` | the connection and its tokens, with the triggers | |
| `VerificationDeposit`, `CreatorApplication` | proof of an account; applications and their review | composed by `CreatorOnboarding` |
| `Tips` | tips of several senders to several creators | |
| `CommissionFiles` | one private file | |
| `Catalog`, `PublicMedia`, `PublicReports` | a page, its assets, reports about it | composed by `Storefront` |
| `OidcSessions` | sign-in and sessions of one person | |
| `TrustCases` | moderation cases | extended by the next two |
| `ReportCases`, `Penalties` | private reports and hides; penalties and standing | composed by `Enforcement`, with appeals |
| `Notices`, `Reminders` | who is told what; reminders of deadlines | |
| `SecurityEmail` | one operational mail | |
| `Retention` | the retention sweep | |

`MC...` are the instances for TLC, `...Proofs` hold the theorems.  An `MC` module joins components
that share no state: the variable `part` is chosen in the initial state, a behaviour moves one
component and leaves the others as they begin.  The state spaces add, each component is explored in
full, and one property can speak about all of them.

### 2.1 What a step is

Every writer of a commission takes the advisory lock of its creator first
(`lockCommissionCreator`), every writer of a SePay connection locks its account, every command on a
page locks its row, and so on for each component: such a transaction is one step.  Where the code
leaves the database (the queue, the provider, the storage) or commits and goes on, the model has one
step for each transaction and each call, and everything else may happen in between.  Two places read
without a lock that covers the read, and there the statements are steps: the creation of a tip
(`Tips`) and the statements of a retention dataset (`Retention`).

`expectedVersion` and the idempotency record only refuse commands: a refused command is no step.
Authorisation, recent authentication and text limits are left out for the same reason, except in
`OidcSessions`, which is about them.  What a component reads of another is an input that may change at
any time (`eligible` in `CommissionOrders`, the account version in `Tips`), unless the two are
composed.

Time is what the code compares: a lease is live or expired, a deadline a countdown, an age a cut-off
that has passed.  A value that is no longer read (the deadline of an ended order) is reset, to keep
the state finite.

Triggers, unique indexes and CHECK constraints of the database are a second specification, written by
hand apart from the services.  A step they refuse is a command that fails in production, or a scan
that fails again at every interval.  They are modelled as predicates on steps, never as guards of the
actions, and the `...GuardsAccept` properties compare the two.

Definitions commented "Fault model of X" are plausible bugs of X.  No specification uses them; each
stands in for X to show that a property would notice.

### 2.2 Worker: `Outbox`, `WorkerLoop`

In `Outbox`, `row`, `due`, `lockedBy` and `lease` are the columns; `jobs`, `tries` and `owner` the jobs
in BullMQ; `todo`, `at` and `step` the loop of `dispatchOutboxBatch`; `event` and `phase` the processor
slots; `effects` the events whose own branch has committed.  `EnqueueFails` covers an error and a
deadline that ran out; in the second case the write goes to `late` and `LateWrite` may do it at any
later time, as `connection.ts` does not cancel it.  BullMQ (`StartJob`, `CompleteJob`, `LockLost`,
`RecoverStalledJob`, `TrimJob`, `QueueForgetsJob`) is modelled from how the code uses it: an add under a
known id does nothing, attempts are counted, a stalled job is handed out again while its first run may
go on.

`WorkerLoop` has the entries of the worker (`configured`), the scans in flight, the ages of their last
success (`age`) and the queue of close calls.  What a scan does is modelled elsewhere; here it starts
and succeeds, fails or hangs.  The health copy in Valkey is left out.  Scans that the poll waits for can
make the poll stale when they take more than ten seconds; the probe of the file scanner is aborted, not
awaited; the refund, media and retention scans do not look at `running`.

### 2.3 Commissions

`OrderLifecycle` has one order with three facts, and steps that say when slot and money move.
`CommissionOrders` has the commands of `order-service.ts`, the two sweeps of `order-maintenance.ts` and
the payment confirmation.  `left`, `ageLeft` and `intentLeft` count down to the deadlines; one `Tick`
moves all of them, as the code has one clock.  `paid` stands for in_progress and delivered;
`EndPaidOrder` is what `PaidOrder` details.

The code stores a deadline and the history of pauses and computes the effective deadline every time: a
deadline inside of a pause becomes the end of the pause plus 48 h, repeatedly.  `Deadline` keeps a
countdown instead, with two special values: held by the open pause, and passed for good.
`CompletionClock` has the history, the code's loop (as a recursive function over the rows) and both
readers; `HistoryAgrees` says that countdown and computation agree in every history, which is checked
and proved.  This is what allows `PaidOrder` to use countdowns.

In `PaidOrder`, `state`, `endKind`, `slot`, `draft`, `revisions` are the order; `moves` counts deliveries
and requests for changes, which is what the staleness check of proposals compares.  `baseLeft` is the
stored end of review and `review` its effective countdown.  `proposal...` and `dispute...` are the one
pending proposal and the one open dispute; `owed` is the refund, `case` the trust case, `sinceHold`
history for one property.  The operator switches both services together, as
`ops/runbooks/commission-resolution.md:45` demands, and each worker scan observes the switch in a step of
its own: commands see `mode`, deadlines see `paused`.  Time stops when the order ends.

`Refunds` starts where the ruling has created an obligation: each command and each item of the scan is
one step under the creator fence; the purge of destinations locks single rows.

### 2.4 Payments: `SePayInbox`, `SePayConnection`, `Tips`

A run of `process()` in `SePayInbox` is a claim, a lookup, and a confirming or disposing transaction (`pc`
is claimed, matched, refused or retry).  `fresh` are the runs whose connection version and grant revision
are still current.  `order` is the sequence of due rows by available_at; a scan selects from it into
`todo` and judges each row again when it takes it; a row that throws ends the scan
(`sepay-reconciliation-service.ts:201`).  The batch limit is assumed to hold all due rows, and
`reconnect_required` acts like paused.

In `SePayConnection`, `token` is the refresh token of the current revision, `issued` and `spent` what the
provider knows.  `Prepare` takes the lease, or resolves one that is over; `Present` is the call, which may be
answered, fail, or never leave; `Store` and `Abandon` are the transactions after it.  Callbacks and bindings
are split in the same way.  `age` says whether an access token is good, due for renewal, or over.

An attempt in `Tips` is one HTTP request that creates a tip (`CommandOf` says which requests repeat one
command).  `stage` is how far its transaction has come: the key lock, the account and settings it reads
(`seen`), the sender's lock on the limits, the commit.  Account 0 is a creator without a usable account
(`usableAccount`).  Payments are enabled throughout.

### 2.5 Creators: `VerificationDeposit`, `CreatorApplication`, `CreatorOnboarding`

One applicant.  An account version is proposed and locked, a challenge bound to it, reconciled with the
transfers of the bank, its deposit owed back within a window (`day`).  An application is a draft, revisions
and a decision; an approval is validated again against the stored proof and grants rights and a session.

The services find "the" application of a user by the greatest `updatedAt`
(`creator-application-service.ts:352`), which a command reads from its clock before it waits for the row.
`latest` is the application they find, and `stamp(a, late)` writes `updatedAt`: a late one stays behind
what another command stamped meanwhile, and `overtaken` remembers it.  Only a new draft and a reopening can
be overtaken; every other command writes over a version of the row that it has read, and so over an older
stamp of it.  A matched transfer owes one refund, and a transfer entered as unmatched before it was
matched carries that liability beside it (`unmatched`).

### 2.6 Content: `CommissionFiles`, `Catalog`, `PublicMedia`, `PublicReports`, `Storefront`

A scan of `CommissionFiles` is one execution of `processCommissionFileScan`; its writes are fenced by the
row's version, and `current` holds the scans that have seen the latest one.  A copy request that was given up
may still complete at the storage, but none outlives the 24 hours that closure waits.  In `PublicMedia`,
`attempt`, `open` and `leased` are the processing attempts, `job`, `tries` and `stalls` BullMQ's, `stored` the
derivative objects, `cleanup` the sweep between its check and its commit.  A delivery can fail without a record
in the database: its claim throws or the job cannot be delayed (`claimFails`), or the transaction that records
the failure throws (`failureUnrecorded`).  Each spends one of the job's attempts, and `unrecorded` holds the
assets it happened to.  `Storefront` joins page, media and
reports through the ports they read and the row lock of the page.

### 2.7 Access: `OidcSessions`, `TrustCases`, `ReportCases`, `Penalties`, `Enforcement`

`OidcSessions` has the identity provider's sessions and tokens as an external part.  The authorization version
is not counted: `curTx`, `curSessions` and `curCmds` are the actors bound at the present version.  Fences
(`sidFence`, `subFence`, `localFence`) are what logouts leave behind for sessions that do not exist yet.  The
batch limit of the cleanup and the one-off `performOidcCutover` are not modelled.

Penalties end by time, appeal or revocation, and each end computes the standing from those that remain.
`Enforcement` adds the appeals, made from a session or through the help link of a locked-out user.

### 2.8 Telling and forgetting: `Notices`, `Reminders`, `SecurityEmail`, `Retention`

In `Notices`, domain commits leave events that the worker reads later, twice and in any order, against rows
that have moved on (`story` picks the part of the domain).  Parties, owner, reporter and subject are distinct
users with open accounts; notices of messages are left to the digest, which is not modelled.  `Reminders` has the
scan with its batch, one transaction per reminder and the ledger; it says "once" as long as the ledger row is
kept.  `SecurityEmail` counts seconds, because three schedules must fit together.  In `Retention` each SQL
statement is a step and sees what others committed.

## 3. Runs

States are distinct states.  Each run takes two to three minutes with two workers, mostly for
liveness and refinement.

| run | instance | states | shows |
|---|---|---|---|
| `worker` | outbox: 2 events with 2 dispatchers, and 1 event with 2 processors and 3 faults; loop: six deployments | 434 000 | `DeliveryIsSafe`, `LiveLeaseRespected`; `UsersCloseFirst`; `WorkGoesOn` |
| `commission_orders` | 2 orders of a buyer, limits 1 and 2, 2 account versions | 466 000 | `OrdersAgree`, `CapacityRespected`, `ImplementsLifecycle`, `GuardsAccept`, `PendingOrderEnds` |
| `pauses` | one order with every refund, both modes, overlapping holds; the pause history: deadlines 0, 2, 3, grace 2, 3 pauses in 9 ticks | 781 000 | `OutcomesAreSettled`, `AgreementsAreKept`, `PaidGuardsAccept`; `HistoryAgrees` |
| `settlement` | one order with the services on; 2 obligations and a correction; reminders of 2 subjects by 2 scanners | 339 000 | `RefundCasesAgree`, `RefundGuardsAccept`, `RemindersAreCurrent`, `DeadlinesMoveOn` |
| `inbox` | 2 transfers of one intent with a scan and 2 jobs; notices of six stories; 1 mail with 2 workers; 2 applications with one account | 577 000 | `TransfersAgree`, `SettledStaysSettled`, `SePayGuardsAccept`, `NoticesAreRight`, `MailIsAccountedFor`, `RetentionIsSafe` |
| `sepay` | 2 renewals, 1 binding, 2 accounts, 2 consents, 2 tokens; a scan and a reviewer on 2 receipts; 1 asset with 2 workers | 302 000 | `GrantsAreFenced`, `StepsAreAccepted`, `MediaIsStored`, `WorkResolves` |
| `access` | sign-in up to 3 transactions, 2 sessions; 2 penalties with appeals; 3 cases with reports and hides | 242 000 | `LoggedOutStaysOut`, `ConfirmedCommandIsBacked`, `TrustIsConsistent`, `TriggersAccept`, `AccessEnds` |
| `content` | a page with 2 handles, 2 revisions, 1 asset and reports; 1 file with 2 scans | 818 000 | `PublishedPageResolves`, `HeldContentStaysHidden`, `StoredBytesAreKept`, `ContentGuardsAccept` |
| `creators` | 2 applications, 2 accounts, 2 challenges and a transfer; one application with 2 challenges and 2 transfers; 4 requests to tip with limits of one | 205 000 | `RightsRestOnDeposits`, `TipLimits`, `TipsAreSound`, `ScansEnd` |
| `extension_extends`, `sepay_attempt_cap`, `retention_resume` | violations | | section 5 |

What the properties say:

- *Worker.*  An event is published after its effect, and no completed job is left behind an
  unpublished event; a dispatcher that is late never takes the live lease of its successor; a resource
  is closed after its users; every event is published once faults stop, and a scan that hangs is noticed.
- *Orders.*  Order, slot and intent agree; no reservation is made above the limit; order and slot move
  as in the abstract lifecycle; the triggers accept every step; every pending order ends.
- *Pauses.*  An ended order took one way out, gave its slot back, owes what that way says and left nothing
  open; agreements are carried out on the facts they were made on and restored review time is given; the
  worker's and the database's reading of the pause history agree.
- *Settlement.*  The sum owed stays within the order, every obligation that needs the owner has one open
  case; the triggers accept; a reminder is current when it is sent and sent once; holds run out, an obligation
  past its deadline is sent or flagged, refunds are answered or presumed.
- *Inbox.*  One transfer confirms one intent and with it; leases follow the rows; what is settled or
  contradicted stays so.  Whoever has to act is told, from events that their rows still bear out.  A mail is
  sent a bounded number of times.  Retention erases nothing held or needed, its locks do not deadlock.
- *SePay.*  No refresh token is presented twice, the grant in use is from the latest consent, the account
  is stable; a ready asset has its derivatives, and the queue gives up on an unfinished asset only after a lost
  worker or a failure without a record; leases, receipts and assets left behind are resolved.
- *Access.*  A logout reaches every session it covers in whatever order they arrive; a confirmed command runs
  once, on a proof made for it; standing, sessions, links, reports and appeals follow penalties and cases;
  transactions, signed-out sessions and lock-outs end.
- *Content.*  A published page resolves with its media under all its handles; of a held page nothing is
  delivered and of a held showcase only what the page shows elsewhere, and neither enters a new revision; media of
  drafts, pages and evidence is kept; served bytes were scanned; released bytes go.
- *Creators.*  A grant rests on the deposit of the approved revision; every matched transfer owes one refund of its own; an
  open application is the one the services find, unless its stamp was overtaken; open tips keep both
  limits and the terms they were made on; deposits are sent back or flagged, tips end.

**Bounds.**  Two of everything that competes is the least that races, and the races in this code are between two: a
late owner and its successor, two transfers and one intent, two orders and one slot, a session and its logout.  More
would only add parties that wait.  Deadlines are as short as keeps them apart; in the paid order one unit is 48 h, the
grace of a pause and the floor of restored time.  Faults are bounded by `MaxFaults`, `MaxMailFaults`
and `MaxScanFaults`: with one, every single failure is tried at every place; the delivery part of `worker` has three,
which uses up a job's attempts.  `MaxChanges`,
`MaxDecisions`, `MaxCommands`, `MaxStarts`, `MaxTokens`, `MaxAccounts`, `MaxQuotes`, `MaxCommits`, `MaxTx`,
`MaxSessions`, `MaxAuths`, `MaxLogouts`, `MaxCases`, `MaxPenalties`, `MaxHides`, `MaxApps`, `MaxRevs`,
`MaxChallenges`, `MaxRevisions`, `MaxRevision` and `MaxAccount` bound what people and operators do; `MaxCommits` has a
value for each story of `Notices`, three to six transactions.  `AttemptCap`
stands for the 100 attempts of a receipt: the runs keep it out of reach, and `sepay_attempt_cap` shows what happens at
it.  The `...Bound` conjuncts and the scenes of `MCAccess` and `MCContent` split a component's inputs over parts; they
are named there.  In `commission_orders` all deadlines are one tick; other lengths are covered by the theorems.

**Deadlock** is not checked: every instance may stop when its bounds are used up or everything is settled.  That work
does not get stuck is what the liveness properties say.

**Fairness.**  Only what the code repeats by itself is fair, and only weakly, with one exception:
- the poll loop: `worker-runtime.ts` re-arms its timer in a `finally` (line 1441), so every dispatch and every scan is
  tried again whatever the last one did, in every mode;
- BullMQ serves waiting jobs and checks for stalled ones;
- time passes: leases, delays and deadlines run out.  In `Reminders` it passes strongly fairly, as a pass that works
  disables the tick in between;
- a run that has not crashed goes on;
- in `SePayConnection` receipts keep asking for `access()` while the connection is in use, an assumption about the
  environment, without which `DeadLeaseResolves` means little.

Nothing is assumed of users, operators, the bank or the providers, except in `HoldsRunOut` and `StaleProposalEnds`,
whose premise says that the services stay switched on from some time on.

## 4. Proofs

Every theorem is about a component's own specification, for every number of orders, transfers,
sessions and so on and for every length of the windows, under the named assumptions on constants
that the component's module states.  The properties do not follow from themselves: each proof names
an inductive invariant, has one lemma for each action or group of actions, and derives invariants and
action properties from it.  TLC found no violation of any of these invariants before they were proved.

- **`WorkerProofs`.**  `IInv` adds what a slot knows in each phase: from `handled` on the work is
  committed, from `acked` on the row is published.  Hence a publication has its effect and a completed
  job its publication (`DeliveryIsSafe`); `LiveLeaseRespected` is an action property over it.  `LoopInv`
  says how far a walk over the resources has come, what it leaves open, and that a scan runs once at a
  time; `UsersCloseFirst` follows.  `NoticeInv` is about domain rows and the events that name them: a row
  only moves on, so an event that was right of it when committed stays right; the event that tells of a
  row's present state is the one committed with it; and a consumed event has all its notices.  One lemma,
  `CommitKeeps`, says what any transaction has to show to keep this; each transaction is then an
  application of it.
- **`CommissionOrdersProofs`.**  `OInv` adds the pairs of slot and intent that a closed order may have,
  and that an order without terms has neither.  All ways out share one lemma, `CloseOrder`.  Proved are
  `OrdersAgree`, the refinement of `OrderLifecycle` step by step, `CapacityRespected`, `GuardsAccept`,
  and that a command on an old version is refused.
- **`PaidOrderProofs`.**  `PInv` adds that the outcome is recorded once with the slot, that a proposal was
  possible when it was made, and bounds on the review countdown.  The assumption `RestoreFloor >= Grace`
  (48 h each in `policy.ts`) is needed: the effective deadline is not monotone in the stored one, as a
  stored deadline inside of a pause becomes its end plus grace while a later one outside of it stays; with
  a smaller floor giving time back could take a grace away.  `PaidGuardsAccept` has one lemma for each
  table and for each way it is written (`WithdrawFrame`, `OrderAccepted`, `NegotiationAccepted`,
  `RulingAccepted`, `PauseAccepted`).  For `CompletionClock`, `ClockInv` says that each countdown is what the
  loop computes over the whole history, and that the rows one of the readers leaves out change nothing.  An
  open pause began after every other one ended, so a new row comes last in every sorted history; the loop
  over the rows before it is unchanged, by induction over its length (through a least counterexample, as
  `WellFoundedInduction` offers without an operator).
- **`InboxProofs`.**  `InboxInv` adds the row a run works on.  The order of due rows and what a scan
  selected play no part, because each row is judged again when it is taken.  `SettledStaysSettled`,
  `SePayGuardsAccept` and `DismissalStands` follow.  `RetentionInv` has a part for each statement of a
  dataset: a sweep and a writer take the fence of an account before its
  row (so they do not wait for each other), what a sweep has locked stays eligible until it
  commits (so nothing held or needed is erased), and the recorded counts cover the candidates.  `MailInv`:
  every send is paid for by an attempt on the row, whatever fails; and with one worker and no fault the job
  outlives the mail, as its waits double while the row's are bounded by `RetryDelay`, so the row is due
  again before the job's attempts run out.
- **`PaymentProofs`.**  `ConnectionInv` adds that versions order the attempts, that tokens are
  numbered as they are issued, and that a run under way has the current token to itself unless the token
  was replaced or the connection is dead.  From the last follows that no token is presented twice.
  `BoundIsBacked` adds what the triggers of the connection need.  `RefundInv` adds to `RefundCasesAgree` that
  obligations are numbered as they are created and that a ruling comes before what it owes; the debt is a
  sum over a set, for which lemmas say what one more row and one changed row do to it.  `RemindersInv`: what
  was told is in the ledger or was old enough to be deleted from it.
- **`CreatorsProofs`.**  For an applicant, `OnboardingInv`: a grant names a verified challenge, a verified
  challenge is owed back, and its receipt came from its account, which no later version changes; whichever
  application is unfinished is the one found or was overtaken, because no second one is opened beside it.  For
  tips, `TipsInv`: whoever has counted still holds the sender's lock and the creator's page, so nobody adds
  a tip under the count, and the terms read are still the terms at the commit.
- **`AccessProofs`.**  `LogoutInv`: a logout under way has every live session it covers among its targets,
  and nothing a fence covers is live.  `ProofInv`: the proof of a pending command is a transaction begun for
  its step-up.  `TrustInv` has a part for each table of moderation and brackets the stored standing
  between what the penalties in force and what the active ones require; the two differ only in the interval
  in which a penalty has ended and the maintenance has not come by.  From `TrustAssumptions` follow
  `TrustIsConsistent` and `TriggersAccept`.
- **`ContentProofs`.**  `StoreInv`: the published revision, its projection, its claims and its media agree;
  what the cleanup is about to delete is used by nobody; evidence is ready.  From it follow
  `PublishedPageResolves`, `HeldContentStaysHidden`, `StoreGuardsAccept`, and that the cleanup spares
  drafts and evidence.  `WorkInv` is about the workers: attempt numbers tell them apart, and whoever holds
  the job's lock runs the latest attempt; so as long as every failed delivery leaves its record the job does not
  fail before the database gives up, for which `LimitsAgree` (`MAX_ATTEMPTS` is at most the attempts of a queue
  job, both eight) is needed, and a ready asset has its objects.  `MediaStaysStored` proves `MediaIsStored` of `PublicMedia`, which `sepay` checks
  through its instance, and `MediaIsAccepted` the media part of `StepsAreAccepted`.  `FileInv`: a scan that
  saw the latest version holds the row, only versions that passed are copied and none before the intent is
  on the row or after the closure period, and a stamp that the clean copy is gone is set only when none can
  come back.  With it `StoredBytesAreKept` and `ContentGuardsAccept` are proved of the composition
  `MCContent`, whatever the values of its constants.

The theorems, by module:

| Module | Theorems |
|---|---|
| `WorkerProofs` | `OutboxTypeOK`, `OutboxPublishedAfterEffect`, `OutboxCompletedJobPublished`, together `OutboxDeliveryIsSafe`; `OutboxLiveLeaseRespected`; `LoopClosesUsersFirst`; `NoticesSound` |
| `CommissionOrdersProofs` | `OrdersTypeOK`, `OrdersReservationFollowsOrder`, `OrdersIntentFollowsOrder`, together `OrdersTablesAgree`; `OrdersImplementLifecycle`, `OrdersCapacityRespected`, `OrdersGuardsAccept`, `OrdersVersionFences` |
| `PaidOrderProofs` | `PaidOrderTypeOK`, `PaidOrderDisputeFreezes`, `PaidOrderEndedIsSettled`, `PaidOrderRefundMatches`, `PaidOrderAgreementIsCurrent`, `PaidOrderRestoreNeverShortens`, `PaidOrderRestoredTimeIsGiven`, `PaidOrderImplementsLifecycle`; as the runs check them `PaidOrderOutcomesAreSettled`, `PaidOrderAgreementsAreKept`, `PaidOrderGuardsAccept`; `ClockHistoryAgrees` |
| `InboxProofs` | `InboxOneTransferPerIntent`, `InboxLeaseFollowsStatus`, `InboxContradictionBlocks`, `InboxClosedIntentStays`, `InboxLateRunChangesNothing`; as the runs check them `InboxTransfersAgree`, `InboxSettledStaysSettled`, `InboxGuardsAccept`; `InboxDismissalStands`; `RetentionKeepsNeededNumbers`, `RetentionLocksDoNotCycle`, `RetentionKeepsWhatIsHeld`, together `RetentionSafe`; `MailSound` |
| `PaymentProofs` | `ConnectionTypeOK`, `ConnectionSpentGrantIsFenced`, `ConnectionNeverPresentedTwice`, `ConnectionIdentityIsStable`, `ConnectionLatestConsent`, together `ConnectionGrantsAreFenced`; `ConnectionIsAccepted`; `RefundsAgree`, `RefundGuardsHold`; `RemindersStayCurrent` |
| `CreatorsProofs` | `RightsRest`; `TipsStayWithinLimits`; `TipsStayBacked`, `TipsGuardsAccept`, together `TipsSound` |
| `AccessProofs` | `LogoutsHold`, `CommandsAreBacked`, `StandingIsRight`, `TriggersAreSatisfied` |
| `ContentProofs` | `StoreAgrees`, `PageResolves`, `HeldStaysHidden`, `MediaOutlivesCleanup`, `StoreIsAccepted`; `WorkAgrees`, `MediaStaysStored`, `MediaIsAccepted`; `FilesAgree`, `ServedFilesWereScanned`, `FilesAreAccepted`; of the composition `ContentBytesAreKept`, `ContentIsAccepted` |

*Only model-checked.*
- Liveness, which needs fairness and ENABLED: `WorkGoesOn`, `PendingOrderEnds`, `DeadlinesMoveOn`,
  `WorkResolves`, `AccessEnds`, `ScansEnd`.
- The composition in `StepsAreAccepted`: its three parts are the theorems `ConnectionIsAccepted`,
  `InboxDismissalStands` and `MediaIsAccepted` about the components, and `MCSePay` only joins them.
- The type invariant of `SePayInbox` as far as its sequences go; the part the other proofs use is proved.

## 5. Findings

Each has a run whose property states what the document says and that TLC finds violated.

- **`extension_extends`.**  `extendDispute` (`packages/resolutions/src/owner-service.ts:261`) compares the
  new date with the stored response deadline.  When a pause has moved the effective one to resume plus
  48 h (`ops/runbooks/commission-resolution.md:64`), an "extension" between the two makes the other party's time
  shorter.
- **`sepay_attempt_cap`.**  A row with 100 attempts throws in its claim
  (`packages/payments/src/sepay-reconciliation-service.ts:68`).  If the creator retries it, it stays pending,
  and since a scan takes the oldest row first and ends at an error, it also keeps the rows behind it from
  recovery, which `ops/runbooks/sepay-reconciliation.md:56` promises.
- **`retention_resume`.**  A dataset that failed in a sweep is found through rows that the next dataset of the
  same sweep minimises (`packages/database/src/retention-repository.ts:407`); after that nobody finds it
  again, while `ops/runbooks/retention-operations.md:9` says "resume the idempotent batch".

Observations without a run, made while modelling:
- *Resolutions.*  Commands look at the mode (`dispute-service.ts:165`), not at the pause that the worker
  opens after it (`ops/runbooks/commission-resolution.md:61`), so one that comes between the two runs with the pause not
  yet, or still, open.  With overlapping holds the total of un-held review time is not preserved, only that
  nothing shortens the review and that restored time is given.
- *Refunds.*  A late claim and a provider event about the same late transfer create two obligations
  (`late-claim-service.ts:161`).  A buyer who enters the destination again restarts the deadline to send, as
  often as he likes.
- *SePay.*  A contradictory replay of an ignored row sends it to review (`sepay-inbox-service.ts:52`), where
  every decision refuses it, since it was never accepted.
- *Deposits.*  One transfer can carry two liabilities, as an unmatched deposit and as a reconciled one
  (`verification-deposit-service.ts`, `insertUnmatched` and `reconcile`).  An issued challenge has no expired
  state, so a withdrawn application with one protects its account from retention for ever.
  `issueChallenge` sets the proof state without clearing the date of an earlier proof.
- *Applications.*  A draft, or an application reopened by the owner, that was stamped before it waited for the
  row can sort behind one that ended meanwhile (`creator-application-service.ts:376`).  The services then find
  the ended one: saving the draft again fails with `nonterminal_application_exists`, and withdrawing finds
  nothing to withdraw.
- *Files.*  The evidence hold is read and the file deleted without a common lock
  (`commission-files/src/maintenance.ts:166`).
- *Public media.*  Uploads that were never completed do not expire and count against the quota
  (`media-service.ts:244`).  A job whose worker is lost twice is given up by the queue while the asset stays in
  processing.  So does one whose deliveries fail without a record: the claim transaction throws
  (`media-worker.ts:525`), the one that records the failure throws (`media-worker.ts:386`), or the job cannot be
  delayed (`worker-runtime.ts:636`); each spends one of the eight attempts of the job
  (`media-queue.ts:95`), and the asset may end in pending or processing.  Only a repeated
  delivery of the outbox event would retry the failed job (`media-queue.ts:137`), which is not modelled.  One page
  whose media does not resolve empties the whole batch of `loadEffectiveBatch`.
- *Mail and notices.*  An attempt that the queue spends without the sender being reached can leave a mail in
  `processing` or `failed` for good: `ops/runbooks/provider-outage.md:5` counts on "its next job invocation",
  and the queue may have none left.  Two workers that race on
  a tip event emit the notification event twice (`tip-notification.ts:20`).  A pause of reminders that is
  longer than the 90 days of the ledger gives a second reminder (`ops/runbooks/notifications.md:15`: "once
  each").  A batch that is always full starves subjects behind it.
- *Retention.*  The runbook says "all six datasets"; there are eleven.

Assumptions about what is outside of the models: an SQL statement of a sweep is atomic; no storage request or
scan that was given up outlives the 24 hours before a file is purged; payments are enabled while tips are
made; a change of the account version makes a pending tip impossible to confirm by hand, which is how the code
treats it; a lease check after a step-up invalidates its proof.

## 6. Plan

All components of the inventory that keep state have a module and a run, and every safety property a
run checks is a theorem, except for the composition named above.  Liveness stays with TLC.  What would add
to the model:

1. The digest mails of thread messages (`packages/notifications/src/maintenance.ts`): queued once, and
   suppressed when the item is read first.
2. The one-off `performOidcCutover`, between sessions of the old and the new provider.
3. A stronger promise about evidence than the code makes: a case opened between the read of the hold and the
   deletion (`commission-files/src/maintenance.ts:166`) loses its file.  The model has both statements; a
   property would need the code to take the hold's lock.
