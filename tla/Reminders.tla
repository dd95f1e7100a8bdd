----------------------------- MODULE Reminders -----------------------------
(***************************************************************************)
(* The reminder scan of packages/notifications: clocks.ts reads the        *)
(* deadlines still open, maintenance.ts writes one ledger row and its      *)
(* notices for each reminder owed and deletes old ledger rows.             *)
(*                                                                         *)
(* A subject is an order, a proposal, a dispute, a claim, a refund or an   *)
(* enforcement action, with the one clock it runs.  Two workers may scan   *)
(* at the same time.  Discovery reads a batch without locks; each reminder *)
(* is a transaction of its own that reads the subject again under a lock.  *)
(* A pass ends before the second unit of time after its start.             *)
(***************************************************************************)
EXTENDS Naturals, Sequences, FiniteSets

CONSTANTS Scenes,       \* the clocks that the subjects 1, 2, ... may run
          Scanners,     \* worker processes
          Lead,         \* reminderLeadMs: 24 hours
          MinNotice,    \* reminderMinimumNoticeMs: 36 hours
          Retention,    \* retentionMs: 90 days
          Grace,        \* what a pause leaves of a deadline that fell into it
          Batch,        \* scanBatch
          Lengths,      \* bound: how far away deadlines are set
          LastStart,    \* bound: when the last deadline is set
          LastPause,    \* bound: when the last pause has ended
          Horizon,      \* bound: the end of time
          MaxScanFaults     \* bound: transactions that fail and workers that die

\* What the constants stand for.
RemindersAssumption ==
  /\ {Lead, MinNotice, Retention, Grace, Batch, LastStart, LastPause, Horizon, MaxScanFaults}
       \subseteq Nat
  /\ Batch > 0 /\ Lengths \subseteq Nat \ {0}
ASSUME RemindersAssumption

NOTIFICATION_CLOCKS == <<"refund_send", "delivery_due", "dispute_response">>

VARIABLES now, ClockOf, row, pause, scan, ledger, told, scanFaults

Subjects == DOMAIN ClockOf

remindersVars == <<now, ClockOf, row, pause, scan, ledger, told, scanFaults>>

Idle == [at |-> 0, next |-> 1, owed |-> {}, on |-> FALSE]
None == [state |-> "none", started |-> 0, deadline |-> 0]

RemindersInit ==
  /\ now = 1 /\ scanFaults = 0 /\ ClockOf \in Scenes
  /\ row = [s \in Subjects |-> None]
  /\ pause = <<0, 0>>                    \* one resolution pause: start and end, 0 when open
  /\ scan = [w \in Scanners |-> Idle]
  /\ ledger = {}                         \* <<subject, stage, effective deadline>>
  /\ told = {}                           \* notices: a ledger key and how often it was written (up to 2)

---------------------------------------------------------------------------
(* The deadline as the owning module reads it.  The delivery date is not   *)
(* moved by pauses; others are held by an open one and end after it.       *)

Held == 0   \* the code's null
effective(s) ==
  LET d == row[s].deadline
  IN  CASE ClockOf[s] = "delivery_due" -> d
        [] pause[1] = 0 \/ d < pause[1] -> d
        [] pause[2] = 0 -> Held
        [] OTHER -> IF d < pause[2] THEN pause[2] + Grace ELSE d

missedBy(clock) == IF clock \in {"delivery_due", "dispute_response"} THEN "scan" ELSE "domain"

reminderStage(s, at) ==
  LET d == effective(s)
  IN  CASE d = Held -> "none"
        [] at >= d -> IF missedBy(ClockOf[s]) = "scan" THEN "missed" ELSE "none"
        [] OTHER -> IF at + Lead >= d /\ d >= row[s].started + MinNotice THEN "due_24h" ELSE "none"

---------------------------------------------------------------------------
(* The domain.                                                             *)

setDeadline(s, started) == \E n \in Lengths :
  row' = [row EXCEPT ![s] = [state |-> "open", started |-> started, deadline |-> now + n]]

start(s) ==
  /\ row[s].state = "none" /\ now <= LastStart
  /\ setDeadline(s, now)
  /\ UNCHANGED <<now, ClockOf, pause, scan, ledger, told, scanFaults>>

(* An agreed date or an owner's extension keeps the start; a new refund    *)
(* destination starts over.                                                *)
extend(s) ==
  /\ row[s].state = "open" /\ now <= LastStart
  /\ setDeadline(s, IF ClockOf[s] = "refund_send" THEN now ELSE row[s].started)
  /\ row'[s].deadline > row[s].deadline
  /\ UNCHANGED <<now, ClockOf, pause, scan, ledger, told, scanFaults>>

(* The party acts, or a scan of the domain ends the subject.               *)
act(s) ==
  /\ row[s].state = "open"
  /\ row' = [row EXCEPT ![s].state = "acted"]
  /\ UNCHANGED <<now, ClockOf, pause, scan, ledger, told, scanFaults>>

observePause ==
  /\ now < LastPause
  /\ \/ pause[1] = 0 /\ pause' = <<now, 0>>
     \/ pause[1] # 0 /\ pause[2] = 0 /\ pause' = <<pause[1], now>>
  /\ UNCHANGED <<now, ClockOf, row, scan, ledger, told, scanFaults>>

resume ==
  /\ now = LastPause /\ pause[1] # 0 /\ pause[2] = 0
  /\ pause' = <<pause[1], now>>
  /\ UNCHANGED <<now, ClockOf, row, scan, ledger, told, scanFaults>>

tick ==
  /\ now < Horizon /\ \A w \in Scanners : scan[w].on => scan[w].at = now
  /\ now = LastPause => ~(pause[1] # 0 /\ pause[2] = 0)
  /\ now' = now + 1
  /\ UNCHANGED <<ClockOf, row, pause, scan, ledger, told, scanFaults>>

---------------------------------------------------------------------------
(* One pass: every clock in turn, then retention, all at the time the pass *)
(* began.                                                                  *)

runOnce(w) ==
  /\ ~scan[w].on
  /\ scan' = [scan EXCEPT ![w] = [at |-> now, next |-> 1, owed |-> {}, on |-> TRUE]]
  /\ UNCHANGED <<now, ClockOf, row, pause, ledger, told, scanFaults>>

notMissed(s) ==
  missedBy(ClockOf[s]) = "scan" =>
    \A l \in ledger : ~(l[1] = s /\ l[2] = "missed" /\ l[3] >= row[s].deadline)

(* Pending subjects whose stored deadline is near or past, newest first.   *)
candidates(clock, at) ==
  {s \in Subjects : /\ ClockOf[s] = clock /\ row[s].state = "open"
                    /\ row[s].deadline <= at + Lead /\ notMissed(s)}

newest(found) ==
  {s \in found : Cardinality({t \in found : \/ row[t].deadline > row[s].deadline
                                            \/ row[t].deadline = row[s].deadline /\ t > s}) < Batch}

readOpenClocks(w) ==
  /\ scan[w].on /\ scan[w].owed = {} /\ scan[w].next <= Len(NOTIFICATION_CLOCKS)
  /\ LET at   == scan[w].at
         todo == {s \in newest(candidates(NOTIFICATION_CLOCKS[scan[w].next], at)) :
                    /\ reminderStage(s, at) # "none"
                    /\ <<s, reminderStage(s, at), effective(s)>> \notin ledger}
     IN  scan' = [scan EXCEPT ![w] =
                    [at |-> at, next |-> scan[w].next + 1, owed |-> todo, on |-> TRUE]]
  /\ UNCHANGED <<now, ClockOf, row, pause, ledger, told, scanFaults>>

(* Fault model of readOpenClock: the subject is taken as discovery saw it. *)
readOpenClockAsDiscovered(s, at) == TRUE

(* The subject again, under a share lock on its row.                       *)
readOpenClock(s, at) == s \in candidates(ClockOf[s], at)

ledgerFree(key) == key \notin ledger

leave(w, s) == scan' = [scan EXCEPT ![w].owed = @ \ {s}]

(* One transaction: the ledger row, then the notices that name it.         *)
remindOne(w, s) ==
  /\ s \in scan[w].owed /\ leave(w, s)
  /\ LET stage == reminderStage(s, scan[w].at)
         key   == <<s, stage, effective(s)>>
     IN  IF readOpenClock(s, scan[w].at) /\ stage # "none" /\ ledgerFree(key)
         THEN /\ ledger' = ledger \cup {key}
              /\ told' = told \cup {<<key, IF <<key, 1>> \in told THEN 2 ELSE 1>>}
         ELSE UNCHANGED <<ledger, told>>
  /\ UNCHANGED <<now, ClockOf, row, pause, scanFaults>>

(* The transaction of one reminder fails: the pass goes on with the next.  *)
remindFails(w, s) ==
  /\ s \in scan[w].owed /\ scanFaults < MaxScanFaults /\ scanFaults' = scanFaults + 1
  /\ leave(w, s)
  /\ UNCHANGED <<now, ClockOf, row, pause, ledger, told>>

retention(w) ==
  /\ scan[w].on /\ scan[w].owed = {} /\ scan[w].next > Len(NOTIFICATION_CLOCKS)
  /\ LET old == {l \in ledger : l[3] + Retention < scan[w].at}
     IN  \E gone \in SUBSET old :
           /\ Cardinality(gone) = IF Cardinality(old) < Batch THEN Cardinality(old) ELSE Batch
           /\ \A l \in gone, k \in old \ gone : l[3] <= k[3]
           /\ ledger' = ledger \ gone
  /\ scan' = [scan EXCEPT ![w] = Idle]
  /\ UNCHANGED <<now, ClockOf, row, pause, told, scanFaults>>

(* A worker dies during its pass.                                          *)
die(w) ==
  /\ scan[w].on /\ scanFaults < MaxScanFaults /\ scanFaults' = scanFaults + 1
  /\ scan' = [scan EXCEPT ![w] = Idle]
  /\ UNCHANGED <<now, ClockOf, row, pause, ledger, told>>

passStep(w) ==
  runOnce(w) \/ readOpenClocks(w) \/ (\E s \in Subjects : remindOne(w, s)) \/ retention(w)

RemindersNext ==
  \/ \E s \in Subjects : start(s) \/ extend(s) \/ act(s)
  \/ observePause \/ resume \/ tick
  \/ \E w \in Scanners : passStep(w) \/ die(w) \/ \E s \in Subjects : remindFails(w, s)

(* Time passes and some worker's pass goes on every minute.                *)
ScansGoOn ==
  /\ SF_remindersVars(tick) /\ WF_remindersVars(resume)
  /\ \A w \in Scanners : WF_remindersVars(passStep(w))

RemindersSpec == RemindersInit /\ [][RemindersNext]_remindersVars /\ ScansGoOn

---------------------------------------------------------------------------
(* A reminder is about the subject as it is when the reminder commits: the *)
(* party has not acted, the deadline announced is the effective one, and a *)
(* deadline said to be missed has passed (maintenance.ts:100-109).         *)
RemindedAsItIs ==
  \A n \in told' \ told :
    /\ row[n[1][1]].state = "open" /\ n[1][3] = effective(n[1][1])
    /\ n[1][2] = "missed" => now >= n[1][3]

(* As long as the ledger keeps its row, a reminder is written once, with   *)
(* any number of workers, passes, pauses and extensions.                   *)
RemindedOnceWhileKept == \A n \in told : n[2] = 2 => now > n[1][3] + Retention

(* A reminder is current when it is sent, and is not sent twice while the  *)
(* ledger keeps it.                                                        *)
RemindersAreCurrent == []RemindedOnceWhileKept /\ [][RemindedAsItIs]_remindersVars

Unannounced(s) ==
  /\ row[s].state = "open" /\ missedBy(ClockOf[s]) = "scan"
  /\ effective(s) # Held /\ now >= effective(s)
  /\ <<<<s, "missed", effective(s)>>, 1>> \notin told

(* A missed delivery date or dispute answer is announced in the end, also  *)
(* when more deadlines are open than a batch holds (clocks.ts:63-66).      *)
MissedIsAnnounced == []<>(\A s \in Subjects : ~Unannounced(s))
=============================================================================
