----------------------------- MODULE CompletionClock -----------------------------
(***************************************************************************)
(* The pause history of one service mode (fulfilment or resolution) and the *)
(* effective deadlines computed from it: commissionCompletionDueAt with its  *)
(* two callers, and the observation of the mode that writes the history.     *)
(*                                                                         *)
(* Observations of several workers are serialised by the advisory lock of   *)
(* the pause table, so each is one step.                                    *)
(***************************************************************************)
EXTENDS Deadline, FiniteSets, SequencesExt

CONSTANTS Bases,      \* the stored deadlines under watch
          PauseGrace, \* pauseGraceMs
          Horizon,    \* bound on the clock
          MaxPauses   \* bound on the pause history

\* What the constants stand for.
ASSUME ClockAssumptions ==
  /\ Bases \subseteq Nat /\ PauseGrace \in Nat /\ Horizon \in Nat /\ MaxPauses \in Nat

VARIABLES now,
          pauses,  \* rows of commission_fulfillment_pauses or commission_resolution_pauses
          timer    \* the countdown of Deadline, one for each base

clockVars == <<now, pauses, timer>>

Open == -1   \* ended_at IS NULL
Null == -1   \* no effective deadline

Paused == \E p \in pauses : p.to = Open

ClockInit == now = 0 /\ pauses = {} /\ timer = [b \in Bases |-> b]
---------------------------------------------------------------------------
(* The code's computation. *)

\* The orders in which sort by startedAt may deliver the rows.
Sorted(rows) ==
  {q \in SetToSeqs(rows) : \A i, j \in 1..Len(q) : i < j => q[i].from <= q[j].from}

\* Fault model of Shift: every pause adds the grace, covering or not.
ShiftEvery(due, p) ==
  IF due = Null \/ p.from > due THEN due
  ELSE IF p.to = Open THEN Null ELSE p.to + PauseGrace

\* The loop body of commissionCompletionDueAt.  The break at a later start is the
\* first case: the rows that follow start later still.
Shift(due, p) ==
  IF due = Null \/ p.from > due \/ (p.to # Open /\ p.to <= due) THEN due
  ELSE IF p.to = Open THEN Null ELSE p.to + PauseGrace

\* commissionCompletionDueAt over rows already in order.
CompletionDueAt(base, q) ==
  LET due[i \in 0..Len(q)] == IF i = 0 THEN base ELSE Shift(due[i - 1], q[i])
  IN due[Len(q)]

\* The rows readCommissionCompletionDueAt asks the database for.
Relevant(base) == {p \in pauses : p.to = Open \/ p.to > base}

\* The loop body of commission_resolution_effective_deadline.
Row(s, p) ==
  IF s.stop \/ (p.to # Open /\ p.from <= s.due /\ p.to <= s.due) THEN s
  ELSE IF p.from > s.due THEN [s EXCEPT !.stop = TRUE]
  ELSE IF p.to = Open THEN [due |-> Null, stop |-> TRUE]
  ELSE [s EXCEPT !.due = p.to + PauseGrace]

\* commission_resolution_effective_deadline, the copy in SQL that the triggers use: the
\* loop stops at a pause that starts later and returns at one that is still open.
effective_deadline(base, q) ==
  LET seen[i \in 0..Len(q)] == IF i = 0 THEN [due |-> base, stop |-> FALSE]
                                ELSE Row(seen[i - 1], q[i])
  IN seen[Len(q)].due
---------------------------------------------------------------------------

\* observe...Mode("disabled") with no pause open.
ObserveDisabled ==
  /\ ~Paused /\ Cardinality(pauses) < MaxPauses
  /\ pauses' = pauses \cup {[from |-> now, to |-> Open]}
  /\ UNCHANGED <<now, timer>>

\* observe...Mode("enabled") with a pause open.
ObserveEnabled ==
  /\ Paused
  /\ pauses' = {IF p.to = Open THEN [p EXCEPT !.to = now] ELSE p : p \in pauses}
  /\ timer' = [b \in Bases |-> AfterResume(timer[b], PauseGrace)]
  /\ UNCHANGED now

ClockTicks ==
  /\ now < Horizon
  /\ now' = now + 1
  /\ timer' = [b \in Bases |-> AfterTick(timer[b], Paused)]
  /\ UNCHANGED pauses

ClockNext == ObserveDisabled \/ ObserveEnabled \/ ClockTicks

ClockSpec == ClockInit /\ [][ClockNext]_clockVars
---------------------------------------------------------------------------
(* Properties. *)

\* The columns of the pause rows and the range of the countdowns.
ClockTyped ==
  /\ now \in 0..Horizon
  /\ \A p \in pauses : p.from \in 0..now /\ p.to \in {Open} \cup p.from..now
  /\ \A b \in Bases : timer[b] \in Int

\* What commissionCompletionDueAt returns from the whole history is what a clock
\* says that is held by a pause open when it runs out and restarted with the
\* grace when that pause ends; the order of rows with equal starts is irrelevant.
ClockAgrees ==
  \A b \in Bases : \A q \in Sorted(pauses) :
    LET due == CompletionDueAt(b, q) IN
      IF Suspended(timer[b], Paused) THEN due = Null
      ELSE IF timer[b] = Passed THEN due # Null /\ due < now
      ELSE due = now + timer[b]

\* Orders prunes the pauses that ended before the deadline, Resolutions reads them all
\* and the triggers of the database have a copy of their own: all three see the same
\* effective deadline.
PruningIsHarmless ==
  \A b \in Bases : \A q \in Sorted(pauses), r \in Sorted(Relevant(b)) :
    /\ CompletionDueAt(b, q) = CompletionDueAt(b, r)
    /\ CompletionDueAt(b, q) = effective_deadline(b, q)

\* The pause history means the same to the database and to the worker, and pruning it
\* changes no deadline (commissionCompletionDueAt, commission_resolution_effective_deadline).
HistoryAgrees == ClockTyped /\ ClockAgrees /\ PruningIsHarmless
===============================================================================
