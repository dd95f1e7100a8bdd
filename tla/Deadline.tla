-------------------------------- MODULE Deadline --------------------------------
(***************************************************************************)
(* A deadline that pauses of the service move, as a countdown.              *)
(*                                                                         *)
(* The code stores the deadline and the history of pauses and computes the  *)
(* effective deadline each time it is needed.  The other modules keep a     *)
(* countdown instead, which has finitely many values; CompletionClock       *)
(* checks that the two agree in every history of pauses.                    *)
(***************************************************************************)
EXTENDS Integers

Passed == -1   \* the effective deadline lies in the past, for good
Held   == -2   \* the deadline fell into the pause that is now open

Timers(longest) == Held..longest

\* One unit of time.
AfterTick(t, paused) ==
  IF t > 0 THEN t - 1 ELSE IF t = 0 THEN IF paused THEN Held ELSE Passed ELSE t

\* The open pause ends: a deadline inside it becomes its end plus the grace.
AfterResume(t, grace) == IF t = Held THEN grace ELSE t

\* There is no effective deadline now: the code's null.
Suspended(t, paused) == paused /\ t # Passed

\* at < due, and at >= due.
Before(t, paused)  == ~paused /\ t > 0
Reached(t, paused) == t = Passed \/ (~paused /\ t = 0)

\* at <= due, the inclusive windows.
Within(t, paused) == ~paused /\ t >= 0
===============================================================================
