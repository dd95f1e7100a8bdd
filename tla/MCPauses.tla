------------------------------- MODULE MCPauses -------------------------------
(***************************************************************************)
(* Service pauses for TLC: a paid order whose clocks stop and are restored, *)
(* counted in the grace of a pause, and the pause history from which the   *)
(* code computes what PaidOrder counts down.  `part` chooses the one a     *)
(* behaviour is about; the other stays as it begins.                       *)
(***************************************************************************)
EXTENDS PaidOrder, CompletionClock

VARIABLE part

mcVars == <<part, vars, clockVars>>

MCModes == {"enabled", "disabled"}
MCRefunds == 0..Amount

\* Three deadlines, short enough to hold several pauses around each.
MCBases == {0, 2, 3}

MCInit == part \in {"order", "clock"} /\ Init /\ ClockInit
MCNext ==
  \/ part = "order" /\ Next /\ UNCHANGED <<part, clockVars>>
  \/ part = "clock" /\ ClockNext /\ UNCHANGED <<part, vars>>
MCSpec == MCInit /\ [][MCNext]_mcVars
=============================================================================
