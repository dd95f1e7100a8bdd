------------------------------ MODULE MCSePayInbox ------------------------------
(* Two transfers for one intent and one recovery scan, for TLC. *)
EXTENDS SePayInbox

CONSTANTS a, b, n, s1

MCItems == {a, b}
MCIntents == {n}
MCSameIntent == [i \in Items |-> n]
===============================================================================
