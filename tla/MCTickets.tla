----------------------------- MODULE MCTickets -----------------------------
(***************************************************************************)
(* Tickets for TLC: two lots of one and two seats.                         *)
(***************************************************************************)
EXTENDS Tickets

CONSTANTS a, b

TwoLots == {a, b}
TwoCapacity == [l \in TwoLots |-> IF l = a THEN 1 ELSE 2]

NoBody == {}
=============================================================================
