--------------------------- MODULE MCTicketLocks ---------------------------
(***************************************************************************)
(* TicketLocks for TLC: two lots, so that moves in both directions cross.  *)
(***************************************************************************)
EXTENDS TicketLocks

CONSTANTS a, b

TwoLots == {a, b}
TwoCapacity == [l \in TwoLots |-> 1]

\* Bodies that change one thing at a time.
OneField ==
    [status : {"VALID", "CANCELLED"}, lot : {Absent}]
    \union [status : {Absent}, lot : TwoLots]
=============================================================================
