----------------------------- MODULE MCOrders -----------------------------
(***************************************************************************)
(* Orders for TLC: two or three requests that compete for a small lot.     *)
(***************************************************************************)
EXTENDS Orders

CONSTANTS o1, o2, o3, s1, s2

\* Two requests that do not fit the lot together.
TwoOrders == {o1, o2}
TwoQty == [o \in TwoOrders |-> IF o = o1 THEN 2 ELSE 1]

\* Three single-seat requests for one or two seats.
ThreeOrders == {o1, o2, o3}
ThreeQty == [o \in ThreeOrders |-> 1]
=============================================================================
