--------------------------- MODULE MCOrdersAdmin ---------------------------
(***************************************************************************)
(* OrdersAdmin for TLC: one request for the only seat of a lot.            *)
(***************************************************************************)
EXTENDS OrdersAdmin

CONSTANTS o1, s1, p1, p2, l1, l2

OneOrder == {o1}
OneQty == [o \in OneOrder |-> 1]
=============================================================================
