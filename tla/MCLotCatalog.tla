---------------------------- MODULE MCLotCatalog ----------------------------
(***************************************************************************)
(* LotCatalog for TLC: a buyer of two seats and one of one seat.           *)
(***************************************************************************)
EXTENDS LotCatalog

CONSTANTS b1, b2

TwoBuyers == {b1, b2}
TwoQty == [b \in TwoBuyers |-> IF b = b1 THEN 2 ELSE 1]
=============================================================================
