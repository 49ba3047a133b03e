------------------------------- MODULE Seats -------------------------------
(***************************************************************************)
(* How many seats a set of buyers holds, when buyer b holds q[b].  The sum *)
(* is the size of a set with one element per seat, so that it needs no     *)
(* recursion and its laws follow from those of finite sets.                *)
(***************************************************************************)
EXTENDS Integers, FiniteSets

Seats(S, q) == UNION {{b} \X (1 .. q[b]) : b \in S}

Units(S, q) == Cardinality(Seats(S, q))
=============================================================================
