----------------------------- MODULE LotLedger -----------------------------
(***************************************************************************)
(* What the stock columns of a ticket lot promise: every seat is free or   *)
(* sold; selling and giving back move seats from one side to the other;    *)
(* an organizer may change the size of the lot, never what is sold of it.  *)
(***************************************************************************)
EXTENDS Integers

VARIABLES
    free,   \* seats on sale
    sold    \* seats taken out of sale

ledgerVars == <<free, sold>>

Init == free \in Nat /\ sold = 0

Move ==
    /\ free' \in Nat
    /\ sold' \in Nat
    /\ free' + sold' = free + sold

Resize ==
    /\ free' \in Nat
    /\ sold' = sold

Next == Move \/ Resize

Spec == Init /\ [][Next]_ledgerVars
=============================================================================
