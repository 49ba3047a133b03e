---------------------------- MODULE OrderSale ----------------------------
(***************************************************************************)
(* What the checkout promises for one order, without queue, cron, gateway  *)
(* or database: seats are held, the hold ends in a sale or is closed, a    *)
(* sale is final and its tickets are handed out at most once.              *)
(*                                                                         *)
(* A closed order may still turn into a sale: CompleteOrderUseCase writes  *)
(* PAID without a condition, so a payment it read as PENDING wins over an  *)
(* expiration that committed in between.                                   *)
(***************************************************************************)
CONSTANT Orders

VARIABLES
    phase,      \* phase[o] : where the sale of order o stands
    delivered   \* the orders whose tickets have been handed out

saleVars == <<phase, delivered>>

Phases == {"none", "held", "sold", "closed"}

Init ==
    /\ phase = [o \in Orders |-> "none"]
    /\ delivered = {}

Hold(o) ==
    /\ phase[o] = "none"
    /\ phase' = [phase EXCEPT ![o] = "held"]
    /\ UNCHANGED delivered

Close(o) ==
    /\ phase[o] = "held"
    /\ phase' = [phase EXCEPT ![o] = "closed"]
    /\ UNCHANGED delivered

Sell(o) ==
    /\ phase[o] \in {"held", "closed"}
    /\ phase' = [phase EXCEPT ![o] = "sold"]
    /\ UNCHANGED delivered

Deliver(o) ==
    /\ phase[o] = "sold"
    /\ o \notin delivered
    /\ delivered' = delivered \union {o}
    /\ UNCHANGED phase

Next == \E o \in Orders : Hold(o) \/ Close(o) \/ Sell(o) \/ Deliver(o)

Spec == Init /\ [][Next]_saleVars
=============================================================================
