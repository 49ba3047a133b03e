---------------------------- MODULE OrdersAdmin ----------------------------
(***************************************************************************)
(* The checkout pipeline of Orders together with the two operations an     *)
(* administrator runs on orders:                                           *)
(*                                                                         *)
(*   PATCH /orders/:id    UpdateOrderUseCase: read the row, decide, write  *)
(*                        the whole row back, with its seats if it held any*)
(*   DELETE /orders/:id   DeleteOrderUseCase: soft delete                  *)
(*                                                                         *)
(* A soft-deleted row is found by no query any more; updates by id still   *)
(* reach it.  save() loads the row again, deleted or not, and updates the  *)
(* columns of the entity that differ from it, so a PATCH puts back the     *)
(* status, the quantity, the lot and the (empty) deletion mark it had read.*)
(*                                                                         *)
(* The body of a PATCH may carry a quantity and a lot as well, and no seat *)
(* is taken or given back for them.                                        *)
(***************************************************************************)
EXTENDS Orders

CONSTANTS
    Patches,    \* the PATCH requests
    Statuses,   \* the statuses that their bodies ask for
    Quantities, \* the quantities that they ask for
    Lots,       \* the lots that they ask for
    Lot         \* the lot whose stock is followed, the first of every order

ASSUME BodiesAssumption ==
    Quantities \subseteq Nat /\ Statuses \subseteq OrderStatus /\ Lot \in Lots

VARIABLES
    patch,      \* patch[p] : where request p stands and what it has read
    deleted,    \* the orders with a deletion mark
    quantity,   \* quantity[o] : the seats in the row of order o
    lot,        \* lot[o] : the lot that the row names
    loaded,     \* loaded[s][o] : the amount sweep s read of order o
    carried,    \* the amount the worker read of the order it completes
    shrunk      \* (history) seats that PATCHes took off the rows of holding orders

rowVars == <<deleted, quantity, lot, shrunk>>
adminVars == <<patch, rowVars, loaded, carried>>
allVars == <<vars, adminVars>>

\* What the row of an order gives it of the lot.
amount == [o \in Orders |-> IF lot[o] = Lot THEN quantity[o] ELSE 0]

Row(o) == [status |-> status[o], quantity |-> quantity[o], lot |-> lot[o],
           marked |-> o \in deleted]
Columns == {"status", "quantity", "lot", "marked"}
Entities == [status : OrderStatus, quantity : Nat, lot : Lots, marked : {FALSE}]

\* seen and had are of the row that was read, entity is what was made of it, and
\* sets are its columns that save() found to differ.
PatchStates ==
    [at : {"new", "done", "refused", "error", "lost"}]
    \union [at : {"read"}, order : Orders, seen : OrderStatus, had : Nat, entity : Entities]
    \union [at : {"compared"}, order : Orders, seen : OrderStatus, had : Nat,
            entity : Entities, sets : SUBSET Columns]

Open(p) == patch[p].at \in {"read", "compared"}

AdminTypeOK ==
    /\ TypeOK
    /\ patch \in [Patches -> PatchStates]
    /\ deleted \subseteq {o \in Orders : status[o] # "NONE"}
    /\ \A p \in Patches : Open(p) => status[patch[p].order] # "NONE"
    /\ quantity \in [Orders -> Nat]
    /\ lot \in [Orders -> Lots]
    /\ loaded \in [Sweeps -> [Orders -> Nat]]
    /\ carried \in Nat
    /\ shrunk \in Nat

AdminInit ==
    /\ Init
    /\ patch = [p \in Patches |-> [at |-> "new"]]
    /\ deleted = {}
    /\ quantity = Qty
    /\ lot = [o \in Orders |-> Lot]
    /\ loaded = [s \in Sweeps |-> [o \in Orders |-> 0]]
    /\ carried = 0
    /\ shrunk = 0

-----------------------------------------------------------------------------
(* The rows as the pipeline sees them: what it read of one it works with to the end *)

FindVisibleOrder ==
    /\ FindOrderAs(IF OrderOf(worker) \in deleted THEN "NONE"
                   ELSE status[OrderOf(worker)])
    /\ carried' = IF step' = "pay" THEN amount[OrderOf(worker)] ELSE carried
    /\ UNCHANGED <<patch, rowVars, loaded>>

EmitCarried ==
    /\ EmitTicketsOf(carried)
    /\ carried' = 0
    /\ UNCHANGED <<patch, rowVars, loaded>>

ScanVisible(s) ==
    /\ ScanFrom(s, Expirable \ deleted)
    /\ loaded' = [loaded EXCEPT ![s] = [o \in Orders |-> IF o \in batch'[s] THEN amount[o] ELSE 0]]
    /\ UNCHANGED <<patch, rowVars, carried>>

ExpireLoaded(s, o) ==
    /\ ExpireOrderOf(s, o, loaded[s][o])
    /\ loaded' = [loaded EXCEPT ![s][o] = 0]
    /\ UNCHANGED <<patch, rowVars, carried>>

-----------------------------------------------------------------------------
(* PATCH /orders/:id *)

Answer(p, outcome) == patch' = [patch EXCEPT ![p] = [at |-> outcome]]

\* A paid order may only be cancelled or refunded: judged on the status read.
Allows(seen, to) == seen = "PAID" => to \in {"PAID", "CANCELLED", "REFUNDED"}

\* findById and the checks.  The body's status, quantity and lot are assigned to the
\* entity; what the body leaves out stays as it was read.
ReadForPatch(p, o, to, q, l) ==
    /\ patch[p].at = "new"
    /\ IF status[o] = "NONE" \/ o \in deleted \/ ~Allows(status[o], to)
       THEN Answer(p, "refused")
       ELSE patch' = [patch EXCEPT ![p] =
                        [at |-> "read", order |-> o, seen |-> status[o], had |-> amount[o],
                         entity |-> [status |-> to, quantity |-> q, lot |-> l,
                                     marked |-> FALSE]]]
    /\ UNCHANGED <<vars, rowVars, loaded, carried>>

\* The save loads the row as it is by now.
ComparePatch(p) ==
    LET r == patch[p]
    IN  /\ r.at = "read"
        /\ patch' = [patch EXCEPT ![p] =
                        [at |-> "compared", order |-> r.order, seen |-> r.seen,
                         had |-> r.had, entity |-> r.entity,
                         sets |-> {c \in Columns : r.entity[c] # Row(r.order)[c]}]]
        /\ UNCHANGED <<vars, rowVars, loaded, carried>>

\* (bug) only an unpaid order is thought to hold seats.
ReturnsOnlyPending(seen, to) ==
    /\ seen = "PENDING"
    /\ to \in {"CANCELLED", "EXPIRED", "FAILED", "REFUNDED"}
NeedsToReturnStock(seen, to) ==
    /\ seen \in {"PENDING", "PAID"}
    /\ to \in {"CANCELLED", "EXPIRED", "FAILED", "REFUNDED"}

\* The row that the UPDATE leaves.
Saved(r) == [c \in Columns |-> IF c \in r.sets THEN r.entity[c] ELSE Row(r.order)[c]]

\* The end of the transaction, or of a plain save: the seats that were read go back
\* if the status read held them.
WritePatch(p) ==
    LET o == patch[p].order
        new == Saved(patch[p])
    IN  /\ patch[p].at = "compared"
        /\ IF NeedsToReturnStock(patch[p].seen, patch[p].entity.status)
           THEN IncrementStock(patch[p].had)
           ELSE UNCHANGED avail
        /\ UpdateStatus(o, new.status)
        /\ quantity' = [quantity EXCEPT ![o] = new.quantity]
        /\ lot' = [lot EXCEPT ![o] = new.lot]
        /\ deleted' = IF new.marked THEN deleted \union {o} ELSE deleted \ {o}
        /\ Answer(p, "done")
        /\ UNCHANGED <<old, req, session, job, worker, step, tickets, batch, faults, crashes,
                       loaded, carried>>
        /\ shrunk' = IF o \in Holding /\ o \in Holding' /\ amount[o] > amount'[o]
                     THEN shrunk + amount[o] - amount'[o]
                     ELSE shrunk

\* The read or the transaction throws: nothing is written.
PatchFails(p) ==
    /\ patch[p].at = "new" \/ Open(p)
    /\ Fault
    /\ Answer(p, "error")
    /\ UNCHANGED <<avail, status, old, req, session, job, worker, step, tickets,
                   batch, crashes, rowVars, loaded, carried>>

-----------------------------------------------------------------------------
(* DELETE /orders/:id *)

\* (bug) the update is not checked for having found a row.
DeleteMissing(o) ==
    /\ o \notin deleted
    /\ deleted' = deleted \union {o}
    /\ UNCHANGED <<vars, patch, quantity, lot, shrunk, loaded, carried>>
\* The mark is set whatever the order's status; its seats stay taken.
DeleteOrder(o) ==
    /\ status[o] # "NONE"
    /\ o \notin deleted
    /\ deleted' = deleted \union {o}
    /\ UNCHANGED <<vars, patch, quantity, lot, shrunk, loaded, carried>>

-----------------------------------------------------------------------------

CrashAll ==
    /\ Crash
    /\ patch' = [p \in Patches |->
                   IF Open(p) THEN [at |-> "lost"] ELSE patch[p]]
    /\ loaded' = [s \in Sweeps |-> [o \in Orders |-> 0]]
    /\ carried' = 0
    /\ UNCHANGED rowVars

PatchStep(p) ==
    \/ \E o \in Orders :
          \E to \in (Statuses \union {status[o]}) \ {"NONE"},
             q \in Quantities \union {quantity[o]}, l \in Lots : ReadForPatch(p, o, to, q, l)
    \/ ComparePatch(p) \/ WritePatch(p)

AdminNext ==
    \/ BlindStep /\ UNCHANGED adminVars
    \/ FindVisibleOrder \/ EmitCarried
    \/ \E s \in Sweeps : ScanVisible(s) \/ \E o \in Orders : ExpireLoaded(s, o)
    \/ CrashAll
    \/ \E p \in Patches : PatchStep(p) \/ PatchFails(p)
    \/ \E o \in Orders : DeleteOrder(o)

\* Time passes and the cron goes on, as in Orders: nothing is asked of the
\* requests, which may stop at any await.
AdminFairness ==
    /\ \A o \in Orders : WF_allVars(Age(o) /\ UNCHANGED adminVars)
    /\ \A s \in Sweeps :
          WF_allVars(ScanVisible(s) \/ \E o \in Orders : ExpireLoaded(s, o))

AdminSpec == AdminInit /\ [][AdminNext]_allVars
AdminFairSpec == AdminSpec /\ AdminFairness

-----------------------------------------------------------------------------
(* Properties *)

\* No seat is lost but those that PATCHes took off an order with the quantity or the
\* lot they assigned: raced by an expiration, a payment or another PATCH, one gives
\* seats back too often or finds more in the row than it took, never too seldom
\* (UpdateOrderUseCase against the whole pipeline; a row accounts for its amount,
\* deleted or not).
AdminStockNotLost == avail + Units(Holding, amount) + shrunk >= Total

\* An order that was paid at Stripe leaves PAID only to be cancelled or refunded, or
\* by a PATCH that had read it before it was PAID: the expiration, the compensation
\* and a PATCH that knows of the payment leave it alone (UpdateOrderUseCase against
\* the whole pipeline).
PaidLeaves ==
    [][\A o \in Orders :
          status[o] = "PAID" /\ status'[o] # "PAID" /\ session[o] = "paid" =>
              \E p \in Patches :
                  /\ WritePatch(p)
                  /\ patch[p].order = o
                  /\ patch[p].seen # "PAID" \/ status'[o] \in {"CANCELLED", "REFUNDED"}]_allVars

\* A reservation that stays visible ends, however PATCH and DELETE disturb it:
\* the sweep finds every visible PENDING row again.
VisibleReservationsEnd ==
    \A o \in Orders :
        status[o] = "PENDING" /\ o \notin deleted
            ~> status[o] # "PENDING" \/ o \in deleted
=============================================================================
