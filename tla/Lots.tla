------------------------------- MODULE Lots -------------------------------
(***************************************************************************)
(* One ticket lot (ticket_types row) and everybody who writes it:          *)
(*                                                                         *)
(*   buyers    CreateOrderUseCase looks at the lot, then takes seats with  *)
(*             a guarded UPDATE; an expiration, a compensation or a        *)
(*             cancellation gives them back                                *)
(*   editors   UpdateTicketTypeUseCase reads the row FOR UPDATE, computes  *)
(*             both quantities and writes them as absolute values          *)
(*   deleters  DeleteTicketTypeUseCase reads the row and, when nothing is  *)
(*             sold, soft-deletes it in a second statement                 *)
(*                                                                         *)
(* A row lock makes UPDATEs wait and lets plain reads pass.  A buyer here  *)
(* gives back what it took, once: the double returns of the checkout are   *)
(* the subject of Orders.                                                  *)
(***************************************************************************)
EXTENDS Seats

CONSTANTS
    Buyers,     \* orders for seats of the lot
    Qty,        \* Qty[b] : seats buyer b asks for
    Editors,    \* PATCH /ticket-types/:id requests
    Deleters,   \* DELETE /ticket-types/:id requests
    Sizes,      \* the values of totalQuantity in a request body
    Nobody      \* holder of a free row lock

ASSUME BuyersAssumption == IsFiniteSet(Buyers) /\ Qty \in [Buyers -> Nat \ {0}]
ASSUME SizesAssumption == Sizes \subseteq Nat \ {0}
ASSUME NobodyAssumption == Nobody \notin Editors

VARIABLES
    total,      \* total_quantity
    avail,      \* available_quantity
    deleted,    \* deleted_at is set
    lock,       \* the editor whose transaction locks the row
    buyer,      \* buyer[b] : where the order stands
    editor,     \* editor[e] : where the request stands
    seen,       \* seen[e] : the quantities editor e read
    deleter     \* deleter[d] : where the request stands

vars == <<total, avail, deleted, lock, buyer, editor, seen, deleter>>

TypeOK ==
    /\ total \in Nat
    /\ avail \in Nat
    /\ deleted \in BOOLEAN
    /\ lock \in Editors \union {Nobody}
    /\ buyer \in [Buyers -> {"new", "checked", "holding", "refused", "gone"}]
    /\ editor \in [Editors -> {"new", "locked", "done", "refused", "error"}]
    /\ seen \in [Editors -> [total : Nat, avail : Nat]]
    /\ deleter \in [Deleters -> {"new", "read", "done", "refused"}]

\* CreateTicketTypeUseCase: the whole lot is on sale.
Init ==
    /\ total \in Sizes
    /\ avail = total
    /\ deleted = FALSE
    /\ lock = Nobody
    /\ buyer = [b \in Buyers |-> "new"]
    /\ editor = [e \in Editors |-> "new"]
    /\ seen = [e \in Editors |-> [total |-> 0, avail |-> 0]]
    /\ deleter = [d \in Deleters |-> "new"]

-----------------------------------------------------------------------------
(* Buyers *)

BuyerGoes(b, s) == buyer' = [buyer EXCEPT ![b] = s]

CheckLot(b) ==
    /\ buyer[b] = "new"
    /\ BuyerGoes(b, IF deleted \/ avail < Qty[b] THEN "refused" ELSE "checked")
    /\ UNCHANGED <<total, avail, deleted, lock, editor, seen, deleter>>

\* decrementStock: guarded by the quantity, blind to the deletion mark.
TakeSeats(b) ==
    /\ buyer[b] = "checked"
    /\ lock = Nobody
    /\ avail >= Qty[b]
    /\ avail' = avail - Qty[b]
    /\ BuyerGoes(b, "holding")
    /\ UNCHANGED <<total, deleted, lock, editor, seen, deleter>>

TakeRefused(b) ==
    /\ buyer[b] = "checked"
    /\ lock = Nobody
    /\ avail < Qty[b]
    /\ BuyerGoes(b, "refused")
    /\ UNCHANGED <<total, avail, deleted, lock, editor, seen, deleter>>

\* incrementStock
GiveSeats(b) ==
    /\ buyer[b] = "holding"
    /\ lock = Nobody
    /\ avail' = avail + Qty[b]
    /\ BuyerGoes(b, "gone")
    /\ UNCHANGED <<total, deleted, lock, editor, seen, deleter>>

-----------------------------------------------------------------------------
(* Editors *)

EditorGoes(e, s) == editor' = [editor EXCEPT ![e] = s]

\* (bug) the row is read without the pessimistic lock.
ReadUnlocked(e) ==
    /\ editor[e] = "new"
    /\ IF deleted
       THEN EditorGoes(e, "refused") /\ UNCHANGED seen
       ELSE /\ EditorGoes(e, "locked")
            /\ seen' = [seen EXCEPT ![e] = [total |-> total, avail |-> avail]]
    /\ UNCHANGED <<total, avail, deleted, lock, buyer, deleter>>
\* SELECT ... FOR UPDATE in a transaction; a deleted lot is not found.
LockLot(e) ==
    /\ editor[e] = "new"
    /\ lock = Nobody
    /\ IF deleted
       THEN EditorGoes(e, "refused") /\ UNCHANGED <<lock, seen>>
       ELSE /\ EditorGoes(e, "locked")
            /\ lock' = e
            /\ seen' = [seen EXCEPT ![e] = [total |-> total, avail |-> avail]]
    /\ UNCHANGED <<total, avail, deleted, buyer, deleter>>

\* (bug) the new size is compared with what is on sale, not with what is sold.
FitsAvailable(n, s) == n >= s.avail
Fits(n, s) == n >= s.total - s.avail

\* (bug) the transaction is left open when the size is refused.
SaveLotLeaks(e, n) ==
    /\ editor[e] = "locked"
    /\ IF n # seen[e].total /\ ~Fits(n, seen[e])
       THEN EditorGoes(e, "refused") /\ UNCHANGED <<total, avail, lock>>
       ELSE /\ EditorGoes(e, "done")
            /\ total' = n
            /\ avail' = seen[e].avail + (n - seen[e].total)
            /\ lock' = Nobody
    /\ UNCHANGED <<deleted, buyer, seen, deleter>>
\* The new size is refused when more is sold; otherwise both quantities are
\* written from what was read.  A body without a new size (n = seen total)
\* writes the other columns only.
SaveLot(e, n) ==
    /\ editor[e] = "locked"
    /\ IF n # seen[e].total /\ ~Fits(n, seen[e])
       THEN EditorGoes(e, "refused") /\ UNCHANGED <<total, avail>>
       ELSE /\ EditorGoes(e, "done")
            /\ total' = n
            /\ avail' = seen[e].avail + (n - seen[e].total)
    /\ lock' = Nobody
    /\ UNCHANGED <<deleted, buyer, seen, deleter>>

\* Any exception rolls the transaction back.
EditFails(e) ==
    /\ editor[e] = "locked"
    /\ EditorGoes(e, "error")
    /\ lock' = Nobody
    /\ UNCHANGED <<total, avail, deleted, buyer, seen, deleter>>

-----------------------------------------------------------------------------
(* Deleters *)

DeleterGoes(d, s) == deleter' = [deleter EXCEPT ![d] = s]

\* (bug) the deletion is refused only when every seat is sold.
ReadForDeleteFull(d) ==
    /\ deleter[d] = "new"
    /\ DeleterGoes(d, IF deleted \/ avail = 0 THEN "refused" ELSE "read")
    /\ UNCHANGED <<total, avail, deleted, lock, buyer, editor, seen>>
\* findById and the check for sold seats.
ReadForDelete(d) ==
    /\ deleter[d] = "new"
    /\ DeleterGoes(d, IF deleted \/ total - avail > 0 THEN "refused" ELSE "read")
    /\ UNCHANGED <<total, avail, deleted, lock, buyer, editor, seen>>

\* The soft delete, a statement of its own.
MarkDeleted(d) ==
    /\ deleter[d] = "read"
    /\ lock = Nobody
    /\ deleted' = TRUE
    /\ DeleterGoes(d, "done")
    /\ UNCHANGED <<total, avail, lock, buyer, editor, seen>>

-----------------------------------------------------------------------------

Next ==
    \/ \E b \in Buyers : CheckLot(b) \/ TakeSeats(b) \/ TakeRefused(b) \/ GiveSeats(b)
    \/ \E e \in Editors :
          LockLot(e) \/ EditFails(e) \/ \E n \in Sizes \union {seen[e].total} : SaveLot(e, n)
    \/ \E d \in Deleters : ReadForDelete(d) \/ MarkDeleted(d)

\* A transaction that holds the lock ends, and a handler that waits for the
\* lock, which Postgres grants in turn, goes on.
Fairness ==
    /\ \A e \in Editors : WF_vars(\E n \in Sizes : SaveLot(e, n)) /\ SF_vars(LockLot(e))
    /\ \A b \in Buyers : SF_vars(TakeSeats(b) \/ TakeRefused(b))
    /\ \A d \in Deleters : SF_vars(MarkDeleted(d))

Spec == Init /\ [][Next]_vars
FairSpec == Spec /\ Fairness

-----------------------------------------------------------------------------
(* Properties *)

Holders == {b \in Buyers : buyer[b] = "holding"}

\* The two columns count the seats sold exactly, whatever resizings run among
\* the reservations and returns (pessimistic lock of UpdateTicketTypeUseCase,
\* relative updates of decrementStock and incrementStock).
SoldIsHeld == total - avail = Units(Holders, Qty)

\* What editors and buyers do to the columns is what LotLedger allows: a resize
\* keeps the sold seats, a sale or a return keeps the size.
Ledger == INSTANCE LotLedger WITH free <- avail, sold <- total - avail
ImplementsLedger == Ledger!Spec

\* Nobody waits for the row for ever: every buyer that looked at the lot, every
\* editor and every deleter that passed its check gets its answer.
WaitersServed ==
    /\ \A b \in Buyers : buyer[b] = "checked" ~> buyer[b] # "checked"
    /\ \A e \in Editors : editor[e] \in {"new", "locked"}
                             ~> editor[e] \in {"done", "refused", "error"}
    /\ \A d \in Deleters : deleter[d] = "read" ~> deleter[d] = "done"

\* The strengthening that makes SoldIsHeld inductive: the lock belongs to the
\* editor between its read and its write, and what it read is still the row.
LockInv ==
    /\ \A e \in Editors : editor[e] = "locked" <=> lock = e
    /\ lock # Nobody => seen[lock] = [total |-> total, avail |-> avail]
=============================================================================
