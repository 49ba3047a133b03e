---------------------------- MODULE TicketLocks ----------------------------
(***************************************************************************)
(* The requests of Tickets, statement by statement, with the row locks     *)
(* Postgres holds until the transaction ends.                              *)
(*                                                                         *)
(* A PATCH opens its transaction, reads the ticket without a lock, updates *)
(* the stock of one or two lots, saves the entity (a SELECT, then an       *)
(* UPDATE of the columns that differ) and commits; a deletion does the     *)
(* same after reading outside of its transaction; a validation has only    *)
(* the save.  Nothing of a transaction is visible before the commit, and   *)
(* every failure rolls it back.  Transactions that wait for each other in  *)
(* a ring are found by Postgres, which aborts one of them.                 *)
(***************************************************************************)
EXTENDS Tickets, Sequences, Relation

CONSTANT MaxRequests   \* bound: requests sent in all

ASSUME MaxRequestsAssumption == MaxRequests \in Nat

VARIABLES
    left,       \* requests that may still be sent
    todo,       \* todo[c] : the stock updates client c has still to send
    taken,      \* taken[c] : the uncommitted changes of c to the stock
    found,      \* found[c] : the row the save of c found, Absent before
    others,     \* clients whose save found the owner or the price different
    holds       \* holds[c] : the rows (lots and tickets) c has locked

txnVars == <<left, todo, taken, found, others, holds>>
lockVars == <<vars, txnVars>>

Rows == Lots \union Tickets
Row == [status : TicketStatus, lot : Lots]
StockUpdates == [lot : Lots, by : {-1, 1}]

LocksTypeOK ==
    /\ TypeOK
    /\ left \in 0 .. MaxRequests
    /\ todo \in [Clients -> Seq(StockUpdates)]
    /\ \A c \in Clients : Len(todo[c]) <= 2
    /\ taken \in [Clients -> [Lots -> -2 .. 2]]
    /\ found \in [Clients -> Row \union {Absent}]
    /\ others \subseteq Clients
    /\ holds \in [Clients -> SUBSET Rows]
    /\ \A c, d \in Clients : c # d => holds[c] \intersect holds[d] = {}
    /\ \A c \in Clients : client[c].phase # "read" => holds[c] = {}

NoChange == [l \in Lots |-> 0]

LockInit ==
    /\ Init
    /\ left = MaxRequests
    /\ todo = [c \in Clients |-> <<>>]
    /\ taken = [c \in Clients |-> NoChange]
    /\ found = [c \in Clients |-> Absent]
    /\ others = {}
    /\ holds = [c \in Clients |-> {}]

-----------------------------------------------------------------------------
(* Statements *)

\* (bug) a deletion cancels the ticket and leaves the stock alone.
StatementsKeepSeat(op, s) == IF op = Delete THEN <<>> ELSE
    LET Do(does, l, by) == IF does THEN <<[lot |-> l, by |-> by]>> ELSE <<>>
    IN  Do(Cancels(op, s), s.lot, 1) \o Do(TakesOld(op, s), s.lot, -1)
        \o Do(Frees(op, s), s.lot, 1) \o Do(TakesNew(op, s), op.lot, -1)
\* The stock updates of an operation on a row s, in the order they are sent.
Statements(op, s) ==
    LET Do(does, l, by) == IF does THEN <<[lot |-> l, by |-> by]>> ELSE <<>>
    IN  Do(op = Delete \/ Cancels(op, s), s.lot, 1) \o Do(TakesOld(op, s), s.lot, -1)
        \o Do(Frees(op, s), s.lot, 1) \o Do(TakesNew(op, s), op.lot, -1)

\* The entity a save writes, the row s with what the operation changed in it.
Entity(op, s) ==
    IF op = Validate THEN [s EXCEPT !.status = "USED"]
    ELSE [status |-> NewStatus(op, s), lot |-> NewLot(op, s)]

Current(t) == [status |-> status[t], lot |-> lot[t]]

Open(c) == client[c].phase = "read"

\* (bug) UPDATEs of one row do not wait for each other.
FreeAlways(row, c) == TRUE
\* No transaction but that of c has locked the row.
Free(row, c) == \A d \in Clients \ {c} : row \notin holds[d]

\* The columns that are written, of the two that are modelled: those that
\* differed, or the status alone.
Differs(c) ==
    IF client[c].op = Delete THEN {"status"}
    ELSE {f \in {"status", "lot"} : Entity(client[c].op, client[c].seen)[f] # found[c][f]}

\* There is an UPDATE to send.
Updates(c) == Differs(c) # {} \/ c \in others

\* The UPDATE of the ticket is the next statement, or was the last one.
Saving(c) == Open(c) /\ todo[c] = <<>> /\ (client[c].op = Delete \/ found[c] # Absent)

\* The row the next statement of c has to lock, if any.
Wanted(c) ==
    CASE Open(c) /\ todo[c] # <<>> -> {Head(todo[c]).lot}
      [] Saving(c) /\ Updates(c) -> {client[c].ticket}
      [] OTHER -> {}

\* c waits, directly or through others, for a row that it holds itself.
Deadlocked(c) ==
    LET Waits == [x, y \in Clients |-> x # y /\ Wanted(x) \intersect holds[y] # {}]
    IN  TransitiveClosure(Waits, Clients)[c, c]

\* (bug) the connection goes back to the pool inside its transaction.
EndKeepsLocks(c) ==
    /\ todo' = [todo EXCEPT ![c] = <<>>]
    /\ taken' = [taken EXCEPT ![c] = NoChange]
    /\ found' = [found EXCEPT ![c] = Absent]
    /\ others' = others \ {c}
    /\ UNCHANGED <<left, holds>>
\* Commit or rollback, and the release of the connection.
End(c) ==
    /\ todo' = [todo EXCEPT ![c] = <<>>]
    /\ taken' = [taken EXCEPT ![c] = NoChange]
    /\ found' = [found EXCEPT ![c] = Absent]
    /\ others' = others \ {c}
    /\ holds' = [holds EXCEPT ![c] = {}]
    /\ UNCHANGED left

-----------------------------------------------------------------------------
(* Steps *)

\* A sale takes the seat in one statement, which waits for the row.
Sell(t, l) ==
    /\ \A c \in Clients : l \notin holds[c]
    /\ SellTicket(t, l)
    /\ UNCHANGED txnVars

Issue(t, l) == IssueTicket(t, l) /\ UNCHANGED txnVars

\* findOne: found and accepted, or refused.
Read(c, t, op) ==
    /\ left > 0
    /\ ReadTicket(c, t, op)
    /\ left' = left - 1
    /\ todo' = [todo EXCEPT ![c] = IF Accepts(op, status[t])
                                   THEN Statements(op, Current(t)) ELSE <<>>]
    /\ UNCHANGED <<taken, found, others, holds>>

\* The stock of lot l as c sees it once it has the row.
Stock(c, l) == avail[l] + taken[c][l]

\* (bug) nobody looks whether the guarded UPDATE affected a row.
GrantsAlways(c, u) == TRUE
\* The WHERE clause of a stock update.
Grants(c, u) == u.by = -1 => Stock(c, u.lot) > 0

UpdateStock(c) ==
    /\ Open(c) /\ todo[c] # <<>>
    /\ LET u == Head(todo[c])
       IN  /\ Free(u.lot, c)
           /\ Grants(c, u)
           /\ taken' = [taken EXCEPT ![c][u.lot] = @ + u.by]
           /\ holds' = [holds EXCEPT ![c] = @ \union {u.lot}]
    /\ todo' = [todo EXCEPT ![c] = Tail(@)]
    /\ UNCHANGED <<vars, left, found, others>>

\* The guarded UPDATE affects no row.
NoSeat(c) ==
    /\ Open(c) /\ todo[c] # <<>>
    /\ LET u == Head(todo[c])
       IN  Free(u.lot, c) /\ ~Grants(c, u)
    /\ Refuse(c)
    /\ End(c)

\* The save loads the row to compare the entity with it; a deletion does not.
\* A PATCH makes its caller the owner and a move takes the price of the new lot,
\* so those columns may differ as well, from the entity of a validation only once
\* another request has written them.
Compare(c) ==
    /\ Open(c) /\ client[c].op # Delete
    /\ todo[c] = <<>> /\ found[c] = Absent
    /\ found' = [found EXCEPT ![c] = Current(client[c].ticket)]
    /\ others' \in {others, others \union {c}}
    /\ client[c].op = Validate /\ ~client[c].overtaken => others' = others
    /\ UNCHANGED <<vars, left, todo, taken, holds>>

LockTicket(c) ==
    /\ Saving(c) /\ Updates(c) /\ client[c].ticket \notin holds[c]
    /\ Free(client[c].ticket, c)
    /\ holds' = [holds EXCEPT ![c] = @ \union {client[c].ticket}]
    /\ UNCHANGED <<vars, left, todo, taken, found, others>>

Commit(c) ==
    LET t == client[c].ticket
        e == Entity(client[c].op, client[c].seen)
    IN  /\ Saving(c)
        /\ t \in holds[c] \/ ~Updates(c)
        /\ avail' = [l \in Lots |-> Stock(c, l)]
        /\ WriteRow(t, {CASE client[c].op = Delete -> "CANCELLED"
                          [] client[c].op # Delete /\ "status" \in Differs(c) -> e.status
                          [] OTHER -> status[t]},
                       {IF "lot" \in Differs(c) THEN e.lot ELSE lot[t]})
        /\ Committed(c)
        /\ End(c)

\* The new lot is gone or of another event, or a statement fails.
Fail(c) == Refuse(c) /\ End(c)

\* Postgres aborts a transaction that waits for itself.
DeadlockFound(c) == Deadlocked(c) /\ Refuse(c) /\ End(c)

-----------------------------------------------------------------------------

LockNext ==
    \/ \E t \in Tickets, l \in Lots : Sell(t, l) \/ Issue(t, l)
    \/ \E c \in Clients :
          \/ \E t \in Tickets, op \in Operations : Read(c, t, op)
          \/ UpdateStock(c) \/ NoSeat(c) \/ Compare(c) \/ LockTicket(c)
          \/ Commit(c) \/ Fail(c) \/ DeadlockFound(c)

\* A row is granted to those who wait for it in turn; a request that has its rows
\* goes on, and the deadlock detector runs.  Nothing makes a statement fail.
Fairness ==
    \A c \in Clients :
       /\ SF_lockVars(UpdateStock(c) \/ NoSeat(c) \/ LockTicket(c))
       /\ WF_lockVars(Compare(c) \/ Commit(c) \/ DeadlockFound(c))

LockSpec == LockInit /\ [][LockNext]_lockVars /\ Fairness

-----------------------------------------------------------------------------
(* Properties *)

\* Taken apart into statements and locks, a request still does to the rows what
\* the one step of Tickets says: the guard of an UPDATE is as good as a guard at
\* the commit, and what a save overwrites is what Column allows
\* (UpdateTicketUseCase, DeleteTicketUseCase, ValidateTicketUseCase).
ImplementsTickets == Spec

\* Two PATCHes that move tickets between the same lots in opposite directions
\* wait for each other; still every request gets an answer, and its locks go
\* with it (UpdateTicketUseCase.execute, catch and finally).
RequestsAnswered == \A c \in Clients : Open(c) ~> ~Open(c)
=============================================================================
