------------------------------ MODULE Tickets ------------------------------
(***************************************************************************)
(* The tickets of an event after they were sold: validation at the gate,   *)
(* cancellation, PATCHes that change the status or move a ticket to        *)
(* another lot, tickets issued by hand, and the stock of the lots.         *)
(*                                                                         *)
(* Each request reads the ticket row without a lock and writes it back     *)
(* later, by its id alone, in one step here; TicketLocks takes the step    *)
(* apart.  A save compares the entity with the row as it is when the save  *)
(* starts and writes the columns that differ: when another request wrote   *)
(* the row since the entity was read, each column may be overwritten with  *)
(* the old value or left alone.  A client sends one request after another. *)
(* What an order does to the stock before its tickets exist is the subject *)
(* of Orders and Lots.                                                     *)
(***************************************************************************)
EXTENDS Seats

CONSTANTS
    Tickets,    \* ticket ids
    Posted,     \* the ids given out by POST /tickets, the others by orders
    Lots,       \* the lots of the event
    Capacity,   \* Capacity[l] : totalQuantity of lot l
    Clients,    \* who sends requests
    Bodies,     \* the PATCH bodies, records of status and lot
    Absent      \* the value of a field the body leaves out

ASSUME TicketsAssumption == IsFiniteSet(Tickets) /\ Posted \subseteq Tickets
ASSUME CapacityAssumption == IsFiniteSet(Lots) /\ Capacity \in [Lots -> Nat]

TicketStatus == {"VALID", "USED", "CANCELLED"}

ASSUME BodiesAssumption ==
    /\ Absent \notin TicketStatus \union Lots
    /\ Bodies \subseteq [status : TicketStatus \union {Absent}, lot : Lots \union {Absent}]

VARIABLES
    status,     \* status[t] : tickets.status, "NONE" before the row exists
    lot,        \* lot[t] : tickets.ticket_type_id, Absent before
    avail,      \* avail[l] : ticket_types.available_quantity
    client,     \* client[c] : the request client c has open or had last
    issued,     \* issued[l] : (history) tickets issued by hand for lot l
    lapses      \* (history) the status read by requests that wrote over others

vars == <<status, lot, avail, client, issued, lapses>>

\* An operation is a record like a body: a kind, and the fields it sets.
Validate == [kind |-> "validate", status |-> Absent, lot |-> Absent]
Delete == [kind |-> "delete", status |-> Absent, lot |-> Absent]
Patch(b) == [kind |-> "patch", status |-> b.status, lot |-> b.lot]

Operations == {Validate, Delete} \union {Patch(b) : b \in Bodies}

\* "read": the row was read and is as seen, overtaken when another request wrote
\* the row since; "ok" and "refused" are answers.
Requests == [phase : {"ok", "refused"}]
            \union [phase : {"read"}, op : Operations, ticket : Tickets,
                    seen : [status : TicketStatus, lot : Lots], overtaken : BOOLEAN]

TypeOK ==
    /\ status \in [Tickets -> TicketStatus \union {"NONE"}]
    /\ lot \in [Tickets -> Lots \union {Absent}]
    /\ \A t \in Tickets : status[t] = "NONE" <=> lot[t] = Absent
    /\ avail \in [Lots -> Nat]
    /\ client \in [Clients -> Requests]
    /\ issued \in [Lots -> Nat]
    /\ lapses \subseteq TicketStatus

Init ==
    /\ status = [t \in Tickets |-> "NONE"]
    /\ lot = [t \in Tickets |-> Absent]
    /\ avail = Capacity
    /\ client = [c \in Clients |-> [phase |-> "ok"]]
    /\ issued = [l \in Lots |-> 0]
    /\ lapses = {}

-----------------------------------------------------------------------------
(* Tickets come into being *)

\* An order takes a seat and CompleteOrderUseCase emits the ticket for it.
SellTicket(t, l) ==
    /\ t \notin Posted
    /\ status[t] = "NONE"
    /\ avail[l] > 0
    /\ avail' = [avail EXCEPT ![l] = @ - 1]
    /\ status' = [status EXCEPT ![t] = "VALID"]
    /\ lot' = [lot EXCEPT ![t] = l]
    /\ UNCHANGED <<client, issued, lapses>>

\* POST /tickets : the same use case, called directly.
IssueTicket(t, l) ==
    /\ t \in Posted
    /\ status[t] = "NONE"
    /\ status' = [status EXCEPT ![t] = "VALID"]
    /\ lot' = [lot EXCEPT ![t] = l]
    /\ issued' = [issued EXCEPT ![l] = @ + 1]
    /\ UNCHANGED <<avail, client, lapses>>

-----------------------------------------------------------------------------
(* A request reads the row and checks it *)

Answer(c, phase) == client' = [client EXCEPT ![c] = [phase |-> phase]]

\* Validation and deletion refuse a used or cancelled ticket; a PATCH does not.
Accepts(op, s) == op \in {Validate, Delete} => s = "VALID"

ReadTicket(c, t, op) ==
    /\ client[c].phase # "read"
    /\ status[t] # "NONE"
    /\ IF Accepts(op, status[t])
       THEN client' = [client EXCEPT ![c] =
                         [phase |-> "read", op |-> op, ticket |-> t,
                          seen |-> [status |-> status[t], lot |-> lot[t]],
                          overtaken |-> FALSE]]
       ELSE Answer(c, "refused")
    /\ UNCHANGED <<status, lot, avail, issued, lapses>>

\* The event has not begun, the new lot is gone or of another event, or the
\* database fails: the transaction, if any, rolls back.
Refuse(c) ==
    /\ client[c].phase = "read"
    /\ Answer(c, "refused")
    /\ UNCHANGED <<status, lot, avail, issued, lapses>>

-----------------------------------------------------------------------------
(* and writes it *)

Writes(c, op) == client[c].phase = "read" /\ client[c].op = op

\* The values a column may have after a save: the one of the entity, or the one
\* of the row when the row was written since.
Column(c, mine, current) ==
    IF client[c].overtaken THEN {mine, current} ELSE {mine}

\* Client c has its answer; whoever else has the ticket open is overtaken.
Committed(c) ==
    /\ client' = [d \in Clients |->
                    CASE d = c -> [phase |-> "ok"]
                      [] d # c /\ client[d].phase = "read"
                         /\ client[d].ticket = client[c].ticket ->
                            [client[d] EXCEPT !.overtaken = TRUE]
                      [] OTHER -> client[d]]
    /\ lapses' = IF client[c].overtaken
                 THEN lapses \union {client[c].seen.status} ELSE lapses
    /\ UNCHANGED issued

\* The row gets a status and a lot out of sets of possible ones.
WriteRow(t, statuses, lots) ==
    /\ \E s \in statuses : status' = [status EXCEPT ![t] = s]
    /\ \E l \in lots : lot' = [lot EXCEPT ![t] = l]

\* POST /tickets/validate : save of the entity that was read.
AdmitTicket(c) ==
    LET t == client[c].ticket
    IN  /\ Writes(c, Validate)
        /\ WriteRow(t, Column(c, "USED", status[t]), Column(c, client[c].seen.lot, lot[t]))
        /\ Committed(c)
        /\ UNCHANGED avail

\* DELETE /tickets/:id : one transaction gives the seat back and cancels.
CancelTicket(c) ==
    LET t == client[c].ticket
    IN  /\ Writes(c, Delete)
        /\ avail' = [avail EXCEPT ![client[c].seen.lot] = @ + 1]
        /\ WriteRow(t, {"CANCELLED"}, {lot[t]})
        /\ Committed(c)

\* What a PATCH with body b does to the stock, given the row s that was read.
Cancels(b, s) == b.status = "CANCELLED" /\ s.status # "CANCELLED"
Reactivates(b, s) == b.status = "VALID" /\ s.status = "CANCELLED"
Moves(b, s) == b.lot # Absent /\ b.lot # s.lot

NewStatus(b, s) == IF b.status = Absent THEN s.status ELSE b.status
NewLot(b, s) == IF b.lot = Absent THEN s.lot ELSE b.lot

\* (bug) a move gives the seat back even for a cancelled ticket.
FreesAlways(b, s) == Moves(b, s)
\* A move gives the seat of the old lot back, besides what Cancels does.
Frees(b, s) == Moves(b, s) /\ s.status # "CANCELLED"
SeatsBack(b, s) == (IF Cancels(b, s) THEN 1 ELSE 0) + (IF Frees(b, s) THEN 1 ELSE 0)

TakesOld(b, s) == Reactivates(b, s)
TakesNew(b, s) == Moves(b, s) /\ NewStatus(b, s) # "CANCELLED"

SeatsFree(b, s) ==
    /\ TakesOld(b, s) => avail[s.lot] > 0
    /\ TakesNew(b, s) => avail[b.lot] > 0

\* PATCH /tickets/:id : one transaction moves the seats and saves the entity.
PatchTicket(c, b) ==
    LET t == client[c].ticket
        s == client[c].seen
    IN  /\ Writes(c, Patch(b))
        /\ SeatsFree(b, s)
        /\ avail' = [l \in Lots |->
                       avail[l]
                       + (IF l = s.lot THEN SeatsBack(b, s) ELSE 0)
                       - (IF l = s.lot /\ TakesOld(b, s) THEN 1 ELSE 0)
                       - (IF l = b.lot /\ TakesNew(b, s) THEN 1 ELSE 0)]
        /\ WriteRow(t, Column(c, NewStatus(b, s), status[t]), Column(c, NewLot(b, s), lot[t]))
        /\ Committed(c)

PatchRefused(c, b) ==
    /\ Writes(c, Patch(b))
    /\ ~SeatsFree(b, client[c].seen)
    /\ Answer(c, "refused")
    /\ UNCHANGED <<status, lot, avail, issued, lapses>>

-----------------------------------------------------------------------------

Next ==
    \/ \E t \in Tickets, l \in Lots : SellTicket(t, l) \/ IssueTicket(t, l)
    \/ \E c \in Clients :
          \/ \E t \in Tickets, op \in Operations : ReadTicket(c, t, op)
          \/ AdmitTicket(c) \/ CancelTicket(c) \/ Refuse(c)
          \/ \E b \in Bodies : PatchTicket(c, b) \/ PatchRefused(c, b)

Spec == Init /\ [][Next]_vars

-----------------------------------------------------------------------------
(* Properties *)

\* The tickets that occupy a seat of lot l.
Live(l) == {t \in Tickets : lot[t] = l /\ status[t] \in {"VALID", "USED"}}

\* The stock column of every lot counts its live tickets exactly, however many
\* cancellations, reactivations and moves a ticket went through, as long as no
\* request wrote over another; the tickets issued by hand took no seat
\* (UpdateTicketUseCase, DeleteTicketUseCase).
LedgerExact ==
    lapses = {} =>
        \A l \in Lots : avail[l] + Cardinality(Live(l)) = Capacity[l] + issued[l]

SeatsOf(f) == Units(Lots, f)

\* Requests that write over each other lose no seat of the event, whatever they
\* do: only one that saw the ticket cancelled, takes a seat for it or moves it and
\* writes over a reactivation, can (UpdateTicketUseCase, ValidateTicketUseCase,
\* DeleteTicketUseCase).
NoSeatLost ==
    "CANCELLED" \notin lapses =>
        SeatsOf(avail) + Cardinality(UNION {Live(l) : l \in Lots})
            >= SeatsOf(Capacity) + SeatsOf(issued)

\* Constant while the stock column counts the live tickets of lot l.
Balance(l) == avail[l] + Cardinality(Live(l)) - issued[l]

\* Where the branches of UpdateTicketUseCase do not fit together: what they put to the
\* balance of the lot of ticket s for a body b that they were not written for.
Miscount(b, s) ==
    CASE Cancels(b, s) /\ Moves(b, s) -> 1
      [] Reactivates(b, s) /\ Moves(b, s) -> -1
      [] b.status = "USED" /\ s.status = "CANCELLED" /\ ~Moves(b, s) -> 1
      [] OTHER -> 0

\* The stock of a lot comes apart from its live tickets only by a request that was
\* overtaken, or by a PATCH of one of these bodies, and then by one seat of the lot
\* that the ticket left (UpdateTicketUseCase).
BalanceExplained ==
    [][\A l \in Lots : Balance(l)' # Balance(l) =>
          \E c \in Clients :
              /\ client[c].phase = "read"
              /\ client'[c].phase = "ok"
              /\ \/ client[c].overtaken
                 \/ \E b \in Bodies :
                       /\ client[c].op = Patch(b)
                       /\ l = client[c].seen.lot
                       /\ Balance(l)' = Balance(l) + Miscount(b, client[c].seen)]_vars

\* What client c asked for its ticket.
AsksStatus(c, s) ==
    LET was == status[client[c].ticket]
    IN  \/ client[c].op = Validate /\ was = "VALID" /\ s = "USED"
        \/ client[c].op = Delete /\ was = "VALID" /\ s = "CANCELLED"
        \/ \E b \in Bodies : client[c].op = Patch(b) /\ b.status = s

AsksLot(c, l) == \E b \in Bodies : client[c].op = Patch(b) /\ b.lot = l

\* Once it exists a ticket changes only by a request that succeeds in that step and
\* asks for what it becomes, unless that request was overtaken: only then may a save
\* bring back what another has changed, as a used ticket that is valid again or a
\* move that is undone.
RowChangesAsked ==
    [][\A t \in Tickets :
          status[t] # "NONE" /\ (status'[t] # status[t] \/ lot'[t] # lot[t]) =>
              \E c \in Clients :
                  /\ client[c].phase = "read"
                  /\ client[c].ticket = t
                  /\ client'[c].phase = "ok"
                  /\ \/ client[c].overtaken
                     \/ /\ status'[t] # status[t] => AsksStatus(c, status'[t])
                        /\ lot'[t] # lot[t] => AsksLot(c, lot'[t])]_vars

-----------------------------------------------------------------------------
(* The inductive strengthening of the types and of LedgerExact (TicketsProofs) *)

\* An open request works on a ticket that exists; if nothing overtook it, it knows
\* the row; and only a PATCH works on a ticket that was not VALID.
ReadInv ==
    \A c \in Clients : client[c].phase = "read" =>
        LET t == client[c].ticket
        IN  /\ status[t] # "NONE"
            /\ ~client[c].overtaken =>
                  client[c].seen.status = status[t] /\ client[c].seen.lot = lot[t]
            /\ client[c].op \in {Validate, Delete} => client[c].seen.status = "VALID"

\* No body asks for a status and a lot at once, or for USED.
OneThing ==
    \A b \in Bodies :
        \/ b.status = Absent
        \/ b.lot = Absent /\ b.status \in {"VALID", "CANCELLED"}

-----------------------------------------------------------------------------
(* What the documentation says and the code does not keep *)

\* Client c gets its answer to operation op in this step.
Succeeds(c, op) == Writes(c, op) /\ client'[c].phase = "ok"

\* "QR Code invalido ou ja utilizado/cancelado" is refused (tickets.swagger.ts):
\* whoever is let in shows a ticket that is VALID at that moment.
AdmitsOnlyValid ==
    [][\A c \in Clients :
          Succeeds(c, Validate) => status[client[c].ticket] = "VALID"]_vars

\* A ticket that is no longer VALID is let in only by a validation that another
\* request overtook between its read and its save (ValidateTicketUseCase).
InvalidEntryOvertaken ==
    [][\A c \in Clients :
          Succeeds(c, Validate) /\ status[client[c].ticket] # "VALID" => client[c].overtaken]_vars
=============================================================================
