--------------------------- MODULE TicketsProofs ---------------------------
(***************************************************************************)
(* Theorems about Tickets, and that TicketLocks implements it, for any     *)
(* tickets, lots, capacities, clients and numbers of requests.             *)
(***************************************************************************)
EXTENDS TicketLocks, SeatsProofs, SequenceTheorems

USE CapacityAssumption, BodiesAssumption

-----------------------------------------------------------------------------
(* Requests *)

\* The requests after client c wrote ticket t: c has its answer, those that have t
\* open are overtaken, the others are as they were.
LEMMA CommittedRequests ==
    ASSUME TypeOK, NEW c \in Clients, client[c].phase = "read", Committed(c)
    PROVE  /\ client' \in [Clients -> Requests]
           /\ client'[c].phase = "ok"
           /\ \A d \in Clients : client'[d].phase = "read" =>
                 /\ client[d].phase = "read"
                 /\ client'[d].op = client[d].op /\ client'[d].ticket = client[d].ticket
                 /\ client'[d].seen = client[d].seen
                 /\ ~client'[d].overtaken =>
                       ~client[d].overtaken /\ client[d].ticket # client[c].ticket
<1>1. ASSUME NEW d \in Clients
      PROVE  /\ client'[d] \in Requests
             /\ d = c => client'[d].phase = "ok"
             /\ client'[d].phase = "read" =>
                 /\ client[d].phase = "read"
                 /\ client'[d].op = client[d].op /\ client'[d].ticket = client[d].ticket
                 /\ client'[d].seen = client[d].seen
                 /\ ~client'[d].overtaken =>
                       ~client[d].overtaken /\ client[d].ticket # client[c].ticket
    <2>1. client[d] \in Requests
        BY DEF TypeOK
    <2>2. CASE d = c
        <3>1. client'[d] = [phase |-> "ok"]
            BY <2>2 DEF Committed
        <3> QED BY <3>1 DEF Requests
    <2>3. CASE /\ d # c /\ client[d].phase = "read"
               /\ client[d].ticket = client[c].ticket
        <3>1. client'[d] = [client[d] EXCEPT !.overtaken = TRUE]
            BY <2>3 DEF Committed
        <3> QED BY <3>1, <2>1, <2>3 DEF Requests
    <2>4. CASE ~(d = c) /\ ~(/\ d # c /\ client[d].phase = "read"
                             /\ client[d].ticket = client[c].ticket)
        <3>1. client'[d] = client[d]
            BY <2>4 DEF Committed
        <3> QED BY <2>1, <2>4, <3>1
    <2> QED BY <2>2, <2>3, <2>4
<1> QED BY <1>1 DEF Committed

\* A row that another column set was written for stays a row, and everybody who
\* still knows a row knows its present state.
LEMMA CommittedReads ==
    ASSUME TypeOK, ReadInv, NEW c \in Clients, client[c].phase = "read", Committed(c),
           NEW S, NEW L, WriteRow(client[c].ticket, S, L),
           S \subseteq TicketStatus, L \subseteq Lots
    PROVE  /\ ReadInv'
           /\ status' \in [Tickets -> TicketStatus \union {"NONE"}]
           /\ lot' \in [Tickets -> Lots \union {Absent}]
           /\ \A t \in Tickets : status'[t] = "NONE" <=> lot'[t] = Absent
           /\ client' \in [Clients -> Requests]
           /\ issued' \in [Lots -> Nat]
           /\ lapses' \subseteq TicketStatus
<1> DEFINE t == client[c].ticket
<1>1. client[c] \in Requests
    BY DEF TypeOK
<1>2. t \in Tickets /\ client[c].seen.status \in TicketStatus
    BY <1>1 DEF Requests
<1>3. PICK s \in S : status' = [status EXCEPT ![t] = s]
    BY DEF WriteRow
<1>4. PICK l \in L : lot' = [lot EXCEPT ![t] = l]
    BY DEF WriteRow
<1>5. s \in TicketStatus /\ s # "NONE" /\ l \in Lots /\ l # Absent
    BY DEF TicketStatus
<1>6. \A d \in Clients : client'[d].phase = "read" =>
         /\ client[d].phase = "read"
         /\ client'[d].op = client[d].op /\ client'[d].ticket = client[d].ticket
         /\ client'[d].seen = client[d].seen
         /\ ~client'[d].overtaken => ~client[d].overtaken /\ client[d].ticket # t
    BY CommittedRequests
<1>7. ASSUME NEW d \in Clients, client'[d].phase = "read"
      PROVE  /\ status'[client'[d].ticket] # "NONE"
             /\ ~client'[d].overtaken =>
                   /\ client'[d].seen.status = status'[client'[d].ticket]
                   /\ client'[d].seen.lot = lot'[client'[d].ticket]
             /\ client'[d].op \in {Validate, Delete} => client'[d].seen.status = "VALID"
    <2>1. client[d] \in Requests /\ client[d].phase = "read"
        BY <1>6, <1>7 DEF TypeOK
    <2>2. client[d].ticket \in Tickets
        BY <2>1 DEF Requests
    <2> QED BY <1>3, <1>4, <1>5, <1>6, <1>7, <2>1, <2>2 DEF ReadInv, TypeOK
<1>8. ReadInv'
    BY <1>7 DEF ReadInv, Validate, Delete
<1>9. client' \in [Clients -> Requests]
    BY CommittedRequests
<1>10. issued' \in [Lots -> Nat] /\ lapses' \subseteq TicketStatus
    BY <1>2 DEF Committed, TypeOK
<1> QED BY <1>2, <1>3, <1>4, <1>5, <1>8, <1>9, <1>10 DEF TypeOK

-----------------------------------------------------------------------------
(* Types *)

\* The columns of an entity are statuses and lots.
LEMMA ColumnTypes ==
    ASSUME TypeOK, ReadInv, NEW c \in Clients, client[c].phase = "read"
    PROVE  /\ client[c] \in Requests
           /\ client[c].ticket \in Tickets
           /\ client[c].op \in Operations
           /\ client[c].seen.status \in TicketStatus /\ client[c].seen.lot \in Lots
           /\ status[client[c].ticket] \in TicketStatus /\ lot[client[c].ticket] \in Lots
           /\ \A s \in TicketStatus : Column(c, s, status[client[c].ticket]) \subseteq TicketStatus
           /\ \A l \in Lots : Column(c, l, lot[client[c].ticket]) \subseteq Lots
<1>1. client[c] \in Requests
    BY DEF TypeOK
<1>2. /\ client[c].ticket \in Tickets /\ client[c].op \in Operations
      /\ client[c].seen.status \in TicketStatus /\ client[c].seen.lot \in Lots
    BY <1>1 DEF Requests
<1>3. status[client[c].ticket] \in TicketStatus /\ lot[client[c].ticket] \in Lots
    BY <1>2 DEF TypeOK, ReadInv
<1> QED BY <1>1, <1>2, <1>3 DEF Column

\* What a PATCH with body b asks for.
LEMMA BodyTypes ==
    ASSUME NEW b \in Bodies, NEW s \in [status : TicketStatus, lot : Lots]
    PROVE  /\ b.status \in TicketStatus \union {Absent} /\ b.lot \in Lots \union {Absent}
           /\ NewStatus(b, s) \in TicketStatus /\ NewLot(b, s) \in Lots
           /\ TakesNew(b, s) => b.lot \in Lots /\ b.lot # s.lot
BY DEF NewStatus, NewLot, TakesNew, Moves

LEMMA AnswerTypes ==
    ASSUME TypeOK, ReadInv, NEW c \in Clients, NEW phase \in {"ok", "refused"},
           Answer(c, phase), UNCHANGED <<status, lot, avail, issued, lapses>>
    PROVE  TypeOK' /\ ReadInv'
<1>1. [phase |-> phase] \in Requests
    BY DEF Requests
<1>2. client' \in [Clients -> Requests]
    BY <1>1 DEF Answer, TypeOK
<1>3. ReadInv'
    BY DEF Answer, TypeOK, ReadInv, Validate, Delete
<1> QED BY <1>2, <1>3 DEF TypeOK

LEMMA NextTypes == TypeOK /\ ReadInv /\ [Next]_vars => TypeOK' /\ ReadInv'
<1> SUFFICES ASSUME TypeOK, ReadInv, [Next]_vars PROVE TypeOK' /\ ReadInv'
    OBVIOUS
<1>1. ASSUME NEW t \in Tickets, NEW l \in Lots, SellTicket(t, l) \/ IssueTicket(t, l)
      PROVE  TypeOK' /\ ReadInv'
    <2>1. /\ status' = [status EXCEPT ![t] = "VALID"] /\ lot' = [lot EXCEPT ![t] = l]
          /\ status[t] = "NONE" /\ client' = client /\ lapses' = lapses
        BY <1>1 DEF SellTicket, IssueTicket
    <2>2. avail' \in [Lots -> Nat] /\ issued' \in [Lots -> Nat]
        <3>1. CASE SellTicket(t, l)
            BY <3>1 DEF SellTicket, TypeOK
        <3>2. CASE IssueTicket(t, l)
            BY <3>2 DEF IssueTicket, TypeOK
        <3> QED BY <1>1, <3>1, <3>2
    <2>3. TypeOK'
        BY <2>1, <2>2 DEF TypeOK, TicketStatus
    <2>4. ASSUME NEW c \in Clients, client[c].phase = "read"
          PROVE  client[c].ticket \in Tickets /\ client[c].ticket # t
        BY <2>1, <2>4, ColumnTypes DEF ReadInv
    <2>5. ReadInv'
        BY <2>1, <2>4 DEF ReadInv, TypeOK, Validate, Delete
    <2> QED BY <2>3, <2>5
<1>2. ASSUME NEW c \in Clients, NEW t \in Tickets, NEW op \in Operations, ReadTicket(c, t, op)
      PROVE  TypeOK' /\ ReadInv'
    <2>1. CASE Accepts(op, status[t])
        <3> DEFINE r == [phase |-> "read", op |-> op, ticket |-> t,
                         seen |-> [status |-> status[t], lot |-> lot[t]],
                         overtaken |-> FALSE]
        <3>1. client' = [client EXCEPT ![c] = r]
            BY <1>2, <2>1 DEF ReadTicket
        <3>2. /\ UNCHANGED <<status, lot, avail, issued, lapses>>
              /\ status[t] \in TicketStatus /\ lot[t] \in Lots /\ status[t] # "NONE"
            BY <1>2 DEF ReadTicket, TypeOK
        <3>3. r \in Requests
            BY <3>2 DEF Requests
        <3>4. TypeOK'
            BY <3>1, <3>2, <3>3 DEF TypeOK
        <3>5. ASSUME NEW d \in Clients, client'[d].phase = "read"
              PROVE  /\ status'[client'[d].ticket] # "NONE"
                     /\ ~client'[d].overtaken =>
                           /\ client'[d].seen.status = status'[client'[d].ticket]
                           /\ client'[d].seen.lot = lot'[client'[d].ticket]
                     /\ client'[d].op \in {Validate, Delete} => client'[d].seen.status = "VALID"
            <4>1. CASE d = c
                <5>1. client'[d] = r
                    BY <3>1, <4>1 DEF TypeOK
                <5> QED BY <5>1, <2>1, <3>2 DEF Accepts
            <4>2. CASE d # c
                <5>1. client'[d] = client[d]
                    BY <3>1, <4>2 DEF TypeOK
                <5> QED BY <3>5, <5>1, <3>2 DEF ReadInv
            <4> QED BY <4>1, <4>2
        <3>6. ReadInv'
            BY <3>5 DEF ReadInv, Validate, Delete
        <3> QED BY <3>4, <3>6
    <2>2. CASE ~Accepts(op, status[t])
        BY <1>2, <2>2, AnswerTypes DEF ReadTicket
    <2> QED BY <2>1, <2>2
<1>3. ASSUME NEW c \in Clients, AdmitTicket(c) PROVE TypeOK' /\ ReadInv'
    <2> DEFINE t == client[c].ticket
               S == Column(c, "USED", status[t])
               L == Column(c, client[c].seen.lot, lot[t])
    <2>1. /\ client[c].phase = "read" /\ Committed(c) /\ UNCHANGED avail
          /\ WriteRow(t, S, L)
        BY <1>3 DEF AdmitTicket, Writes
    <2>2. S \subseteq TicketStatus /\ L \subseteq Lots
        BY <2>1, ColumnTypes DEF TicketStatus
    <2> HIDE DEF S, L
    <2> QED BY <2>1, <2>2, CommittedReads DEF TypeOK
<1>4. ASSUME NEW c \in Clients, CancelTicket(c) PROVE TypeOK' /\ ReadInv'
    <2> DEFINE t == client[c].ticket
               S == {"CANCELLED"}
               L == {lot[t]}
    <2>1. /\ client[c].phase = "read" /\ Committed(c)
          /\ WriteRow(t, S, L)
          /\ avail' = [avail EXCEPT ![client[c].seen.lot] = @ + 1]
        BY <1>4 DEF CancelTicket, Writes
    <2>2. S \subseteq TicketStatus /\ L \subseteq Lots
        BY <2>1, ColumnTypes DEF TicketStatus
    <2>3. avail' \in [Lots -> Nat]
        <3>1. client[c].seen.lot \in Lots
            BY <2>1, ColumnTypes
        <3>2. avail[client[c].seen.lot] + 1 \in Nat
            BY <3>1 DEF TypeOK
        <3> HIDE DEF S, L
        <3> QED BY <2>1, <3>1, <3>2 DEF TypeOK
    <2> HIDE DEF S, L
    <2> QED BY <2>1, <2>2, <2>3, CommittedReads DEF TypeOK
<1>5. ASSUME NEW c \in Clients, NEW b \in Bodies, PatchTicket(c, b) PROVE TypeOK' /\ ReadInv'
    <2> DEFINE t == client[c].ticket
               s == client[c].seen
               S == Column(c, NewStatus(b, s), status[t])
               L == Column(c, NewLot(b, s), lot[t])
    <2>1. /\ client[c].phase = "read" /\ Committed(c)
          /\ WriteRow(t, S, L)
        BY <1>5 DEF PatchTicket, Writes
    <2>2. s \in [status : TicketStatus, lot : Lots]
        BY <2>1, ColumnTypes DEF Requests
    <2>3. S \subseteq TicketStatus /\ L \subseteq Lots
        BY <2>1, <2>2, ColumnTypes, BodyTypes
    <2>4. avail' \in [Lots -> Nat]
        <3>1. ASSUME NEW l \in Lots
              PROVE  avail[l]
                     + (IF l = s.lot THEN SeatsBack(b, s) ELSE 0)
                     - (IF l = s.lot /\ TakesOld(b, s) THEN 1 ELSE 0)
                     - (IF l = b.lot /\ TakesNew(b, s) THEN 1 ELSE 0) \in Nat
            <4>1. avail[l] \in Nat /\ SeatsBack(b, s) \in Nat
                BY DEF TypeOK, SeatsBack
            <4>2. l = s.lot /\ TakesOld(b, s) => avail[l] > 0
                BY <1>5 DEF PatchTicket, SeatsFree
            <4>3. l = b.lot /\ TakesNew(b, s) => avail[l] > 0 /\ l # s.lot
                BY <1>5, <2>2, BodyTypes DEF PatchTicket, SeatsFree
            <4> QED BY <4>1, <4>2, <4>3
        <3> QED BY <1>5, <3>1 DEF PatchTicket
    <2> HIDE DEF S, L
    <2> QED BY <2>1, <2>3, <2>4, CommittedReads DEF TypeOK
<1>6. ASSUME NEW c \in Clients, Refuse(c) PROVE TypeOK' /\ ReadInv'
    BY <1>6, AnswerTypes DEF Refuse
<1>7. ASSUME NEW c \in Clients, NEW b \in Bodies, PatchRefused(c, b) PROVE TypeOK' /\ ReadInv'
    BY <1>7, AnswerTypes DEF PatchRefused
<1>8. CASE UNCHANGED vars
    BY <1>8 DEF vars, TypeOK, ReadInv, Validate, Delete
<1> QED
    BY <1>1, <1>2, <1>3, <1>4, <1>5, <1>6, <1>7, <1>8 DEF Next

LEMMA InitTypes == Init => TypeOK /\ ReadInv
<1> SUFFICES ASSUME Init PROVE TypeOK /\ ReadInv
    OBVIOUS
<1>1. client \in [Clients -> Requests]
    BY DEF Init, Requests
<1> QED BY <1>1 DEF Init, TypeOK, ReadInv

\* Every variable keeps its type: no stock becomes negative; and an open request
\* that nothing overtook knows its ticket.
THEOREM TypeCorrect == Spec => [](TypeOK /\ ReadInv)
BY InitTypes, NextTypes, PTL DEF Spec

-----------------------------------------------------------------------------
(* Who changes a row *)

\* Every step leaves the rows alone that exist, or is the write of one open request.
LEMMA RowSteps ==
    ASSUME TypeOK, ReadInv, [Next]_vars
    PROVE  \/ \A t \in Tickets : status[t] # "NONE" => status'[t] = status[t] /\ lot'[t] = lot[t]
           \/ \E c \in Clients :
                 \/ AdmitTicket(c) \/ CancelTicket(c)
                 \/ \E b \in Bodies : PatchTicket(c, b)
<1>1. ASSUME NEW t \in Tickets, NEW l \in Lots, SellTicket(t, l) \/ IssueTicket(t, l)
      PROVE  \A u \in Tickets : status[u] # "NONE" => status'[u] = status[u] /\ lot'[u] = lot[u]
    BY <1>1 DEF SellTicket, IssueTicket, TypeOK
<1>2. CASE UNCHANGED <<status, lot>>
    BY <1>2
<1> QED BY <1>1, <1>2 DEF Next, ReadTicket, Refuse, PatchRefused, vars

\* The row of a write, and what its request knew of it.
LEMMA WriteKnows ==
    ASSUME TypeOK, ReadInv, NEW c \in Clients, client[c].phase = "read", Committed(c),
           NEW S, NEW L, WriteRow(client[c].ticket, S, L)
    PROVE  /\ client[c].ticket \in Tickets /\ client'[c].phase = "ok"
           /\ \A u \in Tickets \ {client[c].ticket} : status'[u] = status[u] /\ lot'[u] = lot[u]
           /\ status'[client[c].ticket] \in S /\ lot'[client[c].ticket] \in L
           /\ ~client[c].overtaken =>
                 /\ client[c].seen.status = status[client[c].ticket]
                 /\ client[c].seen.lot = lot[client[c].ticket]
<1>1. client[c].ticket \in Tickets
    BY DEF TypeOK, Requests
<1>2. client'[c].phase = "ok"
    BY CommittedRequests
<1>3. /\ \A u \in Tickets \ {client[c].ticket} : status'[u] = status[u] /\ lot'[u] = lot[u]
      /\ status'[client[c].ticket] \in S /\ lot'[client[c].ticket] \in L
    BY <1>1 DEF WriteRow, TypeOK
<1> QED BY <1>1, <1>2, <1>3 DEF ReadInv

LEMMA NextChanges ==
    ASSUME TypeOK, ReadInv, [Next]_vars,
           NEW t \in Tickets, status[t] # "NONE", status'[t] # status[t] \/ lot'[t] # lot[t]
    PROVE  \E c \in Clients :
              /\ client[c].phase = "read"
              /\ client[c].ticket = t
              /\ client'[c].phase = "ok"
              /\ \/ client[c].overtaken
                 \/ /\ status'[t] # status[t] => AsksStatus(c, status'[t])
                    /\ lot'[t] # lot[t] => AsksLot(c, lot'[t])
<1> PICK c \in Clients : \/ AdmitTicket(c) \/ CancelTicket(c)
                         \/ \E b \in Bodies : PatchTicket(c, b)
    BY RowSteps
<1>1. client[c].phase = "read" /\ Committed(c)
    BY DEF AdmitTicket, CancelTicket, PatchTicket, Writes
<1>2. CASE AdmitTicket(c)
    <2>1. /\ client[c].ticket = t /\ client'[c].phase = "ok"
          /\ status'[t] \in Column(c, "USED", status[t])
          /\ lot'[t] \in Column(c, client[c].seen.lot, lot[t])
          /\ ~client[c].overtaken => client[c].seen.status = status[t] /\ client[c].seen.lot = lot[t]
        BY <1>1, <1>2, WriteKnows DEF AdmitTicket
    <2>2. client[c].op = Validate /\ client[c].seen.status = "VALID"
        BY <1>1, <1>2 DEF AdmitTicket, Writes, ReadInv
    <2> QED BY <1>1, <2>1, <2>2 DEF Column, AsksStatus
<1>3. CASE CancelTicket(c)
    <2>1. /\ client[c].ticket = t /\ client'[c].phase = "ok"
          /\ status'[t] = "CANCELLED" /\ lot'[t] = lot[t]
          /\ ~client[c].overtaken => client[c].seen.status = status[t]
        <3>1. WriteRow(client[c].ticket, {"CANCELLED"}, {lot[client[c].ticket]})
            BY <1>3 DEF CancelTicket
        <3>2. /\ client[c].ticket = t /\ client'[c].phase = "ok"
              /\ status'[t] \in {"CANCELLED"} /\ lot'[t] \in {lot[client[c].ticket]}
              /\ ~client[c].overtaken => client[c].seen.status = status[t]
            BY <1>1, <3>1, WriteKnows
        <3> QED BY <3>2
    <2>2. client[c].op = Delete /\ client[c].seen.status = "VALID"
        BY <1>1, <1>3 DEF CancelTicket, Writes, ReadInv
    <2> QED BY <1>1, <2>1, <2>2 DEF AsksStatus
<1>4. CASE \E b \in Bodies : PatchTicket(c, b)
    <2> PICK b \in Bodies : PatchTicket(c, b)
        BY <1>4
    <2>1. /\ client[c].ticket = t /\ client'[c].phase = "ok"
          /\ status'[t] \in Column(c, NewStatus(b, client[c].seen), status[t])
          /\ lot'[t] \in Column(c, NewLot(b, client[c].seen), lot[t])
          /\ ~client[c].overtaken => client[c].seen.status = status[t] /\ client[c].seen.lot = lot[t]
        BY <1>1, WriteKnows DEF PatchTicket
    <2>2. client[c].op = Patch(b)
        BY DEF PatchTicket, Writes
    <2>3. ASSUME ~client[c].overtaken
          PROVE  /\ status'[t] # status[t] => b.status = status'[t]
                 /\ lot'[t] # lot[t] => b.lot = lot'[t]
        BY <2>1, <2>3 DEF Column, NewStatus, NewLot
    <2> QED BY <1>1, <2>1, <2>2, <2>3 DEF AsksStatus, AsksLot
<1> QED BY <1>2, <1>3, <1>4

\* Whatever requests overlap on however many tickets, a row only becomes what a request
\* asks that succeeds in the same step, or what an overtaken one writes over it.
THEOREM ChangesAreAskedOrOvertaken == Spec => RowChangesAsked
<1>1. TypeOK /\ ReadInv /\ [Next]_vars
      => [\A t \in Tickets :
             status[t] # "NONE" /\ (status'[t] # status[t] \/ lot'[t] # lot[t]) =>
                 \E c \in Clients :
                     /\ client[c].phase = "read"
                     /\ client[c].ticket = t
                     /\ client'[c].phase = "ok"
                     /\ \/ client[c].overtaken
                        \/ /\ status'[t] # status[t] => AsksStatus(c, status'[t])
                           /\ lot'[t] # lot[t] => AsksLot(c, lot'[t])]_vars
    BY NextChanges
<1> QED BY <1>1, TypeCorrect, PTL DEF Spec, RowChangesAsked

\* A ticket that is used or cancelled is let in only if its validation was overtaken.
THEOREM InvalidEntriesAreOvertaken == Spec => InvalidEntryOvertaken
<1>1. TypeOK /\ ReadInv /\ [Next]_vars
      => [\A c \in Clients :
             Succeeds(c, Validate) /\ status[client[c].ticket] # "VALID"
                 => client[c].overtaken]_vars
    BY DEF ReadInv, Succeeds, Writes
<1> QED BY <1>1, TypeCorrect, PTL DEF Spec, InvalidEntryOvertaken

\* So the statement of the API documents holds of every run in which no validation
\* succeeds that was overtaken, by a version column or a guarded UPDATE, say.
THEOREM OnlyValidUnlessOvertaken ==
    Spec /\ [][\A c \in Clients : Succeeds(c, Validate) => ~client[c].overtaken]_vars
    => AdmitsOnlyValid
<1>1. [\A c \in Clients : Succeeds(c, Validate) => ~client[c].overtaken]_vars
      /\ [\A c \in Clients : Succeeds(c, Validate) /\ status[client[c].ticket] # "VALID"
             => client[c].overtaken]_vars
      => [\A c \in Clients : Succeeds(c, Validate) => status[client[c].ticket] = "VALID"]_vars
    OBVIOUS
<1> QED BY <1>1, InvalidEntriesAreOvertaken, PTL DEF InvalidEntryOvertaken, AdmitsOnlyValid

-----------------------------------------------------------------------------
(* The ledger of the lots *)

\* When one ticket's row changes, a lot has one live ticket more or less, or as
\* many as before.
LEMMA LiveChanges ==
    ASSUME TypeOK, TypeOK', NEW t \in Tickets, NEW l \in Lots,
           \A u \in Tickets \ {t} : status'[u] = status[u] /\ lot'[u] = lot[u]
    PROVE  /\ Cardinality(Live(l)) \in Nat /\ Cardinality(Live(l)') \in Nat
           /\ Cardinality(Live(l)') = Cardinality(Live(l))
                - (IF t \in Live(l) THEN 1 ELSE 0) + (IF t \in Live(l)' THEN 1 ELSE 0)
<1> DEFINE rest == Live(l) \ {t}
<1>1. IsFiniteSet(Live(l)) /\ IsFiniteSet(Live(l)')
    <2>1. Live(l) \subseteq Tickets /\ Live(l)' \subseteq Tickets
        BY DEF Live
    <2> QED BY <2>1, TicketsAssumption, FS_Subset
<1>2. rest = Live(l)' \ {t}
    BY DEF Live
<1>3. Cardinality(Live(l)) \in Nat /\ Cardinality(Live(l)') \in Nat
    BY <1>1, FS_CardinalityType
<1>4. Cardinality(rest) = Cardinality(Live(l)) - (IF t \in Live(l) THEN 1 ELSE 0)
    <2>1. CASE t \in Live(l)
        BY <1>1, <2>1, FS_RemoveElement
    <2>2. CASE t \notin Live(l)
        <3>1. rest = Live(l)
            BY <2>2
        <3> HIDE DEF rest
        <3> QED BY <1>3, <2>2, <3>1
    <2> QED BY <2>1, <2>2
<1>5. Cardinality(rest) = Cardinality(Live(l)') - (IF t \in Live(l)' THEN 1 ELSE 0)
    <2>1. CASE t \in Live(l)'
        <3>1. Cardinality(Live(l)' \ {t}) = Cardinality(Live(l)') - 1
            BY <1>1, <2>1, FS_RemoveElement
        <3> QED BY <1>2, <2>1, <3>1
    <2>2. CASE t \notin Live(l)'
        <3>1. rest = Live(l)'
            BY <1>2, <2>2
        <3> HIDE DEF rest
        <3> QED BY <1>3, <2>2, <3>1
    <2> QED BY <2>1, <2>2
<1> HIDE DEF rest
<1> QED BY <1>3, <1>4, <1>5

\* So the ledger stays exact when the stock and the tickets issued by hand follow.
LEMMA LedgerFollows ==
    ASSUME TypeOK, TypeOK', LedgerExact, lapses' = {} => lapses = {}, NEW t \in Tickets,
           \A u \in Tickets \ {t} : status'[u] = status[u] /\ lot'[u] = lot[u],
           lapses' = {} => \A l \in Lots :
               avail'[l] - issued'[l] = avail[l] - issued[l]
                 + (IF t \in Live(l) THEN 1 ELSE 0) - (IF t \in Live(l)' THEN 1 ELSE 0)
    PROVE  LedgerExact'
<1> SUFFICES ASSUME lapses' = {}, NEW l \in Lots
             PROVE  avail'[l] + Cardinality(Live(l)') = Capacity[l] + issued'[l]
    BY DEF LedgerExact, Live
<1>1. avail[l] + Cardinality(Live(l)) = Capacity[l] + issued[l]
    BY DEF LedgerExact
<1>2. /\ Cardinality(Live(l)) \in Nat /\ Cardinality(Live(l)') \in Nat
      /\ Cardinality(Live(l)') = Cardinality(Live(l))
           - (IF t \in Live(l) THEN 1 ELSE 0) + (IF t \in Live(l)' THEN 1 ELSE 0)
    BY LiveChanges
<1>3. /\ avail[l] \in Nat /\ avail'[l] \in Nat /\ issued[l] \in Nat /\ issued'[l] \in Nat
      /\ Capacity[l] \in Nat
    BY DEF TypeOK
<1> DEFINE before == IF t \in Live(l) THEN 1 ELSE 0
           after == IF t \in Live(l)' THEN 1 ELSE 0
<1>4. avail'[l] - issued'[l] = avail[l] - issued[l] + before - after
    OBVIOUS
<1>5. before \in Nat /\ after \in Nat
    OBVIOUS
<1>6. Cardinality(Live(l)') = Cardinality(Live(l)) - before + after
    BY <1>2
<1> HIDE DEF before, after
<1> QED BY <1>1, <1>2, <1>3, <1>4, <1>5, <1>6

\* A request that writes and leaves no lapse wrote what it read and nothing else.
LEMMA NoLapse ==
    ASSUME TypeOK, ReadInv, NEW c \in Clients, client[c].phase = "read", Committed(c)
    PROVE  /\ lapses' = {} => lapses = {}
           /\ lapses' = {} =>
                 /\ ~client[c].overtaken
                 /\ client[c].seen.status = status[client[c].ticket]
                 /\ client[c].seen.lot = lot[client[c].ticket]
BY DEF Committed, ReadInv

\* A row that is written is the only one that changes.
LEMMA OneRow ==
    ASSUME TypeOK, NEW t \in Tickets, NEW S, NEW L, WriteRow(t, S, L)
    PROVE  /\ \A u \in Tickets \ {t} : status'[u] = status[u] /\ lot'[u] = lot[u]
           /\ status'[t] \in S /\ lot'[t] \in L
BY DEF TypeOK, WriteRow

LEMMA NextLedger ==
    OneThing /\ TypeOK /\ TypeOK' /\ ReadInv /\ LedgerExact /\ [Next]_vars => LedgerExact'
<1> SUFFICES ASSUME OneThing, TypeOK, TypeOK', ReadInv, LedgerExact, [Next]_vars
             PROVE  LedgerExact'
    OBVIOUS
<1>1. ASSUME NEW t \in Tickets, NEW k \in Lots, SellTicket(t, k) \/ IssueTicket(t, k)
      PROVE  LedgerExact'
    <2>1. /\ status' = [status EXCEPT ![t] = "VALID"] /\ lot' = [lot EXCEPT ![t] = k]
          /\ status[t] = "NONE" /\ lapses' = lapses
        BY <1>1 DEF SellTicket, IssueTicket
    <2>2. \A u \in Tickets \ {t} : status'[u] = status[u] /\ lot'[u] = lot[u]
        BY <2>1 DEF TypeOK
    <2>3. ASSUME NEW l \in Lots PROVE t \notin Live(l) /\ (t \in Live(l)' <=> l = k)
        BY <2>1 DEF Live, TypeOK
    <2>4. ASSUME NEW l \in Lots
          PROVE  avail'[l] - issued'[l] = avail[l] - issued[l] - (IF l = k THEN 1 ELSE 0)
        <3>1. avail[l] \in Nat /\ issued[l] \in Nat
            BY DEF TypeOK
        <3>2. CASE SellTicket(t, k)
            BY <3>1, <3>2 DEF SellTicket, TypeOK
        <3>3. CASE IssueTicket(t, k)
            BY <3>1, <3>3 DEF IssueTicket, TypeOK
        <3> QED BY <1>1, <3>2, <3>3
    <2>5. ASSUME NEW l \in Lots
          PROVE  avail'[l] - issued'[l] = avail[l] - issued[l]
                   + (IF t \in Live(l) THEN 1 ELSE 0) - (IF t \in Live(l)' THEN 1 ELSE 0)
        <3>1. avail[l] \in Nat /\ issued[l] \in Nat
            BY DEF TypeOK
        <3> QED BY <2>3, <2>4, <3>1
    <2> QED BY <2>1, <2>2, <2>5, LedgerFollows
<1>2. ASSUME NEW c \in Clients, AdmitTicket(c) PROVE LedgerExact'
    <2> DEFINE t == client[c].ticket
    <2>1. /\ client[c].phase = "read" /\ client[c].op = Validate
          /\ Committed(c) /\ UNCHANGED avail
          /\ WriteRow(t, Column(c, "USED", status[t]), Column(c, client[c].seen.lot, lot[t]))
        BY <1>2 DEF AdmitTicket, Writes
    <2>2. t \in Tickets
        BY <2>1, ColumnTypes
    <2>3. \A u \in Tickets \ {t} : status'[u] = status[u] /\ lot'[u] = lot[u]
        BY <2>1, <2>2, OneRow
    <2>4. ASSUME lapses' = {}, NEW l \in Lots
          PROVE  avail'[l] - issued'[l] = avail[l] - issued[l]
                   + (IF t \in Live(l) THEN 1 ELSE 0) - (IF t \in Live(l)' THEN 1 ELSE 0)
        <3>1. /\ status[t] = "VALID" /\ ~client[c].overtaken /\ client[c].seen.lot = lot[t]
            BY <2>1, <2>4, NoLapse DEF ReadInv
        <3>2. status'[t] = "USED" /\ lot'[t] = lot[t]
            BY <2>1, <2>2, <3>1, OneRow DEF Column
        <3>3. t \in Live(l) <=> t \in Live(l)'
            BY <2>2, <3>1, <3>2 DEF Live
        <3>4. avail[l] \in Nat /\ issued[l] \in Nat /\ avail' = avail /\ issued' = issued
            BY <2>1 DEF TypeOK, Committed
        <3> QED BY <3>3, <3>4
    <2>5. lapses' = {} => lapses = {}
        BY <2>1, NoLapse
    <2> HIDE DEF t
    <2> QED BY <2>2, <2>3, <2>4, <2>5, LedgerFollows
<1>3. ASSUME NEW c \in Clients, CancelTicket(c) PROVE LedgerExact'
    <2> DEFINE t == client[c].ticket
    <2>1. /\ client[c].phase = "read" /\ client[c].op = Delete /\ Committed(c)
          /\ avail' = [avail EXCEPT ![client[c].seen.lot] = @ + 1]
          /\ WriteRow(t, {"CANCELLED"}, {lot[t]})
        BY <1>3 DEF CancelTicket, Writes
    <2>2. t \in Tickets
        BY <2>1, ColumnTypes
    <2>3. \A u \in Tickets \ {t} : status'[u] = status[u] /\ lot'[u] = lot[u]
        BY <2>1, <2>2, OneRow
    <2>4. ASSUME lapses' = {}, NEW l \in Lots
          PROVE  avail'[l] - issued'[l] = avail[l] - issued[l]
                   + (IF t \in Live(l) THEN 1 ELSE 0) - (IF t \in Live(l)' THEN 1 ELSE 0)
        <3>1. status[t] = "VALID" /\ client[c].seen.lot = lot[t]
            BY <2>1, <2>4, NoLapse DEF ReadInv
        <3>2. status'[t] = "CANCELLED"
            BY <2>1, <2>2, OneRow
        <3>3. (t \in Live(l) <=> l = lot[t]) /\ t \notin Live(l)'
            BY <2>2, <3>1, <3>2 DEF Live
        <3>4. /\ avail[l] \in Nat /\ issued[l] \in Nat /\ issued' = issued
              /\ avail'[l] = avail[l] + (IF l = lot[t] THEN 1 ELSE 0)
            BY <2>1, <3>1 DEF TypeOK, Committed
        <3> QED BY <3>3, <3>4
    <2>5. lapses' = {} => lapses = {}
        BY <2>1, NoLapse
    <2> HIDE DEF t
    <2> QED BY <2>2, <2>3, <2>4, <2>5, LedgerFollows
<1>4. ASSUME NEW c \in Clients, NEW b \in Bodies, PatchTicket(c, b) PROVE LedgerExact'
    <2> DEFINE t == client[c].ticket
               s == client[c].seen
    <2>1. /\ client[c].phase = "read" /\ Committed(c)
          /\ WriteRow(t, Column(c, NewStatus(b, s), status[t]), Column(c, NewLot(b, s), lot[t]))
          /\ \A l \in Lots :
                avail'[l] = avail[l]
                   + (IF l = s.lot THEN SeatsBack(b, s) ELSE 0)
                   - (IF l = s.lot /\ TakesOld(b, s) THEN 1 ELSE 0)
                   - (IF l = b.lot /\ TakesNew(b, s) THEN 1 ELSE 0)
        BY <1>4 DEF PatchTicket, Writes
    <2>2. t \in Tickets /\ s.status \in TicketStatus /\ s.lot \in Lots
        BY <2>1, ColumnTypes
    <2>3. \A u \in Tickets \ {t} : status'[u] = status[u] /\ lot'[u] = lot[u]
        BY <2>1, <2>2, OneRow
    <2>4. ASSUME lapses' = {}, NEW l \in Lots
          PROVE  avail'[l] - issued'[l] = avail[l] - issued[l]
                   + (IF t \in Live(l) THEN 1 ELSE 0) - (IF t \in Live(l)' THEN 1 ELSE 0)
        <3>1. ~client[c].overtaken /\ s.status = status[t] /\ s.lot = lot[t]
            BY <2>1, <2>4, NoLapse
        <3>2. status'[t] = NewStatus(b, s) /\ lot'[t] = NewLot(b, s)
            BY <2>1, <2>2, <3>1, OneRow DEF Column
        <3>3. /\ t \in Live(l) <=> s.lot = l /\ s.status # "CANCELLED"
              /\ t \in Live(l)' <=> NewLot(b, s) = l /\ NewStatus(b, s) # "CANCELLED"
            <4>1. s.status \in TicketStatus /\ NewStatus(b, s) \in TicketStatus
                BY <2>2, BodyTypes DEF NewStatus
            <4> QED BY <2>2, <3>1, <3>2, <4>1 DEF Live, TicketStatus
        <3>4. avail[l] \in Nat /\ issued[l] \in Nat /\ issued' = issued
            BY <2>1 DEF TypeOK, Committed
        <3>5. CASE b.status = Absent
            <4>1. ~Cancels(b, s) /\ ~TakesOld(b, s) /\ NewStatus(b, s) = s.status
                BY <3>5 DEF Cancels, TakesOld, Reactivates, NewStatus, TicketStatus
            <4>2. SeatsBack(b, s) = IF Frees(b, s) THEN 1 ELSE 0
                BY <4>1 DEF SeatsBack
            <4>3. CASE b.lot # Absent /\ b.lot # s.lot
                BY <2>1, <2>2, <3>3, <3>4, <4>1, <4>2, <4>3
                   DEF Frees, Moves, TakesNew, NewLot
            <4>4. CASE ~(b.lot # Absent /\ b.lot # s.lot)
                BY <2>1, <2>2, <3>3, <3>4, <4>1, <4>2, <4>4
                   DEF Frees, Moves, TakesNew, NewLot
            <4> QED BY <4>3, <4>4
        <3>6. CASE b.lot = Absent /\ b.status \in {"VALID", "CANCELLED"}
            <4>1. ~Moves(b, s) /\ NewLot(b, s) = s.lot /\ NewStatus(b, s) = b.status
                BY <3>6 DEF Moves, NewLot, NewStatus, TicketStatus
            <4>2. ~TakesNew(b, s) /\ SeatsBack(b, s) = IF Cancels(b, s) THEN 1 ELSE 0
                BY <4>1 DEF TakesNew, SeatsBack, Frees
            <4> QED BY <2>1, <2>2, <3>3, <3>4, <3>6, <4>1, <4>2
                    DEF Cancels, TakesOld, Reactivates
        <3> QED BY <3>5, <3>6 DEF OneThing
    <2>5. lapses' = {} => lapses = {}
        BY <2>1, NoLapse
    <2> HIDE DEF t, s
    <2> QED BY <2>2, <2>3, <2>4, <2>5, LedgerFollows
<1>5. CASE UNCHANGED <<status, lot, avail, issued, lapses>>
    BY <1>5 DEF LedgerExact, Live
<1> QED
    BY <1>1, <1>2, <1>3, <1>4, <1>5
       DEF Next, ReadTicket, Refuse, PatchRefused, Answer, vars

\* As long as no request wrote over another, the stock of every lot counts its live
\* tickets exactly, when bodies change one thing at a time.
THEOREM StockCountsTickets == OneThing /\ Spec => []LedgerExact
<1>1. Init => LedgerExact
    <2> SUFFICES ASSUME Init PROVE LedgerExact
        OBVIOUS
    <2>1. \A l \in Lots : Live(l) = {}
        BY DEF Init, Live
    <2>2. Cardinality({}) = 0
        BY FS_EmptySet
    <2> QED BY <2>1, <2>2 DEF Init, LedgerExact
<1>2. ASSUME OneThing PROVE Spec => []LedgerExact
    <2>1. TypeOK /\ TypeOK' /\ ReadInv /\ LedgerExact /\ [Next]_vars => LedgerExact'
        BY <1>2, NextLedger
    <2> QED BY <1>1, <2>1, TypeCorrect, PTL DEF Spec
<1> QED BY <1>2

-----------------------------------------------------------------------------
(* The balance of a lot, for any bodies *)

\* When one row changes, the balance follows the stock and that row.
LEMMA BalanceFollows ==
    ASSUME TypeOK, TypeOK', NEW t \in Tickets, NEW l \in Lots,
           \A u \in Tickets \ {t} : status'[u] = status[u] /\ lot'[u] = lot[u]
    PROVE  /\ Balance(l) \in Int
           /\ Balance(l)' = Balance(l) + (avail'[l] - avail[l]) - (issued'[l] - issued[l])
                 - (IF t \in Live(l) THEN 1 ELSE 0) + (IF t \in Live(l)' THEN 1 ELSE 0)
<1> DEFINE before == IF t \in Live(l) THEN 1 ELSE 0
           after == IF t \in Live(l)' THEN 1 ELSE 0
<1>1. /\ Cardinality(Live(l)) \in Nat /\ Cardinality(Live(l)') \in Nat
      /\ Cardinality(Live(l)') = Cardinality(Live(l)) - before + after
    BY LiveChanges
<1>2. avail[l] \in Nat /\ avail'[l] \in Nat /\ issued[l] \in Nat /\ issued'[l] \in Nat
    BY DEF TypeOK
<1>3. before \in Nat /\ after \in Nat
    OBVIOUS
<1>4. Balance(l) = avail[l] + Cardinality(Live(l)) - issued[l]
    BY DEF Balance
<1>5. Balance(l)' = avail'[l] + Cardinality(Live(l)') - issued'[l]
    BY DEF Balance
<1> HIDE DEF before, after
<1>6. /\ Balance(l) \in Int
      /\ Balance(l)' = Balance(l) + (avail'[l] - avail[l]) - (issued'[l] - issued[l])
                          - before + after
    BY <1>1, <1>2, <1>3, <1>4, <1>5
<1> QED BY <1>6 DEF before, after

\* What the branches for a body b add up to, lot by lot: Miscount at the lot that was
\* read, nothing at any other.
LEMMA BranchesMiscount ==
    ASSUME NEW b \in Bodies, NEW s \in [status : TicketStatus, lot : Lots], NEW l \in Lots
    PROVE  (IF l = s.lot THEN SeatsBack(b, s) ELSE 0)
             - (IF l = s.lot /\ TakesOld(b, s) THEN 1 ELSE 0)
             - (IF l = b.lot /\ TakesNew(b, s) THEN 1 ELSE 0)
             - (IF l = s.lot /\ s.status # "CANCELLED" THEN 1 ELSE 0)
             + (IF l = NewLot(b, s) /\ NewStatus(b, s) # "CANCELLED" THEN 1 ELSE 0)
           = IF l = s.lot THEN Miscount(b, s) ELSE 0
<1> USE DEF Cancels, Frees, Reactivates, Moves, NewLot, NewStatus, TakesOld, TakesNew, SeatsBack
<1>1. /\ b.status \in TicketStatus \union {Absent} /\ b.lot \in Lots \union {Absent}
      /\ s.status \in TicketStatus /\ s.lot \in Lots /\ Absent \notin TicketStatus \union Lots
    OBVIOUS
<1>2. CASE Moves(b, s)
    <2>1. NewLot(b, s) = b.lot /\ b.lot # s.lot /\ b.lot # Absent
        BY <1>2
    <2>2. Miscount(b, s) = IF Cancels(b, s) THEN 1 ELSE IF Reactivates(b, s) THEN -1 ELSE 0
        BY <1>1, <1>2 DEF Miscount
    <2>3. CASE b.status = Absent
        BY <1>1, <1>2, <2>1, <2>2, <2>3 DEF TicketStatus
    <2>4. CASE b.status = "VALID"
        BY <1>1, <1>2, <2>1, <2>2, <2>4 DEF TicketStatus
    <2>5. CASE b.status = "USED"
        BY <1>1, <1>2, <2>1, <2>2, <2>5 DEF TicketStatus
    <2>6. CASE b.status = "CANCELLED"
        BY <1>1, <1>2, <2>1, <2>2, <2>6 DEF TicketStatus
    <2> QED BY <1>1, <2>3, <2>4, <2>5, <2>6 DEF TicketStatus
<1>3. CASE ~Moves(b, s)
    <2>1. NewLot(b, s) = s.lot /\ ~TakesNew(b, s) /\ ~Frees(b, s)
        BY <1>3
    <2>2. Miscount(b, s) = IF b.status = "USED" /\ s.status = "CANCELLED" THEN 1 ELSE 0
        BY <1>1, <1>3 DEF Miscount
    <2>3. CASE b.status = Absent
        BY <1>1, <1>3, <2>1, <2>2, <2>3 DEF TicketStatus
    <2>4. CASE b.status = "VALID"
        BY <1>1, <1>3, <2>1, <2>2, <2>4 DEF TicketStatus
    <2>5. CASE b.status = "USED"
        BY <1>1, <1>3, <2>1, <2>2, <2>5 DEF TicketStatus
    <2>6. CASE b.status = "CANCELLED"
        BY <1>1, <1>3, <2>1, <2>2, <2>6 DEF TicketStatus
    <2> QED BY <1>1, <2>3, <2>4, <2>5, <2>6 DEF TicketStatus
<1> QED BY <1>2, <1>3

LEMMA NextBalance ==
    ASSUME TypeOK, TypeOK', ReadInv, [Next]_vars, NEW l \in Lots, Balance(l)' # Balance(l)
    PROVE  \E c \in Clients :
              /\ client[c].phase = "read"
              /\ client'[c].phase = "ok"
              /\ \/ client[c].overtaken
                 \/ \E b \in Bodies :
                       /\ client[c].op = Patch(b)
                       /\ l = client[c].seen.lot
                       /\ Balance(l)' = Balance(l) + Miscount(b, client[c].seen)
<1> DEFINE Explained ==
              \E c \in Clients :
                  /\ client[c].phase = "read"
                  /\ client'[c].phase = "ok"
                  /\ \/ client[c].overtaken
                     \/ \E b \in Bodies :
                           /\ client[c].op = Patch(b)
                           /\ l = client[c].seen.lot
                           /\ Balance(l)' = Balance(l) + Miscount(b, client[c].seen)
<1>1. ASSUME NEW t \in Tickets, NEW k \in Lots, SellTicket(t, k) \/ IssueTicket(t, k)
      PROVE  FALSE
    <2>1. /\ status' = [status EXCEPT ![t] = "VALID"] /\ lot' = [lot EXCEPT ![t] = k]
          /\ status[t] = "NONE"
        BY <1>1 DEF SellTicket, IssueTicket
    <2>2. \A u \in Tickets \ {t} : status'[u] = status[u] /\ lot'[u] = lot[u]
        BY <2>1 DEF TypeOK
    <2>3. t \notin Live(l) /\ (t \in Live(l)' <=> l = k)
        BY <2>1 DEF Live, TypeOK
    <2>4. avail[l] \in Nat /\ issued[l] \in Nat
        BY DEF TypeOK
    <2>5. (avail'[l] - avail[l]) - (issued'[l] - issued[l]) = IF l = k THEN -1 ELSE 0
        <3>1. CASE SellTicket(t, k)
            BY <2>4, <3>1 DEF SellTicket, TypeOK
        <3>2. CASE IssueTicket(t, k)
            BY <2>4, <3>2 DEF IssueTicket, TypeOK
        <3> QED BY <1>1, <3>1, <3>2
    <2>6. avail'[l] \in Nat /\ issued'[l] \in Nat
        BY DEF TypeOK
    <2>7. /\ Balance(l) \in Int
          /\ Balance(l)' = Balance(l) + (avail'[l] - avail[l]) - (issued'[l] - issued[l])
               - (IF t \in Live(l) THEN 1 ELSE 0) + (IF t \in Live(l)' THEN 1 ELSE 0)
        BY <2>2, BalanceFollows
    <2>8. CASE l = k
        BY <2>3, <2>4, <2>5, <2>6, <2>7, <2>8
    <2>9. CASE l # k
        BY <2>3, <2>4, <2>5, <2>6, <2>7, <2>9
    <2> QED BY <2>8, <2>9
<1>2. ASSUME NEW c \in Clients, client[c].phase = "read", Committed(c),
             NEW S, NEW L, WriteRow(client[c].ticket, S, L), ~client[c].overtaken
      PROVE  /\ client[c].ticket \in Tickets /\ client'[c].phase = "ok"
             /\ client[c].seen \in [status : TicketStatus, lot : Lots]
             /\ client[c].seen.status = status[client[c].ticket]
             /\ client[c].seen.lot = lot[client[c].ticket]
             /\ status'[client[c].ticket] \in S /\ lot'[client[c].ticket] \in L
             /\ avail[l] \in Nat /\ avail'[l] \in Nat /\ Balance(l) \in Int
             /\ Balance(l)' = Balance(l) + (avail'[l] - avail[l])
                  - (IF client[c].ticket \in Live(l) THEN 1 ELSE 0)
                  + (IF client[c].ticket \in Live(l)' THEN 1 ELSE 0)
    <2> DEFINE t == client[c].ticket
    <2>1. client[c] \in Requests /\ t \in Tickets
        BY <1>2, ColumnTypes
    <2>2. client[c].seen \in [status : TicketStatus, lot : Lots]
        BY <1>2, <2>1 DEF Requests
    <2>3. /\ client'[c].phase = "ok" /\ client[c].seen.status = status[t]
          /\ client[c].seen.lot = lot[t] /\ status'[t] \in S /\ lot'[t] \in L
          /\ \A u \in Tickets \ {t} : status'[u] = status[u] /\ lot'[u] = lot[u]
        BY <1>2, WriteKnows
    <2>4. issued' = issued /\ issued[l] \in Nat /\ avail[l] \in Nat /\ avail'[l] \in Nat
        BY <1>2 DEF Committed, TypeOK
    <2>5. /\ Balance(l) \in Int
          /\ Balance(l)' = Balance(l) + (avail'[l] - avail[l]) - (issued'[l] - issued[l])
               - (IF t \in Live(l) THEN 1 ELSE 0) + (IF t \in Live(l)' THEN 1 ELSE 0)
        <3> HIDE DEF t
        <3> QED BY <2>1, <2>3, BalanceFollows
    <2>6. issued'[l] - issued[l] = 0
        BY <2>4
    <2>7. Balance(l)' = Balance(l) + (avail'[l] - avail[l])
            - (IF t \in Live(l) THEN 1 ELSE 0) + (IF t \in Live(l)' THEN 1 ELSE 0)
        <3> HIDE DEF t
        <3> QED BY <2>4, <2>5, <2>6
    <2> QED BY <2>1, <2>2, <2>3, <2>4, <2>5, <2>7
<1>3. ASSUME NEW c \in Clients, AdmitTicket(c), ~client[c].overtaken PROVE FALSE
    <2> DEFINE t == client[c].ticket
    <2>1. /\ client[c].phase = "read" /\ client[c].op = Validate /\ Committed(c)
          /\ avail' = avail
          /\ WriteRow(t, {"USED"}, {client[c].seen.lot})
        BY <1>3 DEF AdmitTicket, Writes, Column
    <2>2. status[t] = "VALID" /\ status'[t] = "USED" /\ lot'[t] = lot[t] /\ t \in Tickets
        <3>1. /\ t \in Tickets
              /\ client[c].seen.status = status[t] /\ client[c].seen.lot = lot[t]
              /\ status'[t] \in {"USED"} /\ lot'[t] \in {client[c].seen.lot}
            BY <1>2, <1>3, <2>1
        <3>2. client[c].seen.status = "VALID"
            BY <2>1 DEF ReadInv
        <3> HIDE DEF t
        <3> QED BY <3>1, <3>2
    <2>3. t \in Live(l) <=> t \in Live(l)'
        BY <2>2 DEF Live
    <2>4. /\ avail[l] \in Nat /\ Balance(l) \in Int
          /\ Balance(l)' = Balance(l) + (avail'[l] - avail[l])
               - (IF t \in Live(l) THEN 1 ELSE 0) + (IF t \in Live(l)' THEN 1 ELSE 0)
        BY <1>2, <1>3, <2>1
    <2> HIDE DEF t
    <2> QED BY <2>1, <2>3, <2>4
<1>4. ASSUME NEW c \in Clients, CancelTicket(c), ~client[c].overtaken PROVE FALSE
    <2> DEFINE t == client[c].ticket
    <2>1. /\ client[c].phase = "read" /\ client[c].op = Delete /\ Committed(c)
          /\ avail' = [avail EXCEPT ![client[c].seen.lot] = @ + 1]
          /\ WriteRow(t, {"CANCELLED"}, {lot[t]})
        BY <1>4 DEF CancelTicket, Writes
    <2>2. /\ status[t] = "VALID" /\ status'[t] = "CANCELLED" /\ client[c].seen.lot = lot[t]
          /\ t \in Tickets
        <3>1. /\ t \in Tickets
              /\ client[c].seen.status = status[t] /\ client[c].seen.lot = lot[t]
              /\ status'[t] \in {"CANCELLED"}
            BY <1>2, <1>4, <2>1
        <3>2. client[c].seen.status = "VALID"
            BY <2>1 DEF ReadInv
        <3> HIDE DEF t
        <3> QED BY <3>1, <3>2
    <2>3. (t \in Live(l) <=> l = lot[t]) /\ t \notin Live(l)'
        BY <2>2 DEF Live
    <2>4. /\ avail[l] \in Nat /\ Balance(l) \in Int
          /\ Balance(l)' = Balance(l) + (avail'[l] - avail[l])
               - (IF t \in Live(l) THEN 1 ELSE 0) + (IF t \in Live(l)' THEN 1 ELSE 0)
        BY <1>2, <1>4, <2>1
    <2>5. avail'[l] = avail[l] + (IF l = lot[t] THEN 1 ELSE 0)
        BY <2>1, <2>2, <2>4 DEF TypeOK
    <2> HIDE DEF t
    <2> QED BY <2>3, <2>4, <2>5
<1>5. ASSUME NEW c \in Clients, NEW b \in Bodies, PatchTicket(c, b), ~client[c].overtaken
      PROVE  Explained
    <2> DEFINE t == client[c].ticket
               s == client[c].seen
    <2>1. /\ client[c].phase = "read" /\ client[c].op = Patch(b) /\ Committed(c)
          /\ WriteRow(t, {NewStatus(b, s)}, {NewLot(b, s)})
          /\ avail'[l] = avail[l]
                + (IF l = s.lot THEN SeatsBack(b, s) ELSE 0)
                - (IF l = s.lot /\ TakesOld(b, s) THEN 1 ELSE 0)
                - (IF l = b.lot /\ TakesNew(b, s) THEN 1 ELSE 0)
        BY <1>5 DEF PatchTicket, Writes, Column
    <2>2. /\ t \in Tickets /\ client'[c].phase = "ok"
          /\ s \in [status : TicketStatus, lot : Lots]
          /\ s.status = status[t] /\ s.lot = lot[t]
          /\ status'[t] = NewStatus(b, s) /\ lot'[t] = NewLot(b, s)
          /\ avail[l] \in Nat /\ avail'[l] \in Nat /\ Balance(l) \in Int
          /\ Balance(l)' = Balance(l) + (avail'[l] - avail[l])
               - (IF t \in Live(l) THEN 1 ELSE 0) + (IF t \in Live(l)' THEN 1 ELSE 0)
        <3>1. /\ t \in Tickets /\ client'[c].phase = "ok"
              /\ s \in [status : TicketStatus, lot : Lots]
              /\ s.status = status[t] /\ s.lot = lot[t]
              /\ status'[t] \in {NewStatus(b, s)} /\ lot'[t] \in {NewLot(b, s)}
            BY <1>2, <1>5, <2>1
        <3>2. /\ avail[l] \in Nat /\ avail'[l] \in Nat /\ Balance(l) \in Int
              /\ Balance(l)' = Balance(l) + (avail'[l] - avail[l])
                   - (IF t \in Live(l) THEN 1 ELSE 0) + (IF t \in Live(l)' THEN 1 ELSE 0)
            BY <1>2, <1>5, <2>1
        <3> HIDE DEF t, s
        <3> QED BY <3>1, <3>2
    <2>3. /\ t \in Live(l) <=> l = s.lot /\ s.status # "CANCELLED"
          /\ t \in Live(l)' <=> l = NewLot(b, s) /\ NewStatus(b, s) # "CANCELLED"
        <3>1. s.status \in TicketStatus /\ NewStatus(b, s) \in TicketStatus
            BY <2>2, BodyTypes
        <3> QED BY <2>2, <3>1 DEF Live, TicketStatus
    <2>4. (IF l = s.lot THEN SeatsBack(b, s) ELSE 0)
             - (IF l = s.lot /\ TakesOld(b, s) THEN 1 ELSE 0)
             - (IF l = b.lot /\ TakesNew(b, s) THEN 1 ELSE 0)
             - (IF l = s.lot /\ s.status # "CANCELLED" THEN 1 ELSE 0)
             + (IF l = NewLot(b, s) /\ NewStatus(b, s) # "CANCELLED" THEN 1 ELSE 0)
           = IF l = s.lot THEN Miscount(b, s) ELSE 0
        BY <2>2, BranchesMiscount
    <2>5. SeatsBack(b, s) \in Nat /\ Miscount(b, s) \in Int
        BY DEF SeatsBack, Miscount
    <2>6. Balance(l)' = Balance(l) + (IF l = s.lot THEN Miscount(b, s) ELSE 0)
        <3> DEFINE x1 == IF l = s.lot THEN SeatsBack(b, s) ELSE 0
                   x2 == IF l = s.lot /\ TakesOld(b, s) THEN 1 ELSE 0
                   x3 == IF l = b.lot /\ TakesNew(b, s) THEN 1 ELSE 0
                   x4 == IF l = s.lot /\ s.status # "CANCELLED" THEN 1 ELSE 0
                   x5 == IF l = NewLot(b, s) /\ NewStatus(b, s) # "CANCELLED" THEN 1 ELSE 0
                   x6 == IF l = s.lot THEN Miscount(b, s) ELSE 0
        <3>1. x1 \in Int /\ x2 \in Int /\ x3 \in Int /\ x4 \in Int /\ x5 \in Int /\ x6 \in Int
            BY <2>5
        <3>2. avail'[l] = avail[l] + x1 - x2 - x3
            BY <2>1
        <3>3. Balance(l)' = Balance(l) + (avail'[l] - avail[l]) - x4 + x5
            BY <2>2, <2>3
        <3>4. x1 - x2 - x3 - x4 + x5 = x6
            BY <2>4
        <3> HIDE DEF x1, x2, x3, x4, x5, x6
        <3>5. Balance(l)' = Balance(l) + x6
            BY <2>2, <3>1, <3>2, <3>3, <3>4
        <3> QED BY <3>5 DEF x6
    <2>7. l = s.lot /\ Balance(l)' = Balance(l) + Miscount(b, s)
        BY <2>2, <2>5, <2>6
    <2> QED BY <2>1, <2>2, <2>7
<1>6. ASSUME NEW c \in Clients, client[c].overtaken,
             AdmitTicket(c) \/ CancelTicket(c) \/ \E b \in Bodies : PatchTicket(c, b)
      PROVE  Explained
    <2>1. client[c].phase = "read" /\ Committed(c)
        BY <1>6 DEF AdmitTicket, CancelTicket, PatchTicket, Writes
    <2>2. client'[c].phase = "ok"
        BY <2>1, CommittedRequests
    <2> QED BY <1>6, <2>1, <2>2
<1>7. ASSUME UNCHANGED <<status, lot, avail, issued>> PROVE FALSE
    BY <1>7 DEF Balance, Live
<1> HIDE DEF Explained
<1>8. Explained
    BY <1>1, <1>3, <1>4, <1>5, <1>6, <1>7 DEF Next, ReadTicket, Refuse, PatchRefused, vars
<1> QED BY <1>8 DEF Explained

\* For any bodies: the stock of a lot comes apart from its live tickets by overtaken
\* requests and by the three kinds of bodies that the branches miscount, and not otherwise.
THEOREM StockMiscountsAreKnown == Spec => BalanceExplained
<1>1. TypeOK /\ ReadInv /\ TypeOK' /\ [Next]_vars
      => [\A l \in Lots : Balance(l)' # Balance(l) =>
             \E c \in Clients :
                 /\ client[c].phase = "read"
                 /\ client'[c].phase = "ok"
                 /\ \/ client[c].overtaken
                    \/ \E b \in Bodies :
                          /\ client[c].op = Patch(b)
                          /\ l = client[c].seen.lot
                          /\ Balance(l)' = Balance(l) + Miscount(b, client[c].seen)]_vars
    BY NextBalance
<1> QED BY <1>1, TypeCorrect, PTL DEF Spec, BalanceExplained

-----------------------------------------------------------------------------
(* The seats of the event *)

AllLive == UNION {Live(l) : l \in Lots}

\* When one ticket's row changes, the event has one live ticket more or less, or
\* as many as before.
LEMMA AllLiveChanges ==
    ASSUME TypeOK, TypeOK', NEW t \in Tickets,
           \A u \in Tickets \ {t} : status'[u] = status[u] /\ lot'[u] = lot[u]
    PROVE  /\ Cardinality(AllLive) \in Nat /\ Cardinality(AllLive') \in Nat
           /\ Cardinality(AllLive') = Cardinality(AllLive)
                - (IF status[t] \in {"VALID", "USED"} THEN 1 ELSE 0)
                + (IF status'[t] \in {"VALID", "USED"} THEN 1 ELSE 0)
<1> DEFINE rest == AllLive \ {t}
<1>1. /\ AllLive = {u \in Tickets : status[u] \in {"VALID", "USED"}}
      /\ AllLive' = {u \in Tickets : status'[u] \in {"VALID", "USED"}}
    BY DEF AllLive, Live, TypeOK
<1>2. IsFiniteSet(AllLive) /\ IsFiniteSet(AllLive')
    BY <1>1, TicketsAssumption, FS_Subset
<1>3. rest = AllLive' \ {t}
    BY <1>1
<1>4. /\ t \in AllLive <=> status[t] \in {"VALID", "USED"}
      /\ t \in AllLive' <=> status'[t] \in {"VALID", "USED"}
    BY <1>1
<1>5. Cardinality(AllLive) \in Nat /\ Cardinality(AllLive') \in Nat
    BY <1>2, FS_CardinalityType
<1>6. Cardinality(rest) = Cardinality(AllLive) - (IF t \in AllLive THEN 1 ELSE 0)
    <2>1. CASE t \in AllLive
        BY <1>2, <2>1, FS_RemoveElement
    <2>2. CASE t \notin AllLive
        <3>1. rest = AllLive
            BY <2>2
        <3> HIDE DEF rest
        <3> QED BY <1>5, <2>2, <3>1
    <2> QED BY <2>1, <2>2
<1>7. Cardinality(rest) = Cardinality(AllLive') - (IF t \in AllLive' THEN 1 ELSE 0)
    <2>1. CASE t \in AllLive'
        <3>1. Cardinality(AllLive' \ {t}) = Cardinality(AllLive') - 1
            BY <1>2, <2>1, FS_RemoveElement
        <3> QED BY <1>3, <2>1, <3>1
    <2>2. CASE t \notin AllLive'
        <3>1. rest = AllLive'
            BY <1>3, <2>2
        <3> HIDE DEF rest
        <3> QED BY <1>5, <2>2, <3>1
    <2> QED BY <2>1, <2>2
<1> HIDE DEF rest
<1> QED BY <1>4, <1>5, <1>6, <1>7

\* No seat is lost by a step that frees as many seats, and issues as many tickets
\* less, as live tickets go.
LEMMA SeatsFollow ==
    ASSUME TypeOK, TypeOK', NoSeatLost, "CANCELLED" \notin lapses' => "CANCELLED" \notin lapses,
           NEW t \in Tickets,
           \A u \in Tickets \ {t} : status'[u] = status[u] /\ lot'[u] = lot[u],
           NEW freed \in Int, NEW more \in Int,
           SeatsOf(avail') = SeatsOf(avail) + freed,
           SeatsOf(issued') = SeatsOf(issued) + more,
           "CANCELLED" \notin lapses' =>
               freed - more
                 + (IF status'[t] \in {"VALID", "USED"} THEN 1 ELSE 0)
                 - (IF status[t] \in {"VALID", "USED"} THEN 1 ELSE 0) >= 0
    PROVE  NoSeatLost'
<1> SUFFICES ASSUME "CANCELLED" \notin lapses'
             PROVE  SeatsOf(avail') + Cardinality(AllLive') >= SeatsOf(Capacity) + SeatsOf(issued')
    BY DEF NoSeatLost, AllLive, Live, SeatsOf
<1>1. SeatsOf(avail) + Cardinality(AllLive) >= SeatsOf(Capacity) + SeatsOf(issued)
    BY DEF NoSeatLost, AllLive
<1>2. /\ Cardinality(AllLive) \in Nat /\ Cardinality(AllLive') \in Nat
      /\ Cardinality(AllLive') = Cardinality(AllLive)
           - (IF status[t] \in {"VALID", "USED"} THEN 1 ELSE 0)
           + (IF status'[t] \in {"VALID", "USED"} THEN 1 ELSE 0)
    BY AllLiveChanges
<1>3. SeatsOf(avail) \in Nat /\ SeatsOf(issued) \in Nat /\ SeatsOf(Capacity) \in Nat
    BY UnitsMonotone DEF TypeOK, SeatsOf
<1> QED BY <1>1, <1>2, <1>3

\* What one lot gains or loses, the event gains or loses.
LEMMA SeatsAt ==
    ASSUME NEW f \in [Lots -> Nat], NEW g \in [Lots -> Nat], NEW l \in Lots,
           \A m \in Lots \ {l} : g[m] = f[m]
    PROVE  SeatsOf(f) \in Nat /\ SeatsOf(g) = SeatsOf(f) - f[l] + g[l]
<1>1. \A m \in Lots : f[m] \in Nat /\ g[m] \in Nat
    OBVIOUS
<1> QED BY <1>1, UnitsAt DEF SeatsOf

\* A request that writes and leaves no lapse on a cancelled ticket wrote what it read
\* or had not seen the ticket cancelled.
LEMMA NoCancelledLapse ==
    ASSUME NEW c \in Clients, Committed(c)
    PROVE  "CANCELLED" \notin lapses' =>
              /\ "CANCELLED" \notin lapses
              /\ client[c].overtaken => client[c].seen.status # "CANCELLED"
BY DEF Committed

\* What a PATCH that does one thing gives to the old lot and to the new one.
PatchBack(b, s) == SeatsBack(b, s) - (IF TakesOld(b, s) THEN 1 ELSE 0)
PatchTake(b, s) == IF TakesNew(b, s) THEN 1 ELSE 0

LEMMA PatchSeats ==
    ASSUME TypeOK, TypeOK', ReadInv, NEW c \in Clients, NEW b \in Bodies, PatchTicket(c, b)
    PROVE  SeatsOf(avail') = SeatsOf(avail) + PatchBack(b, client[c].seen)
                                            - PatchTake(b, client[c].seen)
<1> DEFINE s == client[c].seen
<1> SUFFICES SeatsOf(avail') = SeatsOf(avail) + PatchBack(b, s) - PatchTake(b, s)
    OBVIOUS
<1>1. client[c].phase = "read"
      /\ avail' = [l \in Lots |->
                     avail[l]
                     + (IF l = s.lot THEN SeatsBack(b, s) ELSE 0)
                     - (IF l = s.lot /\ TakesOld(b, s) THEN 1 ELSE 0)
                     - (IF l = b.lot /\ TakesNew(b, s) THEN 1 ELSE 0)]
    BY DEF PatchTicket, Writes
<1>2. s \in [status : TicketStatus, lot : Lots]
    BY <1>1, ColumnTypes DEF Requests
<1>3. /\ PatchBack(b, s) \in Int /\ SeatsBack(b, s) \in Nat
      /\ TakesOld(b, s) => avail[s.lot] > 0
      /\ TakesNew(b, s) => b.lot \in Lots /\ b.lot # s.lot
    BY <1>2, BodyTypes DEF PatchBack, SeatsBack, PatchTicket, SeatsFree
<1> DEFINE mid == [l \in Lots |-> avail[l] + (IF l = s.lot THEN PatchBack(b, s) ELSE 0)]
<1>4. mid \in [Lots -> Nat]
    <2>1. ASSUME NEW l \in Lots PROVE mid[l] \in Nat
        <3>1. avail[l] \in Nat
            BY DEF TypeOK
        <3> QED BY <1>3, <3>1 DEF PatchBack
    <2> QED BY <2>1
<1>5. SeatsOf(mid) = SeatsOf(avail) + PatchBack(b, s)
    <2>1. avail \in [Lots -> Nat] /\ s.lot \in Lots
        BY <1>2 DEF TypeOK
    <2>2. mid[s.lot] = avail[s.lot] + PatchBack(b, s) /\ avail[s.lot] \in Nat
        BY <2>1
    <2>3. \A m \in Lots \ {s.lot} : mid[m] = avail[m]
        BY <2>1
    <2>4. SeatsOf(avail) \in Nat /\ SeatsOf(mid) = SeatsOf(avail) - avail[s.lot] + mid[s.lot]
        <3> HIDE DEF mid, s
        <3> QED BY <1>4, <2>1, <2>3, SeatsAt
    <2> HIDE DEF mid, s
    <2> QED BY <1>3, <2>2, <2>4
<1>6. ASSUME NEW l \in Lots
      PROVE  avail'[l] = mid[l] - (IF l = b.lot THEN PatchTake(b, s) ELSE 0)
    <2>1. avail[l] \in Nat
        BY DEF TypeOK
    <2> QED BY <1>1, <1>3, <2>1 DEF PatchBack, PatchTake
<1>7. avail' \in [Lots -> Nat]
    BY DEF TypeOK
<1>8. SeatsOf(mid) \in Nat
    BY <1>4, UnitsMonotone DEF SeatsOf
<1>9. CASE TakesNew(b, s)
    <2>1. b.lot \in Lots /\ PatchTake(b, s) = 1
        BY <1>3, <1>9 DEF PatchTake
    <2>2. \A m \in Lots : mid[m] \in Nat
        BY <1>4
    <2> HIDE DEF mid, s
    <2>3. /\ avail'[b.lot] = mid[b.lot] - 1
          /\ \A m \in Lots \ {b.lot} : avail'[m] = mid[m]
        BY <1>6, <2>1, <2>2
    <2>4. SeatsOf(avail') = SeatsOf(mid) - mid[b.lot] + avail'[b.lot]
        BY <1>4, <1>7, <2>1, <2>3, SeatsAt
    <2>5. SeatsOf(avail') = SeatsOf(mid) - 1
        BY <1>8, <2>1, <2>2, <2>3, <2>4
    <2>6. SeatsOf(avail) \in Nat
        BY UnitsMonotone DEF TypeOK, SeatsOf
    <2> QED BY <1>3, <1>5, <2>1, <2>5, <2>6
<1>10. CASE ~ TakesNew(b, s)
    <2>1. \A m \in Lots : avail'[m] = mid[m]
        <3>1. \A m \in Lots : mid[m] \in Nat
            BY <1>4
        <3> HIDE DEF mid, s
        <3> QED BY <1>6, <1>10, <3>1 DEF PatchTake
    <2>2. SeatsOf(avail') = SeatsOf(mid)
        <3> HIDE DEF mid
        <3> QED BY <2>1, UnitsSame DEF SeatsOf
    <2>3. PatchTake(b, s) = 0
        BY <1>10 DEF PatchTake
    <2>4. SeatsOf(avail) \in Nat
        BY UnitsMonotone DEF TypeOK, SeatsOf
    <2> HIDE DEF mid, s
    <2> QED BY <1>3, <1>5, <2>2, <2>3, <2>4
<1> QED BY <1>9, <1>10

LEMMA NextSeats ==
    ASSUME OneThing, TypeOK, TypeOK', ReadInv, NoSeatLost, [Next]_vars PROVE NoSeatLost'
<1> DEFINE Live1(x) == IF x \in {"VALID", "USED"} THEN 1 ELSE 0
<1>0. avail \in [Lots -> Nat] /\ avail' \in [Lots -> Nat]
      /\ issued \in [Lots -> Nat] /\ issued' \in [Lots -> Nat]
      /\ SeatsOf(avail) \in Nat /\ SeatsOf(issued) \in Nat
    BY UnitsMonotone DEF TypeOK, SeatsOf
<1>1. ASSUME NEW t \in Tickets, NEW k \in Lots, SellTicket(t, k) PROVE NoSeatLost'
    <2>1. /\ status' = [status EXCEPT ![t] = "VALID"] /\ lot' = [lot EXCEPT ![t] = k]
          /\ status[t] = "NONE" /\ lapses' = lapses /\ issued' = issued
          /\ avail'[k] = avail[k] - 1 /\ \A m \in Lots \ {k} : avail'[m] = avail[m]
        BY <1>1 DEF SellTicket, TypeOK
    <2>2. /\ \A u \in Tickets \ {t} : status'[u] = status[u] /\ lot'[u] = lot[u]
          /\ status'[t] = "VALID"
        BY <2>1 DEF TypeOK
    <2>3. SeatsOf(avail') = SeatsOf(avail) - avail[k] + avail'[k]
        BY <1>0, <2>1, SeatsAt
    <2>4. SeatsOf(avail') = SeatsOf(avail) + (-1) /\ SeatsOf(issued') = SeatsOf(issued) + 0
        <3>1. avail[k] \in Nat
            BY <1>0
        <3> QED BY <1>0, <2>1, <2>3, <3>1
    <2>5. -1 \in Int /\ 0 \in Int
        OBVIOUS
    <2> QED BY <2>1, <2>2, <2>4, <2>5, SeatsFollow
<1>2. ASSUME NEW t \in Tickets, NEW k \in Lots, IssueTicket(t, k) PROVE NoSeatLost'
    <2>1. /\ status' = [status EXCEPT ![t] = "VALID"] /\ lot' = [lot EXCEPT ![t] = k]
          /\ status[t] = "NONE" /\ lapses' = lapses /\ avail' = avail
          /\ issued'[k] = issued[k] + 1 /\ \A m \in Lots \ {k} : issued'[m] = issued[m]
        BY <1>2 DEF IssueTicket, TypeOK
    <2>2. /\ \A u \in Tickets \ {t} : status'[u] = status[u] /\ lot'[u] = lot[u]
          /\ status'[t] = "VALID"
        BY <2>1 DEF TypeOK
    <2>3. SeatsOf(issued') = SeatsOf(issued) - issued[k] + issued'[k]
        BY <1>0, <2>1, SeatsAt
    <2>4. SeatsOf(issued') = SeatsOf(issued) + 1 /\ SeatsOf(avail') = SeatsOf(avail) + 0
        <3>1. issued[k] \in Nat
            BY <1>0
        <3> QED BY <1>0, <2>1, <2>3, <3>1
    <2> QED BY <2>1, <2>2, <2>4, SeatsFollow
<1>3. ASSUME NEW c \in Clients, AdmitTicket(c) PROVE NoSeatLost'
    <2> DEFINE t == client[c].ticket
    <2>1. /\ client[c].phase = "read" /\ client[c].op = Validate
          /\ Committed(c) /\ UNCHANGED <<avail, issued>>
          /\ WriteRow(t, Column(c, "USED", status[t]), Column(c, client[c].seen.lot, lot[t]))
        BY <1>3 DEF AdmitTicket, Writes, Committed
    <2>2. t \in Tickets
        BY <2>1, ColumnTypes
    <2>3. /\ \A u \in Tickets \ {t} : status'[u] = status[u] /\ lot'[u] = lot[u]
          /\ status'[t] \in {"USED", status[t]}
        BY <2>1, <2>2, OneRow DEF Column
    <2>4. SeatsOf(avail') = SeatsOf(avail) + 0 /\ SeatsOf(issued') = SeatsOf(issued) + 0
        BY <1>0, <2>1
    <2>5. Live1(status'[t]) >= Live1(status[t])
        BY <2>3
    <2>6. "CANCELLED" \notin lapses' => "CANCELLED" \notin lapses
        BY <2>1, NoCancelledLapse
    <2> HIDE DEF t
    <2> QED BY <2>2, <2>3, <2>4, <2>5, <2>6, SeatsFollow
<1>4. ASSUME NEW c \in Clients, CancelTicket(c) PROVE NoSeatLost'
    <2> DEFINE t == client[c].ticket
               k == client[c].seen.lot
    <2>1. /\ client[c].phase = "read" /\ client[c].op = Delete /\ Committed(c)
          /\ issued' = issued
          /\ avail' = [avail EXCEPT ![k] = @ + 1]
          /\ WriteRow(t, {"CANCELLED"}, {lot[t]})
        BY <1>4 DEF CancelTicket, Writes, Committed
    <2>2. t \in Tickets /\ k \in Lots
        BY <2>1, ColumnTypes
    <2>3. \A u \in Tickets \ {t} : status'[u] = status[u] /\ lot'[u] = lot[u]
        BY <2>1, <2>2, OneRow
    <2>4. SeatsOf(avail') = SeatsOf(avail) + 1
        <3>1. /\ avail'[k] = avail[k] + 1 /\ avail[k] \in Nat
              /\ \A m \in Lots \ {k} : avail'[m] = avail[m]
            BY <1>0, <2>1, <2>2
        <3> HIDE DEF k
        <3>2. SeatsOf(avail') = SeatsOf(avail) - avail[k] + avail'[k]
            BY <1>0, <2>2, <3>1, SeatsAt
        <3> QED BY <1>0, <3>1, <3>2
    <2>5. SeatsOf(issued') = SeatsOf(issued) + 0
        BY <1>0, <2>1
    <2>6. 1 - 0 + Live1(status'[t]) - Live1(status[t]) >= 0
        OBVIOUS
    <2>7. "CANCELLED" \notin lapses' => "CANCELLED" \notin lapses
        BY <2>1, NoCancelledLapse
    <2> HIDE DEF t, k
    <2> QED BY <2>2, <2>3, <2>4, <2>5, <2>6, <2>7, SeatsFollow
<1>5. ASSUME NEW c \in Clients, NEW b \in Bodies, PatchTicket(c, b) PROVE NoSeatLost'
    <2> DEFINE t == client[c].ticket
               s == client[c].seen
               freed == PatchBack(b, s) - PatchTake(b, s)
    <2>1. /\ client[c].phase = "read" /\ Committed(c) /\ issued' = issued
          /\ WriteRow(t, Column(c, NewStatus(b, s), status[t]), Column(c, NewLot(b, s), lot[t]))
        BY <1>5 DEF PatchTicket, Writes, Committed
    <2>2. t \in Tickets /\ s \in [status : TicketStatus, lot : Lots] /\ status[t] \in TicketStatus
        BY <2>1, ColumnTypes DEF Requests
    <2>3. /\ \A u \in Tickets \ {t} : status'[u] = status[u] /\ lot'[u] = lot[u]
          /\ status'[t] \in {NewStatus(b, s), status[t]}
          /\ ~ client[c].overtaken => status'[t] = NewStatus(b, s) /\ s.status = status[t]
        BY <2>1, <2>2, OneRow DEF Column, ReadInv
    <2>4. PatchBack(b, s) \in Int /\ PatchTake(b, s) \in Int
        BY DEF PatchBack, PatchTake, SeatsBack
    <2>5. SeatsOf(avail') = SeatsOf(avail) + freed
        <3>1. SeatsOf(avail') = SeatsOf(avail) + PatchBack(b, s) - PatchTake(b, s)
            BY <1>5, PatchSeats
        <3> HIDE DEF s
        <3> QED BY <1>0, <2>4, <3>1
    <2>6. SeatsOf(issued') = SeatsOf(issued) + 0
        BY <1>0, <2>1
    <2>7. "CANCELLED" \notin lapses' => "CANCELLED" \notin lapses
        BY <2>1, NoCancelledLapse
    <2>8. ASSUME "CANCELLED" \notin lapses'
          PROVE  freed - 0 + Live1(status'[t]) - Live1(status[t]) >= 0
        <3>1. client[c].overtaken => s.status # "CANCELLED"
            BY <2>1, <2>8, NoCancelledLapse
        <3>2. CASE b.status = Absent
            <4>1. NewStatus(b, s) = s.status /\ ~ Cancels(b, s) /\ ~ TakesOld(b, s)
                BY <3>2 DEF NewStatus, Cancels, TakesOld, Reactivates, TicketStatus
            <4>2. freed = 0
                BY <4>1 DEF PatchBack, PatchTake, SeatsBack, Frees, TakesNew
            <4>3. Live1(status'[t]) >= Live1(status[t])
                BY <2>2, <2>3, <3>1, <4>1 DEF TicketStatus
            <4> HIDE DEF freed
            <4> QED BY <4>2, <4>3
        <3>3. CASE b.lot = Absent /\ b.status \in {"VALID", "CANCELLED"}
            <4>1. ~ Moves(b, s) /\ NewStatus(b, s) = b.status
                BY <3>3 DEF Moves, NewStatus, TicketStatus
            <4>2. freed = (IF Cancels(b, s) THEN 1 ELSE 0) - (IF Reactivates(b, s) THEN 1 ELSE 0)
                BY <4>1 DEF PatchBack, PatchTake, SeatsBack, Frees, TakesNew, TakesOld
            <4>3. CASE s.status = "CANCELLED"
                BY <2>3, <3>1, <3>3, <4>1, <4>2, <4>3 DEF Cancels, Reactivates
            <4>4. CASE s.status # "CANCELLED"
                BY <2>2, <2>3, <3>3, <4>1, <4>2, <4>4 DEF Cancels, Reactivates, TicketStatus
            <4> QED BY <4>3, <4>4
        <3> QED BY <3>2, <3>3 DEF OneThing
    <2>9. freed \in Int
        BY <2>4
    <2> HIDE DEF t, s, freed
    <2> QED BY <2>2, <2>3, <2>5, <2>6, <2>7, <2>8, <2>9, SeatsFollow
<1>6. CASE UNCHANGED <<status, lot, avail, issued, lapses>>
    BY <1>6 DEF NoSeatLost, Live, SeatsOf
<1> QED
    BY <1>1, <1>2, <1>3, <1>4, <1>5, <1>6
       DEF Next, ReadTicket, Refuse, PatchRefused, Answer, vars

\* Whatever requests write over each other, no seat of the event is lost, unless one
\* that saw its ticket cancelled wrote over another, when bodies change one thing at
\* a time (UpdateTicketUseCase, ValidateTicketUseCase, DeleteTicketUseCase).
THEOREM EventLosesNoSeat == OneThing /\ Spec => []NoSeatLost
<1>1. Init => NoSeatLost
    <2> SUFFICES ASSUME Init PROVE NoSeatLost
        OBVIOUS
    <2>1. AllLive = {}
        BY DEF Init, Live, AllLive
    <2>2. Cardinality(AllLive) = 0
        BY <2>1, FS_EmptySet
    <2>3. SeatsOf(issued) = 0
        <3>1. Seats(Lots, issued) = {}
            <4>1. \A l \in Lots : 1 .. issued[l] = {}
                BY DEF Init
            <4> QED BY <4>1 DEF Seats
        <3> QED BY <3>1, FS_EmptySet DEF SeatsOf, Units
    <2>4. avail = Capacity /\ SeatsOf(Capacity) \in Nat
        BY UnitsMonotone DEF Init, SeatsOf
    <2> QED BY <2>2, <2>3, <2>4 DEF NoSeatLost, AllLive
<1>2. ASSUME OneThing PROVE Spec => []NoSeatLost
    <2>1. TypeOK /\ TypeOK' /\ ReadInv /\ NoSeatLost /\ [Next]_vars => NoSeatLost'
        BY <1>2, NextSeats
    <2> QED BY <1>1, <2>1, TypeCorrect, PTL DEF Spec
<1> QED BY <1>2

-----------------------------------------------------------------------------
(* Statements and locks *)

USE MaxRequestsAssumption

\* What the updates of a sequence of at most two do to lot l.
By(q, i, l) == IF i \in 1 .. Len(q) /\ q[i].lot = l THEN q[i].by ELSE 0
Due(q, l) == By(q, 1, l) + By(q, 2, l)

\* What client c has done to a lot, and still has to do, is what its operation asks.
WorkInv ==
    \A c \in Clients : Open(c) =>
        \A l \in Lots :
            taken[c][l] + Due(todo[c], l) = Due(Statements(client[c].op, client[c].seen), l)

\* Nothing is left of a transaction that ended.
IdleInv ==
    \A c \in Clients : ~ Open(c) =>
        /\ todo[c] = <<>>
        /\ taken[c] = NoChange
        /\ found[c] = Absent
        /\ holds[c] = {}

\* A lot that a client changed is locked by it and keeps enough seats for the change.
LotInv ==
    \A c \in Clients, l \in Lots :
        /\ taken[c][l] # 0 => l \in holds[c]
        /\ Stock(c, l) >= 0
        /\ taken[c][l] + Len(todo[c]) <= 2
        /\ Len(todo[c]) - taken[c][l] <= 2

\* The row a save has found is the present one, unless the save was overtaken.
FoundInv ==
    \A c \in Clients :
        Open(c) /\ found[c] # Absent /\ ~ client[c].overtaken => found[c] = Current(client[c].ticket)

LocksInv == LocksTypeOK /\ ReadInv /\ WorkInv /\ IdleInv /\ LotInv /\ FoundInv

\* The first update of a sequence, and the others.
LEMMA DueFirst ==
    ASSUME NEW q \in Seq(StockUpdates), q # <<>>, Len(q) <= 2
    PROVE  /\ Head(q) \in StockUpdates /\ Tail(q) \in Seq(StockUpdates)
           /\ Len(Tail(q)) = Len(q) - 1 /\ Len(q) \in 1 .. 2
           /\ \A l \in Lots : Due(q, l) = (IF Head(q).lot = l THEN Head(q).by ELSE 0)
                                          + Due(Tail(q), l)
<1> DEFINE t == Tail(q)
<1>1. /\ Head(q) \in StockUpdates /\ t \in Seq(StockUpdates) /\ Len(t) = Len(q) - 1
      /\ \A i \in 1 .. Len(t) : t[i] = q[i + 1]
    BY HeadTailProperties
<1>2. Head(q) = q[1] /\ Len(q) \in 1 .. 2
    <2>1. Len(q) \in Nat \ {0}
        BY EmptySeq
    <2>2. Head(q) = q[1]
        OBVIOUS
    <2>3. Len(q) \in 1 .. 2
        <3>1. PICK n \in Nat \ {0} : n = Len(q)
            BY <2>1
        <3>2. n <= 2
            BY <3>1
        <3>3. n \in 1 .. 2
            BY <3>2
        <3> QED BY <3>1, <3>3
    <2> QED BY <2>2, <2>3, Zenon
<1> HIDE DEF t
<1>3. \A l \in Lots : By(q, 1, l) = (IF Head(q).lot = l THEN Head(q).by ELSE 0)
    BY <1>2 DEF By
<1>4. \A l \in Lots : By(t, 1, l) = By(q, 2, l) /\ By(t, 2, l) = 0
    <2>1. CASE Len(q) = 1
        BY <1>1, <2>1 DEF By
    <2>2. CASE Len(q) = 2
        <3>1. Len(t) = 1 /\ t[1] = q[2]
            BY <1>1, <2>2
        <3> QED BY <2>2, <3>1 DEF By
    <2> QED BY <1>2, <2>1, <2>2
<1>5. \A l \in Lots : By(q, 2, l) \in Int
    <2>1. Len(q) = 2 => q[2] \in StockUpdates
        OBVIOUS
    <2> QED BY <1>2, <2>1 DEF By, StockUpdates
<1>6. Head(q).by \in Int
    BY <1>1 DEF StockUpdates
<1>7. \A l \in Lots : Due(q, l) = (IF Head(q).lot = l THEN Head(q).by ELSE 0) + Due(t, l)
    BY <1>3, <1>4, <1>5, <1>6 DEF Due
<1> QED BY <1>1, <1>2, <1>7 DEF t

LEMMA ConcatTwo == ASSUME NEW x, NEW y PROVE <<x>> \o <<y>> = <<x, y>>
<1>1. <<x>> \in Seq({x, y}) /\ <<y>> \in Seq({x, y}) /\ <<x, y>> \in Seq({x, y})
    OBVIOUS
<1>2. /\ <<x>> \o <<y>> \in Seq({x, y}) /\ Len(<<x>> \o <<y>>) = 2
      /\ (<<x>> \o <<y>>)[1] = x /\ (<<x>> \o <<y>>)[2] = y
    BY <1>1, ConcatProperties
<1>3. Len(<<x, y>>) = 2 /\ <<x, y>>[1] = x /\ <<x, y>>[2] = y
    OBVIOUS
<1> DEFINE z == <<x>> \o <<y>>
           w == <<x, y>>
<1>4. \A i \in 1 .. Len(z) : z[i] = w[i]
    BY <1>2, <1>3
<1> HIDE DEF z, w
<1>5. z \in Seq({x, y}) /\ w \in Seq({x, y}) /\ Len(z) = Len(w)
    BY <1>1, <1>2, <1>3 DEF z, w
<1>6. z = w
    BY <1>4, <1>5, SeqEqual
<1> QED BY <1>6 DEF z, w

LEMMA DueNothing == ASSUME NEW l PROVE Due(<<>>, l) = 0
BY DEF Due, By

LEMMA OperationTypes ==
    ASSUME NEW op \in Operations
    PROVE  /\ op.status \in TicketStatus \union {Absent} /\ op.lot \in Lots \union {Absent}
           /\ op \in {Validate, Delete} => op.status = Absent /\ op.lot = Absent
           /\ op \notin {Validate, Delete} => \E b \in Bodies : op = Patch(b)
           /\ Validate # Delete
           /\ \A b \in Bodies : Patch(b) \notin {Validate, Delete}
                /\ Patch(b).status = b.status /\ Patch(b).lot = b.lot
BY DEF Operations, Validate, Delete, Patch

\* One update or none.
Maybe(does, l, by) == IF does THEN <<[lot |-> l, by |-> by]>> ELSE <<>>

\* The sequence of updates does to each lot what PatchTicket and CancelTicket do.
LEMMA StatementsDo ==
    ASSUME NEW op \in Operations, NEW s \in Row
    PROVE  /\ Statements(op, s) \in Seq(StockUpdates) /\ Len(Statements(op, s)) <= 2
           /\ \A l \in Lots :
                 Due(Statements(op, s), l) =
                    (IF l = s.lot THEN (IF op = Delete THEN 1 ELSE 0) + SeatsBack(op, s) ELSE 0)
                    - (IF l = s.lot /\ TakesOld(op, s) THEN 1 ELSE 0)
                    - (IF l = op.lot /\ TakesNew(op, s) THEN 1 ELSE 0)
<1> DEFINE gives == op = Delete \/ Cancels(op, s)
           u1 == [lot |-> s.lot, by |-> 1]
           u2 == [lot |-> s.lot, by |-> -1]
           u4 == [lot |-> op.lot, by |-> -1]
           S == Statements(op, s)
<1>1. S = Maybe(gives, s.lot, 1) \o Maybe(TakesOld(op, s), s.lot, -1)
          \o Maybe(Frees(op, s), s.lot, 1) \o Maybe(TakesNew(op, s), op.lot, -1)
    BY DEF Statements, Maybe
<1>2. /\ s.lot \in Lots /\ s.status \in TicketStatus
      /\ TakesNew(op, s) => op.lot \in Lots /\ op.lot # s.lot
      /\ op = Delete => ~ Cancels(op, s) /\ ~ Frees(op, s)
    BY OperationTypes, BodiesAssumption DEF Row, TakesNew, Frees, Moves, Cancels, TicketStatus
\* An operation takes two seats only for a ticket that had none.
<1>3. /\ ~ (gives /\ TakesOld(op, s)) /\ ~ (gives /\ TakesNew(op, s))
      /\ ~ (TakesOld(op, s) /\ Frees(op, s))
    BY OperationTypes, BodiesAssumption
    DEF Cancels, TakesOld, Reactivates, TakesNew, Frees, Moves, NewStatus, TicketStatus
<1>4. u1 \in StockUpdates /\ u2 \in StockUpdates /\ (TakesNew(op, s) => u4 \in StockUpdates)
    BY <1>2 DEF StockUpdates
<1>5. \A l \in Lots :
         (IF op = Delete THEN 1 ELSE 0) + SeatsBack(op, s)
            = (IF gives THEN 1 ELSE 0) + (IF Frees(op, s) THEN 1 ELSE 0)
    BY <1>2 DEF SeatsBack
<1> DEFINE D(l) == (IF l = s.lot THEN (IF gives THEN 1 ELSE 0) + (IF Frees(op, s) THEN 1 ELSE 0)
                    ELSE 0)
                   - (IF l = s.lot /\ TakesOld(op, s) THEN 1 ELSE 0)
                   - (IF l = op.lot /\ TakesNew(op, s) THEN 1 ELSE 0)
<1> SUFFICES S \in Seq(StockUpdates) /\ Len(S) <= 2 /\ \A l \in Lots : Due(S, l) = D(l)
    BY <1>5
<1>x. /\ \A v, w : <<v>> \o <<w>> = <<v, w>>
      /\ \A v : <<v>> \o <<>> = <<v>> /\ <<>> \o <<v>> = <<v>>
      /\ \A v, w : <<v, w>> \o <<>> = <<v, w>>
    <2>1. ASSUME NEW v PROVE <<v>> \o <<>> = <<v>> /\ <<>> \o <<v>> = <<v>>
        <3>1. <<v>> \in Seq({v})
            OBVIOUS
        <3> QED BY <3>1, ConcatEmptySeq
    <2>2. ASSUME NEW v, NEW w PROVE <<v, w>> \o <<>> = <<v, w>>
        <3>1. <<v, w>> \in Seq({v, w})
            OBVIOUS
        <3> QED BY <3>1, ConcatEmptySeq
    <2> QED BY <2>1, <2>2, ConcatTwo
<1>6. CASE ~ gives /\ ~ TakesOld(op, s) /\ ~ Frees(op, s) /\ ~ TakesNew(op, s)
    <2>1. S = <<>>
        BY <1>1, <1>6 DEF Maybe
    <2> QED BY <1>6, <2>1, DueNothing
<1>7. CASE gives /\ ~ Frees(op, s)
    <2>1. S = <<u1>>
        <3> HIDE DEF gives, S
        <3> QED BY <1>1, <1>3, <1>7, <1>x DEF Maybe
    <2> QED BY <1>3, <1>4, <1>7, <2>1 DEF Due, By
<1>8. CASE gives /\ Frees(op, s)
    <2>1. S = <<u1, u1>>
        <3> HIDE DEF gives, S
        <3> QED BY <1>1, <1>3, <1>8, <1>x DEF Maybe
    <2> QED BY <1>3, <1>4, <1>8, <2>1 DEF Due, By
<1>9. CASE ~ gives /\ Frees(op, s) /\ ~ TakesNew(op, s)
    <2>1. S = <<u1>>
        <3> HIDE DEF gives, S
        <3> QED BY <1>1, <1>3, <1>9, <1>x DEF Maybe
    <2> QED BY <1>3, <1>4, <1>9, <2>1 DEF Due, By
<1>10. CASE ~ gives /\ Frees(op, s) /\ TakesNew(op, s)
    <2>1. S = <<u1, u4>>
        <3> HIDE DEF gives, S
        <3> QED BY <1>1, <1>3, <1>10, <1>x DEF Maybe
    <2> QED BY <1>2, <1>3, <1>4, <1>10, <2>1 DEF Due, By
<1>11. CASE TakesOld(op, s) /\ ~ TakesNew(op, s)
    <2>1. S = <<u2>>
        <3> HIDE DEF gives, S
        <3> QED BY <1>1, <1>3, <1>11, <1>x DEF Maybe
    <2> QED BY <1>3, <1>4, <1>11, <2>1 DEF Due, By
<1>12. CASE TakesOld(op, s) /\ TakesNew(op, s)
    <2>1. S = <<u2, u4>>
        <3> HIDE DEF gives, S
        <3>1. /\ Maybe(gives, s.lot, 1) = <<>> /\ Maybe(Frees(op, s), s.lot, 1) = <<>>
              /\ Maybe(TakesOld(op, s), s.lot, -1) = <<u2>>
              /\ Maybe(TakesNew(op, s), op.lot, -1) = <<u4>>
            BY <1>3, <1>12 DEF Maybe
        <3> HIDE DEF u2, u4
        <3>2. /\ <<>> \o <<u2>> = <<u2>> /\ <<u2>> \o <<>> = <<u2>>
              /\ <<u2>> \o <<u4>> = <<u2, u4>>
            BY <1>x
        <3> QED BY <1>1, <3>1, <3>2, Zenon
    <2> QED BY <1>2, <1>3, <1>4, <1>12, <2>1 DEF Due, By
<1>13. CASE ~ gives /\ ~ TakesOld(op, s) /\ ~ Frees(op, s) /\ TakesNew(op, s)
    <2>1. S = <<u4>>
        <3> HIDE DEF gives, S
        <3> QED BY <1>1, <1>3, <1>13, <1>x DEF Maybe
    <2> QED BY <1>2, <1>3, <1>4, <1>13, <2>1 DEF Due, By
<1> QED BY <1>3, <1>6, <1>7, <1>8, <1>9, <1>10, <1>11, <1>12, <1>13

\* What is in hand when client c commits.
LEMMA AtCommit ==
    ASSUME LocksInv, NEW c \in Clients, Commit(c)
    PROVE  /\ client[c].phase = "read" /\ client[c].ticket \in Tickets
           /\ client[c].op \in Operations /\ client[c].seen \in Row
           /\ \A l \in Lots :
                 /\ avail'[l] = avail[l] + taken[c][l] /\ avail'[l] >= 0
                 /\ avail[l] \in Nat /\ taken[c][l] \in Int
                 /\ taken[c][l] = Due(Statements(client[c].op, client[c].seen), l)
<1>1. client[c].phase = "read" /\ todo[c] = <<>> /\ avail' = [l \in Lots |-> Stock(c, l)]
    BY DEF Commit, Saving, Open
<1>2. TypeOK /\ ReadInv
    BY DEF LocksInv, LocksTypeOK
<1>3. client[c] \in Requests
    BY <1>2 DEF TypeOK
<1>4. client[c].ticket \in Tickets /\ client[c].op \in Operations /\ client[c].seen \in Row
    BY <1>1, <1>3 DEF Requests, Row
<1>5. ASSUME NEW l \in Lots
      PROVE  /\ avail'[l] = avail[l] + taken[c][l] /\ avail'[l] >= 0
             /\ avail[l] \in Nat /\ taken[c][l] \in Int
             /\ taken[c][l] = Due(Statements(client[c].op, client[c].seen), l)
    <2>1. avail[l] \in Nat /\ taken[c][l] \in Int
        <3>1. avail[l] \in Nat
            BY <1>2 DEF TypeOK
        <3>2. taken \in [Clients -> [Lots -> -2 .. 2]]
            BY DEF LocksInv, LocksTypeOK
        <3>3. taken[c][l] \in -2 .. 2
            BY <3>2
        <3> QED BY <3>1, <3>3
    <2>2. avail'[l] = avail[l] + taken[c][l] /\ avail'[l] >= 0
        BY <1>1 DEF Stock, LocksInv, LotInv
    <2>3. taken[c][l] + Due(todo[c], l) = Due(Statements(client[c].op, client[c].seen), l)
        BY <1>1 DEF LocksInv, WorkInv, Open
    <2> QED BY <1>1, <2>1, <2>2, <2>3, DueNothing
<1> QED BY <1>1, <1>4, <1>5

\* The row a commit writes: each column is the one of the entity, or the present one
\* when another request wrote the ticket since it was read.
LEMMA CommittedRow ==
    ASSUME LocksInv, NEW c \in Clients, Commit(c), client[c].op # Delete,
           NEW mine, mine = Entity(client[c].op, client[c].seen)
    PROVE  WriteRow(client[c].ticket, Column(c, mine.status, status[client[c].ticket]),
                                      Column(c, mine.lot, lot[client[c].ticket]))
<1> DEFINE t == client[c].ticket
<1>1. /\ WriteRow(t, {IF "status" \in Differs(c) THEN mine.status ELSE status[t]},
                     {IF "lot" \in Differs(c) THEN mine.lot ELSE lot[t]})
      /\ found[c] # Absent /\ Open(c)
    BY DEF Commit, Saving
<1>2. Differs(c) = {f \in {"status", "lot"} : mine[f] # found[c][f]}
    BY DEF Differs
<1>3. ~ client[c].overtaken => found[c].status = status[t] /\ found[c].lot = lot[t]
    <2>1. ~ client[c].overtaken => found[c] = Current(t)
        BY <1>1 DEF LocksInv, FoundInv
    <2> QED BY <2>1 DEF Current
<1>4. /\ (IF "status" \in Differs(c) THEN mine.status ELSE status[t])
            \in Column(c, mine.status, status[t])
      /\ (IF "lot" \in Differs(c) THEN mine.lot ELSE lot[t]) \in Column(c, mine.lot, lot[t])
    BY <1>2, <1>3 DEF Column
<1> QED BY <1>1, <1>4 DEF WriteRow

\* A commit is the one step of Tickets.
LEMMA CommitIsStep == ASSUME LocksInv, NEW c \in Clients, Commit(c) PROVE Next
<1> DEFINE op == client[c].op
           s == client[c].seen
           t == client[c].ticket
<1>1. /\ client[c].phase = "read" /\ t \in Tickets /\ op \in Operations /\ s \in Row
      /\ Committed(c)
      /\ avail' = [l \in Lots |-> Stock(c, l)] /\ avail \in [Lots -> Nat]
    BY AtCommit DEF Commit, LocksInv, LocksTypeOK, TypeOK
<1>2. ASSUME NEW l \in Lots
      PROVE  /\ avail[l] \in Nat /\ avail'[l] >= 0
             /\ avail'[l] = avail[l]
                + ((IF l = s.lot THEN (IF op = Delete THEN 1 ELSE 0) + SeatsBack(op, s) ELSE 0)
                   - (IF l = s.lot /\ TakesOld(op, s) THEN 1 ELSE 0)
                   - (IF l = op.lot /\ TakesNew(op, s) THEN 1 ELSE 0))
    <2>1. /\ avail[l] \in Nat /\ avail'[l] >= 0
          /\ avail'[l] = avail[l] + taken[c][l] /\ taken[c][l] = Due(Statements(op, s), l)
        BY AtCommit
    <2> HIDE DEF op, s
    <2>2. Due(Statements(op, s), l) =
             (IF l = s.lot THEN (IF op = Delete THEN 1 ELSE 0) + SeatsBack(op, s) ELSE 0)
             - (IF l = s.lot /\ TakesOld(op, s) THEN 1 ELSE 0)
             - (IF l = op.lot /\ TakesNew(op, s) THEN 1 ELSE 0)
        BY <1>1, StatementsDo
    <2> QED BY <2>1, <2>2
<1>3. s.lot \in Lots /\ s.status \in TicketStatus
    BY <1>1 DEF Row
<1>8. op \in {Validate, Delete} => op.status \notin TicketStatus /\ op.lot = Absent /\ Validate # Delete
    <2> HIDE DEF op
    <2> QED BY <1>1, OperationTypes, BodiesAssumption
<1>4. CASE op = Validate
    <2>1. ~ Cancels(op, s) /\ ~ Moves(op, s) /\ ~ Reactivates(op, s) /\ op # Delete
        BY <1>4, <1>8 DEF Cancels, Moves, Reactivates, TicketStatus
    <2>2. avail' = avail
        <3>1. \A l \in Lots : avail'[l] = avail[l]
            BY <1>2, <2>1 DEF SeatsBack, Frees, TakesOld, TakesNew
        <3> QED BY <1>1, <3>1
    <2>3. Entity(op, s) = [s EXCEPT !.status = "USED"]
        BY <1>4 DEF Entity
    <2>4. Entity(op, s).status = "USED" /\ Entity(op, s).lot = s.lot
        BY <1>1, <2>3 DEF Row
    <2>5. WriteRow(t, Column(c, "USED", status[t]), Column(c, s.lot, lot[t]))
        BY <2>1, <2>4, CommittedRow
    <2>6. AdmitTicket(c)
        BY <1>1, <1>4, <2>2, <2>5 DEF AdmitTicket, Writes
    <2> QED BY <2>6 DEF Next
<1>5. CASE op = Delete
    <2>1. ~ Cancels(op, s) /\ ~ Moves(op, s) /\ ~ Reactivates(op, s)
        BY <1>5, <1>8 DEF Cancels, Moves, Reactivates, TicketStatus
    <2>2. avail' = [avail EXCEPT ![s.lot] = @ + 1]
        <3>1. \A l \in Lots : avail'[l] = avail[l] + (IF l = s.lot THEN 1 ELSE 0)
            BY <1>2, <1>5, <2>1 DEF SeatsBack, Frees, TakesOld, TakesNew
        <3>2. avail' = [l \in Lots |-> avail[l] + (IF l = s.lot THEN 1 ELSE 0)]
            <4> HIDE DEF s
            <4> QED BY <1>1, <3>1
        <3>3. avail \in [Lots -> Nat]
            BY <1>1
        <3>4. \A l \in Lots : [avail EXCEPT ![s.lot] = @ + 1][l]
                               = avail[l] + (IF l = s.lot THEN 1 ELSE 0)
            <4> HIDE DEF s
            <4> QED BY <1>3, <3>3
        <3>5. [avail EXCEPT ![s.lot] = @ + 1]
                = [l \in Lots |-> avail[l] + (IF l = s.lot THEN 1 ELSE 0)]
            <4> HIDE DEF s
            <4> QED BY <3>3, <3>4
        <3> QED BY <3>2, <3>5, Zenon
    <2>3. WriteRow(t, {"CANCELLED"}, {lot[t]})
        <3>1. "lot" \notin Differs(c)
            BY <1>5 DEF Differs
        <3> QED BY <1>5, <3>1 DEF Commit
    <2>4. CancelTicket(c)
        BY <1>1, <1>5, <2>2, <2>3 DEF CancelTicket, Writes
    <2> QED BY <2>4 DEF Next
<1>6. CASE op \notin {Validate, Delete}
    <2>1. PICK b \in Bodies : op = Patch(b)
        BY <1>1, <1>6, OperationTypes
    <2>2. b.status = op.status /\ b.lot = op.lot
        BY <1>1, <2>1, OperationTypes
    <2>3. /\ SeatsBack(b, s) = SeatsBack(op, s) /\ (TakesOld(b, s) <=> TakesOld(op, s))
          /\ (TakesNew(b, s) <=> TakesNew(op, s))
          /\ NewStatus(b, s) = NewStatus(op, s) /\ NewLot(b, s) = NewLot(op, s)
        BY <2>2 DEF SeatsBack, Cancels, Frees, TakesOld, Reactivates, TakesNew, Moves,
                    NewStatus, NewLot
    <2>4. \A l \in Lots :
             avail'[l] = avail[l]
                   + (IF l = s.lot THEN SeatsBack(b, s) ELSE 0)
                   - (IF l = s.lot /\ TakesOld(b, s) THEN 1 ELSE 0)
                   - (IF l = b.lot /\ TakesNew(b, s) THEN 1 ELSE 0)
        <3>1. SeatsBack(b, s) \in Nat
            BY DEF SeatsBack
        <3> HIDE DEF s, op
        <3> QED BY <1>2, <1>6, <2>2, <2>3, <3>1
    <2>5. avail' = [l \in Lots |->
                   avail[l]
                   + (IF l = s.lot THEN SeatsBack(b, s) ELSE 0)
                   - (IF l = s.lot /\ TakesOld(b, s) THEN 1 ELSE 0)
                   - (IF l = b.lot /\ TakesNew(b, s) THEN 1 ELSE 0)]
        <3> HIDE DEF s
        <3> QED BY <1>1, <2>4
    <2>6. SeatsFree(b, s)
        <3>1. TakesOld(b, s) => SeatsBack(b, s) = 0
            BY DEF TakesOld, Reactivates, SeatsBack, Cancels, Frees
        <3>2. TakesNew(b, s) => b.lot \in Lots /\ b.lot # s.lot
            BY <1>1, BodyTypes DEF Row
        <3>3. TakesOld(b, s) => avail[s.lot] > 0
            <4> HIDE DEF s
            <4> QED BY <1>2, <1>3, <2>4, <3>1, <3>2
        <3>4. TakesNew(b, s) => avail[b.lot] > 0
            <4> HIDE DEF s
            <4> QED BY <1>2, <2>4, <3>2
        <3> QED BY <3>3, <3>4 DEF SeatsFree
    <2>7. WriteRow(t, Column(c, NewStatus(b, s), status[t]), Column(c, NewLot(b, s), lot[t]))
        <3>1. Entity(op, s) = [status |-> NewStatus(op, s), lot |-> NewLot(op, s)]
            BY <1>6 DEF Entity
        <3> QED BY <1>6, <2>3, <3>1, CommittedRow
    <2>8. PatchTicket(c, b)
        BY <1>1, <2>1, <2>5, <2>6, <2>7 DEF PatchTicket, Writes
    <2> QED BY <2>8 DEF Next
<1> QED BY <1>4, <1>5, <1>6

\* The other statements are the read, the refusal, or nothing to Tickets.
LEMMA LockNextIsNext == ASSUME LocksInv, [LockNext]_lockVars PROVE [Next]_vars
<1>1. ASSUME NEW t \in Tickets, NEW l \in Lots, Sell(t, l) \/ Issue(t, l) PROVE Next
    BY <1>1 DEF Sell, Issue, Next
<1>2. ASSUME NEW c \in Clients, NEW t \in Tickets, NEW op \in Operations, Read(c, t, op)
      PROVE  Next
    BY <1>2 DEF Read, Next
<1>3. ASSUME NEW c \in Clients, UpdateStock(c) \/ Compare(c) \/ LockTicket(c)
      PROVE  UNCHANGED vars
    BY <1>3 DEF UpdateStock, Compare, LockTicket
<1>4. ASSUME NEW c \in Clients, NoSeat(c) \/ Fail(c) \/ DeadlockFound(c) PROVE Next
    BY <1>4 DEF NoSeat, Fail, DeadlockFound, Next
<1>5. ASSUME UNCHANGED lockVars PROVE UNCHANGED vars
    BY <1>5 DEF lockVars
<1> QED BY <1>1, <1>2, <1>3, <1>4, <1>5, CommitIsStep DEF LockNext

\* The invariants of the locks alone.
LocksRest == WorkInv /\ IdleInv /\ LotInv /\ FoundInv

LEMMA InitLocks == LockInit => LocksInv
<1> SUFFICES ASSUME LockInit PROVE LocksInv
    OBVIOUS
<1>1. TypeOK /\ ReadInv
    BY InitTypes DEF LockInit
<1>2. \A c \in Clients : ~ Open(c)
    BY DEF LockInit, Init, Open
<1>3. \A c \in Clients : /\ todo[c] = <<>> /\ taken[c] = NoChange
                         /\ found[c] = Absent /\ holds[c] = {}
    BY DEF LockInit
<1>4. LocksTypeOK
    <2>1. todo \in [Clients -> Seq(StockUpdates)]
        BY DEF LockInit
    <2>2. taken \in [Clients -> [Lots -> -2 .. 2]]
        <3>1. NoChange \in [Lots -> -2 .. 2]
            BY DEF NoChange
        <3> QED BY <3>1 DEF LockInit
    <2> QED BY <1>1, <1>3, <2>1, <2>2 DEF LockInit, LocksTypeOK
<1>5. LotInv
    <2> SUFFICES ASSUME NEW c \in Clients, NEW l \in Lots
                 PROVE  /\ taken[c][l] = 0 /\ Stock(c, l) >= 0 /\ Len(todo[c]) = 0
        BY DEF LotInv
    <2>1. taken[c][l] = 0 /\ avail[l] \in Nat
        BY <1>1, <1>3 DEF NoChange, TypeOK
    <2> QED BY <1>3, <2>1 DEF Stock
<1> QED BY <1>1, <1>2, <1>3, <1>4, <1>5 DEF LocksInv, WorkInv, IdleInv, FoundInv

\* A transaction ends and changes nothing: nobody else sees a difference.
LEMMA RefusedLocks ==
    ASSUME LocksInv, TypeOK', NEW c \in Clients, Refuse(c), End(c)
    PROVE  LocksTypeOK' /\ LocksRest'
<1>1. /\ UNCHANGED <<status, lot, avail, left>>
      /\ client' = [client EXCEPT ![c] = [phase |-> "refused"]]
      /\ todo' = [todo EXCEPT ![c] = <<>>] /\ taken' = [taken EXCEPT ![c] = NoChange]
      /\ found' = [found EXCEPT ![c] = Absent] /\ holds' = [holds EXCEPT ![c] = {}]
      /\ others' = others \ {c}
    BY DEF Refuse, Answer, End
<1>2. /\ client'[c] = [phase |-> "refused"] /\ todo'[c] = <<>> /\ taken'[c] = NoChange
      /\ found'[c] = Absent /\ holds'[c] = {}
      /\ \A d \in Clients \ {c} :
            /\ client'[d] = client[d] /\ todo'[d] = todo[d] /\ taken'[d] = taken[d]
            /\ found'[d] = found[d] /\ holds'[d] = holds[d]
    BY <1>1 DEF LocksInv, LocksTypeOK, TypeOK
<1>3. LocksTypeOK'
    <2>1. <<>> \in Seq(StockUpdates) /\ NoChange \in [Lots -> -2 .. 2] /\ Len(<<>>) <= 2
        BY DEF NoChange
    <2> QED BY <1>1, <1>2, <2>1 DEF LocksInv, LocksTypeOK
<1>4. WorkInv'
    BY <1>1, <1>2 DEF LocksInv, WorkInv, Open
<1>5. IdleInv'
    BY <1>1, <1>2 DEF LocksInv, IdleInv, Open
<1>6. LotInv'
    <2> SUFFICES ASSUME NEW d \in Clients, NEW l \in Lots
                 PROVE  /\ taken'[d][l] # 0 => l \in holds'[d]
                        /\ Stock(d, l)' >= 0
                        /\ taken'[d][l] + Len(todo'[d]) <= 2
                        /\ Len(todo'[d]) - taken'[d][l] <= 2
        BY DEF LotInv
    <2>1. CASE d = c
        <3>1. taken'[d][l] = 0 /\ avail[l] \in Nat /\ Len(todo'[d]) = 0
            BY <1>2, <2>1 DEF NoChange, LocksInv, LocksTypeOK, TypeOK
        <3> QED BY <1>1, <3>1 DEF Stock
    <2>2. CASE d # c
        BY <1>1, <1>2, <2>2 DEF LocksInv, LotInv, Stock
    <2> QED BY <2>1, <2>2
<1>7. FoundInv'
    BY <1>1, <1>2 DEF LocksInv, FoundInv, Open, Current
<1> QED BY <1>3, <1>4, <1>5, <1>6, <1>7 DEF LocksRest

\* A commit shows its changes to the others, who hold none of the rows it changed.
LEMMA CommittedLocks ==
    ASSUME LocksInv, TypeOK', NEW c \in Clients, Commit(c)
    PROVE  LocksTypeOK' /\ LocksRest'
<1> DEFINE t == client[c].ticket
<1>t. TypeOK /\ ReadInv
    BY DEF LocksInv, LocksTypeOK
<1>1. /\ left' = left
      /\ todo' = [todo EXCEPT ![c] = <<>>] /\ taken' = [taken EXCEPT ![c] = NoChange]
      /\ found' = [found EXCEPT ![c] = Absent] /\ holds' = [holds EXCEPT ![c] = {}]
      /\ others' = others \ {c}
    BY DEF Commit, End
<1>2. /\ todo'[c] = <<>> /\ taken'[c] = NoChange /\ found'[c] = Absent /\ holds'[c] = {}
      /\ \A d \in Clients \ {c} :
            /\ todo'[d] = todo[d] /\ taken'[d] = taken[d]
            /\ found'[d] = found[d] /\ holds'[d] = holds[d]
    BY <1>1 DEF LocksInv, LocksTypeOK
<1>3. /\ client[c].phase = "read" /\ t \in Tickets
      /\ \A l \in Lots : /\ avail'[l] = avail[l] + taken[c][l] /\ avail'[l] >= 0
                         /\ avail[l] \in Nat /\ taken[c][l] \in Int
    BY AtCommit
<1>4. /\ client'[c].phase = "ok"
      /\ \A d \in Clients : client'[d].phase = "read" =>
            /\ client[d].phase = "read"
            /\ client'[d].op = client[d].op /\ client'[d].ticket = client[d].ticket
            /\ client'[d].seen = client[d].seen
            /\ ~client'[d].overtaken => ~client[d].overtaken /\ client[d].ticket # t
    BY <1>3, <1>t, CommittedRequests DEF Commit
<1>5. \A d \in Clients \ {c} : client[d].phase = "read" => client'[d].phase = "read"
    <2> SUFFICES ASSUME NEW d \in Clients \ {c}, client[d].phase = "read"
                 PROVE  client'[d].phase = "read"
        OBVIOUS
    <2>1. client[d] \in Requests
        BY <1>t DEF TypeOK
    <2>2. client'[d] \in {client[d], [client[d] EXCEPT !.overtaken = TRUE]}
        BY DEF Commit, Committed
    <2> QED BY <2>1, <2>2 DEF Requests
<1>6. LocksTypeOK'
    <2>1. <<>> \in Seq(StockUpdates) /\ NoChange \in [Lots -> -2 .. 2] /\ Len(<<>>) <= 2
        BY DEF NoChange
    <2>2. \A d \in Clients : client'[d].phase # "read" => holds'[d] = {}
        BY <1>2, <1>5 DEF LocksInv, IdleInv, Open
    <2> QED BY <1>1, <1>2, <2>1, <2>2 DEF LocksInv, LocksTypeOK
<1>7. WorkInv'
    <2> SUFFICES ASSUME NEW d \in Clients, client'[d].phase = "read"
                 PROVE  \A l \in Lots : taken'[d][l] + Due(todo'[d], l)
                            = Due(Statements(client'[d].op, client'[d].seen), l)
        BY DEF WorkInv, Open
    <2>1. d # c
        BY <1>4
    <2> QED BY <1>2, <1>4, <2>1 DEF LocksInv, WorkInv, Open
<1>8. IdleInv'
    BY <1>2, <1>5 DEF LocksInv, IdleInv, Open
<1>9. LotInv'
    <2> SUFFICES ASSUME NEW d \in Clients, NEW l \in Lots
                 PROVE  /\ taken'[d][l] # 0 => l \in holds'[d]
                        /\ avail'[l] + taken'[d][l] >= 0
                        /\ taken'[d][l] + Len(todo'[d]) <= 2
                        /\ Len(todo'[d]) - taken'[d][l] <= 2
        BY DEF LotInv, Stock
    <2>1. CASE d = c
        <3>1. taken'[d][l] = 0 /\ Len(todo'[d]) = 0
            BY <1>2, <2>1 DEF NoChange
        <3> QED BY <1>3, <3>1
    <2>2. CASE d # c
        <3>1. /\ taken[d][l] # 0 => l \in holds[d]
              /\ avail[l] + taken[d][l] >= 0
              /\ taken[c][l] # 0 => l \in holds[c]
              /\ avail[l] + taken[c][l] >= 0
              /\ holds[c] \intersect holds[d] = {}
              /\ taken[d][l] + Len(todo[d]) <= 2
              /\ Len(todo[d]) - taken[d][l] <= 2
            BY <2>2 DEF LocksInv, LotInv, Stock, LocksTypeOK
        <3>2. taken[d][l] = 0 \/ taken[c][l] = 0
            BY <3>1
        <3>3. taken[d][l] \in -2 .. 2
            <4>1. taken \in [Clients -> [Lots -> -2 .. 2]]
                BY DEF LocksInv, LocksTypeOK
            <4> QED BY <4>1
        <3>4. /\ taken'[d] = taken[d] /\ todo'[d] = todo[d] /\ holds'[d] = holds[d]
              /\ avail'[l] = avail[l] + taken[c][l] /\ avail'[l] >= 0
              /\ avail[l] \in Nat /\ taken[c][l] \in Int
            BY <1>2, <1>3, <2>2
        <3> QED BY <3>1, <3>2, <3>3, <3>4
    <2> QED BY <2>1, <2>2
<1>10. FoundInv'
    <2> SUFFICES ASSUME NEW d \in Clients, client'[d].phase = "read", found'[d] # Absent,
                        ~ client'[d].overtaken
                 PROVE  found'[d] = Current(client[d].ticket)'
        BY <1>4 DEF FoundInv, Open, Current
    <2>1. d # c /\ client[d].phase = "read" /\ ~ client[d].overtaken /\ client[d].ticket # t
          /\ client'[d].ticket = client[d].ticket
        BY <1>4
    <2>2. found'[d] = Current(client[d].ticket)
        BY <1>2, <2>1 DEF LocksInv, FoundInv, Open
    <2>3. \A u \in Tickets \ {t} : status'[u] = status[u] /\ lot'[u] = lot[u]
        BY <1>3, <1>t, OneRow DEF Commit
    <2>4. client[d].ticket \in Tickets
        BY <1>t, <2>1, ColumnTypes
    <2> QED BY <2>1, <2>2, <2>3, <2>4 DEF Current
<1> QED BY <1>6, <1>7, <1>8, <1>9, <1>10 DEF LocksRest

\* A ticket comes into being: nobody has it open, and nobody has changed its lot.
LEMMA SoldLocks ==
    ASSUME LocksInv, TypeOK', NEW t \in Tickets, NEW l \in Lots, Sell(t, l) \/ Issue(t, l)
    PROVE  LocksTypeOK' /\ LocksRest'
<1>1. /\ UNCHANGED <<client, left, todo, taken, found, others, holds>>
      /\ status[t] = "NONE"
      /\ status' = [status EXCEPT ![t] = "VALID"] /\ lot' = [lot EXCEPT ![t] = l]
      /\ \/ avail' = avail
         \/ /\ avail' = [avail EXCEPT ![l] = @ - 1] /\ avail[l] > 0
            /\ \A c \in Clients : l \notin holds[c]
    BY DEF Sell, Issue, SellTicket, IssueTicket, txnVars
<1>2. LocksTypeOK'
    BY <1>1 DEF LocksInv, LocksTypeOK
<1>3. WorkInv' /\ IdleInv'
    BY <1>1 DEF LocksInv, WorkInv, IdleInv, Open
<1>4. LotInv'
    <2> SUFFICES ASSUME NEW c \in Clients, NEW k \in Lots
                 PROVE  Stock(c, k)' >= 0
        BY <1>1 DEF LocksInv, LotInv
    <2>1. /\ avail[k] \in Nat /\ avail[k] + taken[c][k] >= 0
          /\ taken[c][k] # 0 => k \in holds[c]
          /\ avail \in [Lots -> Nat]
        BY DEF LocksInv, LocksTypeOK, TypeOK, LotInv, Stock
    <2>2. avail'[k] = avail[k] \/ (taken[c][k] = 0 /\ avail'[k] >= 0)
        <3>1. avail[k] > 0 => avail[k] - 1 >= 0
            BY <2>1
        <3> QED BY <1>1, <2>1, <3>1
    <2>3. CASE avail'[k] = avail[k]
        BY <1>1, <2>1, <2>3 DEF Stock
    <2>4. CASE taken[c][k] = 0 /\ avail'[k] >= 0
        <3>1. avail'[k] \in Nat /\ taken'[c][k] = 0
            BY <1>1, <2>4 DEF TypeOK
        <3> QED BY <3>1 DEF Stock
    <2> QED BY <2>2, <2>3, <2>4
<1>5. FoundInv'
    <2> SUFFICES ASSUME NEW c \in Clients, Open(c), found[c] # Absent, ~ client[c].overtaken
                 PROVE  found[c] = Current(client[c].ticket)'
        BY <1>1 DEF FoundInv, Open
    <2>1. client[c].ticket # t /\ client[c].ticket \in Tickets
        BY <1>1, ColumnTypes DEF LocksInv, LocksTypeOK, ReadInv, Open
    <2>2. /\ status'[client[c].ticket] = status[client[c].ticket]
          /\ lot'[client[c].ticket] = lot[client[c].ticket]
          /\ client' = client
        BY <1>1, <2>1 DEF LocksInv, LocksTypeOK, TypeOK
    <2> QED BY <2>2 DEF LocksInv, FoundInv, Current
<1> QED BY <1>2, <1>3, <1>4, <1>5 DEF LocksRest

\* A request begins with nothing in hand and all of its updates before it.
LEMMA ReadLocks ==
    ASSUME LocksInv, TypeOK', NEW c \in Clients, NEW t \in Tickets, NEW op \in Operations,
           Read(c, t, op)
    PROVE  LocksTypeOK' /\ LocksRest'
<1> DEFINE q == IF Accepts(op, status[t]) THEN Statements(op, Current(t)) ELSE <<>>
<1>1. /\ UNCHANGED <<status, lot, avail, taken, found, others, holds>>
      /\ left > 0 /\ left' = left - 1 /\ todo' = [todo EXCEPT ![c] = q]
      /\ status[t] # "NONE" /\ ~ Open(c)
    BY DEF Read, ReadTicket, Open
<1>2. Current(t) \in Row
    BY <1>1 DEF Current, Row, LocksInv, LocksTypeOK, TypeOK
<1>3. q \in Seq(StockUpdates) /\ Len(q) <= 2
    <2>1. Statements(op, Current(t)) \in Seq(StockUpdates)
          /\ Len(Statements(op, Current(t))) <= 2
        BY <1>2, StatementsDo
    <2>2. <<>> \in Seq(StockUpdates) /\ Len(<<>>) <= 2
        OBVIOUS
    <2> QED BY <2>1, <2>2
<1> DEFINE a == [phase |-> "read", op |-> op, ticket |-> t, seen |-> Current(t),
                 overtaken |-> FALSE]
<1>4. \/ Accepts(op, status[t]) /\ client' = [client EXCEPT ![c] = a]
      \/ ~ Accepts(op, status[t]) /\ client' = [client EXCEPT ![c] = [phase |-> "refused"]]
    BY DEF Read, ReadTicket, Answer, Current
<1>5. /\ taken[c] = NoChange /\ found[c] = Absent /\ holds[c] = {}
    BY <1>1 DEF LocksInv, IdleInv
<1> HIDE DEF q
<1>6. /\ todo'[c] = q /\ client'[c] \in {a, [phase |-> "refused"]}
      /\ \A d \in Clients \ {c} : client'[d] = client[d] /\ todo'[d] = todo[d]
    BY <1>1, <1>4 DEF LocksInv, LocksTypeOK, TypeOK
<1>7. LocksTypeOK'
    <2>1. left' \in 0 .. MaxRequests
        BY <1>1 DEF LocksInv, LocksTypeOK
    <2>2. todo' \in [Clients -> Seq(StockUpdates)] /\ \A d \in Clients : Len(todo'[d]) <= 2
        BY <1>1, <1>3, <1>6 DEF LocksInv, LocksTypeOK
    <2>3. \A d \in Clients : client'[d].phase # "read" => holds'[d] = {}
        BY <1>1, <1>5, <1>6 DEF LocksInv, LocksTypeOK
    <2> QED BY <1>1, <2>1, <2>2, <2>3 DEF LocksInv, LocksTypeOK
<1>8. WorkInv'
    <2> SUFFICES ASSUME NEW d \in Clients, client'[d].phase = "read", NEW l \in Lots
                 PROVE  taken'[d][l] + Due(todo'[d], l)
                            = Due(Statements(client'[d].op, client'[d].seen), l)
        BY DEF WorkInv, Open
    <2>1. CASE d = c
        <3>0. Accepts(op, status[t]) /\ client'[c] = a
            BY <1>4, <1>6, <2>1 DEF LocksInv, LocksTypeOK, TypeOK
        <3>1. client'[c].op = op /\ client'[c].seen = Current(t)
            BY <3>0
        <3>2. todo'[c] = Statements(op, Current(t))
            BY <1>6, <3>0 DEF q
        <3>3. Due(Statements(op, Current(t)), l) \in Int
            <4>1. SeatsBack(op, Current(t)) \in Nat
                BY DEF SeatsBack
            <4> QED BY <1>2, <4>1, StatementsDo
        <3>4. taken'[c][l] = 0
            BY <1>1, <1>5 DEF NoChange
        <3> QED BY <2>1, <3>1, <3>2, <3>3, <3>4
    <2>2. CASE d # c
        BY <1>1, <1>6, <2>2 DEF LocksInv, WorkInv, Open
    <2> QED BY <2>1, <2>2
<1>9. IdleInv'
    <2> SUFFICES ASSUME NEW d \in Clients, client'[d].phase # "read"
                 PROVE  /\ todo'[d] = <<>> /\ taken[d] = NoChange
                        /\ found[d] = Absent /\ holds[d] = {}
        BY <1>1 DEF IdleInv, Open
    <2>1. CASE d = c
        <3>1. client'[c] = [phase |-> "refused"] /\ ~ Accepts(op, status[t])
            BY <1>4, <1>6, <2>1 DEF LocksInv, LocksTypeOK, TypeOK
        <3> QED BY <1>5, <1>6, <2>1, <3>1 DEF q
    <2>2. CASE d # c
        BY <1>6, <2>2 DEF LocksInv, IdleInv, Open
    <2> QED BY <2>1, <2>2
<1>10. LotInv'
    <2> SUFFICES ASSUME NEW d \in Clients, NEW l \in Lots
                 PROVE  taken[d][l] + Len(todo'[d]) <= 2 /\ Len(todo'[d]) - taken[d][l] <= 2
        BY <1>1 DEF LocksInv, LotInv, Stock
    <2>1. CASE d = c
        <3>1. taken[c][l] = 0 /\ Len(q) \in Nat
            BY <1>3, <1>5, LenProperties DEF NoChange
        <3> QED BY <1>3, <1>6, <2>1, <3>1
    <2>2. CASE d # c
        BY <1>6, <2>2 DEF LocksInv, LotInv
    <2> QED BY <2>1, <2>2
<1>11. FoundInv'
    BY <1>1, <1>5, <1>6 DEF LocksInv, FoundInv, Open, Current
<1> QED BY <1>7, <1>8, <1>9, <1>10, <1>11 DEF LocksRest

\* A client locks a row that nobody else has locked.
LEMMA HoldsGrow ==
    ASSUME LocksInv, NEW c \in Clients, Open(c), NEW r \in Rows, Free(r, c),
           holds' = [holds EXCEPT ![c] = @ \union {r}], UNCHANGED client
    PROVE  /\ holds' \in [Clients -> SUBSET Rows]
           /\ \A d, e \in Clients : d # e => holds'[d] \intersect holds'[e] = {}
           /\ \A d \in Clients : client'[d].phase # "read" => holds'[d] = {}
           /\ \A d \in Clients : holds[d] \subseteq holds'[d]
           /\ r \in holds'[c]
<1>1. /\ holds'[c] = holds[c] \union {r}
      /\ \A d \in Clients \ {c} : holds'[d] = holds[d] /\ r \notin holds[d]
    BY DEF LocksInv, LocksTypeOK, Free
<1>2. holds' \in [Clients -> SUBSET Rows]
    BY DEF LocksInv, LocksTypeOK
<1>3. ASSUME NEW d \in Clients, NEW e \in Clients, d # e
      PROVE  holds'[d] \intersect holds'[e] = {}
    <2>1. holds[d] \intersect holds[e] = {}
        BY <1>3 DEF LocksInv, LocksTypeOK
    <2> QED BY <1>1, <1>3, <2>1
<1>4. \A d \in Clients : client'[d].phase # "read" => holds'[d] = {}
    BY <1>1 DEF LocksInv, LocksTypeOK, Open
<1> QED BY <1>1, <1>2, <1>3, <1>4

\* An update moves from what is left to do to what is done.
LEMMA UpdateLocks ==
    ASSUME LocksInv, TypeOK', NEW c \in Clients, UpdateStock(c)
    PROVE  LocksTypeOK' /\ LocksRest'
<1> DEFINE u == Head(todo[c])
           k == u.lot
<1>1. /\ Open(c) /\ todo[c] # <<>> /\ Free(k, c) /\ Grants(c, u)
      /\ taken' = [taken EXCEPT ![c][k] = @ + u.by]
      /\ holds' = [holds EXCEPT ![c] = @ \union {k}]
      /\ todo' = [todo EXCEPT ![c] = Tail(@)]
      /\ UNCHANGED <<status, lot, avail, client, left, found, others>>
    BY DEF UpdateStock, vars
<1>2. /\ u \in StockUpdates /\ Tail(todo[c]) \in Seq(StockUpdates)
      /\ Len(Tail(todo[c])) = Len(todo[c]) - 1 /\ Len(todo[c]) \in 1 .. 2
      /\ \A l \in Lots : Due(todo[c], l) = (IF k = l THEN u.by ELSE 0)
                                           + Due(Tail(todo[c]), l)
    <2>1. todo[c] \in Seq(StockUpdates) /\ Len(todo[c]) <= 2
        BY DEF LocksInv, LocksTypeOK
    <2> QED BY <1>1, <2>1, DueFirst
<1>3. k \in Lots /\ u.by \in {-1, 1}
    BY <1>2 DEF StockUpdates
<1>4. /\ holds' \in [Clients -> SUBSET Rows]
      /\ \A d, e \in Clients : d # e => holds'[d] \intersect holds'[e] = {}
      /\ \A d \in Clients : client'[d].phase # "read" => holds'[d] = {}
      /\ \A d \in Clients : holds[d] \subseteq holds'[d]
      /\ k \in holds'[c]
    <2>1. k \in Rows /\ UNCHANGED client
        BY <1>1, <1>3 DEF Rows
    <2> HIDE DEF k
    <2> QED BY <1>1, <2>1, HoldsGrow
<1> HIDE DEF k, u
<1>5. \A d \in Clients : taken[d] \in [Lots -> -2 .. 2] /\ \A l \in Lots : taken[d][l] \in -2 .. 2
    BY DEF LocksInv, LocksTypeOK
<1>6. /\ todo'[c] = Tail(todo[c])
      /\ \A l \in Lots : taken'[c][l] = taken[c][l] + (IF k = l THEN u.by ELSE 0)
      /\ \A d \in Clients \ {c} : taken'[d] = taken[d] /\ todo'[d] = todo[d]
    <2>1. taken \in [Clients -> [Lots -> -2 .. 2]] /\ todo \in [Clients -> Seq(StockUpdates)]
        BY DEF LocksInv, LocksTypeOK
    <2>2. taken'[c] = [taken[c] EXCEPT ![k] = @ + u.by]
        BY <1>1, <2>1
    <2>3. ASSUME NEW l \in Lots
          PROVE  taken'[c][l] = taken[c][l] + (IF k = l THEN u.by ELSE 0)
        <3>1. taken'[c][l] = IF k = l THEN taken[c][l] + u.by ELSE taken[c][l]
            BY <1>5, <2>2
        <3>2. taken[c][l] \in -2 .. 2
            BY <1>5
        <3> QED BY <3>1, <3>2
    <2>4. \A d \in Clients \ {c} : taken'[d] = taken[d] /\ todo'[d] = todo[d]
        BY <1>1, <2>1
    <2>5. todo'[c] = Tail(todo[c])
        BY <1>1, <2>1
    <2> QED BY <2>3, <2>4, <2>5
<1>7. LotInv'
    <2> SUFFICES ASSUME NEW d \in Clients, NEW l \in Lots
                 PROVE  /\ taken'[d][l] # 0 => l \in holds'[d]
                        /\ avail[l] + taken'[d][l] >= 0
                        /\ taken'[d][l] + Len(todo'[d]) <= 2
                        /\ Len(todo'[d]) - taken'[d][l] <= 2
        BY <1>1 DEF LotInv, Stock
    <2>1. /\ taken[d][l] # 0 => l \in holds[d]
          /\ avail[l] + taken[d][l] >= 0
          /\ taken[d][l] + Len(todo[d]) <= 2
          /\ Len(todo[d]) - taken[d][l] <= 2
          /\ avail[l] \in Nat /\ taken[d][l] \in -2 .. 2
        BY <1>5 DEF LocksInv, LotInv, Stock, LocksTypeOK, TypeOK
    <2>2. CASE d = c /\ l = k
        <3>1. u.by = -1 => avail[l] + taken[d][l] > 0
            BY <1>1, <2>2 DEF Grants, Stock, k
        <3>2. taken'[d][l] = taken[d][l] + u.by
            BY <1>6, <2>2
        <3>3. Len(todo'[d]) = Len(todo[d]) - 1 /\ Len(todo[d]) \in 1 .. 2
            BY <1>2, <1>6, <2>2
        <3> DEFINE x == taken[d][l]
                   y == avail[l]
                   n == Len(todo[d])
                   b == u.by
        <3>4. /\ y + x >= 0 /\ x + n <= 2 /\ n - x <= 2
              /\ y \in Nat /\ x \in -2 .. 2 /\ n \in 1 .. 2 /\ b \in {-1, 1}
              /\ b = -1 => y + x > 0
            BY <1>3, <2>1, <3>1, <3>3
        <3>5. taken'[d][l] = x + b /\ Len(todo'[d]) = n - 1
            BY <3>2, <3>3
        <3> HIDE DEF x, y, n, b
        <3>6. y + (x + b) >= 0 /\ (x + b) + (n - 1) <= 2 /\ (n - 1) - (x + b) <= 2
            BY <3>4
        <3>7. l \in holds'[d]
            BY <1>4, <2>2
        <3> QED BY <3>5, <3>6, <3>7 DEF y
    <2>3. CASE d = c /\ l # k
        <3>1. taken'[d][l] = taken[d][l]
            BY <1>6, <2>1, <2>3
        <3>2. Len(todo'[d]) = Len(todo[d]) - 1 /\ Len(todo[d]) \in 1 .. 2
            BY <1>2, <1>6, <2>3
        <3> DEFINE x == taken[d][l]
                   n == Len(todo[d])
        <3>3. x + n <= 2 /\ n - x <= 2 /\ x \in -2 .. 2 /\ n \in 1 .. 2
            BY <2>1, <3>2
        <3> HIDE DEF x, n
        <3>4. x + (n - 1) <= 2 /\ (n - 1) - x <= 2
            BY <3>3
        <3> QED BY <1>4, <2>1, <3>1, <3>2, <3>4 DEF x, n
    <2>4. CASE d # c
        BY <1>4, <1>6, <2>1, <2>4
    <2> QED BY <2>2, <2>3, <2>4
<1>8. LocksTypeOK'
    <2>1. todo' \in [Clients -> Seq(StockUpdates)]
        BY <1>1, <1>2 DEF LocksInv, LocksTypeOK
    <2>2. ASSUME NEW d \in Clients PROVE Len(todo'[d]) <= 2
        <3>1. CASE d = c
            <4> DEFINE n == Len(todo[c])
            <4>1. Len(todo'[c]) = n - 1 /\ n \in 1 .. 2
                BY <1>2, <1>6
            <4> HIDE DEF n
            <4>2. n - 1 <= 2
                BY <4>1
            <4> QED BY <3>1, <4>1, <4>2
        <3>2. CASE d # c
            BY <1>6, <3>2 DEF LocksInv, LocksTypeOK
        <3> QED BY <3>1, <3>2
    <2>3. taken' \in [Clients -> [Lots -> -2 .. 2]]
        <3>1. ASSUME NEW l \in Lots PROVE taken[c][l] + (IF k = l THEN u.by ELSE 0) \in -2 .. 2
            <4>1. /\ taken[c][l] \in -2 .. 2 /\ taken[c][l] + Len(todo[c]) <= 2
                  /\ Len(todo[c]) - taken[c][l] <= 2
                BY <1>5 DEF LocksInv, LotInv
            <4> QED BY <1>2, <1>3, <4>1
        <3>2. taken[c][k] + u.by \in -2 .. 2
            BY <1>3, <3>1
        <3>3. taken \in [Clients -> [Lots -> -2 .. 2]]
            BY DEF LocksInv, LocksTypeOK
        <3> QED BY <1>1, <1>3, <3>2, <3>3
    <2> QED BY <1>1, <1>4, <2>1, <2>2, <2>3 DEF LocksInv, LocksTypeOK
<1>9. WorkInv'
    <2> SUFFICES ASSUME NEW d \in Clients, client[d].phase = "read", NEW l \in Lots
                 PROVE  taken'[d][l] + Due(todo'[d], l)
                            = Due(Statements(client[d].op, client[d].seen), l)
        BY <1>1 DEF WorkInv, Open
    <2>1. taken[d][l] + Due(todo[d], l) = Due(Statements(client[d].op, client[d].seen), l)
        BY DEF LocksInv, WorkInv, Open
    <2>2. CASE d = c
        <3>1. Due(Tail(todo[c]), l) \in Int
            <4> DEFINE q == Tail(todo[c])
            <4>1. \A i \in 1 .. Len(q) : q[i].by \in Int
                <5>1. \A i \in 1 .. Len(q) : q[i] \in StockUpdates
                    BY <1>2, ElementOfSeq
                <5> QED BY <5>1 DEF StockUpdates
            <4> HIDE DEF q
            <4>2. By(q, 1, l) \in Int /\ By(q, 2, l) \in Int
                BY <4>1 DEF By
            <4> QED BY <4>2 DEF Due, q
        <3>2. taken[c][l] \in Int /\ (IF k = l THEN u.by ELSE 0) \in Int
            BY <1>3, <1>5
        <3>3. taken'[c][l] + Due(Tail(todo[c]), l)
                = taken[c][l] + ((IF k = l THEN u.by ELSE 0) + Due(Tail(todo[c]), l))
            BY <1>6, <3>1, <3>2
        <3> QED BY <1>2, <1>6, <2>1, <2>2, <3>3
    <2>3. CASE d # c
        BY <1>6, <2>1, <2>3
    <2> QED BY <2>2, <2>3
<1>10. IdleInv'
    BY <1>1, <1>4, <1>6 DEF LocksInv, IdleInv, Open
<1>11. FoundInv'
    BY <1>1 DEF LocksInv, FoundInv, Open, Current
<1> QED BY <1>7, <1>8, <1>9, <1>10, <1>11 DEF LocksRest

\* The save looks at the row as it is.
LEMMA CompareLocks ==
    ASSUME LocksInv, TypeOK', NEW c \in Clients, Compare(c)
    PROVE  LocksTypeOK' /\ LocksRest'
<1> DEFINE t == client[c].ticket
<1>1. /\ Open(c) /\ found' = [found EXCEPT ![c] = Current(t)]
      /\ others' \in {others, others \union {c}}
      /\ UNCHANGED <<status, lot, avail, client, left, todo, taken, holds>>
    BY DEF Compare, vars
<1>2. t \in Tickets /\ status[t] # "NONE"
    BY <1>1, ColumnTypes DEF LocksInv, LocksTypeOK, ReadInv, Open
<1>3. Current(t) \in Row
    BY <1>2 DEF Current, Row, LocksInv, LocksTypeOK, TypeOK
<1> HIDE DEF t
<1>4. found'[c] = Current(t) /\ \A d \in Clients \ {c} : found'[d] = found[d]
    BY <1>1 DEF LocksInv, LocksTypeOK
<1>5. LocksTypeOK'
    BY <1>1, <1>3 DEF LocksInv, LocksTypeOK
<1>6. WorkInv' /\ LotInv'
    BY <1>1 DEF LocksInv, WorkInv, LotInv, Stock, Open
<1>7. IdleInv'
    BY <1>1, <1>4 DEF LocksInv, IdleInv, Open
<1>8. FoundInv'
    BY <1>1, <1>4 DEF LocksInv, FoundInv, Open, Current, t
<1> QED BY <1>5, <1>6, <1>7, <1>8 DEF LocksRest

\* The UPDATE of the ticket waits for its row.
LEMMA TicketLocked ==
    ASSUME LocksInv, TypeOK', NEW c \in Clients, LockTicket(c)
    PROVE  LocksTypeOK' /\ LocksRest'
<1> DEFINE t == client[c].ticket
<1>1. /\ Open(c) /\ Free(t, c)
      /\ holds' = [holds EXCEPT ![c] = @ \union {t}]
      /\ UNCHANGED <<status, lot, avail, client, left, todo, taken, found, others>>
    BY DEF LockTicket, Saving, vars
<1>2. t \in Rows
    BY <1>1, ColumnTypes DEF LocksInv, LocksTypeOK, ReadInv, Open, Rows
<1> HIDE DEF t
<1>3. /\ holds' \in [Clients -> SUBSET Rows]
      /\ \A d, e \in Clients : d # e => holds'[d] \intersect holds'[e] = {}
      /\ \A d \in Clients : client'[d].phase # "read" => holds'[d] = {}
      /\ \A d \in Clients : holds[d] \subseteq holds'[d]
    BY <1>1, <1>2, HoldsGrow
<1>4. LocksTypeOK'
    BY <1>1, <1>3 DEF LocksInv, LocksTypeOK
<1>5. WorkInv' /\ FoundInv'
    BY <1>1 DEF LocksInv, WorkInv, FoundInv, Open, Current
<1>6. LotInv'
    BY <1>1, <1>3 DEF LocksInv, LotInv, Stock
<1>7. IdleInv'
    BY <1>1, <1>3 DEF LocksInv, IdleInv, Open
<1> QED BY <1>4, <1>5, <1>6, <1>7 DEF LocksRest

LEMMA NextLocks == LocksInv /\ [LockNext]_lockVars => LocksInv'
<1> SUFFICES ASSUME LocksInv, [LockNext]_lockVars PROVE LocksInv'
    OBVIOUS
<1>1. TypeOK' /\ ReadInv'
    BY LockNextIsNext, NextTypes DEF LocksInv, LocksTypeOK
<1>2. LocksTypeOK' /\ LocksRest'
    <2>1. ASSUME NEW c \in Clients, NoSeat(c) \/ Fail(c) \/ DeadlockFound(c)
          PROVE  LocksTypeOK' /\ LocksRest'
        BY <1>1, <2>1, RefusedLocks DEF NoSeat, Fail, DeadlockFound
    <2>2. CASE UNCHANGED lockVars
        <3>1. UNCHANGED <<status, lot, avail, client, left, todo, taken, found, others, holds>>
            BY <2>2 DEF lockVars, vars, txnVars
        <3>2. LocksTypeOK'
            BY <1>1, <3>1 DEF LocksInv, LocksTypeOK
        <3> QED BY <3>1, <3>2
                DEF LocksInv, LocksRest, WorkInv, IdleInv, LotInv, FoundInv, Stock, Open, Current
    <2> QED BY <1>1, <2>1, <2>2, SoldLocks, ReadLocks, UpdateLocks, CompareLocks, TicketLocked,
               CommittedLocks DEF LockNext
<1> QED BY <1>1, <1>2 DEF LocksInv, LocksRest

LEMMA AlwaysLocks == LockSpec => []LocksInv
BY InitLocks, NextLocks, PTL DEF LockSpec

\* Two transactions never hold one row, and one that ended holds none
\* (UpdateTicketUseCase, DeleteTicketUseCase: commit, rollback and release).
THEOREM LocksTypeCorrect == LockSpec => []LocksTypeOK
<1>1. LocksInv => LocksTypeOK
    BY DEF LocksInv
<1> QED BY <1>1, AlwaysLocks, PTL

\* Statement by statement and with row locks, the requests do to the tickets and the
\* stock only what one step of Tickets may do, for any number of lots and clients.
THEOREM LocksImplementTickets == LockSpec => ImplementsTickets
<1>1. LockInit => Init
    BY DEF LockInit
<1> QED BY <1>1, AlwaysLocks, LockNextIsNext, PTL DEF LockSpec, Spec, ImplementsTickets

\* So what holds of the requests as steps holds of them as transactions: the stock
\* counts the tickets, and the event loses no seat.
THEOREM LocksKeepStock == OneThing /\ LockSpec => []LedgerExact /\ []NoSeatLost
<1>1. LockSpec => Spec
    BY LocksImplementTickets DEF ImplementsTickets
<1>2. ASSUME OneThing PROVE LockSpec => []LedgerExact /\ []NoSeatLost
    <2>1. Spec => []LedgerExact /\ []NoSeatLost
        BY <1>2, StockCountsTickets, EventLosesNoSeat
    <2> QED BY <1>1, <2>1
<1> QED BY <1>2

\* And the row of a ticket changes only as a request asks, or by one that was overtaken,
\* also while other requests wait for its lock or are aborted by a deadlock.
THEOREM LocksChangeWhatIsAsked == LockSpec => RowChangesAsked /\ InvalidEntryOvertaken
<1>1. LockSpec => Spec
    BY LocksImplementTickets DEF ImplementsTickets
<1> QED BY <1>1, ChangesAreAskedOrOvertaken, InvalidEntriesAreOvertaken
=============================================================================
