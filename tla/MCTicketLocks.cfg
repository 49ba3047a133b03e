\* Two clients whose requests overlap statement by statement, one ticket sold
\* and one issued by hand, two lots of one seat.
SPECIFICATION LockSpec

CONSTANTS
    a = a
    b = b
    Absent = Absent
    Tickets = {t1, t2}
    Posted = {t2}
    Lots <- TwoLots
    Capacity <- TwoCapacity
    Clients = {c1, c2}
    Bodies <- OneField
    MaxRequests = 3

INVARIANT LocksTypeOK
INVARIANT LedgerExact
INVARIANT NoSeatLost
PROPERTY ImplementsTickets
PROPERTY RequestsAnswered

CHECK_DEADLOCK FALSE
