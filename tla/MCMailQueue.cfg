\* One call of two tickets, three attempts, two restarts.
SPECIFICATION FairSpec

CONSTANTS
    b1 = b1
    t1 = t1
    t2 = t2
    Batches = {b1}
    Tickets = {t1, t2}
    BatchOf <- OneBatch
    MaxAttempts = 3
    MaxCrashes = 2
    NoTicket = NoTicket

INVARIANT TypeOK
INVARIANT MailsBounded
INVARIANT CompletedIsMailed
PROPERTY TicketsSettle

CHECK_DEADLOCK FALSE
