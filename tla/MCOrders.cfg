\* Duplicate webhooks, a failing call, a restart and two sweeps in batches of one that overlap.
SPECIFICATION FairSpec

CONSTANTS
    o1 = o1
    o2 = o2
    o3 = o3
    s1 = s1
    s2 = s2
    NoJob = NoJob
    Orders <- TwoOrders
    Qty <- TwoQty
    Total = 2
    Sweeps = {s1, s2}
    BatchSize = 1
    MaxAttempts = 2
    MaxDeliveries = 2
    MaxFaults = 1
    MaxCrashes = 1

INVARIANT TypeOK
INVARIANT StockNotLost
INVARIANT TicketsOnce
PROPERTY PaidIsFinal
PROPERTY ImplementsSale
PROPERTY ReservationsEnd
PROPERTY JobsSettle

CHECK_DEADLOCK FALSE
