\* Two PATCHes of one order of one seat, each with a status and with this lot or
\* another, among deletions, a sweep, a failing call and a restart.  EXPIRED, FAILED
\* and REFUNDED bodies do what CANCELLED ones do.
SPECIFICATION AdminFairSpec

CONSTANTS
    o1 = o1
    s1 = s1
    p1 = p1
    p2 = p2
    l1 = l1
    l2 = l2
    NoJob = NoJob
    Orders <- OneOrder
    Qty <- OneQty
    Total = 1
    Sweeps = {s1}
    BatchSize = 1
    MaxAttempts = 1
    MaxDeliveries = 1
    MaxFaults = 1
    MaxCrashes = 1
    Patches = {p1, p2}
    Quantities = {}
    Lots = {l1, l2}
    Lot = l1
    Statuses = {"PENDING", "PAID", "CANCELLED"}

INVARIANT AdminTypeOK
INVARIANT AdminStockNotLost
PROPERTY VisibleReservationsEnd

CHECK_DEADLOCK FALSE
