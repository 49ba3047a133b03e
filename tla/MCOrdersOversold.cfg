\* No failing call, no restart: a payment races the expiration of its order.
SPECIFICATION Spec

CONSTANTS
    o1 = o1
    o2 = o2
    o3 = o3
    s1 = s1
    s2 = s2
    NoJob = NoJob
    Orders <- ThreeOrders
    Qty <- ThreeQty
    Total = 1
    Sweeps = {s1}
    BatchSize = 1
    MaxAttempts = 2
    MaxDeliveries = 1
    MaxFaults = 0
    MaxCrashes = 0

INVARIANT NeverOversold

CHECK_DEADLOCK FALSE
