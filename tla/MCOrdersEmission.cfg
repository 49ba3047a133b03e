\* One failing call, here the emission of the tickets, and the retry of its job.
SPECIFICATION FairSpec

CONSTANTS
    o1 = o1
    o2 = o2
    o3 = o3
    s1 = s1
    s2 = s2
    NoJob = NoJob
    Orders <- TwoOrders
    Qty <- TwoQty
    Total = 2
    Sweeps = {s1}
    BatchSize = 1
    MaxAttempts = 3
    MaxDeliveries = 1
    MaxFaults = 1
    MaxCrashes = 0

PROPERTY PaidEmitted

CHECK_DEADLOCK FALSE
