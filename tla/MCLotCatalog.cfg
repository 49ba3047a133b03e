\* Two buyers, a resizing, a deletion and a reader, the row lock granted in turn.
SPECIFICATION CatalogSpec

CONSTANTS
    b1 = b1
    b2 = b2
    Buyers <- TwoBuyers
    Qty <- TwoQty
    Editors = {e1}
    Deleters = {d1}
    Readers = {r1}
    Creator = creator
    Sizes = {2, 3}
    Nobody = Nobody
    Gone = Gone
    Empty = Empty

INVARIANT CatalogTypeOK
INVARIANT SoldIsHeld
INVARIANT LotStaleExplained
INVARIANT DeletedSoldLate
PROPERTY ImplementsLedger
PROPERTY WaitersServed

CHECK_DEADLOCK FALSE
