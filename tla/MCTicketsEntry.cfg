\* Two validations of one ticket overlap.
SPECIFICATION Spec

CONSTANTS
    a = a
    b = b
    Absent = Absent
    Tickets = {t1, t2}
    Posted = {}
    Lots <- TwoLots
    Capacity <- TwoCapacity
    Clients = {c1, c2}
    Bodies <- NoBody

PROPERTY AdmitsOnlyValid
