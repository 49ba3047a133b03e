\* Three accounts and a fourth to come, two clients, a reader of pages of one or two.
SPECIFICATION DenseSpec

CONSTANTS
    u1 = u1
    u2 = u2
    u3 = u3
    u4 = u4
    e1 = e1
    e2 = e2
    e3 = e3
    e4 = e4
    c1 = c1
    c2 = c2
    Users <- FourUsers
    Seeded <- ThreeUsers
    Emails <- FourEmails
    Clients <- TwoClients
    Absent = Absent
    Empty = Empty
    MaxLimit = 2
    MaxRequests = 3

SYMMETRY Alike

INVARIANT PagesTypeOK
INVARIANT OneAccountPerEmail
INVARIANT MissedPerDeletion
PROPERTY ChangesAsked

CHECK_DEADLOCK FALSE
