\* Two logins of two users and a logout, the token key renewed at will.
SPECIFICATION FairSpec

CONSTANTS
    Users = {u1, u2}
    Logins = {l1, l2}
    Logouts = {x1}
    Ttl = 2
    JwtLife = 3
    None = None

INVARIANT TypeOK
INVARIANT OneFreshSession
INVARIANT LogoutEndsFresh
PROPERTY EndedStaysEnded
PROPERTY DeletedLockedOut
