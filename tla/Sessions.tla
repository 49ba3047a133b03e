------------------------------ MODULE Sessions ------------------------------
(***************************************************************************)
(* Logins, logouts and the guard of every other request.                   *)
(*                                                                         *)
(* A session is two Redis keys: auth:token:<token> holds the JWT, and the  *)
(* index auth:user:<id> holds the user's token, so that the next login or  *)
(* a logout can find and delete it.  Both start with the same lifetime;    *)
(* each use renews the first and never the second.  The JWT has a life of  *)
(* its own.  One action is one awaited command (or MULTI) on Redis or one  *)
(* query; time passes between any two of them.  A login makes one token,   *)
(* and the token is named by its login.                                    *)
(***************************************************************************)
EXTENDS Naturals, FiniteSets

CONSTANTS
    Users,      \* rows of the table users
    Logins,     \* POST /auth/login requests, each naming its token
    Logouts,    \* POST /auth/logout requests
    Ttl,        \* SessionService.TTL, in ticks of the clock
    JwtLife,    \* JWT_EXPIRES_IN, in ticks of the clock
    None        \* no key, no user, no token

ASSUME LifeAssumption == Ttl \in Nat \ {0} /\ JwtLife \in Nat \ {0}
ASSUME NamesAssumption == Logins \cap Logouts = {} /\ None \notin Users \union Logins

VARIABLES
    tokenTtl,   \* tokenTtl[k] : what auth:token:k has left, 0 without the key
    index,      \* index[u] : the value of auth:user:u, or None
    indexTtl,   \* indexTtl[u] : what auth:user:u has left
    jwtTtl,     \* jwtTtl[k] : what the JWT of token k has left
    req,        \* req[r] : a login or logout as its handler sees it
    deleted,    \* users with deleted_at
    met         \* history: requests that overlapped another of their user

keys == <<tokenTtl, index, indexTtl>>
vars == <<tokenTtl, index, indexTtl, jwtTtl, req, deleted, met>>

Requests == Logins \union Logouts

\* "valid": the user is known; "found": the index was read; "cleared": the
\* old session is gone; "signed": the JWT is made.
InFlight == {"valid", "found", "cleared", "signed"}

TypeOK ==
    /\ tokenTtl \in [Logins -> 0 .. Ttl]
    /\ index \in [Users -> Logins \union {None}]
    /\ indexTtl \in [Users -> 0 .. Ttl]
    /\ \A u \in Users : index[u] = None <=> indexTtl[u] = 0
    /\ jwtTtl \in [Logins -> 0 .. JwtLife]
    /\ req \in [Requests -> [at : InFlight \union {"new", "done", "error"},
                             user : Users \union {None},
                             token : Logins \union {None},
                             old : Logins \union {None}]]
    /\ deleted \subseteq Users
    /\ met \subseteq Requests

Init ==
    /\ tokenTtl = [k \in Logins |-> 0]
    /\ index = [u \in Users |-> None]
    /\ indexTtl = [u \in Users |-> 0]
    /\ jwtTtl = [k \in Logins |-> 0]
    /\ req = [r \in Requests |-> [at |-> "new", user |-> None, token |-> None, old |-> None]]
    /\ deleted = {}
    /\ met = {}

Owner(k) == req[k].user

-----------------------------------------------------------------------------
(* SessionService *)

\* (bug) the key is written again, whether it is still there or not.
GetSessionSets(k) == tokenTtl' = [tokenTtl EXCEPT ![k] = Ttl]
\* MULTI GET EXPIRE: EXPIRE renews a key that exists and makes none.
GetSession(k) ==
    tokenTtl' = [tokenTtl EXCEPT ![k] = IF tokenTtl[k] > 0 THEN Ttl ELSE 0]

\* (bug) the user key is left to expire, or to be found by the next login.
ForgetIndexOnly(k, u) ==
    /\ tokenTtl' = tokenTtl
    /\ index' = [index EXCEPT ![u] = None]
    /\ indexTtl' = [indexTtl EXCEPT ![u] = 0]
\* DEL of the token that was read and of the user key, whatever it holds now.
DeleteKeys(k, u) ==
    /\ tokenTtl' = [tokenTtl EXCEPT ![k] = 0]
    /\ index' = [index EXCEPT ![u] = None]
    /\ indexTtl' = [indexTtl EXCEPT ![u] = 0]

\* (bug) the user key is not written.
CreateUnindexed(k, u) ==
    /\ tokenTtl' = [tokenTtl EXCEPT ![k] = Ttl]
    /\ UNCHANGED <<index, indexTtl>>
\* (bug) the user key is written without a lifetime.
CreateForever(k, u) ==
    /\ tokenTtl' = [tokenTtl EXCEPT ![k] = Ttl]
    /\ index' = [index EXCEPT ![u] = k]
    /\ UNCHANGED indexTtl
\* MULTI SET SET.
CreateSession(k, u) ==
    /\ tokenTtl' = [tokenTtl EXCEPT ![k] = Ttl]
    /\ index' = [index EXCEPT ![u] = k]
    /\ indexTtl' = [indexTtl EXCEPT ![u] = Ttl]

\* What the guard lets pass: the key is there and the JWT verifies.
\* (bug) the expiry of the JWT is not looked at.
AcceptsAnyJwt(k) == tokenTtl[k] > 0
Accepts(k) == tokenTtl[k] > 0 /\ jwtTtl[k] > 0

-----------------------------------------------------------------------------
(* Requests *)

Rivals(r, u) == {s \in Requests \ {r} : req[s].at \in InFlight /\ req[s].user = u}

\* Request r of user u starts.
Begin(r, u, k) ==
    /\ req' = [req EXCEPT ![r] = [at |-> "valid", user |-> u, token |-> k, old |-> None]]
    /\ met' = IF Rivals(r, u) = {} THEN met ELSE met \union Rivals(r, u) \union {r}

Goes(r, at) == req' = [req EXCEPT ![r].at = at]

\* POST /auth/login: the user is found by e-mail and the password matches.
ValidateUser(l, u) ==
    /\ req[l].at = "new"
    /\ u \notin deleted
    /\ Begin(l, u, l)
    /\ UNCHANGED <<keys, jwtTtl, deleted>>

\* POST /auth/logout behind the guard, with the token of session k.
AcceptLogout(x, k) ==
    /\ req[x].at = "new"
    /\ Accepts(k)
    /\ GetSession(k)
    /\ Begin(x, Owner(k), k)
    /\ UNCHANGED <<index, indexTtl, jwtTtl, deleted>>

\* Any other request with the token of session k; a refused one renews, too.
Authenticate(k) ==
    /\ req[k].at = "done"
    /\ GetSession(k)
    /\ UNCHANGED <<index, indexTtl, jwtTtl, req, deleted, met>>

\* invalidatePreviousSession, its GET: without a token it is over.
ReadIndex(r) ==
    /\ req[r].at = "valid"
    /\ req' = [req EXCEPT ![r].at = IF index[req[r].user] = None THEN "cleared" ELSE "found",
                          ![r].old = index[req[r].user]]
    /\ UNCHANGED <<keys, jwtTtl, deleted, met>>

\* invalidatePreviousSession, its DEL.
DropPrevious(r) ==
    /\ req[r].at = "found"
    /\ DeleteKeys(req[r].old, req[r].user)
    /\ Goes(r, "cleared")
    /\ UNCHANGED <<jwtTtl, deleted, met>>

\* signAsync.
SignJwt(l) ==
    /\ l \in Logins
    /\ req[l].at = "cleared"
    /\ jwtTtl' = [jwtTtl EXCEPT ![l] = JwtLife]
    /\ Goes(l, "signed")
    /\ UNCHANGED <<keys, deleted, met>>

FinishLogin(l) ==
    /\ req[l].at = "signed"
    /\ CreateSession(l, req[l].user)
    /\ Goes(l, "done")
    /\ UNCHANGED <<jwtTtl, deleted, met>>

FinishLogout(x) ==
    /\ x \in Logouts
    /\ req[x].at = "cleared"
    /\ Goes(x, "done")
    /\ UNCHANGED <<keys, jwtTtl, deleted, met>>

\* A command fails or the process restarts: the keys stay as they are.
RequestFails(r) ==
    /\ req[r].at \in InFlight
    /\ Goes(r, "error")
    /\ UNCHANGED <<keys, jwtTtl, deleted, met>>

-----------------------------------------------------------------------------

\* DELETE /users/:id, a soft delete; the sessions stay.
DeleteUser(u) ==
    /\ u \notin deleted
    /\ deleted' = deleted \union {u}
    /\ UNCHANGED <<keys, jwtTtl, req, met>>

Less(n) == IF n = 0 THEN 0 ELSE n - 1

\* A key whose lifetime is over is gone.
Tick ==
    /\ tokenTtl' = [k \in Logins |-> Less(tokenTtl[k])]
    /\ indexTtl' = [u \in Users |-> Less(indexTtl[u])]
    /\ index' = [u \in Users |-> IF indexTtl[u] > 1 THEN index[u] ELSE None]
    /\ jwtTtl' = [k \in Logins |-> Less(jwtTtl[k])]
    /\ UNCHANGED <<req, deleted, met>>

RequestStep(r) ==
    \/ ReadIndex(r) \/ DropPrevious(r)
    \/ SignJwt(r) \/ FinishLogin(r) \/ FinishLogout(r)

Next ==
    \/ \E l \in Logins, u \in Users : ValidateUser(l, u)
    \/ \E x \in Logouts, k \in Logins : AcceptLogout(x, k)
    \/ \E k \in Logins : Authenticate(k)
    \/ \E r \in Requests : RequestStep(r) \/ RequestFails(r)
    \/ \E u \in Users : DeleteUser(u)
    \/ Tick

\* Handlers go on and time passes.
Fairness == WF_vars(Tick) /\ \A r \in Requests : WF_vars(RequestStep(r))

Spec == Init /\ [][Next]_vars
FairSpec == Spec /\ Fairness

-----------------------------------------------------------------------------
(* Properties *)

Usable(k) == tokenTtl[k] > 0 /\ jwtTtl[k] > 0

\* A session younger than the lifetime of its keys.
Fresh(k) == req[k].at = "done" /\ JwtLife - jwtTtl[k] < Ttl

\* A user has one fresh session: a second login ends the first, unless the
\* two overlapped each other or another request of the user (LoginUseCase,
\* invalidatePreviousSession and createSession together, while keys expire).
OneFreshSession ==
    \A k, l \in Logins \ met :
        k # l /\ Fresh(k) /\ Fresh(l) /\ Owner(k) = Owner(l)
            => ~ (Usable(k) /\ Usable(l))

\* A logout ends the session it came with, if that is fresh and no request of
\* the user overlapped its login, whatever overlaps the logout (LogoutUseCase,
\* which looks the token up again in the index instead of taking the one of
\* the request).
LogoutEndsFresh ==
    \A x \in Logouts :
        req[x].at = "done" /\ req[x].token \notin met /\ Fresh(req[x].token)
            => ~ Usable(req[x].token)

\* A session that ended never works again: no renewal that was under way
\* brings a deleted or expired token back (SessionService.getSession).
EndedStaysEnded ==
    [][\A k \in Logins : req[k].at = "done" /\ ~ Usable(k) => ~ Usable(k)']_vars

\* A deleted user is locked out in the end, for good, even when the sessions
\* are in use all the time and a login was under way (the JWT of JwtAuthGuard
\* ends what the renewals of getSession would prolong for ever).
DeletedLockedOut ==
    \A u \in Users :
        u \in deleted ~> [](\A k \in Logins : Owner(k) = u => ~ Accepts(k))
=============================================================================
