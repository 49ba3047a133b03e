--------------------------- MODULE SessionsProofs ---------------------------
(***************************************************************************)
(* Theorems about Sessions, for any users, requests and lifetimes.         *)
(***************************************************************************)
EXTENDS Sessions, TLAPS

USE LifeAssumption, NamesAssumption

\* What TypeOK needs of a request: it has a user once it is known and its old
\* token once it was found; only a finished login has a key.
RequestInv ==
    \A r \in Requests :
        /\ req[r].at \in InFlight => req[r].user \in Users
        /\ req[r].at = "found" => req[r].old \in Logins
        /\ req[r].at = "signed" => r \in Logins
        /\ r \in Logins /\ req[r].at = "done" => req[r].user \in Users
        /\ r \in Logins /\ tokenTtl[r] > 0 => req[r].at = "done"

IInv == TypeOK /\ RequestInv

LEMMA InitIInv == Init => IInv
BY DEF Init, IInv, TypeOK, RequestInv, Requests, InFlight

\* The clock: a lifetime stays in its range, and a key goes with its lifetime.
LEMMA LessRange ==
    ASSUME NEW n \in Nat, NEW m \in 0 .. n
    PROVE  Less(m) \in 0 .. n /\ (Less(m) > 0 => m > 1)
BY DEF Less

LEMMA KeyGoesWithItsLife ==
    ASSUME NEW i, NEW m \in Nat, i = None <=> m = 0
    PROVE  (IF m > 1 THEN i ELSE None) = None <=> Less(m) = 0
BY DEF Less

LEMMA TickKeepsIInv == ASSUME IInv, Tick PROVE IInv'
<1>1. tokenTtl' \in [Logins -> 0 .. Ttl] /\ \A k \in Logins : tokenTtl'[k] > 0 => tokenTtl[k] > 0
    <2>1. \A k \in Logins : tokenTtl[k] \in 0 .. Ttl
        BY DEF IInv, TypeOK
    <2>2. \A k \in Logins : Less(tokenTtl[k]) \in 0 .. Ttl
                           /\ (Less(tokenTtl[k]) > 0 => tokenTtl[k] > 1)
        BY <2>1, LessRange
    <2>3. tokenTtl' = [k \in Logins |-> Less(tokenTtl[k])]
        BY DEF Tick
    <2> QED BY <2>1, <2>2, <2>3
<1>2. indexTtl' \in [Users -> 0 .. Ttl]
    <2>1. \A u \in Users : Less(indexTtl[u]) \in 0 .. Ttl
        BY LessRange DEF IInv, TypeOK
    <2> QED BY <2>1 DEF Tick
<1>3. jwtTtl' \in [Logins -> 0 .. JwtLife]
    <2>1. \A k \in Logins : Less(jwtTtl[k]) \in 0 .. JwtLife
        BY LessRange DEF IInv, TypeOK
    <2> QED BY <2>1 DEF Tick
<1>4. index' \in [Users -> Logins \union {None}]
    BY DEF Tick, IInv, TypeOK
<1>5. \A u \in Users : index'[u] = None <=> indexTtl'[u] = 0
    <2> TAKE u \in Users
    <2>1. indexTtl[u] \in Nat /\ (index[u] = None <=> indexTtl[u] = 0)
        BY DEF IInv, TypeOK
    <2>2. (IF indexTtl[u] > 1 THEN index[u] ELSE None) = None <=> Less(indexTtl[u]) = 0
        BY <2>1, KeyGoesWithItsLife
    <2>3. /\ index'[u] = IF indexTtl[u] > 1 THEN index[u] ELSE None
          /\ indexTtl'[u] = Less(indexTtl[u])
        BY DEF Tick
    <2> QED BY <2>2, <2>3
<1>6. UNCHANGED <<req, deleted, met>>
    BY DEF Tick
<1>7. TypeOK'
    BY <1>1, <1>2, <1>3, <1>4, <1>5, <1>6 DEF IInv, TypeOK
<1>8. RequestInv'
    BY <1>1, <1>6 DEF IInv, RequestInv, Requests
<1> QED BY <1>7, <1>8 DEF IInv

LEMMA NextIInv == IInv /\ [Next]_vars => IInv'
<1> SUFFICES ASSUME IInv, [Next]_vars PROVE IInv'
    OBVIOUS
<1> USE DEF IInv, TypeOK, RequestInv, Requests, InFlight, keys, Goes, Less
<1>1. ASSUME NEW l \in Logins, NEW u \in Users, ValidateUser(l, u) PROVE IInv'
    <2>1. met' \subseteq Requests
        BY <1>1 DEF ValidateUser, Begin, Rivals
    <2>2. req' = [req EXCEPT ![l] = [at |-> "valid", user |-> u, token |-> l, old |-> None]]
        BY <1>1 DEF ValidateUser, Begin
    <2> QED BY <1>1, <2>1, <2>2 DEF ValidateUser
<1>2. ASSUME NEW x \in Logouts, NEW k \in Logins, AcceptLogout(x, k) PROVE IInv'
    <2>1. Owner(k) \in Users
        BY <1>2 DEF AcceptLogout, Accepts, Owner
    <2>2. met' \subseteq Requests
        BY <1>2 DEF AcceptLogout, Begin, Rivals
    <2>3. req' = [req EXCEPT ![x] = [at |-> "valid", user |-> Owner(k), token |-> k,
                                    old |-> None]]
        BY <1>2 DEF AcceptLogout, Begin
    <2>4. tokenTtl' = [tokenTtl EXCEPT ![k] = IF tokenTtl[k] > 0 THEN Ttl ELSE 0]
        BY <1>2 DEF AcceptLogout, GetSession
    <2> QED BY <1>2, <2>1, <2>2, <2>3, <2>4 DEF AcceptLogout
<1>3. ASSUME NEW k \in Logins, Authenticate(k) PROVE IInv'
    BY <1>3 DEF Authenticate, GetSession
<1>4. ASSUME NEW r \in Requests, ReadIndex(r) PROVE IInv'
    BY <1>4 DEF ReadIndex
<1>5. ASSUME NEW r \in Requests, DropPrevious(r) PROVE IInv'
    BY <1>5 DEF DropPrevious, DeleteKeys
<1>6. ASSUME NEW l \in Requests, SignJwt(l) PROVE IInv'
    BY <1>6 DEF SignJwt
<1>7. ASSUME NEW l \in Requests, FinishLogin(l) PROVE IInv'
    <2>1. l \in Logins /\ req[l].user \in Users
        BY <1>7 DEF FinishLogin
    <2>2. CreateSession(l, req[l].user) /\ req' = [req EXCEPT ![l].at = "done"]
        BY <1>7 DEF FinishLogin
    <2> QED BY <1>7, <2>1, <2>2 DEF FinishLogin, CreateSession
<1>8. ASSUME NEW x \in Requests, FinishLogout(x) PROVE IInv'
    BY <1>8 DEF FinishLogout
<1>9. ASSUME NEW r \in Requests, RequestFails(r) PROVE IInv'
    BY <1>9 DEF RequestFails
<1>10. ASSUME NEW u \in Users, DeleteUser(u) PROVE IInv'
    BY <1>10 DEF DeleteUser
<1>11. CASE Tick
    BY <1>11, TickKeepsIInv
<1>12. CASE UNCHANGED vars
    BY <1>12 DEF vars
<1> QED BY <1>1, <1>2, <1>3, <1>4, <1>5, <1>6, <1>7, <1>8, <1>9, <1>10, <1>11, <1>12
        DEF Next, RequestStep

LEMMA AlwaysIInv == Spec => []IInv
BY InitIInv, NextIInv, PTL DEF Spec

\* Every variable keeps its type; a user key goes together with its lifetime.
THEOREM SessionTypeCorrect == Spec => []TypeOK
<1>1. IInv => TypeOK
    BY DEF IInv
<1> QED BY <1>1, AlwaysIInv, PTL

-----------------------------------------------------------------------------
(* No session comes back *)

Ended(k) == req[k].at = "done" /\ ~ Usable(k)

\* A key is only set by a renewal that finds it or by a login that has not
\* answered yet, and a JWT is only signed before that.
LEMMA EndedStep == ASSUME IInv, [Next]_vars, NEW k \in Logins, Ended(k) PROVE ~ Usable(k)'
<1> USE DEF IInv, TypeOK, RequestInv, Ended, Usable, Requests, keys, Goes, InFlight
<1>1. ASSUME NEW l \in Logins, NEW u \in Users, ValidateUser(l, u) PROVE ~ Usable(k)'
    BY <1>1 DEF ValidateUser
<1>2. ASSUME NEW x \in Logouts, NEW l \in Logins, AcceptLogout(x, l) PROVE ~ Usable(k)'
    BY <1>2 DEF AcceptLogout, GetSession
<1>3. ASSUME NEW l \in Logins, Authenticate(l) PROVE ~ Usable(k)'
    BY <1>3 DEF Authenticate, GetSession
<1>4. ASSUME NEW r \in Requests, ReadIndex(r) PROVE ~ Usable(k)'
    BY <1>4 DEF ReadIndex
<1>5. ASSUME NEW r \in Requests, DropPrevious(r) PROVE ~ Usable(k)'
    BY <1>5 DEF DropPrevious, DeleteKeys
<1>6. ASSUME NEW l \in Requests, SignJwt(l) PROVE ~ Usable(k)'
    BY <1>6 DEF SignJwt
<1>7. ASSUME NEW l \in Requests, FinishLogin(l) PROVE ~ Usable(k)'
    BY <1>7 DEF FinishLogin, CreateSession
<1>8. ASSUME NEW x \in Requests, FinishLogout(x) PROVE ~ Usable(k)'
    BY <1>8 DEF FinishLogout
<1>9. ASSUME NEW r \in Requests, RequestFails(r) PROVE ~ Usable(k)'
    BY <1>9 DEF RequestFails
<1>10. ASSUME NEW u \in Users, DeleteUser(u) PROVE ~ Usable(k)'
    BY <1>10 DEF DeleteUser
<1>11. CASE Tick
    <2>1. tokenTtl'[k] = Less(tokenTtl[k]) /\ jwtTtl'[k] = Less(jwtTtl[k])
        BY <1>11 DEF Tick
    <2>2. tokenTtl[k] \in 0 .. Ttl /\ jwtTtl[k] \in 0 .. JwtLife
        OBVIOUS
    <2> QED BY <2>1, <2>2 DEF Less
<1>12. CASE UNCHANGED vars
    BY <1>12 DEF vars
<1> QED BY <1>1, <1>2, <1>3, <1>4, <1>5, <1>6, <1>7, <1>8, <1>9, <1>10, <1>11, <1>12
        DEF Next, RequestStep

\* A session that ended by a logout, a later login or its lifetime is never
\* accepted again, whatever requests and renewals are under way
\* (SessionService.getSession, createSession).
THEOREM NoSessionComesBack == Spec => EndedStaysEnded
<1>1. IInv /\ [Next]_vars
        => [\A k \in Logins : req[k].at = "done" /\ ~ Usable(k) => ~ Usable(k)']_vars
    BY EndedStep DEF Ended
<1> QED BY <1>1, AlwaysIInv, PTL DEF Spec, EndedStaysEnded

-----------------------------------------------------------------------------
(* The index leads to the fresh session *)

\* A session that was made undisturbed and is still young: what the index has
\* to lead to.
Sole(k) == k \notin met /\ req[k].at = "done" /\ Usable(k) /\ Fresh(k)

\* The index leads to it, and outlives its youth.
IndexLeads ==
    \A k \in Logins : Sole(k) =>
        /\ index[Owner(k)] = k
        /\ indexTtl[Owner(k)] >= Ttl - (JwtLife - jwtTtl[k])

\* Another request of the user can only be one that will end it.
OthersEndIt ==
    \A k \in Logins, r \in Requests :
        Sole(k) /\ r # k /\ req[r].at \in InFlight /\ req[r].user = Owner(k) =>
            /\ req[r].at \in {"valid", "found"}
            /\ req[r].at = "found" => req[r].old = k

\* Two requests of a user under way have met.
OverlapsAreMet ==
    \A r, s \in Requests :
        r # s /\ req[r].at \in InFlight /\ req[s].at \in InFlight /\ req[r].user = req[s].user
            => r \in met

\* A logout carries the token of a login that answered.
LogoutsHaveLogins ==
    \A x \in Logouts : req[x].at \in InFlight \union {"done"} =>
        /\ req[x].token \in Logins
        /\ req[req[x].token].at = "done"
        /\ req[x].user = Owner(req[x].token)

LogoutsEndIt == \A x \in Logouts : req[x].at = "done" => ~ Sole(req[x].token)

FreshInv ==
    /\ IInv
    /\ IndexLeads
    /\ OthersEndIt
    /\ OverlapsAreMet
    /\ LogoutsHaveLogins
    /\ LogoutsEndIt

LEMMA InitFreshInv == Init => FreshInv
<1> SUFFICES ASSUME Init PROVE FreshInv
    OBVIOUS
<1>1. \A r \in Requests : req[r].at = "new"
    BY DEF Init
<1> QED BY <1>1, InitIInv
        DEF FreshInv, IndexLeads, OthersEndIt, OverlapsAreMet, LogoutsHaveLogins, LogoutsEndIt,
            Sole, InFlight, Requests

\* A step starts one request, or every request goes on as the one it was.
Starts(r, u, k) ==
    /\ req[r].at = "new"
    /\ k = r \/ (r \in Logouts /\ Accepts(k) /\ u = Owner(k))
    /\ Begin(r, u, k)
    /\ \A l \in Logins : tokenTtl'[l] > 0 <=> tokenTtl[l] > 0
    /\ UNCHANGED <<index, indexTtl, jwtTtl>>

GoesOn(r) ==
    /\ req'[r].user = req[r].user
    /\ req'[r].token = req[r].token
    /\ req'[r].at \in InFlight => req[r].at \in InFlight
    /\ req'[r].at = "done" /\ req[r].at # "done" => req[r].at \in {"cleared", "signed"}
    /\ req[r].at = "done" => req'[r].at = "done"

LEMMA StartsOrGoesOn ==
    ASSUME IInv, [Next]_vars
    PROVE  \/ \E r \in Requests, u \in Users, k \in Logins : Starts(r, u, k)
           \/ met' = met /\ \A r \in Requests : GoesOn(r)
<1> USE DEF IInv, TypeOK, RequestInv, Requests, keys, Goes, InFlight, GoesOn
<1>1. ASSUME NEW l \in Logins, NEW u \in Users, ValidateUser(l, u) PROVE Starts(l, u, l)
    BY <1>1 DEF ValidateUser, Starts
<1>2. ASSUME NEW x \in Logouts, NEW k \in Logins, AcceptLogout(x, k)
      PROVE  Owner(k) \in Users /\ Starts(x, Owner(k), k)
    BY <1>2 DEF AcceptLogout, Accepts, GetSession, Owner, Starts
<1>3. ASSUME NEW r \in Requests, RequestStep(r) \/ RequestFails(r)
      PROVE  met' = met /\ \A s \in Requests : GoesOn(s)
    <2>1. CASE ReadIndex(r)
        BY <2>1 DEF ReadIndex
    <2>2. CASE DropPrevious(r)
        BY <2>2 DEF DropPrevious
    <2>3. CASE SignJwt(r)
        BY <2>3 DEF SignJwt
    <2>4. CASE FinishLogin(r) \/ FinishLogout(r)
        <3>1. /\ req[r].at \in {"signed", "cleared"} /\ met' = met
              /\ req' = [req EXCEPT ![r].at = "done"]
            BY <2>4 DEF FinishLogin, FinishLogout
        <3> QED BY <3>1
    <2>5. CASE RequestFails(r)
        BY <2>5 DEF RequestFails
    <2> QED BY <1>3, <2>1, <2>2, <2>3, <2>4, <2>5 DEF RequestStep
<1>4. ASSUME UNCHANGED <<req, met>> PROVE met' = met /\ \A s \in Requests : GoesOn(s)
    BY <1>4
<1> QED BY <1>1, <1>2, <1>3, <1>4 DEF Next, Authenticate, DeleteUser, Tick, vars

\* A session that is sole was sole, or its login answers in this step.
LEMMA SoleWasSole ==
    ASSUME IInv, [Next]_vars, NEW k \in Logins, Sole(k)', ~ Sole(k)
    PROVE  FinishLogin(k)
<1> USE DEF IInv, TypeOK, RequestInv, Requests, keys, Goes, InFlight
<1>1. req[k].at = "done" => Usable(k)
    BY EndedStep DEF Sole, Ended
<1>2. CASE req[k].at = "done"
    <2>1. Usable(k) /\ Usable(k)'
        BY <1>1, <1>2 DEF Sole
    <2>2. jwtTtl'[k] =< jwtTtl[k]
        <3>1. ASSUME Tick PROVE jwtTtl'[k] =< jwtTtl[k]
            BY <3>1 DEF Tick, Less
        <3>2. ASSUME NEW l \in Requests, SignJwt(l) PROVE jwtTtl'[k] =< jwtTtl[k]
            BY <3>2, <1>2 DEF SignJwt
        <3>3. CASE UNCHANGED jwtTtl
            BY <3>3
        <3> QED BY <3>1, <3>2, <3>3
                DEF Next, RequestStep, ValidateUser, AcceptLogout, Authenticate, ReadIndex,
                    DropPrevious, FinishLogin, FinishLogout, RequestFails, DeleteUser, vars
    <2>3. jwtTtl[k] \in Nat /\ jwtTtl'[k] \in Nat
        BY NextIInv
    <2>4. met \subseteq met'
        BY StartsOrGoesOn DEF Starts, Begin, Rivals
    <2>5. Fresh(k)
        BY <1>2, <2>2, <2>3, LifeAssumption DEF Sole, Fresh
    <2> QED BY <1>2, <2>1, <2>4, <2>5 DEF Sole
<1>3. CASE req[k].at # "done"
    <2>1. req'[k].at = "done"
        BY DEF Sole
    <2>2. ASSUME NEW r \in Requests, NEW u, NEW t, Begin(r, u, t) PROVE FALSE
        BY <1>3, <2>1, <2>2 DEF Begin
    <2>3. ASSUME NEW r \in Requests, RequestStep(r) \/ RequestFails(r) PROVE FinishLogin(k)
        <3>1. ASSUME ~ FinishLogin(r) PROVE FALSE
            BY <1>3, <2>1, <2>3, <3>1, NamesAssumption
            DEF RequestStep, ReadIndex, DropPrevious, SignJwt, FinishLogout, RequestFails
        <3> QED BY <1>3, <2>1, <3>1 DEF FinishLogin
    <2>4. ~ UNCHANGED req
        BY <1>3, <2>1
    <2> QED BY <2>2, <2>3, <2>4
            DEF Next, ValidateUser, AcceptLogout, Authenticate, DeleteUser, Tick, vars
<1> QED BY <1>2, <1>3

LEMMA OverlapsStep == ASSUME FreshInv, [Next]_vars PROVE OverlapsAreMet'
<1> USE DEF FreshInv, OverlapsAreMet
<1>1. ASSUME NEW n \in Requests, NEW u \in Users, NEW k \in Logins, Starts(n, u, k)
      PROVE  OverlapsAreMet'
    <2> SUFFICES ASSUME NEW r \in Requests, NEW s \in Requests, r # s,
                        req'[r].at \in InFlight, req'[s].at \in InFlight,
                        req'[r].user = req'[s].user
                 PROVE  r \in met'
        OBVIOUS
    <2>1. /\ req' = [req EXCEPT ![n] = [at |-> "valid", user |-> u, token |-> k, old |-> None]]
          /\ met' = IF Rivals(n, u) = {} THEN met ELSE met \union Rivals(n, u) \union {n}
        BY <1>1 DEF Starts, Begin
    <2>2. \A q \in Requests \ {n} : req'[q] = req[q]
        BY <2>1 DEF IInv, TypeOK
    <2>3. req'[n].user = u
        BY <2>1 DEF IInv, TypeOK
    <2>4. CASE r = n
        BY <2>1, <2>2, <2>3, <2>4 DEF Rivals
    <2>5. CASE s = n
        BY <2>1, <2>2, <2>3, <2>5 DEF Rivals
    <2>6. CASE r # n /\ s # n
        BY <2>1, <2>2, <2>6
    <2> QED BY <2>4, <2>5, <2>6
<1>2. ASSUME met' = met, \A r \in Requests : GoesOn(r) PROVE OverlapsAreMet'
    BY <1>2 DEF GoesOn
<1> QED BY <1>1, <1>2, StartsOrGoesOn

LEMMA LogoutsHaveStep == ASSUME FreshInv, [Next]_vars PROVE LogoutsHaveLogins'
<1> USE DEF FreshInv, LogoutsHaveLogins, Requests
<1>1. ASSUME NEW n \in Requests, NEW u \in Users, NEW k \in Logins, Starts(n, u, k)
      PROVE  LogoutsHaveLogins'
    <2>1. req' = [req EXCEPT ![n] = [at |-> "valid", user |-> u, token |-> k, old |-> None]]
        BY <1>1 DEF Starts, Begin
    <2>2. \A q \in Requests \ {n} : req'[q] = req[q]
        BY <2>1 DEF IInv, TypeOK
    <2>3. req'[n] = [at |-> "valid", user |-> u, token |-> k, old |-> None]
        BY <2>1 DEF IInv, TypeOK
    <2>4. req[n].at = "new"
        BY <1>1 DEF Starts
    <2>5. ASSUME n \in Logouts PROVE req[k].at = "done" /\ u = Owner(k)
        BY <1>1, <2>5 DEF Starts, Accepts, IInv, RequestInv
    <2> QED BY <2>2, <2>3, <2>4, <2>5 DEF Owner, InFlight
<1>2. ASSUME \A r \in Requests : GoesOn(r) PROVE LogoutsHaveLogins'
    BY <1>2 DEF GoesOn, Owner, InFlight
<1> QED BY <1>1, <1>2, StartsOrGoesOn

LEMMA LogoutsEndStep == ASSUME FreshInv, [Next]_vars PROVE LogoutsEndIt'
<1> SUFFICES ASSUME NEW x \in Logouts, req'[x].at = "done", Sole(req[x].token)'
             PROVE  FALSE
    BY DEF LogoutsEndIt
<1> DEFINE k == req[x].token
<1>1. req'[x].token = k /\ req[x].at \in {"done", "cleared", "signed"}
    <2>1. ASSUME NEW n \in Requests, NEW u \in Users, NEW t \in Logins, Starts(n, u, t)
          PROVE  req'[x] = req[x]
        BY <2>1 DEF Starts, Begin, FreshInv, IInv, TypeOK, Requests
    <2> QED BY <2>1, StartsOrGoesOn DEF FreshInv, GoesOn, Requests
<1>2. k \in Logins /\ req[k].at = "done" /\ req[x].user = Owner(k)
    BY <1>1 DEF FreshInv, LogoutsHaveLogins, InFlight
<1>3. Sole(k)
    <2>1. PICK t \in Logins : t = k
        BY <1>2
    <2>2. Sole(t)'
        BY <1>1, <2>1 DEF Sole, Usable, Fresh
    <2> QED BY <1>2, <2>1, <2>2, SoleWasSole DEF FreshInv, FinishLogin
<1>4. k # x
    BY <1>2, NamesAssumption
<1> QED BY <1>1, <1>2, <1>3, <1>4
        DEF FreshInv, OthersEndIt, LogoutsEndIt, InFlight, Requests

LEMMA IndexStep == ASSUME FreshInv, [Next]_vars PROVE IndexLeads'
<1> SUFFICES ASSUME NEW k \in Logins, Sole(k)'
             PROVE  /\ index'[Owner(k)'] = k
                    /\ indexTtl'[Owner(k)'] >= Ttl - (JwtLife - jwtTtl'[k])
    BY DEF IndexLeads
<1> USE DEF FreshInv, IInv, TypeOK, RequestInv, Requests, keys, Goes, InFlight
<1>0. IInv'
    BY NextIInv
<1>1. CASE FinishLogin(k)
    BY <1>0, <1>1, LifeAssumption DEF FinishLogin, CreateSession, Owner
<1>2. CASE Sole(k) /\ ~ FinishLogin(k)
    <2> DEFINE u == Owner(k)
    <2>1. /\ index[u] = k
          /\ indexTtl[u] >= Ttl - (JwtLife - jwtTtl[k])
          /\ u \in Users
          /\ req[k].at = "done"
        BY <1>2 DEF IndexLeads, Sole, Owner
    <2>2. Owner(k)' = u
        <3>1. ASSUME NEW n \in Requests, NEW w \in Users, NEW t \in Logins, Starts(n, w, t)
              PROVE  req'[k] = req[k]
            BY <2>1, <3>1 DEF Starts, Begin
        <3> QED BY <3>1, StartsOrGoesOn DEF GoesOn, Owner
    <2>3. CASE Tick
        <3>1. /\ jwtTtl'[k] = Less(jwtTtl[k])
              /\ indexTtl'[u] = Less(indexTtl[u])
              /\ index'[u] = IF indexTtl[u] > 1 THEN index[u] ELSE None
            BY <2>1, <2>3 DEF Tick
        <3>2. jwtTtl[k] > 0 /\ JwtLife - jwtTtl'[k] < Ttl
            BY <1>2 DEF Sole, Usable, Fresh
        <3>3. jwtTtl[k] \in Nat /\ indexTtl[u] \in Nat
            BY <2>1
        <3> QED BY <2>1, <2>2, <3>1, <3>2, <3>3, LifeAssumption DEF Less
    <2>4. CASE \E r \in Requests : DropPrevious(r)
        <3> PICK r \in Requests : DropPrevious(r)
            BY <2>4
        <3>1. req[r].user # u
            <4> SUFFICES ASSUME req[r].user = u PROVE FALSE
                OBVIOUS
            <4>1. r # k /\ req[r].at = "found"
                BY <2>1 DEF DropPrevious
            <4>2. req[r].old = k
                BY <1>2, <4>1 DEF OthersEndIt
            <4>3. tokenTtl'[k] = 0
                BY <4>2 DEF DropPrevious, DeleteKeys
            <4> QED BY <4>3 DEF Sole, Usable
        <3> QED BY <2>1, <2>2, <3>1 DEF DropPrevious, DeleteKeys
    <2>5. CASE \E r \in Requests : FinishLogin(r)
        <3> PICK r \in Requests : FinishLogin(r)
            BY <2>5
        <3>1. r # k /\ req[r].at = "signed"
            BY <1>2 DEF FinishLogin
        <3>2. req[r].user # u
            BY <1>2, <3>1 DEF OthersEndIt
        <3> QED BY <2>1, <2>2, <3>1, <3>2 DEF FinishLogin, CreateSession
    <2>6. CASE \E r \in Requests : SignJwt(r)
        BY <2>1, <2>2, <2>6 DEF SignJwt
    <2>7. CASE UNCHANGED <<index, indexTtl, jwtTtl>>
        BY <2>1, <2>2, <2>7
    <2> QED BY <2>3, <2>4, <2>5, <2>6, <2>7
            DEF Next, RequestStep, ValidateUser, AcceptLogout, Authenticate, ReadIndex,
                FinishLogout, RequestFails, DeleteUser, vars
<1> QED BY <1>1, <1>2, SoleWasSole

LEMMA OthersStep == ASSUME FreshInv, [Next]_vars PROVE OthersEndIt'
<1> SUFFICES ASSUME NEW k \in Logins, NEW r \in Requests, Sole(k)', r # k,
                    req'[r].at \in InFlight, req'[r].user = Owner(k)'
             PROVE  /\ req'[r].at \in {"valid", "found"}
                    /\ req'[r].at = "found" => req'[r].old = k
    BY DEF OthersEndIt
<1> USE DEF FreshInv, IInv, TypeOK, RequestInv, Requests, keys, Goes
<1>1. CASE \E n \in Requests, u \in Users, t \in Logins : Starts(n, u, t)
    <2> PICK n \in Requests, u \in Users, t \in Logins : Starts(n, u, t)
        BY <1>1
    <2>1. req' = [req EXCEPT ![n] = [at |-> "valid", user |-> u, token |-> t, old |-> None]]
          /\ req[n].at = "new"
        BY DEF Starts, Begin
    <2>2. ~ FinishLogin(k)
        <3>1. ASSUME FinishLogin(k) PROVE FALSE
            BY <2>1, <3>1 DEF FinishLogin
        <3> QED BY <3>1
    <2>3. Sole(k) /\ n # k
        BY <2>1, <2>2, SoleWasSole DEF Sole
    <2>4. CASE r = n
        BY <2>1, <2>4
    <2>5. CASE r # n
        <3>1. req'[r] = req[r] /\ req'[k] = req[k]
            BY <2>1, <2>3, <2>5
        <3> QED BY <2>3, <3>1 DEF OthersEndIt, Owner
    <2> QED BY <2>4, <2>5
<1>2. CASE met' = met /\ \A s \in Requests : GoesOn(s)
    <2>1. req[r].at \in InFlight /\ req[r].user = Owner(k)
        BY <1>2 DEF GoesOn, Owner
    <2>2. CASE FinishLogin(k)
        \* The two were under way together, so that k has met r.
        <3>1. req[k].at \in InFlight
            BY <2>2 DEF FinishLogin, InFlight
        <3>2. k \in met
            BY <2>1, <3>1 DEF OverlapsAreMet, Owner
        <3> QED BY <1>2, <3>2 DEF Sole
    <2>3. CASE Sole(k)
        <3>1. req[r].at \in {"valid", "found"} /\ (req[r].at = "found" => req[r].old = k)
            BY <2>1, <2>3 DEF OthersEndIt
        <3>2. index[req[r].user] = k
            BY <2>1, <2>3 DEF IndexLeads
        <3>3. req'[r] = req[r] \/ ReadIndex(r) \/ DropPrevious(r)
            <4>1. ASSUME NEW q \in Requests, RequestStep(q) \/ RequestFails(q), q # r
                  PROVE  req'[r] = req[r]
                BY <4>1 DEF RequestStep, ReadIndex, DropPrevious, SignJwt, FinishLogin,
                            FinishLogout, RequestFails
            <4>2. ASSUME RequestStep(r) \/ RequestFails(r)
                  PROVE  ReadIndex(r) \/ DropPrevious(r)
                BY <3>1, <4>2 DEF RequestStep, SignJwt, FinishLogin, FinishLogout,
                                  RequestFails, InFlight
            <4>3. ASSUME NEW q \in Requests, NEW u, NEW t, Begin(q, u, t), req[q].at = "new"
                  PROVE  req'[r] = req[r]
                BY <3>1, <4>3 DEF Begin
            <4> QED BY <4>1, <4>2, <4>3
                    DEF Next, ValidateUser, AcceptLogout, Authenticate, DeleteUser, Tick, vars
        <3>4. CASE ReadIndex(r)
            BY <3>2, <3>4, NamesAssumption DEF ReadIndex
        <3>5. CASE DropPrevious(r)
            <4>1. tokenTtl'[k] = 0
                BY <3>1, <3>5 DEF DropPrevious, DeleteKeys
            <4> QED BY <4>1 DEF Sole, Usable
        <3> QED BY <3>1, <3>3, <3>4, <3>5 DEF InFlight
    <2> QED BY <2>2, <2>3, SoleWasSole
<1> QED BY <1>1, <1>2, StartsOrGoesOn

LEMMA AlwaysFreshInv == Spec => []FreshInv
<1>1. FreshInv /\ [Next]_vars => FreshInv'
    BY NextIInv, IndexStep, OthersStep, OverlapsStep, LogoutsHaveStep, LogoutsEndStep
    DEF FreshInv
<1> QED BY <1>1, InitFreshInv, PTL DEF Spec

\* A second login of a user ends the first session, whatever else the user
\* does, as long as neither login overlapped another request of the user and
\* the session is young (LoginUseCase, invalidatePreviousSession).
THEOREM OnlyOneFreshSession == Spec => []OneFreshSession
<1>1. FreshInv => OneFreshSession
    BY DEF FreshInv, IndexLeads, Sole, Fresh, OneFreshSession
<1> QED BY <1>1, AlwaysFreshInv, PTL

\* A logout that answered has ended the session it came with, if no request
\* of the user overlapped that session's login and the session is young
\* (LogoutUseCase).
THEOREM LogoutEndsTheSession == Spec => []LogoutEndsFresh
<1>1. FreshInv => LogoutEndsFresh
    <2> SUFFICES ASSUME FreshInv, NEW x \in Logouts, req[x].at = "done",
                        req[x].token \notin met, Fresh(req[x].token)
                 PROVE  ~ Usable(req[x].token)
        BY DEF LogoutEndsFresh
    <2>1. req[req[x].token].at = "done"
        BY DEF FreshInv, LogoutsHaveLogins
    <2> QED BY <2>1 DEF FreshInv, LogoutsEndIt, Sole
<1> QED BY <1>1, AlwaysFreshInv, PTL
=============================================================================
