---------------------------- MODULE UsersProofs ----------------------------
(***************************************************************************)
(* Theorems about Users and UserPages, for any accounts, any e-mails, any  *)
(* number of clients and any size of pages.                                *)
(***************************************************************************)
EXTENDS UserPages, TLAPS, FiniteSetTheorems

USE UsersAssumption

-----------------------------------------------------------------------------
(* Types *)

\* A request a client has open is one of the four kinds, and becomes one of them.
LEMMA WrittenTypes ==
    ASSUME TypeOK, NEW c \in Clients, NEW u \in Users, Written(c, u)
    PROVE  request' \in [Clients -> Requests]
<1>1. ASSUME NEW d \in Clients PROVE request'[d] \in Requests
    <2>1. request[d] \in Requests
        BY DEF TypeOK
    <2>2. CASE d = c
        BY <2>2 DEF Written, Requests
    <2>3. CASE /\ d # c /\ request[d].at \in {"read", "compared"}
               /\ request[d].user = u
        <3>1. request'[d] = [request[d] EXCEPT !.overtaken = TRUE]
            BY <2>3 DEF Written
        <3>2. CASE request[d].at = "read"
            BY <3>1, <3>2, <2>1 DEF Requests
        <3>3. CASE request[d].at = "compared"
            BY <3>1, <3>3, <2>1 DEF Requests
        <3> QED BY <2>3, <3>2, <3>3
    <2>4. CASE ~(d = c) /\ ~(/\ d # c /\ request[d].at \in {"read", "compared"}
                             /\ request[d].user = u)
        <3>1. request'[d] = request[d]
            BY <2>4 DEF Written
        <3> QED BY <3>1, <2>1
    <2> QED BY <2>2, <2>3, <2>4
<1> QED BY <1>1 DEF Written

\* A client's request may become any request.
LEMMA GoesTypes ==
    ASSUME TypeOK, NEW c \in Clients, NEW r \in Requests, Goes(c, r)
    PROVE  request' \in [Clients -> Requests]
BY DEF TypeOK, Goes

\* An answer changes no row and keeps the requests of the others.
LEMMA AnswerTypes ==
    ASSUME TypeOK, RequestInv, NEW c \in Clients, Answer(c)
    PROVE  TypeOK' /\ RequestInv'
<1>1. [at |-> "answered"] \in Requests
    BY DEF Requests
<1>2. request' \in [Clients -> Requests]
    BY <1>1, GoesTypes DEF Answer
<1>3. RequestInv'
    BY DEF TypeOK, RequestInv, Answer, Goes, rows, Rows
<1> QED BY <1>2, <1>3 DEF TypeOK, Answer, rows, Rows

\* Requests stay on existing rows when a row is written.
LEMMA WrittenOpen ==
    ASSUME TypeOK, RequestInv, NEW c \in Clients, NEW u \in Users, Written(c, u),
           Rows \subseteq Rows'
    PROVE  RequestInv'
<1>1. ASSUME NEW d \in Clients, request'[d].at \in {"read", "compared"}
      PROVE  request'[d].user \in Rows'
    <2>1. request[d] \in Requests
        BY DEF TypeOK
    <2>2. CASE d = c
        BY <1>1, <2>2 DEF Written
    <2>3. CASE /\ d # c /\ request[d].at \in {"read", "compared"}
               /\ request[d].user = u
        <3>1. request'[d] = [request[d] EXCEPT !.overtaken = TRUE]
            BY <2>3 DEF Written
        <3>2. request'[d].user = request[d].user
            BY <3>1, <2>1, <2>3 DEF Requests
        <3> QED BY <3>2, <2>3 DEF RequestInv
    <2>4. CASE ~(d = c) /\ ~(/\ d # c /\ request[d].at \in {"read", "compared"}
                             /\ request[d].user = u)
        <3>1. request'[d] = request[d]
            BY <2>4 DEF Written
        <3> QED BY <1>1, <3>1 DEF RequestInv
    <2> QED BY <2>2, <2>3, <2>4
<1> QED BY <1>1 DEF RequestInv

\* A request that goes on without writing, and works on an existing row if on any.
LEMMA GoesOpen ==
    ASSUME TypeOK, RequestInv, NEW c \in Clients, NEW r, Goes(c, r), UNCHANGED rows,
           r.at \in {"read", "compared"} => r.user \in Rows
    PROVE  RequestInv'
BY DEF TypeOK, RequestInv, Goes, rows, Rows

\* Every step of a client keeps the types, and requests on existing rows.
LEMMA StepTypes ==
    ASSUME TypeOK, RequestInv, NEW c \in Clients, Step(c)
    PROVE  TypeOK' /\ RequestInv'
<1>r. request[c] \in Requests /\ clock \in Nat
    BY DEF TypeOK
<1>1. ASSUME NEW e \in Emails, Post(c, e) PROVE TypeOK' /\ RequestInv'
    <2> DEFINE r == [at |-> "hashing", email |-> e]
    <2>1. r \in Requests
        BY DEF Requests
    <2>2. request' \in [Clients -> Requests]
        BY <1>1, <2>1, GoesTypes DEF Post
    <2>3. RequestInv'
        BY <1>1, GoesOpen DEF Post
    <2> QED BY <1>1, <2>2, <2>3 DEF TypeOK, Post, rows, Rows
<1>2. ASSUME BeginInsert(c) PROVE TypeOK' /\ RequestInv'
    <2> DEFINE r == [at |-> "inserting", email |-> request[c].email, stamp |-> clock']
    <2>1. request[c].email \in Emails /\ clock' \in Nat
        BY <1>2, <1>r DEF BeginInsert, Requests
    <2>2. r \in Requests
        BY <2>1 DEF Requests
    <2>3. request' \in [Clients -> Requests]
        BY <1>2, <2>2, GoesTypes DEF BeginInsert
    <2>4. RequestInv'
        BY <1>2, GoesOpen DEF BeginInsert
    <2> QED BY <1>2, <2>1, <2>3, <2>4 DEF TypeOK, BeginInsert, rows, Rows
<1>3. ASSUME NEW u \in Users, Insert(c, u) PROVE TypeOK' /\ RequestInv'
    <2>1. request[c].email \in Emails /\ request[c].stamp \in Nat
        BY <1>3, <1>r DEF Insert, Requests
    <2>2. request' \in [Clients -> Requests]
        BY <1>3, WrittenTypes DEF Insert
    <2>3. Rows \subseteq Rows'
        BY <1>3, <2>1 DEF TypeOK, Insert, Rows
    <2>4. RequestInv'
        BY <1>3, <2>3, WrittenOpen DEF Insert
    <2> QED BY <1>3, <2>1, <2>2, <2>3, <2>4 DEF TypeOK, Insert
<1>4. ASSUME NEW u \in Users, NEW body \in Bodies, Read(c, u, body)
      PROVE  TypeOK' /\ RequestInv'
    <2>1. CASE FindById(u) /\ body # Empty
        <3> DEFINE r == [at |-> "read", user |-> u, body |-> body, seen |-> email[u],
                         overtaken |-> FALSE]
        <3>1. email[u] \in Emails /\ u \in Rows
            BY <2>1 DEF FindById, Active, Rows, TypeOK
        <3>2. r \in Requests
            BY <2>1, <3>1 DEF Requests, Bodies
        <3>3. request' \in [Clients -> Requests]
            BY <1>4, <2>1, <3>2, GoesTypes DEF Read
        <3>4. RequestInv'
            BY <1>4, <2>1, <3>1, GoesOpen DEF Read, rows
        <3> QED BY <1>4, <2>1, <3>3, <3>4 DEF TypeOK, Read, rows, Rows
    <2>2. CASE ~(FindById(u) /\ body # Empty)
        BY <1>4, <2>2, AnswerTypes DEF Read
    <2> QED BY <2>1, <2>2
<1>5. ASSUME Compare(c) PROVE TypeOK' /\ RequestInv'
    <2> DEFINE old == request[c]
               r == [at |-> "compared", user |-> old.user, body |-> old.body,
                     seen |-> old.seen, overtaken |-> old.overtaken,
                     found |-> email[old.user], gone |-> old.user \in deleted]
    <2>1. /\ old.user \in Users /\ old.body \in Emails \union {Absent}
          /\ old.seen \in Emails /\ old.overtaken \in BOOLEAN
        BY <1>5, <1>r DEF Compare, Requests
    <2>2. old.user \in Rows
        BY <1>5 DEF Compare, RequestInv
    <2>3. email[old.user] \in Emails
        BY <2>1, <2>2 DEF TypeOK, Rows
    <2>4. r \in Requests
        BY <2>1, <2>3 DEF Requests
    <2>5. request' \in [Clients -> Requests]
        BY <1>5, <2>4, GoesTypes DEF Compare
    <2>6. RequestInv'
        BY <1>5, <2>2, GoesOpen DEF Compare
    <2> QED BY <1>5, <2>5, <2>6 DEF TypeOK, Compare, rows, Rows
<1>6. ASSUME Write(c) PROVE TypeOK' /\ RequestInv'
    <2> DEFINE r == request[c]
    <2>1. /\ r.user \in Users /\ r.body \in Emails \union {Absent}
          /\ r.seen \in Emails /\ r.found \in Emails
        BY <1>6, <1>r DEF Write, Requests
    <2>2. r.user \in Rows
        BY <1>6 DEF Write, RequestInv
    <2>3. NewEmail(r) \in Emails
        BY <2>1, <2>2 DEF NewEmail, Wished, TypeOK, Rows
    <2>4. Rows' = Rows
        BY <1>6, <2>1, <2>2, <2>3 DEF Write, Rows, TypeOK
    <2>5. deleted' \subseteq Rows
        BY <1>6 DEF Write, NewDeleted, TypeOK
    <2>6. request' \in [Clients -> Requests]
        BY <1>6, <2>1, WrittenTypes DEF Write
    <2>7. RequestInv'
        BY <1>6, <2>1, <2>4, WrittenOpen DEF Write
    <2> QED BY <1>6, <2>1, <2>3, <2>4, <2>5, <2>6, <2>7 DEF TypeOK, Write
<1>7. ASSUME NEW u \in Users, SoftDelete(c, u) PROVE TypeOK' /\ RequestInv'
    <2>1. request' \in [Clients -> Requests]
        BY <1>7, WrittenTypes DEF SoftDelete
    <2>2. Rows' = Rows
        BY <1>7 DEF SoftDelete, Rows
    <2>3. RequestInv'
        BY <1>7, <2>2, WrittenOpen DEF SoftDelete
    <2> QED BY <1>7, <2>1, <2>2, <2>3 DEF TypeOK, SoftDelete
<1>8. ASSUME Answer(c) PROVE TypeOK' /\ RequestInv'
    BY <1>8, AnswerTypes
<1> QED
    BY <1>1, <1>2, <1>3, <1>4, <1>5, <1>6, <1>7, <1>8
       DEF Step, InsertConflict, WriteConflict, DeleteMissing, Fail

\* The initial states have the declared types.
LEMMA InitTypes == Init => TypeOK /\ RequestInv
<1> SUFFICES ASSUME Init PROVE TypeOK /\ RequestInv
    OBVIOUS
<1>1. Cardinality(Seeded) \in Nat
    <2>1. IsFiniteSet(Seeded)
        BY ClientsAssumption, FS_Subset
    <2> QED BY <2>1, FS_CardinalityType
<1>2. stamp \in [Users -> Nat]
    BY <1>1 DEF Init
<1>3. request \in [Clients -> Requests]
    BY DEF Init, Requests
<1> QED BY <1>1, <1>2, <1>3 DEF Init, TypeOK, RequestInv

\* Every variable keeps its type, and an open PATCH works on an existing row.
THEOREM TypeCorrect == Spec => [](TypeOK /\ RequestInv)
<1>1. TypeOK /\ RequestInv /\ [Next]_vars => TypeOK' /\ RequestInv'
    <2> SUFFICES ASSUME TypeOK, RequestInv, [Next]_vars PROVE TypeOK' /\ RequestInv'
        OBVIOUS
    <2>1. CASE Next
        BY <2>1, StepTypes DEF Next
    <2>2. CASE UNCHANGED vars
        BY <2>2 DEF vars, rows, TypeOK, RequestInv, Rows
    <2> QED BY <2>1, <2>2
<1> QED BY <1>1, InitTypes, PTL DEF Spec

-----------------------------------------------------------------------------
(* One account per e-mail *)

LEMMA StepUnique ==
    ASSUME TypeOK, RequestInv, OneAccountPerEmail, NEW c \in Clients, Step(c)
    PROVE  OneAccountPerEmail'
<1>1. ASSUME NEW u \in Users, Insert(c, u) PROVE OneAccountPerEmail'
    <2>1. Active' \subseteq Active \union {u}
        BY <1>1 DEF Insert, Active, Rows, TypeOK
    <2>2. \A v \in Active : v # u /\ email'[v] = email[v]
        BY <1>1 DEF Insert, Active, Rows, TypeOK
    <2>3. email'[u] = request[c].email /\ \A v \in Active : email[v] # request[c].email
        BY <1>1, <2>2 DEF Insert, Taken, TypeOK
    <2> QED BY <2>1, <2>2, <2>3 DEF OneAccountPerEmail
<1>2. ASSUME Write(c) PROVE OneAccountPerEmail'
    <2> DEFINE u == request[c].user
    <2>1. u \in Users
        BY <1>2 DEF Write, RequestInv, Rows
    <2>2. Active' \subseteq Active \union {u}
        BY <1>2, <2>1 DEF Write, NewDeleted, Active, Rows, TypeOK
    <2>3. \A v \in Active \ {u} : email'[v] = email[v]
        BY <1>2 DEF Write, Active, Rows, TypeOK
    <2>4. u \in Active' => \A v \in Active \ {u} : email[v] # email'[u]
        BY <1>2, <2>1 DEF Write, Taken, Active, TypeOK
    <2> QED BY <2>2, <2>3, <2>4 DEF OneAccountPerEmail
<1>3. ASSUME NEW u \in Users, SoftDelete(c, u) PROVE OneAccountPerEmail'
    BY <1>3 DEF SoftDelete, OneAccountPerEmail, Active, Rows
<1>4. ASSUME UNCHANGED rows PROVE OneAccountPerEmail'
    BY <1>4 DEF rows, OneAccountPerEmail, Active, Rows
<1> QED
    BY <1>1, <1>2, <1>3, <1>4
       DEF Step, Post, BeginInsert, InsertConflict, Read, Compare, WriteConflict,
           DeleteMissing, Fail, Answer

\* An e-mail leads to at most one account, whatever requests overlap.
THEOREM EmailsAreUnique == Spec => []OneAccountPerEmail
<1>1. Init => OneAccountPerEmail
    BY DEF Init, OneAccountPerEmail, Active, Rows
<1>2. TypeOK /\ RequestInv /\ OneAccountPerEmail /\ [Next]_vars => OneAccountPerEmail'
    <2>1. TypeOK /\ RequestInv /\ OneAccountPerEmail /\ Next => OneAccountPerEmail'
        BY StepUnique DEF Next
    <2>2. OneAccountPerEmail /\ UNCHANGED vars => OneAccountPerEmail'
        BY DEF vars, rows, OneAccountPerEmail, Active, Rows
    <2> QED BY <2>1, <2>2
<1> QED BY <1>1, <1>2, TypeCorrect, PTL DEF Spec

-----------------------------------------------------------------------------
(* Changes are asked for *)

\* A write of row u leaves requests that it does not overtake where they are.
LEMMA WrittenCurrent ==
    ASSUME TypeOK, RequestInv, CurrentInv, NEW c \in Clients, NEW u \in Users, Written(c, u),
           \A v \in Active \ {u} : v \in Active' /\ email'[v] = email[v]
    PROVE  CurrentInv'
<1>1. ASSUME NEW d \in Clients, request'[d].at \in {"read", "compared"},
             ~request'[d].overtaken
      PROVE  /\ request'[d] = request[d]
             /\ request[d].user # u
    <2>1. request[d] \in Requests
        BY DEF TypeOK
    <2>2. CASE d = c
        BY <1>1, <2>2 DEF Written
    <2>3. CASE /\ d # c /\ request[d].at \in {"read", "compared"}
               /\ request[d].user = u
        <3>1. request'[d] = [request[d] EXCEPT !.overtaken = TRUE]
            BY <2>3 DEF Written
        <3>2. request'[d].overtaken
            BY <3>1, <2>1, <2>3 DEF Requests
        <3> QED BY <1>1, <3>2
    <2>4. CASE ~(d = c) /\ ~(/\ d # c /\ request[d].at \in {"read", "compared"}
                             /\ request[d].user = u)
        <3>1. request'[d] = request[d]
            BY <2>4 DEF Written
        <3> QED BY <1>1, <2>4, <3>1
    <2> QED BY <2>2, <2>3, <2>4
<1> QED BY <1>1 DEF CurrentInv

\* A request that goes on without writing.
LEMMA GoesCurrent ==
    ASSUME TypeOK, CurrentInv, NEW c \in Clients, NEW r, Goes(c, r), UNCHANGED rows,
           r.at \in {"read", "compared"} /\ ~r.overtaken =>
               /\ r.user \in Active
               /\ r.seen = email[r.user]
               /\ r.at = "compared" => r.found = email[r.user] /\ ~r.gone
    PROVE  CurrentInv'
BY DEF TypeOK, CurrentInv, Goes, rows, Rows, Active

LEMMA AnswerCurrent ==
    ASSUME TypeOK, CurrentInv, NEW c \in Clients, Answer(c)
    PROVE  CurrentInv'
<1>1. Goes(c, [at |-> "answered"]) /\ UNCHANGED rows
    BY DEF Answer
<1> QED BY <1>1, GoesCurrent

LEMMA StepCurrent ==
    ASSUME TypeOK, RequestInv, CurrentInv, NEW c \in Clients, Step(c)
    PROVE  CurrentInv'
<1>1. ASSUME NEW e \in Emails, Post(c, e) PROVE CurrentInv'
    BY <1>1, GoesCurrent DEF Post
<1>2. ASSUME BeginInsert(c) PROVE CurrentInv'
    BY <1>2, GoesCurrent DEF BeginInsert
<1>3. ASSUME NEW u \in Users, Insert(c, u) PROVE CurrentInv'
    <2>1. \A v \in Active \ {u} : v \in Active' /\ email'[v] = email[v]
        BY <1>3 DEF Insert, Active, Rows, TypeOK
    <2> QED BY <1>3, <2>1, WrittenCurrent DEF Insert
<1>4. ASSUME NEW u \in Users, NEW body \in Bodies, Read(c, u, body) PROVE CurrentInv'
    <2>1. CASE FindById(u) /\ body # Empty
        BY <1>4, <2>1, GoesCurrent DEF Read, FindById
    <2>2. CASE ~(FindById(u) /\ body # Empty)
        BY <1>4, <2>2, AnswerCurrent DEF Read
    <2> QED BY <2>1, <2>2
<1>5. ASSUME Compare(c) PROVE CurrentInv'
    <2>1. ~request[c].overtaken =>
              /\ request[c].user \in Active
              /\ request[c].seen = email[request[c].user]
        BY <1>5 DEF Compare, CurrentInv
    <2> QED BY <1>5, <2>1, GoesCurrent DEF Compare, Active
<1>6. ASSUME Write(c) PROVE CurrentInv'
    <2> DEFINE u == request[c].user
    <2>1. u \in Users
        BY <1>6 DEF Write, RequestInv, Rows
    <2>2. \A v \in Active \ {u} : v \in Active' /\ email'[v] = email[v]
        BY <1>6 DEF Write, NewDeleted, Active, Rows, TypeOK
    <2> QED BY <1>6, <2>1, <2>2, WrittenCurrent DEF Write
<1>7. ASSUME NEW u \in Users, SoftDelete(c, u) PROVE CurrentInv'
    <2>1. \A v \in Active \ {u} : v \in Active' /\ email'[v] = email[v]
        BY <1>7 DEF SoftDelete, Active, Rows
    <2> QED BY <1>7, <2>1, WrittenCurrent DEF SoftDelete
<1>8. ASSUME Answer(c) PROVE CurrentInv'
    BY <1>8, AnswerCurrent
<1> QED
    BY <1>1, <1>2, <1>3, <1>4, <1>5, <1>6, <1>7, <1>8
       DEF Step, InsertConflict, WriteConflict, DeleteMissing, Fail

LEMMA StepAsked ==
    ASSUME TypeOK, RequestInv, CurrentInv, NEW c \in Clients, Step(c),
           NEW u \in Rows, Changes(u)
    PROVE  /\ request[c].at = "compared" /\ request[c].user = u
           /\ request[c].overtaken \/ (email'[u] = request[c].body /\ u \notin deleted)
<1>1. CASE UNCHANGED rows
    BY <1>1 DEF rows, Changes
<1>2. ASSUME NEW v \in Users, Insert(c, v) PROVE FALSE
    BY <1>2 DEF Insert, Changes, Rows, TypeOK
<1>3. ASSUME NEW v \in Users, SoftDelete(c, v) PROVE FALSE
    BY <1>3 DEF SoftDelete, Changes
<1>4. ASSUME Write(c)
      PROVE  /\ request[c].at = "compared" /\ request[c].user = u
             /\ request[c].overtaken \/ (email'[u] = request[c].body /\ u \notin deleted)
    <2>1. request[c].at = "compared" /\ request[c].user = u
        BY <1>4 DEF Write, NewDeleted, Changes, TypeOK, Rows
    <2>2. ASSUME ~request[c].overtaken
          PROVE  email'[u] = request[c].body /\ u \notin deleted
        <3>1. /\ u \in Active /\ request[c].seen = email[u]
              /\ request[c].found = email[u] /\ ~request[c].gone
            BY <2>1, <2>2 DEF CurrentInv
        <3>2. email'[u] = NewEmail(request[c])
            BY <1>4, <2>1 DEF Write, TypeOK, Rows
        <3>3. email'[u] # email[u]
            BY <3>1 DEF Changes, Active
        <3> QED BY <3>1, <3>2, <3>3, <2>1 DEF NewEmail, Wished, Active
    <2> QED BY <2>1, <2>2
<1> QED
    BY <1>1, <1>2, <1>3, <1>4
       DEF Step, Post, BeginInsert, InsertConflict, Read, Compare, WriteConflict,
           DeleteMissing, Fail, Answer

\* An account gets another e-mail or comes back only through a PATCH that asked for
\* it, or through one that a later write of the row had overtaken.
THEOREM EmailChangesAreAsked == Spec => ChangesAsked
<1>1. Init => CurrentInv
    BY DEF Init, CurrentInv
<1>2. TypeOK /\ RequestInv /\ CurrentInv /\ [Next]_vars => CurrentInv'
    <2>1. TypeOK /\ RequestInv /\ CurrentInv /\ Next => CurrentInv'
        BY StepCurrent DEF Next
    <2>2. CurrentInv /\ UNCHANGED vars => CurrentInv'
        BY DEF vars, rows, CurrentInv, Active, Rows
    <2> QED BY <2>1, <2>2
<1>3. TypeOK /\ RequestInv /\ CurrentInv /\ [Next]_vars =>
          [\A u \in Rows : Changes(u) =>
              \E c \in Clients :
                 /\ request[c].at = "compared" /\ request[c].user = u
                 /\ request[c].overtaken
                    \/ (email'[u] = request[c].body /\ u \notin deleted)]_vars
    BY StepAsked DEF Next
<1> QED BY <1>1, <1>2, <1>3, TypeCorrect, PTL DEF Spec, ChangesAsked

-----------------------------------------------------------------------------
(* The walk: its inductive invariant *)

\* A fixed order of the accounts, to count those of one created_at one by one: no
\* page follows it.
Place == CHOOSE f \in [Users -> Nat] : \A u, v \in Users : f[u] = f[v] => u = v

Newer(u) ==
    {v \in Active : stamp[v] > stamp[u] \/ (stamp[v] = stamp[u] /\ Place[v] < Place[u])}
Rank(u) == Cardinality(Newer(u))

\* The ranks below Reach have been asked for.
Reach == IF counted THEN Skip(page, limit) ELSE Skip(page + 1, limit)
Missing == (present \ (shown \union list)) \ torn

\* What was asked for is missing only because of a deletion; a page that shows the
\* end has left nothing else to ask for.
WalkInv ==
    /\ counted => list = {}
    /\ gone + left <= MaxRequests
    /\ page > 0 => Cardinality({u \in Missing : Rank(u) < Reach}) <= gone
    /\ page > 0 /\ ~counted /\ ShowsEnd => Cardinality(Missing) <= gone

PagesInv == PagesTypeOK /\ RequestInv /\ WalkInv /\ MissedPerDeletion

-----------------------------------------------------------------------------
(* Pages *)

\* Rows are counted out in pages.
LEMMA PagesHold ==
    ASSUME NEW a \in Nat, NEW n \in Nat \ {0}, NEW t, t = TotalPages(a, n)
    PROVE  t \in Nat /\ t <= a /\ a <= t * n /\ t * n <= a + n - 1
<1> DEFINE b == a + n - 1
<1>1. b \in Nat /\ t = b \div n
    BY DEF TotalPages
<1> HIDE DEF b
<1>2. t \in Nat /\ t * n <= b /\ b < t * n + n
    BY <1>1
<1>3. a <= t * n
    BY <1>2 DEF b
<1>4. t <= a
    <2> SUFFICES ASSUME t >= a + 1 PROVE FALSE
        BY <1>2
    <2>1. t * n >= (a + 1) * n
        BY <1>2
    <2>2. (a + 1) * n = a * n + n /\ a * n >= a
        OBVIOUS
    <2> QED BY <1>2, <2>1, <2>2 DEF b
<1> QED BY <1>2, <1>3, <1>4 DEF b

\* A page that shows the end is the last.
LEMMA EndIsLast ==
    ASSUME NEW p \in Nat \ {0}, NEW n \in Nat \ {0}, NEW k \in 0 .. n - 1
    PROVE  ~(p < TotalPages(Skip(p, n) + k, n))
<1> DEFINE a == Skip(p, n) + k
           t == TotalPages(a, n)
<1>1. Skip(p, n) \in Nat /\ Skip(p, n) = p * n - n
    BY DEF Skip
<1>2. t \in Nat /\ t * n <= a + n - 1
    <2>1. a \in Nat
        BY <1>1
    <2> HIDE DEF a
    <2> QED BY <2>1, PagesHold
<1>3. t * n < (p + 1) * n
    <2>1. (p + 1) * n = p * n + n /\ p * n \in Nat
        OBVIOUS
    <2> QED BY <1>1, <1>2, <2>1
<1> HIDE DEF t
<1>4. ~(t >= p + 1)
    BY <1>2, <1>3
<1> QED BY <1>2, <1>4 DEF t

LEMMA ActiveFinite ==
    ASSUME TypeOK
    PROVE  /\ IsFiniteSet(Active) /\ Cardinality(Active) \in Nat
           /\ Cardinality(Active) <= Cardinality(Users) /\ Cardinality(Users) \in Nat
<1>1. Active \subseteq Users
    BY DEF Active, Rows
<1> QED BY <1>1, ClientsAssumption, FS_Subset, FS_CardinalityType

\* There is such an order, as there are finitely many accounts.
LEMMA PlaceType ==
    Place \in [Users -> Nat] /\ \A u, v \in Users : Place[u] = Place[v] => u = v
<1>1. PICK n \in Nat : ExistsSurjection(1 .. n, Users)
    BY ClientsAssumption, FS_NatSurjection
<1>2. PICK g \in [1 .. n -> Users] : \A u \in Users : \E i \in 1 .. n : g[i] = u
    BY <1>1 DEF ExistsSurjection, Surjection
<1> DEFINE f == [u \in Users |-> CHOOSE i \in 1 .. n : g[i] = u]
<1>3. \A u \in Users : f[u] \in 1 .. n /\ g[f[u]] = u
    BY <1>2
<1>4. f \in [Users -> Nat]
    BY <1>3
<1> HIDE DEF f
<1>5. \A u, v \in Users : f[u] = f[v] => u = v
    BY <1>3
<1> QED BY <1>4, <1>5 DEF Place

\* The rank of an account counts some of the others.
LEMMA RankType ==
    ASSUME TypeOK, NEW u \in Active
    PROVE  IsFiniteSet(Newer(u)) /\ Rank(u) \in 0 .. Cardinality(Active) - 1
<1>1. stamp[u] \in Nat /\ Place[u] \in Nat
    BY PlaceType DEF TypeOK, Active, Rows
<1>2. Newer(u) \subseteq Active \ {u}
    BY <1>1 DEF Newer
<1>3. IsFiniteSet(Active \ {u}) /\ Cardinality(Active \ {u}) = Cardinality(Active) - 1
    BY ActiveFinite, FS_RemoveElement
<1>4. IsFiniteSet(Newer(u)) /\ Cardinality(Newer(u)) <= Cardinality(Active) - 1
    BY <1>2, <1>3, FS_Subset
<1>5. Cardinality(Newer(u)) \in Nat
    BY <1>4, FS_CardinalityType
<1> QED BY <1>4, <1>5, ActiveFinite DEF Rank

LEMMA RankOrder ==
    ASSUME TypeOK, NEW u \in Active, NEW v \in Active, u \in Newer(v)
    PROVE  Rank(u) < Rank(v)
<1>1. \A w \in Active : stamp[w] \in Nat /\ Place[w] \in Nat
    BY PlaceType DEF TypeOK, Active, Rows
<1>2. Newer(u) \union {u} \subseteq Newer(v) /\ u \notin Newer(u)
    BY <1>1 DEF Newer
<1>3. /\ IsFiniteSet(Newer(u)) /\ IsFiniteSet(Newer(v))
      /\ Rank(u) \in Nat /\ Rank(v) \in Nat
    BY RankType, ActiveFinite
<1>4. Cardinality(Newer(u) \union {u}) = Rank(u) + 1
    BY <1>2, <1>3, FS_AddElement DEF Rank
<1>5. Cardinality(Newer(u) \union {u}) <= Rank(v)
    BY <1>2, <1>3, FS_Subset DEF Rank
<1> QED BY <1>3, <1>4, <1>5

LEMMA RankDistinct ==
    ASSUME TypeOK, NEW u \in Active, NEW v \in Active, u # v
    PROVE  Rank(u) # Rank(v)
<1>1. /\ stamp[u] \in Nat /\ stamp[v] \in Nat
      /\ Place[u] \in Nat /\ Place[v] \in Nat /\ Place[u] # Place[v]
    BY PlaceType DEF TypeOK, Active, Rows
<1>2. Rank(u) \in Int /\ Rank(v) \in Int
    BY RankType, ActiveFinite
<1>3. u \in Newer(v) \/ v \in Newer(u)
    BY <1>1 DEF Newer
<1> QED BY <1>2, <1>3, RankOrder

\* The rows that come first are as many as were asked for, or all there are.
LEMMA FirstRowsSize ==
    ASSUME TypeOK, NEW k \in Nat, NEW S \in FirstRows(k)
    PROVE  /\ S \subseteq Active /\ IsFiniteSet(S) /\ Cardinality(S) \in 0 .. k
           /\ Cardinality(S) < k => S = Active
<1>1. /\ S \subseteq Active
      /\ Cardinality(S) = k \/ (S = Active /\ Cardinality(S) < k)
    BY DEF FirstRows
<1>2. IsFiniteSet(S) /\ Cardinality(S) \in Nat
    BY <1>1, ActiveFinite, FS_Subset, FS_CardinalityType
<1> QED BY <1>1, <1>2

\* Of the accounts that the edge does not part from others of their created_at,
\* those of a lower rank come first.
LEMMA RankInside ==
    ASSUME TypeOK, NEW k \in Nat, NEW S \in FirstRows(k),
           NEW u \in Active, u \notin Parted(S)
    PROVE  u \in S <=> Rank(u) < k
<1>1. /\ S \subseteq Active /\ IsFiniteSet(S) /\ Cardinality(S) \in 0 .. k
      /\ Cardinality(S) < k => S = Active
    BY FirstRowsSize
<1>2. /\ IsFiniteSet(Newer(u)) /\ Rank(u) = Cardinality(Newer(u)) /\ Rank(u) \in Nat
    BY RankType, ActiveFinite DEF Rank
<1>3. \A v \in Active : stamp[v] \in Nat /\ Place[v] \in Nat
    BY PlaceType DEF TypeOK, Active, Rows
<1>4. \A v \in S, w \in Active \ S : stamp[v] >= stamp[w]
    BY DEF FirstRows
<1>5. \A v \in Active : stamp[v] = stamp[u] => (v \in S <=> u \in S)
    BY DEF Parted
<1>6. ASSUME u \in S PROVE Rank(u) < k
    <2>1. Newer(u) \subseteq S \ {u}
        <3> SUFFICES ASSUME NEW v \in Newer(u) PROVE v \in S /\ v # u
            OBVIOUS
        <3>1. v \in Active /\ (stamp[v] > stamp[u] \/ (stamp[v] = stamp[u] /\ Place[v] < Place[u]))
            BY DEF Newer
        <3> QED BY <1>3, <1>4, <1>5, <1>6, <3>1
    <2>2. IsFiniteSet(S \ {u}) /\ Cardinality(S \ {u}) = Cardinality(S) - 1
        BY <1>1, <1>6, FS_RemoveElement
    <2>3. Cardinality(Newer(u)) <= Cardinality(S) - 1
        BY <2>1, <2>2, FS_Subset
    <2> QED BY <1>1, <1>2, <2>3
<1>7. ASSUME u \notin S PROVE ~(Rank(u) < k)
    <2>1. S \subseteq Newer(u)
        <3> SUFFICES ASSUME NEW v \in S PROVE v \in Newer(u)
            OBVIOUS
        <3>1. v \in Active /\ stamp[v] >= stamp[u] /\ stamp[v] # stamp[u]
            BY <1>1, <1>4, <1>5, <1>7
        <3> QED BY <1>3, <3>1 DEF Newer
    <2>2. Cardinality(S) = k
        BY <1>1, <1>7
    <2>3. Cardinality(S) <= Cardinality(Newer(u))
        BY <1>2, <2>1, FS_Subset
    <2> QED BY <1>2, <2>2, <2>3
<1> QED BY <1>6, <1>7

\* A page is as long as was asked for, unless it reaches the end.
LEMMA PageSize ==
    ASSUME TypeOK, NEW p \in Nat \ {0}, NEW n \in Nat \ {0}, NEW S, NEW T,
           S \in FirstRows(Skip(p, n)), T \in FirstRows(Skip(p + 1, n)), S \subseteq T
    PROVE  /\ T \ S \subseteq Active /\ Cardinality(T \ S) \in 0 .. n
           /\ Cardinality(T \ S) < n => Cardinality(Active) <= Skip(p + 1, n)
<1> DEFINE a == Skip(p, n)
           b == Skip(p + 1, n)
<1>1. a \in Nat /\ b \in Nat /\ b = a + n
    BY DEF Skip
<1> HIDE DEF a, b
<1>2. /\ S \subseteq Active /\ Cardinality(S) \in 0 .. a
      /\ Cardinality(S) < a => S = Active
    BY <1>1, FirstRowsSize DEF a
<1>3. /\ T \subseteq Active /\ IsFiniteSet(T) /\ Cardinality(T) \in 0 .. b
      /\ Cardinality(T) < b => T = Active
    BY <1>1, FirstRowsSize DEF b
<1>4. /\ IsFiniteSet(T \ S) /\ Cardinality(T \ S) = Cardinality(T) - Cardinality(S)
    <2>1. T \cap S = S
        OBVIOUS
    <2> QED BY <1>3, <2>1, FS_Difference
<1>5. Cardinality(T \ S) \in Nat
    BY <1>4, FS_CardinalityType
<1>6. Cardinality(T \ S) <= n
    <2>1. CASE Cardinality(S) < a
        <3>1. T \ S = {}
            BY <1>2, <1>3, <2>1
        <3>2. Cardinality(T \ S) = 0
            BY <3>1, FS_EmptySet
        <3> QED BY <3>2
    <2>2. CASE Cardinality(S) = a
        BY <1>1, <1>3, <1>4, <2>2
    <2> QED BY <1>1, <1>2, <2>1, <2>2
<1>7. ASSUME Cardinality(T \ S) < n PROVE Cardinality(Active) <= b
    <2>1. Cardinality(T) < b
        BY <1>1, <1>2, <1>3, <1>4, <1>7
    <2> QED BY <1>3, <2>1
<1> QED BY <1>3, <1>5, <1>6, <1>7 DEF b

-----------------------------------------------------------------------------
(* Requests meanwhile *)

\* Accounts come or come back, or one is deleted by a request that was just sent.
NobodyLeaves ==
    /\ Active \subseteq Active' /\ deleted' \subseteq deleted
    /\ \A v \in Active : stamp'[v] = stamp[v]

Leaves(u) ==
    /\ Active' = Active \ {u} /\ deleted' \ deleted = {u} /\ stamp' = stamp

LEMMA StepActive ==
    ASSUME TypeOK, RequestInv, NEW c \in Clients, Step(c)
    PROVE  /\ Rows \subseteq Rows'
           /\ NobodyLeaves \/ (Ready(c) /\ \E u \in Active : Leaves(u))
<1> DEFINE G == /\ Rows \subseteq Rows'
                /\ NobodyLeaves \/ (Ready(c) /\ \E u \in Active : Leaves(u))
<1>1. ASSUME NEW u \in Users, Insert(c, u) PROVE G
    <2>1. request[c].email \in Emails
        BY <1>1 DEF Insert, TypeOK, Requests
    <2>2. Rows \subseteq Rows' /\ deleted' = deleted /\ \A v \in Rows : stamp'[v] = stamp[v]
        BY <1>1, <2>1 DEF Insert, Rows, TypeOK
    <2> QED BY <2>2 DEF NobodyLeaves, Active
<1>2. ASSUME Write(c) PROVE G
    <2>1. /\ request[c].user \in Rows /\ request[c] \in Requests
          /\ request[c].at = "compared"
        BY <1>2 DEF Write, RequestInv, TypeOK
    <2>2. NewEmail(request[c]) # Absent
        BY <2>1 DEF NewEmail, Wished, Requests, Rows
    <2>3. Rows' = Rows
        BY <1>2, <2>1, <2>2 DEF Write, Rows, TypeOK
    <2>4. deleted' \subseteq deleted /\ stamp' = stamp
        BY <1>2 DEF Write, NewDeleted
    <2> QED BY <2>3, <2>4 DEF NobodyLeaves, Active
<1>3. ASSUME NEW u \in Users, SoftDelete(c, u) PROVE G
    <2>1. Rows' = Rows /\ u \in Rows /\ Ready(c) /\ stamp' = stamp
          /\ deleted' = deleted \union {u}
        BY <1>3 DEF SoftDelete, Rows
    <2>2. CASE u \in deleted
        BY <2>1, <2>2 DEF NobodyLeaves, Active
    <2>3. CASE u \notin deleted
        BY <2>1, <2>3 DEF Leaves, Active
    <2> QED BY <2>2, <2>3
<1>4. ASSUME UNCHANGED rows PROVE G
    BY <1>4 DEF rows, Rows, Active, NobodyLeaves
<1> QED
    BY <1>1, <1>2, <1>3, <1>4
       DEF Step, Post, BeginInsert, InsertConflict, Read, Compare, WriteConflict,
           DeleteMissing, Fail, Answer

\* Nobody moves to a newer rank by what comes, and by one at most by what goes.
LEMMA RankGrows ==
    ASSUME TypeOK, TypeOK', NobodyLeaves, NEW v \in Active
    PROVE  Rank(v) \in Nat /\ (Rank(v))' \in Nat /\ Rank(v) <= (Rank(v))'
<1>1. Newer(v) \subseteq (Newer(v))'
    BY DEF Newer, NobodyLeaves
<1>2. (Newer(v))' \subseteq Users
    BY DEF Newer, Active, Rows
<1>3. IsFiniteSet((Newer(v))')
    BY <1>2, ClientsAssumption, FS_Subset
<1>4. IsFiniteSet(Newer(v)) /\ Cardinality(Newer(v)) <= Cardinality((Newer(v))')
    BY <1>1, <1>3, FS_Subset
<1> QED BY <1>3, <1>4, FS_CardinalityType DEF Rank

LEMMA RankDrops ==
    ASSUME TypeOK, NEW u \in Active, Leaves(u), NEW v \in Active'
    PROVE  Rank(v) \in Nat /\ (Rank(v))' \in Nat /\ Rank(v) <= (Rank(v))' + 1
<1>1. v \in Active /\ (Newer(v))' = Newer(v) \ {u}
    BY DEF Newer, Leaves
<1>2. IsFiniteSet(Newer(v)) /\ Rank(v) \in Nat
    BY <1>1, RankType, ActiveFinite
<1>3. /\ IsFiniteSet(Newer(v) \ {u})
      /\ Cardinality(Newer(v) \ {u}) = IF u \in Newer(v) THEN Rank(v) - 1 ELSE Rank(v)
    BY <1>2, FS_RemoveElement DEF Rank
<1>4. Cardinality(Newer(v) \ {u}) \in Nat
    BY <1>3, FS_CardinalityType
<1>5. (Rank(v))' = Cardinality(Newer(v) \ {u})
    BY <1>1 DEF Rank
<1> QED BY <1>2, <1>3, <1>4, <1>5
-----------------------------------------------------------------------------
(* The steps of the walk *)

\* What is missing is finite, and its part below a rank no larger.
LEMMA MissingFinite ==
    ASSUME PagesTypeOK, NEW S, S \subseteq present
    PROVE  IsFiniteSet(S) /\ Cardinality(S) \in Nat
<1>1. S \subseteq Active
    BY DEF PagesTypeOK
<1> QED BY <1>1, ActiveFinite, FS_Subset, FS_CardinalityType DEF PagesTypeOK

LEMMA ReachType ==
    ASSUME PagesTypeOK, page > 0
    PROVE  /\ page \in Nat \ {0} /\ limit \in Nat \ {0}
           /\ Skip(page, limit) \in Nat /\ Skip(page + 1, limit) \in Nat
           /\ Skip(page + 1, limit) = page * limit
           /\ Skip(page + 1, limit) = Skip(page, limit) + limit
           /\ Reach \in Nat
<1>1. page \in Nat \ {0} /\ limit \in Nat \ {0}
    BY ActiveFinite, MaxAssumption DEF PagesTypeOK
<1>2. /\ Skip(page, limit) = page * limit - limit
      /\ Skip(page + 1, limit) = page * limit
      /\ page * limit >= limit /\ page * limit \in Nat
    BY <1>1 DEF Skip
<1> QED BY <1>1, <1>2 DEF Reach

LEMMA InitPages == PagesInit => PagesInv
<1> SUFFICES ASSUME PagesInit PROVE PagesInv
    OBVIOUS
<1>1. TypeOK /\ RequestInv
    BY InitTypes DEF PagesInit
<1>2. Cardinality(Users) \in Nat /\ MaxRequests \in Nat
    BY <1>1, ActiveFinite, MaxAssumption
<1>3. IsFiniteSet({}) /\ Cardinality({}) = 0
    BY FS_EmptySet
<1>4. limit \in Nat \ {0} /\ limit \in 1 .. MaxLimit
    BY MaxAssumption DEF PagesInit
<1>5. PagesTypeOK
    BY <1>1, <1>2, <1>3, <1>4 DEF PagesInit, PagesTypeOK
<1>7. WalkInv /\ MissedPerDeletion
    <2>1. Reach = 0
        BY <1>4 DEF PagesInit, Reach, Skip
    <2>2. \A u \in Missing : Rank(u) \in Nat
        BY <1>1, RankType, ActiveFinite DEF Missing, PagesInit
    <2>3. {u \in Missing : Rank(u) < Reach} = {}
        BY <2>1, <2>2
    <2> QED BY <1>2, <1>3, <2>3 DEF WalkInv, MissedPerDeletion, PagesInit
<1> QED BY <1>1, <1>5, <1>7 DEF PagesInv

LEMMA QueryRowsKeeps ==
    ASSUME PagesInv, QueryRows
    PROVE  PagesInv'
<1>0. PICK cut \in Cuts(page, limit) :
          /\ list' = cut[2] \ cut[1]
          /\ torn' = torn \union (present \cap (Parted(cut[1]) \union Parted(cut[2])))
    BY DEF QueryRows
<1> DEFINE S == cut[1]
           T == cut[2]
           P == T \ S
<1>1. /\ PagesTypeOK /\ TypeOK /\ RequestInv /\ WalkInv
      /\ page > 0 /\ counted /\ list = {} /\ counted' = FALSE /\ list' = P
      /\ torn' = torn \union (present \cap (Parted(S) \union Parted(T)))
      /\ UNCHANGED <<vars, page, limit, shown, present, gone, left>>
    BY <1>0 DEF PagesInv, QueryRows, PagesTypeOK, WalkInv
<1>2. /\ page \in Nat \ {0} /\ limit \in Nat \ {0}
      /\ Skip(page, limit) \in Nat /\ Skip(page + 1, limit) \in Nat
    BY <1>1, ReachType
<1>s. S \in FirstRows(Skip(page, limit)) /\ T \in FirstRows(Skip(page + 1, limit)) /\ S \subseteq T
    BY DEF Cuts
<1> HIDE DEF S, T
<1>3. /\ P \subseteq Active /\ Cardinality(P) \in 0 .. limit
      /\ Cardinality(P) < limit => Cardinality(Active) <= Skip(page + 1, limit)
    BY <1>1, <1>2, <1>s, PageSize
<1>4. TypeOK' /\ RequestInv' /\ Active' = Active /\ Rows' = Rows
    BY <1>1 DEF vars, rows, TypeOK, RequestInv, Active, Rows
<1>5. PagesTypeOK'
    <2>1. P \subseteq Rows /\ Cardinality(P) <= limit
        BY <1>2, <1>3 DEF Active
    <2>2. torn' \subseteq present
        BY <1>1 DEF PagesTypeOK
    <2> HIDE DEF P
    <2> QED BY <1>1, <1>4, <2>1, <2>2 DEF PagesTypeOK
<1>6. \A u \in Active : Rank(u) \in 0 .. Cardinality(Active) - 1 /\ (Rank(u))' = Rank(u)
    BY <1>1, RankType DEF Rank, Newer, vars, rows, Active, Rows
<1>7. /\ present \subseteq Active /\ Missing \subseteq Active
      /\ Reach = Skip(page, limit) /\ Reach' = Skip(page + 1, limit)
      /\ Missing = (present \ shown) \ torn
      /\ Missing' = (present \ (shown \union P)) \ torn'
    BY <1>1 DEF Reach, Missing, PagesTypeOK, Skip
<1> DEFINE M == {u \in Missing : Rank(u) < Reach}
           N == {u \in Missing' : (Rank(u))' < Reach'}
<1>8. N \subseteq M
    <2> SUFFICES ASSUME NEW u \in Missing', (Rank(u))' < Reach'
                 PROVE  u \in Missing /\ Rank(u) < Reach
        OBVIOUS
    <2>1. /\ u \in present /\ u \in Active /\ u \notin shown /\ u \notin torn'
          /\ u \notin P
        BY <1>7
    <2>2. u \notin torn /\ u \notin Parted(S) /\ u \notin Parted(T)
        BY <1>1, <2>1
    <2>3. Rank(u) < Skip(page + 1, limit)
        BY <1>6, <1>7, <2>1
    <2>4. u \in T
        BY <1>1, <1>2, <1>s, <2>1, <2>2, <2>3, RankInside
    <2>5. u \in S
        BY <2>1, <2>4
    <2>6. Rank(u) < Skip(page, limit)
        BY <1>1, <1>2, <1>s, <2>1, <2>2, <2>5, RankInside
    <2> QED BY <1>7, <2>1, <2>2, <2>6
<1>9. Cardinality(N) <= gone'
    <2>1. Cardinality(M) <= gone
        BY <1>1 DEF WalkInv
    <2>2. IsFiniteSet(M) /\ Cardinality(M) \in Nat
        BY <1>1, <1>7, MissingFinite
    <2>3. IsFiniteSet(N) /\ Cardinality(N) <= Cardinality(M)
        BY <1>8, <2>2, FS_Subset
    <2>4. gone \in Nat /\ gone' = gone /\ Cardinality(N) \in Nat
        BY <1>1, <2>3, MaxAssumption, FS_CardinalityType DEF PagesTypeOK
    <2> QED BY <2>1, <2>2, <2>3, <2>4
<1>10. ASSUME ShowsEnd' PROVE Cardinality(Missing') <= gone'
    <2>1. Cardinality(P) < limit
        BY <1>1, <1>2, <1>3, <1>10, FS_EmptySet DEF ShowsEnd
    <2>2. \A u \in Active : Rank(u) < Skip(page + 1, limit)
        BY <1>1, <1>2, <1>3, <1>6, <2>1, ActiveFinite
    <2>3. Missing' = N
        BY <1>6, <1>7, <2>2
    <2> QED BY <1>9, <2>3
<1>11. WalkInv'
    BY <1>1, <1>9, <1>10 DEF WalkInv
<1>12. MissedPerDeletion'
    BY <1>1, <1>2 DEF MissedPerDeletion
<1> QED BY <1>4, <1>5, <1>11, <1>12 DEF PagesInv

LEMMA QueryCountKeeps ==
    ASSUME PagesInv, QueryCount
    PROVE  PagesInv'
<1>1. /\ PagesTypeOK /\ TypeOK /\ RequestInv /\ WalkInv
      /\ page > 0 /\ ~counted /\ list' = {} /\ counted' /\ shown' = shown \union list
      /\ UNCHANGED <<vars, limit, present, torn, gone, left>>
    BY DEF PagesInv, QueryCount, PagesTypeOK, WalkInv
<1>2. /\ page \in Nat \ {0} /\ limit \in Nat \ {0}
      /\ Skip(page, limit) \in Nat /\ Skip(page + 1, limit) \in Nat
      /\ Skip(page + 1, limit) = page * limit
    BY <1>1, ReachType
<1>3. IsFiniteSet({}) /\ Cardinality({}) = 0
    BY FS_EmptySet
<1>4. TypeOK' /\ RequestInv' /\ Active' = Active /\ Rows' = Rows
    BY <1>1 DEF vars, rows, TypeOK, RequestInv, Active, Rows
<1>5. Missing' = Missing /\ \A u \in Missing : (Rank(u))' = Rank(u)
    BY <1>1 DEF Missing, Rank, Newer, vars, rows, Active, Rows
<1>6. CASE page < TotalPages(Total, limit)
    <2>1. page' = page + 1
        BY <1>6 DEF QueryCount
    <2>2. ~ShowsEnd
        <3> SUFFICES ASSUME ShowsEnd PROVE FALSE
            OBVIOUS
        <3> DEFINE k == Cardinality(list)
        <3>1. Total = Skip(page, limit) + k
            BY DEF Total
        <3>2. k \in 0 .. limit - 1
            <4>1. k \in 1 .. limit - 1 \/ k = 0
                BY <1>3 DEF ShowsEnd
            <4> HIDE DEF k
            <4> QED BY <1>2, <4>1
        <3> HIDE DEF k
        <3> QED BY <1>2, <1>6, <3>1, <3>2, EndIsLast
    <2>3. page + 1 \in 0 .. Cardinality(Users) + 1
        <3>1. Total = Cardinality(Active)
            BY <2>2 DEF Total
        <3> DEFINE t == TotalPages(Total, limit)
        <3>2. t \in Nat /\ t <= Cardinality(Active)
            BY <1>1, <1>2, <3>1, PagesHold, ActiveFinite
        <3>3. Cardinality(Active) \in Nat /\ Cardinality(Users) \in Nat
              /\ Cardinality(Active) <= Cardinality(Users)
            BY <1>1, ActiveFinite
        <3>4. page < t
            BY <1>6
        <3> HIDE DEF t
        <3> QED BY <1>2, <3>2, <3>3, <3>4
    <2>4. PagesTypeOK'
        BY <1>1, <1>2, <1>3, <1>4, <2>1, <2>3 DEF PagesTypeOK
    <2>5. Reach' = Reach
        BY <1>1, <2>1 DEF Reach, Skip
    <2>6. WalkInv'
        BY <1>1, <1>5, <2>5 DEF WalkInv
    <2>7. MissedPerDeletion'
        BY <1>2, <2>1 DEF MissedPerDeletion
    <2> QED BY <1>4, <2>4, <2>6, <2>7 DEF PagesInv
<1>7. CASE ~(page < TotalPages(Total, limit))
    <2>1. page' = 0
        BY <1>7 DEF QueryCount
    <2>2. PagesTypeOK'
        BY <1>1, <1>2, <1>3, <1>4, <2>1, ActiveFinite DEF PagesTypeOK
    <2>3. Cardinality(Missing) <= gone
        <3>1. CASE ShowsEnd
            BY <1>1, <3>1 DEF WalkInv
        <3>2. CASE ~ShowsEnd
            <4> DEFINE a == Cardinality(Active)
                       t == TotalPages(a, limit)
            <4>1. a \in Nat
                BY <1>1, ActiveFinite
            <4>2. ~(page < t)
                BY <1>7, <3>2 DEF Total
            <4>3. t \in Nat /\ a <= t * limit
                <5> HIDE DEF a
                <5> QED BY <1>2, <4>1, PagesHold
            <4>4. a <= page * limit
                <5> HIDE DEF a, t
                <5>1. t * limit <= page * limit
                    BY <1>2, <4>2, <4>3
                <5> QED BY <1>2, <4>1, <4>3, <5>1
            <4>5. Reach = page * limit /\ Missing \subseteq Active
                BY <1>1, <1>2 DEF Reach, Missing, PagesTypeOK
            <4>6. \A u \in Missing : Rank(u) < Reach
                BY <1>1, <1>2, <4>1, <4>4, <4>5, RankType
            <4>7. Missing = {u \in Missing : Rank(u) < Reach}
                BY <4>6
            <4> QED BY <1>1, <4>7 DEF WalkInv
        <3> QED BY <3>1, <3>2
    <2>4. MissedPerDeletion'
        BY <1>1, <2>3 DEF MissedPerDeletion, Missing
    <2>5. WalkInv'
        BY <1>1, <2>1 DEF WalkInv
    <2> QED BY <1>4, <2>2, <2>4, <2>5 DEF PagesInv
<1> QED BY <1>6, <1>7

LEMMA SumAtMost == \A m, a, b \in Nat : a + b <= m => a \in 0 .. m /\ b \in 0 .. m
OBVIOUS

\* Requests meanwhile keep what the walk has shown, and add one deletion at most.
LEMMA MeanwhileKeeps ==
    ASSUME PagesInv, NEW c \in Clients, Meanwhile(c)
    PROVE  PagesInv'
<1>1. /\ PagesTypeOK /\ TypeOK /\ RequestInv /\ WalkInv /\ Step(c)
      /\ UNCHANGED <<page, limit, list, counted, shown>>
      /\ present' = present \ deleted' /\ torn' = torn \ deleted'
      /\ present \subseteq Active /\ torn \subseteq present
    BY DEF PagesInv, Meanwhile, PagesTypeOK
<1>0. MaxRequests \in Nat
    BY MaxAssumption
<1>2. TypeOK' /\ RequestInv'
    BY <1>1, StepTypes
<1>3. Rows \subseteq Rows' /\ (NobodyLeaves \/ (Ready(c) /\ \E u \in Active : Leaves(u)))
    BY <1>1, StepActive
<1>4. /\ present' \subseteq Active' /\ torn' \subseteq present'
      /\ Missing' \subseteq Missing
    BY <1>1, <1>3 DEF Active, Missing
<1>5. /\ gone' \in Nat /\ left' \in Nat /\ gone \in Nat /\ gone <= gone'
      /\ gone' + left' <= MaxRequests
      /\ ~NobodyLeaves /\ page > 0 => gone' = gone + 1
    <2>1. /\ gone \in Nat /\ left \in Nat /\ left' >= 0 /\ gone + left <= MaxRequests
          /\ gone' = IF page > 0 THEN gone + Cardinality(deleted' \ deleted) ELSE gone
          /\ left' = IF Ready(c) THEN left - 1 ELSE left
        BY <1>1 DEF PagesTypeOK, WalkInv, Meanwhile
    <2>2. NobodyLeaves => Cardinality(deleted' \ deleted) = 0
        <3>1. NobodyLeaves => deleted' \ deleted = {}
            BY DEF NobodyLeaves
        <3> QED BY <3>1, FS_EmptySet
    <2>3. ASSUME NEW u \in Active, Leaves(u) PROVE Cardinality(deleted' \ deleted) = 1
        BY <2>3, FS_Singleton DEF Leaves
    <2>4. CASE NobodyLeaves
        <3>1. gone' = gone /\ gone \in Nat
            BY <2>1, <2>2, <2>4
        <3>2. left' = left \/ left' = left - 1
            BY <2>1
        <3>3. left' \in Nat /\ left' <= left
            BY <2>1, <3>2
        <3>4. gone + left' <= MaxRequests
            BY <1>0, <2>1, <3>2
        <3> QED BY <2>4, <3>1, <3>3, <3>4
    <2>5. ASSUME Ready(c), NEW u \in Active, Leaves(u)
          PROVE  /\ gone' = IF page > 0 THEN gone + 1 ELSE gone
                 /\ left' = left - 1
        BY <2>1, <2>3, <2>5
    <2>6. CASE Ready(c) /\ \E u \in Active : Leaves(u)
        <3>1. /\ gone' = IF page > 0 THEN gone + 1 ELSE gone
              /\ left' = left - 1
            BY <2>5, <2>6
        <3>2. left' \in Nat /\ left' = left - 1
            BY <2>1, <3>1
        <3>3. gone' \in Nat /\ gone' <= gone + 1 /\ gone <= gone'
            BY <2>1, <3>1
        <3>4. gone' + left' <= MaxRequests
            BY <1>0, <2>1, <3>1
        <3> QED BY <2>1, <3>1, <3>2, <3>3, <3>4
    <2> QED BY <1>3, <2>4, <2>6
<1>6. PagesTypeOK'
    <2>1. gone' \in 0 .. MaxRequests /\ left' \in 0 .. MaxRequests
        BY <1>5, MaxAssumption, SumAtMost
    <2>2. /\ page' \in 0 .. Cardinality(Users) + 1 /\ limit' \in 1 .. MaxLimit
          /\ list' \subseteq Rows' /\ Cardinality(list') <= limit'
          /\ counted' \in BOOLEAN /\ shown' \subseteq Rows'
        BY <1>1, <1>3 DEF PagesTypeOK
    <2> QED BY <1>2, <1>4, <2>1, <2>2 DEF PagesTypeOK
<1>7. /\ IsFiniteSet(Missing) /\ IsFiniteSet(Missing')
      /\ Cardinality(Missing') <= Cardinality(Missing)
      /\ Cardinality(Missing) \in Nat /\ Cardinality(Missing') \in Nat
    <2>1. Missing \subseteq present
        BY DEF Missing
    <2>2. IsFiniteSet(Missing) /\ Cardinality(Missing) \in Nat
        BY <1>1, <2>1, MissingFinite
    <2> QED BY <1>4, <2>2, FS_Subset, FS_CardinalityType
<1> DEFINE M == {u \in Missing : Rank(u) < Reach}
           N == {u \in Missing' : (Rank(u))' < Reach'}
<1>8. ASSUME page > 0 PROVE Cardinality(N) <= gone'
    <2>1. /\ Reach \in Nat /\ Reach' = Reach /\ Cardinality(M) <= gone
          /\ Missing \subseteq Active
        BY <1>1, <1>8, ReachType DEF Reach, Skip, WalkInv, Missing
    <2>2. IsFiniteSet(M) /\ Cardinality(M) \in Nat
        BY <1>7, FS_Subset, FS_CardinalityType
    <2>3. CASE NobodyLeaves
        <3>1. N \subseteq M
            <4> SUFFICES ASSUME NEW u \in N PROVE Rank(u) < Reach
                BY <1>4
            <4>1. u \in Active /\ (Rank(u))' < Reach
                BY <1>4, <2>1
            <4> QED BY <1>1, <1>2, <2>1, <2>3, <4>1, RankGrows
        <3>2. IsFiniteSet(N) /\ Cardinality(N) <= Cardinality(M)
            BY <2>2, <3>1, FS_Subset
        <3>3. Cardinality(N) \in Nat
            BY <3>2, FS_CardinalityType
        <3> QED BY <1>5, <2>1, <2>2, <3>2, <3>3
    <2>4. ASSUME ~NobodyLeaves, NEW u \in Active, Leaves(u) PROVE Cardinality(N) <= gone'
        <3>1. ASSUME NEW v \in N PROVE v \in M \/ Rank(v) = Reach
            <4>1. v \in Active' /\ v \in Missing /\ (Rank(v))' < Reach
                BY <1>4, <2>1 DEF Missing
            <4>2. Rank(v) \in Nat /\ (Rank(v))' \in Nat /\ Rank(v) <= (Rank(v))' + 1
                BY <1>1, <2>4, <4>1, RankDrops
            <4> QED BY <2>1, <4>1, <4>2
        <3>2. \E x : N \subseteq M \union {x}
            <4>1. CASE \E v \in N : Rank(v) = Reach
                <5>1. PICK x \in N : Rank(x) = Reach
                    BY <4>1
                <5>2. \A v \in N : Rank(v) = Reach => v = x
                    BY <1>1, <1>4, <2>1, <5>1, RankDistinct
                <5> QED BY <3>1, <5>2
            <4>2. CASE ~\E v \in N : Rank(v) = Reach
                BY <3>1, <4>2
            <4> QED BY <4>1, <4>2
        <3>3. PICK x : N \subseteq M \union {x}
            BY <3>2
        <3> HIDE DEF M, N
        <3>4. /\ IsFiniteSet(M \union {x}) /\ Cardinality(M \union {x}) \in Nat
              /\ Cardinality(M \union {x}) <= Cardinality(M) + 1
            <4>1. /\ IsFiniteSet(M \union {x})
                  /\ Cardinality(M \union {x}) \in {Cardinality(M), Cardinality(M) + 1}
                BY <2>2, FS_AddElement
            <4> QED BY <2>2, <4>1
        <3>5. IsFiniteSet(N) /\ Cardinality(N) <= Cardinality(M \union {x})
            BY <3>3, <3>4, FS_Subset
        <3>6. Cardinality(N) \in Nat
            BY <3>5, FS_CardinalityType
        <3> QED BY <1>5, <1>8, <2>1, <2>2, <2>4, <3>4, <3>5, <3>6
    <2> QED BY <1>3, <2>3, <2>4
<1>9. ASSUME page > 0, ~counted, ShowsEnd PROVE Cardinality(Missing') <= gone'
    <2>1. Cardinality(Missing) <= gone
        BY <1>1, <1>9 DEF WalkInv
    <2> QED BY <1>5, <1>7, <2>1
<1>10. WalkInv'
    <2>1. ShowsEnd' = ShowsEnd
        BY <1>1 DEF ShowsEnd
    <2> QED BY <1>1, <1>5, <1>8, <1>9, <2>1 DEF WalkInv
<1>11. MissedPerDeletion'
    <2> DEFINE A == (present \ shown) \ torn
               B == (present' \ shown) \ torn'
    <2> SUFFICES ASSUME page = 0 PROVE Cardinality(B) <= gone'
        BY <1>1 DEF MissedPerDeletion
    <2>1. Cardinality(A) <= gone
        BY DEF PagesInv, MissedPerDeletion
    <2>2. B \subseteq A
        BY <1>1
    <2>3. IsFiniteSet(A) /\ Cardinality(A) \in Nat
        BY <1>1, MissingFinite
    <2>4. IsFiniteSet(B) /\ Cardinality(B) <= Cardinality(A)
        BY <2>2, <2>3, FS_Subset
    <2>5. Cardinality(B) \in Nat
        BY <2>4, FS_CardinalityType
    <2> QED BY <1>5, <2>1, <2>3, <2>4, <2>5
<1> QED BY <1>2, <1>6, <1>10, <1>11 DEF PagesInv

LEMMA AlwaysPagesInv == PagesSpec => []PagesInv
<1>1. PagesInv /\ [PagesNext]_allVars => PagesInv'
    <2>1. PagesInv /\ UNCHANGED allVars => PagesInv'
        BY DEF allVars, pageVars, vars, rows, PagesInv, PagesTypeOK, TypeOK, RequestInv,
               WalkInv, MissedPerDeletion, Missing, Reach, Skip, ShowsEnd, Rank, Newer,
               Active, Rows
    <2> QED BY <2>1, QueryRowsKeeps, QueryCountKeeps, MeanwhileKeeps DEF PagesNext
<1> QED BY <1>1, InitPages, PTL DEF PagesSpec

\* The accounts, and the page, the rows and the bookkeeping of the reader keep their
\* types; a page is never longer than was asked for.
THEOREM PagesTypeCorrect == PagesSpec => []PagesTypeOK
<1>1. PagesInv => PagesTypeOK
    BY DEF PagesInv
<1> QED BY <1>1, AlwaysPagesInv, PTL

\* Whoever reads all pages, of any size, misses at most one account per deletion of
\* those that were there all the time, whatever requests come in between, except
\* for accounts that share created_at with one across the edge of a page.
THEOREM WalkMissesPerDeletion == PagesSpec => []MissedPerDeletion
<1>1. PagesInv => MissedPerDeletion
    BY DEF PagesInv
<1> QED BY <1>1, AlwaysPagesInv, PTL

\* Reading changes nothing: what holds of Users holds while somebody reads.
THEOREM ReadingKeepsAccounts == PagesSpec => []OneAccountPerEmail /\ ChangesAsked
<1>1. PagesInit => Init
    BY DEF PagesInit
<1>2. [PagesNext]_allVars => [Next]_vars
    BY DEF PagesNext, QueryRows, QueryCount, Meanwhile, Next, allVars
<1> QED BY <1>1, <1>2, EmailsAreUnique, EmailChangesAreAsked, PTL DEF PagesSpec, Spec
=============================================================================
