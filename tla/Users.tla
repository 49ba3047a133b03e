------------------------------- MODULE Users -------------------------------
(***************************************************************************)
(* The accounts: POST /users, PATCH and DELETE /users/:id against the      *)
(* users table and its partial unique index, which admits an e-mail once   *)
(* among the rows without deleted_at.                                      *)
(*                                                                         *)
(* A POST hashes the password before its transaction; a PATCH reads the    *)
(* row, hashes, and saves the entity: the save loads the row again,        *)
(* deleted or not, and updates the columns that differ from the entity,    *)
(* deleted_at included.  Names, pictures and passwords are left out; a     *)
(* body that sets only those carries no e-mail.                            *)
(***************************************************************************)
EXTENDS Integers, FiniteSets

CONSTANTS
    Users,      \* user ids
    Seeded,     \* the users that exist at first
    Emails,     \* e-mails, lower case and trimmed as the DTO leaves them
    Clients,    \* who sends requests
    Absent,     \* a body without an e-mail; no row yet
    Empty       \* a body without any field

ASSUME UsersAssumption == Seeded \subseteq Users /\ {Absent, Empty} \cap Emails = {}
ASSUME ClientsAssumption == IsFiniteSet(Users) /\ Absent # Empty

VARIABLES
    email,      \* email[u] : the column, Absent before the row exists
    deleted,    \* users with deleted_at
    stamp,      \* stamp[u] : created_at
    clock,      \* the time of day, as transactions that insert see it
    request     \* request[c] : the request of client c

rows == <<email, deleted, stamp>>
vars == <<rows, clock, request>>

Rows == {u \in Users : email[u] # Absent}
Active == Rows \ deleted

Bodies == Emails \union {Absent, Empty}

\* "read" and "compared" are a PATCH between awaits, overtaken when another
\* request wrote the row since it was read.
Requests ==
    [at : {"answered"}]
    \union [at : {"hashing"}, email : Emails]
    \union [at : {"inserting"}, email : Emails, stamp : Nat]
    \union [at : {"read"}, user : Users, body : Emails \union {Absent}, seen : Emails,
            overtaken : BOOLEAN]
    \union [at : {"compared"}, user : Users, body : Emails \union {Absent}, seen : Emails,
            overtaken : BOOLEAN, found : Emails, gone : BOOLEAN]

TypeOK ==
    /\ email \in [Users -> Emails \union {Absent}]
    /\ deleted \subseteq Rows
    /\ stamp \in [Users -> Nat]
    /\ clock \in Nat
    /\ request \in [Clients -> Requests]

Init ==
    /\ email \in [Users -> Emails \union {Absent}]
    /\ \A u \in Users : email[u] # Absent <=> u \in Seeded
    /\ \A u, v \in Seeded : email[u] = email[v] => u = v
    /\ deleted = {}
    /\ stamp \in [Users -> 0 .. Cardinality(Seeded)]
    /\ \A u \in Users : stamp[u] = 0 <=> u \notin Seeded
    /\ clock = Cardinality(Seeded)
    /\ request = [c \in Clients |-> [at |-> "answered"]]

-----------------------------------------------------------------------------
(* Answers and the index *)

Goes(c, r) == request' = [request EXCEPT ![c] = r]
Answer(c) == Goes(c, [at |-> "answered"]) /\ UNCHANGED <<rows, clock>>

Ready(c) == request[c].at = "answered"

\* The row of u is written for client c, who has its answer; requests that have
\* read it are overtaken.
Written(c, u) ==
    request' = [d \in Clients |->
                  CASE d = c -> [at |-> "answered"]
                    [] d # c /\ request[d].at \in {"read", "compared"}
                       /\ request[d].user = u -> [request[d] EXCEPT !.overtaken = TRUE]
                    [] OTHER -> request[d]]

\* (bug) the index is looked at for new e-mails only.
TakenAnew(u, e) == e # email[u] /\ \E v \in Active \ {u} : email[v] = e
\* IDX_UNIQUE_EMAIL_ACTIVE refuses e for an active row u.
Taken(u, e) == \E v \in Active \ {u} : email[v] = e

-----------------------------------------------------------------------------
(* POST /users *)

Post(c, e) ==
    /\ Ready(c)
    /\ Goes(c, [at |-> "hashing", email |-> e])
    /\ UNCHANGED <<rows, clock>>

\* The password is hashed; the transaction begins and fixes created_at, which
\* another one that begins in the same microsecond may share.
BeginInsert(c) ==
    /\ request[c].at = "hashing"
    /\ clock' \in {clock, clock + 1}
    /\ Goes(c, [at |-> "inserting", email |-> request[c].email, stamp |-> clock'])
    /\ UNCHANGED rows

Insert(c, u) ==
    LET e == request[c].email
    IN  /\ request[c].at = "inserting"
        /\ u \notin Rows
        /\ ~Taken(u, e)
        /\ email' = [email EXCEPT ![u] = e]
        /\ stamp' = [stamp EXCEPT ![u] = request[c].stamp]
        /\ Written(c, u)
        /\ UNCHANGED <<deleted, clock>>

InsertConflict(c) ==
    /\ request[c].at = "inserting"
    /\ \E v \in Active : email[v] = request[c].email
    /\ Answer(c)

-----------------------------------------------------------------------------
(* PATCH /users/:id *)

\* (bug) findOne finds deleted rows too.
FindAny(u) == u \in Rows
FindById(u) == u \in Active

\* 404, or the unchanged user for an empty body, or on to the save.
Read(c, u, body) ==
    /\ Ready(c)
    /\ IF FindById(u) /\ body # Empty
       THEN /\ Goes(c, [at |-> "read", user |-> u, body |-> body,
                        seen |-> email[u], overtaken |-> FALSE])
            /\ UNCHANGED <<rows, clock>>
       ELSE Answer(c)

\* The save loads the row, deleted or not.
Compare(c) ==
    LET r == request[c]
    IN  /\ r.at = "read"
        /\ Goes(c, [at |-> "compared", user |-> r.user, body |-> r.body, seen |-> r.seen,
                    overtaken |-> r.overtaken, found |-> email[r.user],
                    gone |-> r.user \in deleted])
        /\ UNCHANGED <<rows, clock>>

\* The e-mail of the entity, and what the row will be.
Wished(r) == IF r.body = Absent THEN r.seen ELSE r.body
NewEmail(r) == IF Wished(r) # r.found THEN Wished(r) ELSE email[r.user]
NewDeleted(r) == IF r.gone THEN deleted \ {r.user} ELSE deleted

Write(c) ==
    LET r == request[c]
    IN  /\ r.at = "compared"
        /\ r.user \notin NewDeleted(r) => ~Taken(r.user, NewEmail(r))
        /\ email' = [email EXCEPT ![r.user] = NewEmail(r)]
        /\ deleted' = NewDeleted(r)
        /\ Written(c, r.user)
        /\ UNCHANGED <<stamp, clock>>

WriteConflict(c) ==
    LET r == request[c]
    IN  /\ r.at = "compared"
        /\ r.user \notin NewDeleted(r) /\ Taken(r.user, NewEmail(r))
        /\ Answer(c)

-----------------------------------------------------------------------------
(* DELETE /users/:id *)

\* One UPDATE by id, which also affects a row that is deleted already.
SoftDelete(c, u) ==
    /\ Ready(c)
    /\ u \in Rows
    /\ deleted' = deleted \union {u}
    /\ Written(c, u)
    /\ UNCHANGED <<email, stamp, clock>>

DeleteMissing(c, u) == Ready(c) /\ u \notin Rows /\ Answer(c)

\* Anything else that goes wrong: nothing is written.
Fail(c) == ~Ready(c) /\ Answer(c)

-----------------------------------------------------------------------------

Step(c) ==
    \/ \E e \in Emails : Post(c, e)
    \/ BeginInsert(c) \/ InsertConflict(c) \/ \E u \in Users : Insert(c, u)
    \/ \E u \in Users, body \in Bodies : Read(c, u, body)
    \/ Compare(c) \/ Write(c) \/ WriteConflict(c)
    \/ \E u \in Users : SoftDelete(c, u) \/ DeleteMissing(c, u)
    \/ Fail(c)

Next == \E c \in Clients : Step(c)

Spec == Init /\ [][Next]_vars

-----------------------------------------------------------------------------
(* Properties *)

\* However registrations, changes, deletions and returns overlap, an e-mail leads
\* to one account: FindUserByEmailUseCase, which the login uses, finds at most one
\* (IDX_UNIQUE_EMAIL_ACTIVE, CreateUserUseCase, UpdateUserUseCase).
OneAccountPerEmail ==
    \A u, v \in Active : email[u] = email[v] => u = v

\* An account gets another e-mail, or comes back after its deletion, only because
\* a PATCH asks for that e-mail or because a PATCH that had read the row saves it
\* over a change made since (UpdateUserUseCase.execute, find and save).
Changes(u) == email'[u] # email[u] \/ (u \in deleted /\ u \notin deleted')

ChangesAsked ==
    [][\A u \in Rows : Changes(u) =>
          \E c \in Clients :
             /\ request[c].at = "compared" /\ request[c].user = u
             /\ request[c].overtaken \/ (email'[u] = request[c].body /\ u \notin deleted)]_vars

-----------------------------------------------------------------------------
(* The inductive strengthening of the types and of ChangesAsked (UsersProofs) *)

\* A PATCH works on a row that exists; rows are never removed.
RequestInv ==
    \A c \in Clients : request[c].at \in {"read", "compared"} => request[c].user \in Rows

\* A PATCH that nothing overtook still knows its row.
CurrentInv ==
    \A c \in Clients :
        request[c].at \in {"read", "compared"} /\ ~request[c].overtaken =>
            /\ request[c].user \in Active
            /\ request[c].seen = email[request[c].user]
            /\ request[c].at = "compared" =>
                  /\ request[c].found = email[request[c].user]
                  /\ ~request[c].gone
=============================================================================
