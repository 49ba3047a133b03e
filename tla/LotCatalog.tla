---------------------------- MODULE LotCatalog ----------------------------
(***************************************************************************)
(* A ticket lot with the Redis entries that show it: the one of GET        *)
(* /ticket-types/:id and a page of GET /ticket-types.                      *)
(*                                                                         *)
(* A reader looks the key up, queries the database on a miss and stores    *)
(* the answer.  POST, PATCH and DELETE empty entries once their row is     *)
(* written: POST the pages, the others both, by a DEL and a KEYS with its  *)
(* DEL that run side by side.  Sales and returns empty nothing.  Entries   *)
(* do not depend on each other, so a behaviour follows one of the two.     *)
(***************************************************************************)
EXTENDS Lots

CONSTANTS
    Readers,    \* GET requests
    Creator,    \* the POST /ticket-types that made the lot
    Gone,       \* an answer without the lot
    Empty       \* no entry under a key

ASSUME CreatorAssumption == Creator \notin Editors \union Deleters

VARIABLES
    key,        \* the key whose entry is followed
    cache,      \* the entry of that key
    reader,     \* reader[r] : where the GET stands
    drop,       \* drop[w] : the commands about that key write w has still to send
    excused,    \* (history) the entry is known to be out of date
    moved,      \* (history) a sale or a return has aged the entry
    late        \* (history) buyers served while the lot was being deleted, or after

catalogVars == <<vars, key, cache, reader, drop, excused, moved, late>>

Keys == {"id", "list"}      \* ticket-types:id:<id>, ticket-types:list:<page>:<limit>
Writers == Editors \union Deleters \union {Creator}
Commands == {"del", "keys", "delKeys"}

\* The key a command is about.
KeyOf(x) == IF x = "del" THEN "id" ELSE "list"

Views == [total : Nat, avail : Nat] \union {Gone}

ASSUME AnswersAssumption == Empty \notin Views /\ Gone \notin [total : Nat, avail : Nat]

\* What the database answers, to either query.
Row == IF deleted THEN Gone ELSE [total |-> total, avail |-> avail]

CatalogTypeOK ==
    /\ TypeOK
    /\ key \in Keys
    /\ cache \in Views \union {Empty}
    /\ key = "id" => cache # Gone
    /\ reader \in [Readers -> [at : {"idle", "missed"}] \union [at : {"loaded"}, value : Views]]
    /\ drop \in [Writers -> SUBSET {x \in Commands : KeyOf(x) = key}]
    /\ {excused, moved} \subseteq BOOLEAN
    /\ cache = Empty => ~excused /\ ~moved
    /\ late \subseteq Buyers

\* The row has just been inserted; a page may show the lots before it.
CatalogInit ==
    /\ Init
    /\ key \in Keys
    /\ cache \in IF key = "id" THEN {Empty} ELSE {Gone, Empty}
    /\ reader = [r \in Readers |-> [at |-> "idle"]]
    /\ drop = [w \in Writers |-> IF w = Creator /\ key = "list" THEN {"keys"} ELSE {}]
    /\ excused = FALSE
    /\ moved = FALSE
    /\ late = {}

-----------------------------------------------------------------------------
(* GET /ticket-types/:id and GET /ticket-types *)

ReaderGoes(r, s) == reader' = [reader EXCEPT ![r] = s]

\* A miss; a hit is answered from the entry and changes nothing.
LookUp(r) ==
    /\ reader[r].at = "idle"
    /\ cache = Empty
    /\ ReaderGoes(r, [at |-> "missed"])
    /\ UNCHANGED <<vars, key, cache, drop, excused, moved, late>>

\* A deleted lot is a 404 under its id and missing from a page.
Load(r) ==
    /\ reader[r].at = "missed"
    /\ ReaderGoes(r, IF key = "id" /\ Row = Gone THEN [at |-> "idle"]
                     ELSE [at |-> "loaded", value |-> Row])
    /\ UNCHANGED <<vars, key, cache, drop, excused, moved, late>>

\* Two answers that differ in the seats on sale only.
SameLot(v, w) == v = w \/ (Gone \notin {v, w} /\ v.total = w.total)

\* The answer is stored whatever happened since the query.
Fill(r) ==
    /\ reader[r].at = "loaded"
    /\ cache' = reader[r].value
    /\ excused' = ~SameLot(cache', Row)
    /\ moved' = (cache' # Row)
    /\ ReaderGoes(r, [at |-> "idle"])
    /\ UNCHANGED <<vars, key, drop, late>>

ReadFails(r) ==
    /\ reader[r].at # "idle"
    /\ ReaderGoes(r, [at |-> "idle"])
    /\ UNCHANGED <<vars, key, cache, drop, excused, moved, late>>

Remove ==
    /\ cache' = Empty
    /\ excused' = FALSE
    /\ moved' = FALSE

\* CACHE_TTL is over.
Expire ==
    /\ cache # Empty
    /\ Remove
    /\ UNCHANGED <<vars, key, reader, drop, late>>

-----------------------------------------------------------------------------
(* The steps of Lots *)

\* Orders look at the row itself and empty no entry.
Sale(b) ==
    /\ CheckLot(b) \/ TakeSeats(b) \/ TakeRefused(b) \/ GiveSeats(b)
    /\ moved' = (moved \/ (avail' # avail /\ cache # Empty))
    /\ late' = IF buyer'[b] = "holding"
                  /\ (deleted \/ \E d \in Deleters : deleter[d] = "read")
               THEN late \union {b} ELSE late
    /\ UNCHANGED <<key, cache, reader, drop, excused>>

\* (bug) the pages are left to expire by themselves.
EmptiesIdOnly == {"del"}
\* Promise.all([del, delByPattern])
Empties == {"del", "keys"}

Owes(w, done) ==
    drop' = IF done THEN [drop EXCEPT ![w] = {x \in Empties : KeyOf(x) = key}] ELSE drop

Edit(e) ==
    /\ LockLot(e) \/ EditFails(e) \/ \E n \in Sizes \union {seen[e].total} : SaveLot(e, n)
    /\ Owes(e, editor'[e] = "done")
    /\ UNCHANGED <<key, cache, reader, excused, moved, late>>

Remover(d) ==
    /\ ReadForDelete(d) \/ MarkDeleted(d)
    /\ Owes(d, deleter'[d] = "done")
    /\ UNCHANGED <<key, cache, reader, excused, moved, late>>

-----------------------------------------------------------------------------
(* Emptying the entry *)

\* del, or the DEL of the keys that KEYS found
DropEntry(w, x) ==
    /\ x \in drop[w] \ {"keys"}
    /\ Remove
    /\ drop' = [drop EXCEPT ![w] = @ \ {x}]
    /\ UNCHANGED <<vars, key, reader, late>>

\* delByPattern: KEYS, which may find nothing.
ScanPages(w) ==
    /\ "keys" \in drop[w]
    /\ drop' = [drop EXCEPT ![w] = (@ \ {"keys"})
                  \union IF cache = Empty THEN {} ELSE {"delKeys"}]
    /\ UNCHANGED <<vars, key, cache, reader, excused, moved, late>>

\* A command fails, or the process restarts: the row stays written.  The other
\* command of the same write is not called back.
DropFails(w, x) ==
    /\ x \in drop[w]
    /\ drop' = [drop EXCEPT ![w] = @ \ {x}]
    /\ excused' = (excused \/ cache # Empty)
    /\ UNCHANGED <<vars, key, cache, reader, moved, late>>

-----------------------------------------------------------------------------

CatalogNext ==
    \/ \E b \in Buyers : Sale(b)
    \/ \E e \in Editors : Edit(e)
    \/ \E d \in Deleters : Remover(d)
    \/ \E r \in Readers :
          LookUp(r) \/ Load(r) \/ Fill(r) \/ ReadFails(r)
    \/ Expire
    \/ \E w \in Writers :
          ScanPages(w) \/ \E x \in Commands : DropEntry(w, x) \/ DropFails(w, x)

CatalogSpec == CatalogInit /\ [][CatalogNext]_catalogVars /\ Fairness

-----------------------------------------------------------------------------
(* Properties *)

\* An entry differs from the row for few reasons: a write has still to empty it
\* or failed to, a reader stored what it had read before a write, or, as to the
\* seats on sale only, somebody bought or gave back seats.  Nothing else ages an
\* entry: not a resize, a deletion or the insertion that went through
\* (CreateTicketTypeUseCase, UpdateTicketTypeUseCase, DeleteTicketTypeUseCase
\* against FindTicketTypeUseCase and ListTicketTypesUseCase).
LotStaleExplained ==
    \/ cache \in {Empty, Row}
    \/ excused
    \/ \E w \in Writers : drop[w] # {}
    \/ moved /\ SameLot(cache, Row)

\* Seats of a deleted lot are held by those only whose reservation committed after
\* the check of the deletion, or who had looked at the lot before it was deleted
\* (DeleteTicketTypeUseCase against TicketTypesRepository.decrementStock).
DeletedSoldLate == deleted => Holders \subseteq late
=============================================================================
