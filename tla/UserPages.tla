----------------------------- MODULE UserPages -----------------------------
(***************************************************************************)
(* Users with somebody who reads GET /users page after page.               *)
(*                                                                         *)
(* A page is two queries: the rows, newest first, behind the offset, and   *)
(* the number of rows, which TypeORM works out by itself when the page is  *)
(* not full.  Rows of one created_at come in an order of their own in each *)
(* query, since nothing else is asked for.  The reader goes on until the   *)
(* page is the last of totalPages.                                         *)
(* The lists of tickets, lots and events are read in the same way.         *)
(***************************************************************************)
EXTENDS Users

CONSTANTS
    MaxLimit,   \* bound: the largest page asked for
    MaxRequests \* bound: POSTs, PATCHes and DELETEs

ASSUME MaxAssumption == MaxLimit \in Nat \ {0} /\ MaxRequests \in Nat

VARIABLES
    page,       \* page of the next or current request, 0 before and after the walk
    limit,      \* rows asked for per page
    list,       \* the rows of the page, {} before the query
    counted,    \* the rows of the page are there, the count is not
    shown,      \* users shown so far
    present,    \* (history) users active since the walk began
    torn,       \* (history) of these, the ones of one created_at a page edge parted
    gone,       \* (history) deletions since the walk began
    left        \* requests that may still be sent

pageVars == <<page, limit, list, counted, shown, present, torn, gone, left>>
allVars == <<vars, pageVars>>

PagesTypeOK ==
    /\ TypeOK
    /\ page \in 0 .. Cardinality(Users) + 1
    /\ limit \in 1 .. MaxLimit
    /\ list \subseteq Rows /\ Cardinality(list) <= limit
    /\ counted \in BOOLEAN
    /\ shown \subseteq Rows
    /\ present \subseteq Active
    /\ torn \subseteq present
    /\ gone \in 0 .. MaxRequests
    /\ left \in 0 .. MaxRequests

PagesInit ==
    /\ Init
    /\ page = 1
    /\ limit \in 1 .. MaxLimit
    /\ list = {}
    /\ counted = TRUE
    /\ shown = {}
    /\ present = Active
    /\ torn = {}
    /\ gone = 0
    /\ left = MaxRequests

\* (bug) pages are counted from zero.
SkipFromZero(p, n) == p * n
Skip(p, n) == (p - 1) * n

\* ORDER BY created_at DESC: the sets that may come first, k rows or all there are.
FirstRows(k) ==
    {S \in SUBSET Active :
        /\ Cardinality(S) = k \/ (S = Active /\ Cardinality(S) < k)
        /\ \A u \in S, v \in Active \ S : stamp[u] >= stamp[v]}

\* (bug) the rows behind the offset come without a LIMIT.
CutsToEnd(p, n) == FirstRows(Skip(p, n)) \X {Active}
\* OFFSET and LIMIT: the rows before the page and those up to its end.
Cuts(p, n) ==
    {c \in FirstRows(Skip(p, n)) \X FirstRows(Skip(p + 1, n)) : c[1] \subseteq c[2]}

\* The accounts that share created_at with one on the other side of an edge.
Parted(S) ==
    {u \in Active : \E v \in Active : stamp[v] = stamp[u] /\ (v \in S <=> u \notin S)}

\* Math.ceil(total / limit)
TotalPages(total, n) == (total + n - 1) \div n

\* find of findAndCount
QueryRows ==
    /\ page > 0 /\ counted
    /\ \E cut \in Cuts(page, limit) :
          /\ list' = cut[2] \ cut[1]
          /\ torn' = torn \union (present \cap (Parted(cut[1]) \union Parted(cut[2])))
    /\ counted' = FALSE
    /\ UNCHANGED <<vars, page, limit, shown, present, gone, left>>

\* count of findAndCount, sent for a full page and for one behind the end.
ShowsEnd == Cardinality(list) \in 1 .. limit - 1 \/ (list = {} /\ page = 1)
Total == IF ShowsEnd THEN Skip(page, limit) + Cardinality(list) ELSE Cardinality(Active)

\* The page is answered; the reader takes the next one, if there is one.
QueryCount ==
    /\ page > 0 /\ ~counted
    /\ shown' = shown \union list
    /\ page' = IF page < TotalPages(Total, limit) THEN page + 1 ELSE 0
    /\ list' = {}
    /\ counted' = TRUE
    /\ UNCHANGED <<vars, limit, present, torn, gone, left>>

\* Meanwhile accounts are made, changed and deleted.
Meanwhile(c) ==
    /\ Step(c)
    /\ present' = present \ deleted'
    /\ torn' = torn \ deleted'
    /\ gone' = IF page > 0 THEN gone + Cardinality(deleted' \ deleted) ELSE gone
    /\ left' = IF Ready(c) THEN left - 1 ELSE left
    /\ left' >= 0
    /\ UNCHANGED <<page, limit, list, counted, shown>>

PagesNext == QueryRows \/ QueryCount \/ \E c \in Clients : Meanwhile(c)

PagesSpec == PagesInit /\ [][PagesNext]_allVars

-----------------------------------------------------------------------------
(* Properties *)

\* Walking all pages while accounts come and go misses of the accounts that were
\* there all the time at most one per deletion; registrations, which push rows
\* back, and accounts that return make the reader miss none.  Only accounts of one
\* created_at that an edge of a page parts may be missed besides: the pages are
\* ordered by it alone, and no two answers need agree (ListUsersUseCase, seed).
MissedPerDeletion ==
    page = 0 => Cardinality((present \ shown) \ torn) <= gone
=============================================================================
