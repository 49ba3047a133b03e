---------------------------- MODULE EventCatalog ----------------------------
(***************************************************************************)
(* The events and the entries of the cache that answer for them.           *)
(*                                                                         *)
(* Readers look a key up, query the database on a miss and store what they *)
(* found.  Editors create, change or delete a row and then delete the      *)
(* entries that showed it: those of its id and of its slug by name, those  *)
(* of the lists by pattern, which takes two commands (KEYS, then DEL).     *)
(* Between any two awaits of one request the others run.                   *)
(*                                                                         *)
(* A row is its slug, the one column that is also a key; one page stands   *)
(* for all the pages of a list.                                            *)
(***************************************************************************)
EXTENDS Naturals, FiniteSets

CONSTANTS
    Events,     \* ids
    Slugs,      \* slugs
    Readers,    \* GET requests in progress together
    Editors,    \* POST, PATCH and DELETE requests in progress together
    Absent      \* no row, no entry, no value in a body

ASSUME AbsentAssumption == Absent \notin Slugs \union Events

VARIABLES
    slug,       \* slug[e] : the column of row e, Absent before the row exists
    deleted,    \* events with deleted_at
    cache,      \* cache[k] : the entry of key k, or Absent
    reader,     \* reader[r] : a GET as its handler sees it
    editor,     \* editor[w] : a write as its handler sees it
    excused     \* history: keys whose entry is known to be out of date

rows == <<slug, deleted>>
vars == <<slug, deleted, cache, reader, editor, excused>>

\* events:id:*, events:slug:*, events:list:*, events:organizer:*
IdKey(e) == [kind |-> "id", of |-> e]
SlugKey(s) == [kind |-> "slug", of |-> s]
ListKeys == [kind : {"list", "organizer"}, of : {Absent}]
Keys == {IdKey(e) : e \in Events} \union {SlugKey(s) : s \in Slugs} \union ListKeys

\* A response shows an event under its slug.
Response == [id : Events, slug : Slugs]

\* No entry is not an empty answer.
ASSUME AnswersAssumption == \A answer \in SUBSET Response : answer # Absent

Visible == {e \in Events : slug[e] # Absent /\ e \notin deleted}
Show(e) == [id |-> e, slug |-> slug[e]]

\* What the database answers to the query behind key k; nothing is the 404.
Query(k) ==
    CASE k.kind = "id"   -> {Show(e) : e \in Visible \cap {k.of}}
      [] k.kind = "slug" -> {Show(e) : e \in {x \in Visible : slug[x] = k.of}}
      [] OTHER           -> {Show(e) : e \in Visible}

IdleReader == [at |-> "idle"]
IdleEditor == [at |-> "idle"]

TypeOK ==
    /\ slug \in [Events -> Slugs \union {Absent}]
    /\ deleted \subseteq {e \in Events : slug[e] # Absent}
    /\ \A e, f \in Events : e # f /\ slug[e] = slug[f] => slug[e] = Absent
    /\ cache \in [Keys -> (SUBSET Response) \union {Absent}]
    /\ \A k \in Keys \ ListKeys : cache[k] # {}
    /\ excused \subseteq {k \in Keys : cache[k] # Absent}

Init ==
    /\ slug = [e \in Events |-> Absent]
    /\ deleted = {}
    /\ cache = [k \in Keys |-> Absent]
    /\ reader = [r \in Readers |-> IdleReader]
    /\ editor = [w \in Editors |-> IdleEditor]
    /\ excused = {}

-----------------------------------------------------------------------------
(* GET /events/:id, /events/list/:slug, /events, /events/organizer/:id *)

\* A miss; a hit is answered from the entry and changes nothing.
LookUp(r, k) ==
    /\ reader[r].at = "idle"
    /\ cache[k] = Absent
    /\ reader' = [reader EXCEPT ![r] = [at |-> "missed", key |-> k]]
    /\ UNCHANGED <<rows, cache, editor, excused>>

\* (bug) the 404 is stored as well.
LoadStoresMissing(r) ==
    /\ reader[r].at = "missed"
    /\ reader' = [reader EXCEPT ![r] =
                    [at |-> "loaded", key |-> reader[r].key, value |-> Query(reader[r].key)]]
    /\ UNCHANGED <<rows, cache, editor, excused>>
\* An empty list is stored, a missing event is not.
Load(r) ==
    LET k == reader[r].key
    IN  /\ reader[r].at = "missed"
        /\ reader' = [reader EXCEPT ![r] =
                        IF k \notin ListKeys /\ Query(k) = {} THEN IdleReader
                        ELSE [at |-> "loaded", key |-> k, value |-> Query(k)]]
        /\ UNCHANGED <<rows, cache, editor, excused>>

\* The entry is stored whatever happened since the query; a value that the
\* database would not answer any more makes it a late one.
Fill(r) ==
    LET k == reader[r].key
    IN  /\ reader[r].at = "loaded"
        /\ cache' = [cache EXCEPT ![k] = reader[r].value]
        /\ excused' = IF reader[r].value = Query(k) THEN excused \ {k}
                      ELSE excused \union {k}
        /\ reader' = [reader EXCEPT ![r] = IdleReader]
        /\ UNCHANGED <<rows, editor>>

\* The query or Redis fails, or the process restarts.
ReadFails(r) ==
    /\ reader[r].at # "idle"
    /\ reader' = [reader EXCEPT ![r] = IdleReader]
    /\ UNCHANGED <<rows, cache, editor, excused>>

\* CACHE_TTL is over.
Expire(k) ==
    /\ cache[k] # Absent
    /\ cache' = [cache EXCEPT ![k] = Absent]
    /\ excused' = excused \ {k}
    /\ UNCHANGED <<rows, reader, editor>>

-----------------------------------------------------------------------------
(* POST /events, PATCH and DELETE /events/:id *)

Free(e, s) == \A f \in Events \ {e} : slug[f] # s

Drop(ks) ==
    /\ cache' = [k \in Keys |-> IF k \in ks THEN Absent ELSE cache[k]]
    /\ excused' = excused \ ks

\* The slug of a new event ends in a fresh identifier: no row has it, and no
\* entry is left of a row that had it.
InsertEvent(w, e, s) ==
    /\ editor[w].at = "idle"
    /\ slug[e] = Absent
    /\ Free(e, s) /\ cache[SlugKey(s)] = Absent
    /\ \A r \in Readers : reader[r].at # "idle" => reader[r].key # SlugKey(s)
    /\ slug' = [slug EXCEPT ![e] = s]
    /\ editor' = [editor EXCEPT ![w] =
                    [at |-> "created", id |-> e, scan |-> {"list", "organizer"}, todo |-> {}]]
    /\ UNCHANGED <<deleted, cache, reader, excused>>

\* findById of a PATCH or DELETE; the caller may change the event.
ReadEvent(w, e) ==
    /\ editor[w].at = "idle"
    /\ e \in Visible
    /\ editor' = [editor EXCEPT ![w] = [at |-> "read", id |-> e, seen |-> slug[e]]]
    /\ UNCHANGED <<rows, cache, reader, excused>>

\* The request is about to delete the entries of event e under these slugs;
\* the row had another slug when it was written, so that entry stays.
Saved(w, e, old, new) ==
    /\ editor' = [editor EXCEPT ![w] = [at |-> "saved", id |-> e, slugs |-> {old, new}]]
    /\ excused' = IF slug[e] \in {old, new} \/ cache[SlugKey(slug[e])] = Absent THEN excused
                  ELSE excused \union {SlugKey(slug[e])}

\* save() loads the row, deleted or not, to see in which columns the entity that
\* was read, with the body assigned to it, differs.
CompareEvent(w, s) ==
    LET e == editor[w].id
    IN  /\ editor[w].at = "read"
        /\ editor' = [editor EXCEPT ![w] =
                        [at |-> "compared", id |-> e, seen |-> editor[w].seen,
                         new |-> IF s = Absent THEN editor[w].seen ELSE s,
                         found |-> slug[e], gone |-> e \in deleted]]
        /\ UNCHANGED <<rows, cache, reader, excused>>

\* The slug of row e after the UPDATE of the columns that differed.
NewSlug(w) == IF editor[w].new # editor[w].found THEN editor[w].new ELSE slug[editor[w].id]

\* The empty deleted_at of the entity is one of the columns; what changed since
\* the comparison stays where no column differed.
SaveEvent(w) ==
    LET e == editor[w].id
    IN  /\ editor[w].at = "compared"
        /\ Free(e, NewSlug(w))
        /\ slug' = [slug EXCEPT ![e] = NewSlug(w)]
        /\ deleted' = IF editor[w].gone THEN deleted \ {e} ELSE deleted
        /\ Saved(w, e, editor[w].seen, editor[w].new)
        /\ UNCHANGED <<cache, reader>>

DeleteEvent(w) ==
    LET e == editor[w].id
    IN  /\ editor[w].at = "read"
        /\ deleted' = deleted \union {e}
        /\ Saved(w, e, editor[w].seen, editor[w].seen)
        /\ UNCHANGED <<slug, cache, reader>>

\* (bug) the entry of the slug before the change is forgotten.
StaleNamedNew(e, slugs) == {IdKey(e)} \union {SlugKey(s) : s \in slugs \cap {slug[e]}}
StaleNamed(e, slugs) == {IdKey(e)} \union {SlugKey(s) : s \in slugs}

\* Promise.all: the DELs by name and both KEYS leave together.
DropNamed(w) ==
    /\ editor[w].at = "saved"
    /\ Drop(StaleNamed(editor[w].id, editor[w].slugs))
    /\ editor' = [editor EXCEPT ![w] =
                    [at |-> "dropping", id |-> editor[w].id, scan |-> {},
                     todo |-> {k \in ListKeys : cache[k] # Absent}]]
    /\ UNCHANGED <<rows, reader>>

\* delByPattern of a POST, one pattern after the other: KEYS.
ScanPattern(w, p) ==
    /\ editor[w].at = "created"
    /\ p = IF "list" \in editor[w].scan THEN "list" ELSE "organizer"
    /\ editor' = [editor EXCEPT ![w] =
                    [editor[w] EXCEPT
                        !.at = "dropping",
                        !.scan = editor[w].scan \ {p},
                        !.todo = {k \in ListKeys : k.kind = p /\ cache[k] # Absent}]]
    /\ UNCHANGED <<rows, cache, reader, excused>>

\* delByPattern: DEL of a key that KEYS found.
DropListed(w, k) ==
    /\ editor[w].at = "dropping"
    /\ k \in editor[w].todo
    /\ Drop({k})
    /\ editor' = [editor EXCEPT ![w].todo = @ \ {k}]
    /\ UNCHANGED <<rows, reader>>

\* Nothing is left of a pattern: the next one, or the answer.
Dropped(w) ==
    /\ editor[w].at = "dropping"
    /\ editor[w].todo = {}
    /\ editor' = [editor EXCEPT ![w] =
                    IF editor[w].scan = {} THEN IdleEditor ELSE [@ EXCEPT !.at = "created"]]
    /\ UNCHANGED <<rows, cache, reader, excused>>

\* The entries a write has yet to delete.
Pending(w) ==
    CASE editor[w].at = "saved" ->
            ListKeys \union {IdKey(editor[w].id)} \union {SlugKey(s) : s \in editor[w].slugs}
      [] editor[w].at \in {"created", "dropping"} ->
            editor[w].todo \union {k \in ListKeys : k.kind \in editor[w].scan}
      [] OTHER -> {}

\* A call fails or the process restarts.  A failure after the row was written
\* leaves the entries where they are.
WriteFails(w) ==
    /\ editor[w].at # "idle"
    /\ excused' = excused \union {k \in Pending(w) : cache[k] # Absent}
    /\ editor' = [editor EXCEPT ![w] = IdleEditor]
    /\ UNCHANGED <<rows, cache, reader>>

-----------------------------------------------------------------------------

Next ==
    \/ \E r \in Readers :
          \/ \E k \in Keys : LookUp(r, k)
          \/ Load(r) \/ Fill(r) \/ ReadFails(r)
    \/ \E k \in Keys : Expire(k)
    \/ \E w \in Editors :
          \/ \E e \in Events, s \in Slugs : InsertEvent(w, e, s)
          \/ \E e \in Events : ReadEvent(w, e)
          \/ \E s \in Slugs \union {Absent} : CompareEvent(w, s)
          \/ SaveEvent(w)
          \/ DeleteEvent(w)
          \/ DropNamed(w)
          \/ \E p \in {"list", "organizer"} : ScanPattern(w, p)
          \/ \E k \in ListKeys : DropListed(w, k)
          \/ Dropped(w)
          \/ WriteFails(w)

Spec == Init /\ [][Next]_vars

-----------------------------------------------------------------------------
(* Properties *)

Stale(k) == cache[k] \notin {Absent, Query(k)}

\* The cache is out of date for four reasons only: a write that has yet to
\* delete the entry, a reader that stored what it had read before a write, a
\* write that failed half way, and a write that overwrote a change of the
\* slug it had not read.  Every other entry answers as the database would:
\* each write deletes all the entries that showed its row, under the slug it
\* had and the one it gets (UpdateEventUseCase, DeleteEventUseCase,
\* CreateEventUseCase against the four readers).
StaleExplained ==
    \A k \in Keys : Stale(k) => k \in excused \/ \E w \in Editors : k \in Pending(w)
=============================================================================
