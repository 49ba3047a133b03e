------------------------- MODULE EventCatalogProofs -------------------------
(***************************************************************************)
(* Theorems about EventCatalog, for any events, slugs, readers and         *)
(* editors: what the cache of the events and of their lists may answer.    *)
(***************************************************************************)
EXTENDS EventCatalog, TLAPS

USE AbsentAssumption, AnswersAssumption

-----------------------------------------------------------------------------
(* The inductive invariant *)

Patterns == {"list", "organizer"}

\* What a GET holds between two awaits: a missing event is not kept.
Reading ==
    {IdleReader} \union [at : {"missed"}, key : Keys]
    \union [at : {"loaded"}, key : Keys, value : SUBSET Response]

\* What a write holds between two awaits.
Editing ==
    {IdleEditor} \union [at : {"read"}, id : Events, seen : Slugs]
    \union [at : {"compared"}, id : Events, seen : Slugs, new : Slugs, found : Slugs,
            gone : BOOLEAN]
    \union [at : {"saved"}, id : Events, slugs : SUBSET Slugs]
    \union [at : {"created", "dropping"}, id : Events, scan : SUBSET Patterns,
            todo : SUBSET ListKeys]

\* An answer about one event says something, and its row exists.
LoadedInv ==
    \A r \in Readers : reader[r].at = "loaded" =>
        /\ reader[r].key \notin ListKeys => reader[r].value # {}
        /\ \A e \in Events : reader[r].key = IdKey(e) => slug[e] # Absent

\* So do the entries: no event comes into being under an entry of its id.
EntryInv == \A e \in Events : cache[IdKey(e)] # Absent => slug[e] # Absent

\* A write works on a row that exists, and scans one pattern after the other.
EditInv ==
    \A w \in Editors :
        /\ editor[w].at \in {"read", "compared"} => slug[editor[w].id] # Absent
        /\ editor[w].at = "created" => editor[w].todo = {}

EventInv ==
    /\ TypeOK
    /\ reader \in [Readers -> Reading]
    /\ editor \in [Editors -> Editing]
    /\ LoadedInv /\ EntryInv /\ EditInv
    /\ StaleExplained

-----------------------------------------------------------------------------
(* Keys and queries *)

LEMMA KeyKinds ==
    /\ \A e \in Events : IdKey(e) \in Keys \ ListKeys /\ IdKey(e).kind = "id"
                         /\ IdKey(e).of = e
    /\ \A s \in Slugs : SlugKey(s) \in Keys \ ListKeys /\ SlugKey(s).kind = "slug"
                        /\ SlugKey(s).of = s
    /\ ListKeys \subseteq Keys
    /\ \A k \in ListKeys : k.kind \in Patterns
    /\ \A k \in Keys : \/ \E e \in Events : k = IdKey(e)
                       \/ \E s \in Slugs : k = SlugKey(s)
                       \/ k \in ListKeys
BY DEF Keys, IdKey, SlugKey, ListKeys, Patterns

\* The database answers with rows that exist; the question for an id is about one.
LEMMA QueryTypes ==
    ASSUME slug \in [Events -> Slugs \union {Absent}], NEW k \in Keys
    PROVE  /\ Query(k) \in SUBSET Response
           /\ \A e \in Events : k = IdKey(e) /\ Query(k) # {} => slug[e] # Absent
<1>1. \A e \in Visible : Show(e) \in Response
    BY DEF Visible, Show, Response
<1>2. Visible \subseteq Events
    BY DEF Visible
<1>3. ASSUME NEW e \in Events, k = IdKey(e), Query(k) # {} PROVE slug[e] # Absent
    <2>1. Query(k) = {Show(x) : x \in Visible \cap {e}}
        BY <1>3, KeyKinds DEF Query
    <2> QED BY <1>3, <2>1 DEF Visible
<1>4. CASE k.kind = "id"
    <2>1. Query(k) = {Show(e) : e \in Visible \cap {k.of}}
        BY <1>4 DEF Query
    <2> QED BY <1>1, <1>3, <2>1
<1>5. CASE k.kind = "slug"
    <2>1. Query(k) = {Show(e) : e \in {x \in Visible : slug[x] = k.of}}
        BY <1>5 DEF Query
    <2> QED BY <1>1, <1>3, <2>1
<1>6. CASE k.kind # "id" /\ k.kind # "slug"
    <2>1. Query(k) = {Show(e) : e \in Visible}
        BY <1>6 DEF Query
    <2> QED BY <1>1, <1>3, <2>1
<1> QED BY <1>4, <1>5, <1>6

\* A write of row e changes the answers for its id, for the slugs it had and has,
\* and for the lists, and no other.
LEMMA QueryLocal ==
    ASSUME slug \in [Events -> Slugs \union {Absent}],
           slug' \in [Events -> Slugs \union {Absent}],
           NEW e \in Events,
           \A f \in Events \ {e} : slug'[f] = slug[f] /\ (f \in deleted' <=> f \in deleted),
           NEW k \in Keys, k \notin ListKeys, k # IdKey(e),
           k # SlugKey(slug[e]), k # SlugKey(slug'[e])
    PROVE  Query(k)' = Query(k)
<1>1. \A f \in Events \ {e} : /\ f \in Visible' <=> f \in Visible
                              /\ Show(f)' = Show(f)
    BY DEF Visible, Show
<1>2. Visible \subseteq Events /\ Visible' \subseteq Events
    BY DEF Visible
<1>3. CASE \E f \in Events : k = IdKey(f)
    <2>1. PICK f \in Events : k = IdKey(f)
        BY <1>3
    <2>2. f # e /\ k.kind = "id" /\ k.of = f
        BY <2>1, KeyKinds
    <2>3. /\ Query(k) = {Show(x) : x \in Visible \cap {f}}
          /\ Query(k)' = {Show(x)' : x \in Visible' \cap {f}}
        BY <2>2 DEF Query
    <2>4. Show(f)' = Show(f) /\ (f \in Visible' <=> f \in Visible)
        BY <1>1, <2>2
    <2>5. CASE f \in Visible
        <3>1. Query(k) = {Show(f)} /\ Query(k)' = {Show(f)'}
            BY <2>3, <2>4, <2>5
        <3> QED BY <2>4, <3>1
    <2>6. CASE f \notin Visible
        <3>1. Query(k) = {} /\ Query(k)' = {}
            BY <2>3, <2>4, <2>6
        <3> QED BY <3>1
    <2> QED BY <2>5, <2>6
<1>4. CASE \E s \in Slugs : k = SlugKey(s)
    <2>1. PICK s \in Slugs : k = SlugKey(s)
        BY <1>4
    <2>2. s # slug[e] /\ s # slug'[e] /\ k.kind = "slug" /\ k.of = s
        BY <2>1, KeyKinds
    <2> DEFINE X == {x \in Visible : slug[x] = s}
    <2>3. X = {x \in Visible' : slug'[x] = s} /\ X \subseteq Events \ {e}
        BY <1>1, <1>2, <2>2
    <2>4. /\ Query(k) = {Show(x) : x \in X}
          /\ Query(k)' = {Show(x)' : x \in {x \in Visible' : slug'[x] = s}}
        BY <2>2 DEF Query
    <2> HIDE DEF X
    <2>5. \A x \in X : Show(x)' = Show(x)
        BY <1>1, <2>3
    <2> QED BY <2>3, <2>4, <2>5
<1> QED BY <1>3, <1>4, KeyKinds

\* An answer depends on the rows alone.
LEMMA QueryRows == ASSUME UNCHANGED rows, NEW k PROVE Query(k)' = Query(k)
BY DEF rows, Query, Visible, Show

LEMMA EditorTypes ==
    ASSUME EventInv, NEW w \in Editors
    PROVE  /\ editor[w].at \in {"read", "compared"} =>
                 editor[w].id \in Events /\ editor[w].seen \in Slugs
                 /\ slug[editor[w].id] \in Slugs
           /\ editor[w].at = "compared" => editor[w].new \in Slugs
           /\ editor[w].at = "saved" => editor[w].id \in Events /\ editor[w].slugs \subseteq Slugs
           /\ editor[w].at \in {"created", "dropping"} =>
                 /\ editor[w] \in [at : {"created", "dropping"}, id : Events,
                                   scan : SUBSET Patterns, todo : SUBSET ListKeys]
                 /\ editor[w].todo \subseteq ListKeys /\ editor[w].scan \subseteq Patterns
           /\ Pending(w) \subseteq Keys
<1>1. editor[w] \in Editing
    BY DEF EventInv
<1>2. /\ editor[w].at \in {"read", "compared"} =>
            editor[w].id \in Events /\ editor[w].seen \in Slugs
      /\ editor[w].at = "compared" => editor[w].new \in Slugs
      /\ editor[w].at = "saved" => editor[w].id \in Events /\ editor[w].slugs \subseteq Slugs
      /\ editor[w].at \in {"created", "dropping"} =>
            /\ editor[w] \in [at : {"created", "dropping"}, id : Events,
                              scan : SUBSET Patterns, todo : SUBSET ListKeys]
            /\ editor[w].todo \subseteq ListKeys /\ editor[w].scan \subseteq Patterns
    BY <1>1 DEF Editing, IdleEditor
<1>3. editor[w].at \in {"read", "compared"} => slug[editor[w].id] \in Slugs
    BY <1>2 DEF EventInv, TypeOK, EditInv
<1>4. Pending(w) \subseteq Keys
    BY <1>2, KeyKinds DEF Pending
<1> QED BY <1>2, <1>3, <1>4

LEMMA ReaderTypes ==
    ASSUME EventInv, NEW r \in Readers
    PROVE  /\ reader[r].at \in {"missed", "loaded"} => reader[r].key \in Keys
           /\ reader[r].at = "loaded" => reader[r].value \in SUBSET Response
<1>1. reader[r] \in Reading
    BY DEF EventInv
<1> QED BY <1>1 DEF Reading, IdleReader

-----------------------------------------------------------------------------
(* A write puts its row *)

\* A PATCH or a DELETE saved the row of e: what it does not delete by name and by
\* pattern is either as the database answers or known to be overtaken.
LEMMA SavedKeeps ==
    ASSUME EventInv, NEW w \in Editors, editor[w].at \in {"read", "compared"},
           NEW e \in Events, e = editor[w].id, NEW old \in Slugs, NEW new \in Slugs,
           Saved(w, e, old, new), UNCHANGED <<cache, reader>>,
           slug' \in [Events -> Slugs \union {Absent}], slug'[e] \in {slug[e], new},
           \A f \in Events \ {e} : slug'[f] = slug[f] /\ (f \in deleted' <=> f \in deleted),
           \A f \in Events \ {e} : slug'[f] # slug'[e],
           deleted' \subseteq Events
    PROVE  EventInv'
<1>1. slug[e] \in Slugs /\ slug'[e] \in Slugs /\ Pending(w) = {}
    BY EditorTypes DEF Pending
<1>2. /\ editor'[w] = [at |-> "saved", id |-> e, slugs |-> {old, new}]
      /\ editor' = [editor EXCEPT ![w] = [at |-> "saved", id |-> e, slugs |-> {old, new}]]
      /\ \A v \in Editors \ {w} : editor'[v] = editor[v]
    BY DEF Saved, EventInv
<1>3. excused \subseteq excused' /\ excused' \subseteq excused \union {SlugKey(slug[e])}
      /\ (slug[e] \notin {old, new} /\ cache[SlugKey(slug[e])] # Absent
            => SlugKey(slug[e]) \in excused')
      /\ (cache[SlugKey(slug[e])] = Absent => excused' = excused)
    BY DEF Saved
<1>4. TypeOK'
    <2>1. deleted' \subseteq {f \in Events : slug'[f] # Absent}
        BY <1>1 DEF EventInv, TypeOK
    <2>2. \A f, g \in Events : f # g /\ slug'[f] = slug'[g] => slug'[f] = Absent
        BY DEF EventInv, TypeOK
    <2>3. excused' \subseteq {k \in Keys : cache[k] # Absent}
        BY <1>1, <1>3, KeyKinds DEF EventInv, TypeOK
    <2> QED BY <2>1, <2>2, <2>3 DEF EventInv, TypeOK
<1>5. reader' \in [Readers -> Reading] /\ editor' \in [Editors -> Editing]
    <2>1. [at |-> "saved", id |-> e, slugs |-> {old, new}] \in Editing
        BY DEF Editing
    <2> QED BY <1>2, <2>1 DEF EventInv
<1>6. \A f \in Events : slug[f] # Absent => slug'[f] # Absent
    BY <1>1
<1>7. LoadedInv' /\ EntryInv'
    BY <1>6 DEF EventInv, LoadedInv, EntryInv
<1>8. EditInv'
    <2> SUFFICES ASSUME NEW v \in Editors
                 PROVE  /\ editor'[v].at \in {"read", "compared"} =>
                              slug'[editor'[v].id] # Absent
                        /\ editor'[v].at = "created" => editor'[v].todo = {}
        BY DEF EditInv
    <2>1. CASE v = w
        BY <1>2, <2>1
    <2>2. CASE v # w
        BY <1>2, <1>6, <2>2, EditorTypes DEF EventInv, EditInv
    <2> QED BY <2>1, <2>2
<1>9. StaleExplained'
    <2> SUFFICES ASSUME NEW k \in Keys, Stale(k)'
                 PROVE  k \in excused' \/ \E v \in Editors : k \in Pending(v)'
        BY DEF StaleExplained
    <2>1. cache[k] # Absent /\ cache[k] # Query(k)'
        BY DEF Stale
    <2>2. Pending(w)' = ListKeys \union {IdKey(e), SlugKey(old), SlugKey(new)}
        <3>1. /\ editor'[w].at = "saved" /\ editor'[w].id = e
              /\ editor'[w].slugs = {old, new}
            BY <1>2
        <3>2. Pending(w)' = ListKeys \union {IdKey(editor'[w].id)}
                            \union {SlugKey(s) : s \in editor'[w].slugs}
            BY <3>1 DEF Pending
        <3> QED BY <3>1, <3>2
    <2>3. CASE k \in ListKeys \union {IdKey(e), SlugKey(old), SlugKey(new)}
        BY <2>2, <2>3
    <2>4. CASE k \notin ListKeys \union {IdKey(e), SlugKey(old), SlugKey(new)}
               /\ k = SlugKey(slug[e])
        BY <1>3, <2>1, <2>4
    <2>5. CASE k \notin ListKeys \union {IdKey(e), SlugKey(old), SlugKey(new)}
               /\ k # SlugKey(slug[e])
        <3>1. k # SlugKey(slug'[e])
            BY <2>5
        <3>2. Query(k)' = Query(k)
            BY <2>5, <3>1, QueryLocal DEF EventInv, TypeOK
        <3>3. k \in excused \/ \E v \in Editors : k \in Pending(v)
            BY <2>1, <3>2 DEF EventInv, StaleExplained, Stale
        <3>4. \A v \in Editors \ {w} : Pending(v)' = Pending(v)
            BY <1>2 DEF Pending
        <3> QED BY <1>1, <1>3, <3>3, <3>4
    <2> QED BY <2>3, <2>4, <2>5
<1> QED BY <1>4, <1>5, <1>7, <1>8, <1>9 DEF EventInv

LEMMA SaveKeeps ==
    ASSUME EventInv, NEW w \in Editors, SaveEvent(w)
    PROVE  EventInv'
<1> DEFINE e == editor[w].id
           old == editor[w].seen
           new == editor[w].new
           next == NewSlug(w)
<1>1. /\ editor[w].at = "compared" /\ Free(e, next) /\ slug' = [slug EXCEPT ![e] = next]
      /\ deleted' = (IF editor[w].gone THEN deleted \ {e} ELSE deleted)
      /\ Saved(w, e, old, new) /\ UNCHANGED <<cache, reader>>
    BY DEF SaveEvent
<1>2. e \in Events /\ old \in Slugs /\ new \in Slugs /\ slug[e] \in Slugs
    BY <1>1, EditorTypes
<1>3. next \in {slug[e], new}
    BY DEF NewSlug
<1> HIDE DEF next, new, old
<1>4. /\ slug' \in [Events -> Slugs \union {Absent}] /\ slug'[e] = next
      /\ \A f \in Events \ {e} : slug'[f] = slug[f] /\ (f \in deleted' <=> f \in deleted)
      /\ deleted' \subseteq Events
    BY <1>1, <1>2, <1>3 DEF EventInv, TypeOK
<1>5. \A f \in Events \ {e} : slug'[f] # slug'[e]
    BY <1>1, <1>4 DEF Free
<1> HIDE DEF e
<1> QED BY <1>1, <1>2, <1>3, <1>4, <1>5, SavedKeeps DEF e

LEMMA DeleteKeeps ==
    ASSUME EventInv, NEW w \in Editors, DeleteEvent(w) PROVE EventInv'
<1> DEFINE e == editor[w].id
           old == editor[w].seen
<1>1. /\ editor[w].at = "read" /\ deleted' = deleted \union {e} /\ slug' = slug
      /\ Saved(w, e, old, old) /\ UNCHANGED <<cache, reader>>
    BY DEF DeleteEvent
<1>2. e \in Events /\ old \in Slugs /\ slug[e] \in Slugs
    BY <1>1, EditorTypes
<1>3. /\ slug' \in [Events -> Slugs \union {Absent}] /\ slug'[e] = slug[e]
      /\ \A f \in Events \ {e} : slug'[f] = slug[f] /\ (f \in deleted' <=> f \in deleted)
      /\ deleted' \subseteq Events
    BY <1>1, <1>2 DEF EventInv, TypeOK
<1>4. \A f \in Events \ {e} : slug'[f] # slug'[e]
    BY <1>1, <1>2 DEF EventInv, TypeOK
<1> HIDE DEF e, old
<1> QED BY <1>1, <1>2, <1>3, <1>4, SavedKeeps DEF e

\* A new row answers for its id, its slug and the lists: nothing is stored under the
\* first two, and the request deletes the third.
LEMMA InsertKeeps ==
    ASSUME EventInv, NEW w \in Editors, NEW e \in Events, NEW s \in Slugs, InsertEvent(w, e, s)
    PROVE  EventInv'
<1> DEFINE a == [at |-> "created", id |-> e, scan |-> Patterns, todo |-> {}]
<1>1. /\ editor[w].at = "idle" /\ slug[e] = Absent /\ Free(e, s) /\ cache[SlugKey(s)] = Absent
      /\ slug' = [slug EXCEPT ![e] = s] /\ editor' = [editor EXCEPT ![w] = a]
      /\ UNCHANGED <<deleted, cache, reader, excused>>
    BY DEF InsertEvent, Patterns
<1>2. /\ slug' \in [Events -> Slugs \union {Absent}] /\ slug'[e] = s
      /\ \A f \in Events \ {e} : slug'[f] = slug[f]
      /\ \A f \in Events : slug[f] # Absent => slug'[f] # Absent
    BY <1>1 DEF EventInv, TypeOK
<1>3. editor'[w] = a /\ \A v \in Editors \ {w} : editor'[v] = editor[v]
    BY <1>1 DEF EventInv
<1>4. TypeOK'
    BY <1>1, <1>2 DEF EventInv, TypeOK, Free
<1>5. reader' \in [Readers -> Reading] /\ editor' \in [Editors -> Editing]
    <2>1. a \in Editing
        BY DEF Editing
    <2> QED BY <1>1, <2>1 DEF EventInv
<1>6. LoadedInv' /\ EntryInv'
    BY <1>1, <1>2 DEF EventInv, LoadedInv, EntryInv
<1>7. EditInv'
    BY <1>2, <1>3, EditorTypes DEF EventInv, EditInv
<1>8. StaleExplained'
    <2> SUFFICES ASSUME NEW k \in Keys, Stale(k)'
                 PROVE  k \in excused \/ \E v \in Editors : k \in Pending(v)'
        BY <1>1 DEF StaleExplained
    <2>1. cache[k] # Absent /\ cache[k] # Query(k)'
        BY <1>1 DEF Stale
    <2>2. CASE k \in ListKeys
        <3>1. editor'[w].at = "created" /\ editor'[w].scan = Patterns
            BY <1>3
        <3>2. k \in Pending(w)'
            BY <2>2, <3>1, KeyKinds DEF Pending
        <3> QED BY <3>2
    <2>3. CASE k \notin ListKeys
        <3>1. k # IdKey(e) /\ k # SlugKey(s)
            BY <1>1, <2>1 DEF EventInv, EntryInv
        <3>2. k # SlugKey(slug[e])
            <4>1. SlugKey(Absent).kind = "slug" /\ SlugKey(Absent).of = Absent
                BY DEF SlugKey
            <4> QED BY <1>1, <2>3, <4>1, KeyKinds
        <3>3. Query(k)' = Query(k)
            BY <1>1, <1>2, <2>3, <3>1, <3>2, QueryLocal DEF EventInv, TypeOK
        <3>4. k \in excused \/ \E v \in Editors : k \in Pending(v)
            BY <2>1, <3>3 DEF EventInv, StaleExplained, Stale
        <3>5. Pending(w) = {} /\ \A v \in Editors \ {w} : Pending(v)' = Pending(v)
            BY <1>1, <1>3 DEF Pending
        <3> QED BY <3>4, <3>5
    <2> QED BY <2>2, <2>3
<1> QED BY <1>4, <1>5, <1>6, <1>7, <1>8 DEF EventInv

-----------------------------------------------------------------------------
(* A write deletes entries *)

\* A step of a write that leaves the rows: it may delete entries, and what it leaves
\* of those it had to delete it still has to delete, or gave up.
LEMMA EditorStep ==
    ASSUME EventInv, UNCHANGED <<rows, reader>>, NEW w \in Editors, NEW a \in Editing,
           editor' = [editor EXCEPT ![w] = a],
           a.at \in {"read", "compared"} => slug[a.id] # Absent,
           a.at = "created" => a.todo = {},
           cache' \in [Keys -> (SUBSET Response) \union {Absent}],
           \A k \in Keys : cache'[k] # Absent => cache'[k] = cache[k],
           excused' \subseteq {k \in Keys : cache'[k] # Absent},
           \A k \in Keys : k \in excused /\ cache'[k] # Absent => k \in excused',
           \A k \in Pending(w) : cache'[k] # Absent => k \in Pending(w)' \union excused'
    PROVE  EventInv'
<1>1. slug' = slug /\ deleted' = deleted /\ reader' = reader
    BY DEF rows
<1>2. editor'[w] = a /\ \A v \in Editors \ {w} : editor'[v] = editor[v]
    BY DEF EventInv
<1>3. TypeOK'
    <2>1. \A k \in Keys \ ListKeys : cache'[k] # {}
        BY DEF EventInv, TypeOK
    <2> QED BY <1>1, <2>1 DEF EventInv, TypeOK
<1>4. reader' \in [Readers -> Reading] /\ editor' \in [Editors -> Editing] /\ LoadedInv'
    BY <1>1 DEF EventInv, LoadedInv
<1>5. EntryInv'
    BY <1>1, KeyKinds DEF EventInv, EntryInv
<1>6. EditInv'
    BY <1>1, <1>2 DEF EventInv, EditInv
<1>7. StaleExplained'
    <2> SUFFICES ASSUME NEW k \in Keys, Stale(k)'
                 PROVE  k \in excused' \/ \E v \in Editors : k \in Pending(v)'
        BY DEF StaleExplained
    <2>1. cache'[k] # Absent /\ cache'[k] # Query(k)' /\ Query(k)' = Query(k)
        BY QueryRows DEF Stale
    <2>2. k \in excused \/ \E v \in Editors : k \in Pending(v)
        BY <2>1 DEF EventInv, StaleExplained, Stale
    <2>3. \A v \in Editors \ {w} : Pending(v)' = Pending(v)
        BY <1>2 DEF Pending
    <2> QED BY <2>1, <2>2, <2>3
<1> QED BY <1>3, <1>4, <1>5, <1>6, <1>7 DEF EventInv

LEMMA DropEntries ==
    ASSUME EventInv, NEW ks, Drop(ks)
    PROVE  /\ cache' \in [Keys -> (SUBSET Response) \union {Absent}]
           /\ \A k \in Keys : cache'[k] # Absent => cache'[k] = cache[k] /\ k \notin ks
           /\ excused' \subseteq {k \in Keys : cache'[k] # Absent}
           /\ \A k \in Keys : k \in excused /\ cache'[k] # Absent => k \in excused'
<1>1. cache \in [Keys -> (SUBSET Response) \union {Absent}]
      /\ excused \subseteq {k \in Keys : cache[k] # Absent}
    BY DEF EventInv, TypeOK
<1>2. cache' = [k \in Keys |-> IF k \in ks THEN Absent ELSE cache[k]]
      /\ excused' = excused \ ks
    BY DEF Drop
<1>3. cache' \in [Keys -> (SUBSET Response) \union {Absent}]
    <2>1. \A k \in Keys : (IF k \in ks THEN Absent ELSE cache[k])
                             \in (SUBSET Response) \union {Absent}
        BY <1>1
    <2> QED BY <1>2, <2>1
<1> QED BY <1>1, <1>2, <1>3

LEMMA ReadEventKeeps ==
    ASSUME EventInv, NEW w \in Editors, NEW e \in Events, ReadEvent(w, e) PROVE EventInv'
<1> DEFINE a == [at |-> "read", id |-> e, seen |-> slug[e]]
<1>1. /\ editor[w].at = "idle" /\ e \in Visible /\ editor' = [editor EXCEPT ![w] = a]
      /\ UNCHANGED <<rows, cache, reader, excused>>
    BY DEF ReadEvent
<1>2. slug[e] \in Slugs
    BY <1>1 DEF Visible, EventInv, TypeOK
<1>3. a \in Editing /\ a.at = "read" /\ slug[a.id] # Absent
    BY <1>2 DEF Editing
<1>4. Pending(w) = {}
    BY <1>1 DEF Pending
<1>5. /\ cache' \in [Keys -> (SUBSET Response) \union {Absent}] /\ cache' = cache
      /\ excused' = excused /\ excused' \subseteq {k \in Keys : cache'[k] # Absent}
      /\ UNCHANGED <<rows, reader>>
    BY <1>1 DEF EventInv, TypeOK
<1> HIDE DEF a
<1> QED BY <1>1, <1>3, <1>4, <1>5, EditorStep

LEMMA CompareKeeps ==
    ASSUME EventInv, NEW w \in Editors, NEW s \in Slugs \union {Absent}, CompareEvent(w, s)
    PROVE  EventInv'
<1> DEFINE e == editor[w].id
           a == [at |-> "compared", id |-> e, seen |-> editor[w].seen,
                 new |-> IF s = Absent THEN editor[w].seen ELSE s,
                 found |-> slug[e], gone |-> e \in deleted]
<1>1. /\ editor[w].at = "read" /\ editor' = [editor EXCEPT ![w] = a]
      /\ UNCHANGED <<rows, cache, reader, excused>>
    BY DEF CompareEvent
<1>2. e \in Events /\ editor[w].seen \in Slugs /\ slug[e] \in Slugs
    BY <1>1, EditorTypes
<1>3. a \in Editing /\ a.at = "compared" /\ slug[a.id] # Absent
    BY <1>2 DEF Editing
<1>4. Pending(w) = {}
    BY <1>1 DEF Pending
<1>5. /\ cache' \in [Keys -> (SUBSET Response) \union {Absent}] /\ cache' = cache
      /\ excused' = excused /\ excused' \subseteq {k \in Keys : cache'[k] # Absent}
      /\ UNCHANGED <<rows, reader>>
    BY <1>1 DEF EventInv, TypeOK
<1> HIDE DEF a
<1> QED BY <1>1, <1>3, <1>4, <1>5, EditorStep

LEMMA DropNamedKeeps == ASSUME EventInv, NEW w \in Editors, DropNamed(w) PROVE EventInv'
<1> DEFINE e == editor[w].id
           ks == StaleNamed(e, editor[w].slugs)
           found == {k \in ListKeys : cache[k] # Absent}
           a == [at |-> "dropping", id |-> e, scan |-> {}, todo |-> found]
<1>1. /\ editor[w].at = "saved" /\ Drop(ks) /\ editor' = [editor EXCEPT ![w] = a]
      /\ UNCHANGED <<rows, reader>>
    BY DEF DropNamed
<1>2. e \in Events
    BY <1>1, EditorTypes
<1>3. a \in Editing /\ a.at = "dropping"
    BY <1>2 DEF Editing
<1>4. Pending(w) = ListKeys \union ks
    BY <1>1 DEF Pending, StaleNamed
<1>5. found \subseteq Pending(w)'
    <2>1. editor'[w].at = "dropping" /\ editor'[w].todo = found
        BY <1>1 DEF EventInv
    <2> QED BY <2>1 DEF Pending
<1> HIDE DEF a, ks
<1>6. /\ cache' \in [Keys -> (SUBSET Response) \union {Absent}]
      /\ \A k \in Keys : cache'[k] # Absent => cache'[k] = cache[k] /\ k \notin ks
      /\ excused' \subseteq {k \in Keys : cache'[k] # Absent}
      /\ \A k \in Keys : k \in excused /\ cache'[k] # Absent => k \in excused'
    BY <1>1, DropEntries
<1>7. \A k \in Pending(w) : cache'[k] # Absent => k \in Pending(w)' \union excused'
    BY <1>4, <1>5, <1>6, EditorTypes
<1> QED BY <1>1, <1>3, <1>6, <1>7, EditorStep

LEMMA ScanKeeps ==
    ASSUME EventInv, NEW w \in Editors, NEW p \in Patterns, ScanPattern(w, p)
    PROVE  EventInv'
<1> DEFINE found == {k \in ListKeys : k.kind = p /\ cache[k] # Absent}
           x == editor[w]
           a == [x EXCEPT !.at = "dropping", !.scan = @ \ {p}, !.todo = found]
<1>1. /\ x.at = "created" /\ editor' = [editor EXCEPT ![w] = a]
      /\ UNCHANGED <<rows, cache, reader, excused>>
    BY DEF ScanPattern
<1>2. /\ x \in [at : {"created", "dropping"}, id : Events, scan : SUBSET Patterns,
                todo : SUBSET ListKeys]
      /\ x.todo = {}
    BY <1>1, EditorTypes DEF EventInv, EditInv
<1>3. /\ a \in [at : {"created", "dropping"}, id : Events, scan : SUBSET Patterns,
                todo : SUBSET ListKeys]
      /\ a.at = "dropping" /\ a.scan = x.scan \ {p} /\ a.todo = found
    BY <1>2
<1>4. editor'[w] = a
    BY <1>1 DEF EventInv
<1> HIDE DEF a, x
<1>5. Pending(w) = {k \in ListKeys : k.kind \in x.scan}
    BY <1>1, <1>2 DEF Pending, x
<1>6. Pending(w)' = found \union {k \in ListKeys : k.kind \in x.scan \ {p}}
    BY <1>3, <1>4 DEF Pending
<1>7. a \in Editing
    BY <1>3 DEF Editing
<1>8. /\ cache' \in [Keys -> (SUBSET Response) \union {Absent}] /\ cache' = cache
      /\ excused' = excused /\ excused' \subseteq {k \in Keys : cache'[k] # Absent}
      /\ UNCHANGED <<rows, reader>>
    BY <1>1 DEF EventInv, TypeOK
<1>9. \A k \in Pending(w) : cache'[k] # Absent => k \in Pending(w)' \union excused'
    BY <1>5, <1>6, <1>8
<1> QED BY <1>1, <1>3, <1>7, <1>8, <1>9, EditorStep

LEMMA DropListedKeeps ==
    ASSUME EventInv, NEW w \in Editors, NEW k \in ListKeys, DropListed(w, k) PROVE EventInv'
<1> DEFINE x == editor[w]
           a == [x EXCEPT !.todo = @ \ {k}]
<1>1. /\ x.at = "dropping" /\ Drop({k}) /\ editor' = [editor EXCEPT ![w] = a]
      /\ UNCHANGED <<rows, reader>>
    BY DEF DropListed, EventInv
<1>2. x \in [at : {"created", "dropping"}, id : Events, scan : SUBSET Patterns,
             todo : SUBSET ListKeys]
    BY <1>1, EditorTypes
<1>3. /\ a \in [at : {"created", "dropping"}, id : Events, scan : SUBSET Patterns,
                todo : SUBSET ListKeys]
      /\ a.at = "dropping" /\ a.scan = x.scan /\ a.todo = x.todo \ {k}
    BY <1>1, <1>2
<1>4. editor'[w] = a
    BY <1>1 DEF EventInv
<1> HIDE DEF a, x
<1>5. Pending(w) = x.todo \union {l \in ListKeys : l.kind \in x.scan}
    BY <1>1 DEF Pending, x
<1>6. Pending(w)' = (x.todo \ {k}) \union {l \in ListKeys : l.kind \in x.scan}
    BY <1>3, <1>4 DEF Pending
<1>7. a \in Editing
    BY <1>3 DEF Editing
<1>8. /\ cache' \in [Keys -> (SUBSET Response) \union {Absent}]
      /\ \A l \in Keys : cache'[l] # Absent => cache'[l] = cache[l] /\ l \notin {k}
      /\ excused' \subseteq {l \in Keys : cache'[l] # Absent}
      /\ \A l \in Keys : l \in excused /\ cache'[l] # Absent => l \in excused'
    BY <1>1, DropEntries
<1>9. \A l \in Pending(w) : cache'[l] # Absent => l \in Pending(w)' \union excused'
    BY <1>5, <1>6, <1>8, EditorTypes
<1> QED BY <1>1, <1>3, <1>7, <1>8, <1>9, EditorStep

LEMMA DroppedKeeps == ASSUME EventInv, NEW w \in Editors, Dropped(w) PROVE EventInv'
<1> DEFINE x == editor[w]
           a == IF x.scan = {} THEN IdleEditor ELSE [x EXCEPT !.at = "created"]
<1>1. /\ x.at = "dropping" /\ x.todo = {} /\ editor' = [editor EXCEPT ![w] = a]
      /\ UNCHANGED <<rows, cache, reader, excused>>
    BY DEF Dropped, EventInv
<1>2. x \in [at : {"created", "dropping"}, id : Events, scan : SUBSET Patterns,
             todo : SUBSET ListKeys]
    BY <1>1, EditorTypes
<1>3. /\ a \in Editing /\ a.at \notin {"read", "compared"} /\ (a.at = "created" => a.todo = {})
      /\ x.scan # {} => a.at = "created" /\ a.scan = x.scan /\ a.todo = {}
    BY <1>1, <1>2 DEF Editing, IdleEditor
<1>4. editor'[w] = a
    BY <1>1 DEF EventInv
<1> HIDE DEF a, x
<1>5. Pending(w) = {k \in ListKeys : k.kind \in x.scan}
    BY <1>1 DEF Pending, x
<1>6. Pending(w) \subseteq Pending(w)'
    <2>1. CASE x.scan = {}
        BY <1>5, <2>1
    <2>2. CASE x.scan # {}
        BY <1>3, <1>4, <1>5, <2>2 DEF Pending
    <2> QED BY <2>1, <2>2
<1>7. /\ cache' \in [Keys -> (SUBSET Response) \union {Absent}] /\ cache' = cache
      /\ excused' = excused /\ excused' \subseteq {k \in Keys : cache'[k] # Absent}
      /\ UNCHANGED <<rows, reader>>
    BY <1>1 DEF EventInv, TypeOK
<1> QED BY <1>1, <1>3, <1>6, <1>7, EditorStep

LEMMA WriteFailsKeeps == ASSUME EventInv, NEW w \in Editors, WriteFails(w) PROVE EventInv'
<1>1. /\ excused' = excused \union {k \in Pending(w) : cache[k] # Absent}
      /\ editor' = [editor EXCEPT ![w] = IdleEditor]
      /\ UNCHANGED <<rows, cache, reader>>
    BY DEF WriteFails
<1>2. IdleEditor \in Editing /\ IdleEditor.at = "idle"
    BY DEF Editing, IdleEditor
<1>3. /\ cache' \in [Keys -> (SUBSET Response) \union {Absent}] /\ cache' = cache
      /\ excused' \subseteq {k \in Keys : cache'[k] # Absent}
      /\ UNCHANGED <<rows, reader>>
    BY <1>1, EditorTypes DEF EventInv, TypeOK
<1> QED BY <1>1, <1>2, <1>3, EditorStep

-----------------------------------------------------------------------------
(* A read fills the cache *)

\* A step of a read that stores nothing.
LEMMA ReaderStep ==
    ASSUME EventInv, UNCHANGED <<rows, cache, editor, excused>>, NEW r \in Readers,
           NEW a \in Reading, reader' = [reader EXCEPT ![r] = a],
           a.at = "loaded" =>
              /\ a.key \notin ListKeys => a.value # {}
              /\ \A e \in Events : a.key = IdKey(e) => slug[e] # Absent
    PROVE  EventInv'
<1>1. slug' = slug /\ deleted' = deleted /\ cache' = cache /\ editor' = editor
      /\ excused' = excused
    BY DEF rows
<1>2. reader'[r] = a /\ \A q \in Readers \ {r} : reader'[q] = reader[q]
    BY DEF EventInv
<1>3. TypeOK' /\ EntryInv' /\ EditInv'
    BY <1>1 DEF EventInv, TypeOK, EntryInv, EditInv
<1>4. reader' \in [Readers -> Reading] /\ editor' \in [Editors -> Editing]
    BY <1>1 DEF EventInv
<1>5. LoadedInv'
    BY <1>1, <1>2 DEF EventInv, LoadedInv
<1>6. StaleExplained'
    <2>1. \A k \in Keys : Query(k)' = Query(k)
        BY QueryRows
    <2>2. \A v \in Editors : Pending(v)' = Pending(v)
        BY <1>1 DEF Pending
    <2> QED BY <1>1, <2>1, <2>2 DEF EventInv, StaleExplained, Stale
<1> QED BY <1>3, <1>4, <1>5, <1>6 DEF EventInv

LEMMA LoadKeeps == ASSUME EventInv, NEW r \in Readers, Load(r) PROVE EventInv'
<1> DEFINE k == reader[r].key
           b == [at |-> "loaded", key |-> k, value |-> Query(k)]
           a == IF k \notin ListKeys /\ Query(k) = {} THEN IdleReader ELSE b
<1>1. /\ reader[r].at = "missed" /\ reader' = [reader EXCEPT ![r] = a]
      /\ UNCHANGED <<rows, cache, editor, excused>>
    BY DEF Load
<1>2. k \in Keys
    BY <1>1, ReaderTypes
<1> HIDE DEF k
<1>3. /\ Query(k) \in SUBSET Response
      /\ \A e \in Events : k = IdKey(e) /\ Query(k) # {} => slug[e] # Absent
    BY <1>2, QueryTypes DEF EventInv, TypeOK
<1>4. /\ b \in Reading /\ IdleReader \in Reading /\ IdleReader.at = "idle"
      /\ b.key = k /\ b.value = Query(k)
    BY <1>2, <1>3 DEF Reading, IdleReader
<1> HIDE DEF b
<1>5. /\ a \in Reading
      /\ a.at = "loaded" =>
            /\ a.key \notin ListKeys => a.value # {}
            /\ \A e \in Events : a.key = IdKey(e) => slug[e] # Absent
    <2>1. CASE k \notin ListKeys /\ Query(k) = {}
        BY <1>4, <2>1
    <2>2. CASE ~ (k \notin ListKeys /\ Query(k) = {})
        <3>1. a = b
            BY <2>2
        <3>2. \A e \in Events : k = IdKey(e) => k \notin ListKeys
            BY KeyKinds
        <3> QED BY <1>3, <1>4, <2>2, <3>1, <3>2
    <2> QED BY <2>1, <2>2
<1> HIDE DEF a
<1> QED BY <1>1, <1>5, ReaderStep

LEMMA FillKeeps == ASSUME EventInv, NEW r \in Readers, Fill(r) PROVE EventInv'
<1> DEFINE k == reader[r].key
           v == reader[r].value
<1>1. /\ reader[r].at = "loaded" /\ cache' = [cache EXCEPT ![k] = v]
      /\ excused' = IF v = Query(k) THEN excused \ {k} ELSE excused \union {k}
      /\ reader' = [reader EXCEPT ![r] = IdleReader]
      /\ slug' = slug /\ deleted' = deleted /\ editor' = editor
    BY DEF Fill, rows
<1>2. /\ k \in Keys /\ v \in SUBSET Response
      /\ k \notin ListKeys => v # {}
      /\ \A e \in Events : k = IdKey(e) => slug[e] # Absent
    BY <1>1, ReaderTypes DEF EventInv, LoadedInv
<1> HIDE DEF k, v
<1>3. v # Absent /\ cache'[k] = v /\ \A l \in Keys \ {k} : cache'[l] = cache[l]
    BY <1>1, <1>2 DEF EventInv, TypeOK
<1>4. TypeOK'
    <2>1. cache' \in [Keys -> (SUBSET Response) \union {Absent}]
        BY <1>1, <1>2 DEF EventInv, TypeOK
    <2>2. \A l \in Keys \ ListKeys : cache'[l] # {}
        BY <1>2, <1>3 DEF EventInv, TypeOK
    <2>3. excused' \subseteq {l \in Keys : cache'[l] # Absent}
        BY <1>1, <1>2, <1>3 DEF EventInv, TypeOK
    <2> QED BY <1>1, <2>1, <2>2, <2>3 DEF EventInv, TypeOK
<1>5. reader' \in [Readers -> Reading] /\ editor' \in [Editors -> Editing]
    BY <1>1 DEF EventInv, Reading
<1>6. LoadedInv'
    <2>1. /\ reader'[r].at = "idle" /\ \A q \in Readers \ {r} : reader'[q] = reader[q]
        BY <1>1 DEF EventInv, IdleReader
    <2> QED BY <1>1, <2>1 DEF EventInv, LoadedInv
<1>7. EntryInv' /\ EditInv'
    BY <1>1, <1>2, <1>3, KeyKinds DEF EventInv, EntryInv, EditInv
<1>8. StaleExplained'
    <2> SUFFICES ASSUME NEW l \in Keys, Stale(l)'
                 PROVE  l \in excused' \/ \E w \in Editors : l \in Pending(w)'
        BY DEF StaleExplained
    <2>1. cache'[l] # Absent /\ cache'[l] # Query(l)
        BY <1>1, QueryRows DEF Stale, rows
    <2>2. \A w \in Editors : Pending(w)' = Pending(w)
        BY <1>1 DEF Pending
    <2>3. CASE l = k
        BY <1>1, <1>3, <2>1, <2>3
    <2>4. CASE l # k
        <3>1. l \in excused \/ \E w \in Editors : l \in Pending(w)
            BY <1>3, <2>1, <2>4 DEF EventInv, StaleExplained, Stale
        <3> QED BY <1>1, <2>2, <2>4, <3>1
    <2> QED BY <2>3, <2>4
<1> QED BY <1>4, <1>5, <1>6, <1>7, <1>8 DEF EventInv

LEMMA ExpireKeeps == ASSUME EventInv, NEW k \in Keys, Expire(k) PROVE EventInv'
<1>1. /\ cache' = [cache EXCEPT ![k] = Absent] /\ excused' = excused \ {k}
      /\ slug' = slug /\ deleted' = deleted /\ reader' = reader /\ editor' = editor
    BY DEF Expire, rows
<1>2. cache'[k] = Absent /\ \A l \in Keys \ {k} : cache'[l] = cache[l]
    BY <1>1 DEF EventInv, TypeOK
<1>3. TypeOK'
    <2>1. \A l \in Keys \ ListKeys : cache'[l] # {}
        BY <1>2 DEF EventInv, TypeOK
    <2>2. excused' \subseteq {l \in Keys : cache'[l] # Absent}
        BY <1>1, <1>2 DEF EventInv, TypeOK
    <2> QED BY <1>1, <2>1, <2>2 DEF EventInv, TypeOK
<1>4. /\ reader' \in [Readers -> Reading] /\ editor' \in [Editors -> Editing]
      /\ LoadedInv' /\ EditInv'
    BY <1>1 DEF EventInv, LoadedInv, EditInv
<1>5. EntryInv'
    BY <1>1, <1>2, KeyKinds DEF EventInv, EntryInv
<1>6. StaleExplained'
    <2>1. \A l \in Keys : Query(l)' = Query(l)
        BY <1>1, QueryRows DEF rows
    <2>2. \A w \in Editors : Pending(w)' = Pending(w)
        BY <1>1 DEF Pending
    <2> QED BY <1>1, <1>2, <2>1, <2>2 DEF EventInv, StaleExplained, Stale
<1> QED BY <1>3, <1>4, <1>5, <1>6 DEF EventInv

-----------------------------------------------------------------------------
(* The theorems *)

LEMMA InitEvents == Init => EventInv
<1> SUFFICES ASSUME Init PROVE EventInv
    OBVIOUS
<1>1. TypeOK
    BY DEF Init, TypeOK
<1>2. reader \in [Readers -> Reading] /\ editor \in [Editors -> Editing]
    BY DEF Init, Reading, Editing
<1>3. \A r \in Readers : reader[r].at = "idle"
    BY DEF Init, IdleReader
<1>4. \A w \in Editors : editor[w].at = "idle"
    BY DEF Init, IdleEditor
<1>5. \A k \in Keys : cache[k] = Absent
    BY DEF Init
<1> QED BY <1>1, <1>2, <1>3, <1>4, <1>5, KeyKinds
        DEF EventInv, LoadedInv, EntryInv, EditInv, StaleExplained, Stale

LEMMA NextEvents == EventInv /\ [Next]_vars => EventInv'
<1> SUFFICES ASSUME EventInv, [Next]_vars PROVE EventInv'
    OBVIOUS
<1>1. ASSUME NEW r \in Readers, NEW k \in Keys, LookUp(r, k) PROVE EventInv'
    <2>1. [at |-> "missed", key |-> k] \in Reading
        BY DEF Reading
    <2> QED BY <1>1, <2>1, ReaderStep DEF LookUp
<1>2. ASSUME NEW r \in Readers, ReadFails(r) PROVE EventInv'
    <2>1. IdleReader \in Reading /\ IdleReader.at = "idle"
        BY DEF Reading, IdleReader
    <2> QED BY <1>2, <2>1, ReaderStep DEF ReadFails
<1>3. CASE UNCHANGED vars
    <2>1. \A k \in Keys : Query(k)' = Query(k)
        <3>1. UNCHANGED rows
            BY <1>3 DEF vars, rows
        <3> QED BY <3>1, QueryRows
    <2>2. \A w \in Editors : Pending(w)' = Pending(w)
        BY <1>3 DEF vars, Pending
    <2>3. StaleExplained'
        BY <1>3, <2>1, <2>2 DEF vars, EventInv, StaleExplained, Stale
    <2> QED BY <1>3, <2>3 DEF vars, rows, EventInv, TypeOK, LoadedInv, EntryInv, EditInv
<1> QED BY <1>1, <1>2, <1>3, LoadKeeps, FillKeeps, ExpireKeeps, InsertKeeps, ReadEventKeeps,
           CompareKeeps, SaveKeeps, DeleteKeeps, DropNamedKeeps, ScanKeeps, DropListedKeeps, DroppedKeeps,
           WriteFailsKeeps DEF Next, Patterns

LEMMA AlwaysEvents == Spec => []EventInv
BY InitEvents, NextEvents, PTL DEF Spec

\* No two rows have one slug, an entry shows events under slugs they may have, and a
\* missing event is never stored as an answer (FindEventByIdUseCase,
\* FindEventBySlugUseCase).
THEOREM EventTypeCorrect == Spec => []TypeOK
<1>1. EventInv => TypeOK
    BY DEF EventInv
<1> QED BY <1>1, AlwaysEvents, PTL

\* Whatever readers and writers do between each other's awaits, an entry that is out of
\* date is about to be deleted, was stored late, or was left by a write that failed or
\* overwrote a slug it had not read (UpdateEventUseCase, DeleteEventUseCase,
\* CreateEventUseCase).
THEOREM EventStaleExplained == Spec => []StaleExplained
<1>1. EventInv => StaleExplained
    BY DEF EventInv
<1> QED BY <1>1, AlwaysEvents, PTL
=============================================================================
