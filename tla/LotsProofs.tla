---------------------------- MODULE LotsProofs ----------------------------
(***************************************************************************)
(* Theorems about Lots, and about LotCatalog, whose steps are steps of Lots *)
(* next to those of the cache, for any buyers, quantities, editors,        *)
(* deleters, readers and sizes.                                            *)
(***************************************************************************)
EXTENDS LotCatalog, SeatsProofs

USE BuyersAssumption, SizesAssumption, NobodyAssumption

\* The three parts of the inductive invariant.
IInv == TypeOK /\ LockInv /\ SoldIsHeld

-----------------------------------------------------------------------------
(* Types and the row lock *)

LEMMA InitIInv == Init => IInv
<1> SUFFICES ASSUME Init PROVE IInv
    OBVIOUS
<1>1. TypeOK /\ LockInv
    BY DEF Init, TypeOK, LockInv
<1>2. Holders = {}
    BY DEF Init, Holders
<1>3. SoldIsHeld
    <2>1. total - avail = 0
        BY DEF Init
    <2> QED BY <1>2, <2>1, UnitsEmpty DEF SoldIsHeld
<1> QED BY <1>1, <1>3 DEF IInv

\* Types are kept, and so is the lock: what an editor read is the row as long
\* as it has the lock, since every write of another waits.
LEMMA NextLock == TypeOK /\ LockInv /\ [Next]_vars => TypeOK' /\ LockInv'
<1> SUFFICES ASSUME TypeOK, LockInv, [Next]_vars PROVE TypeOK' /\ LockInv'
    OBVIOUS
<1> USE DEF TypeOK, LockInv
<1>1. ASSUME NEW b \in Buyers, CheckLot(b) PROVE TypeOK' /\ LockInv'
    BY <1>1 DEF CheckLot, BuyerGoes
<1>2. ASSUME NEW b \in Buyers, TakeSeats(b) PROVE TypeOK' /\ LockInv'
    BY <1>2 DEF TakeSeats, BuyerGoes
<1>3. ASSUME NEW b \in Buyers, TakeRefused(b) PROVE TypeOK' /\ LockInv'
    BY <1>3 DEF TakeRefused, BuyerGoes
<1>4. ASSUME NEW b \in Buyers, GiveSeats(b) PROVE TypeOK' /\ LockInv'
    BY <1>4 DEF GiveSeats, BuyerGoes
<1>5. ASSUME NEW e \in Editors, LockLot(e) PROVE TypeOK' /\ LockInv'
    <2>1. CASE deleted
        BY <1>5, <2>1 DEF LockLot, EditorGoes
    <2>2. CASE ~deleted
        <3>1. /\ lock = Nobody /\ lock' = e
              /\ editor' = [editor EXCEPT ![e] = "locked"]
              /\ seen' = [seen EXCEPT ![e] = [total |-> total, avail |-> avail]]
              /\ UNCHANGED <<total, avail, deleted, buyer, deleter>>
            BY <1>5, <2>2 DEF LockLot, EditorGoes
        <3>2. TypeOK'
            BY <3>1
        <3>3. \A x \in Editors : editor'[x] = "locked" <=> lock' = x
            BY <3>1
        <3>4. seen'[e] = [total |-> total, avail |-> avail]
            BY <3>1
        <3> QED BY <3>1, <3>2, <3>3, <3>4
    <2> QED BY <2>1, <2>2
<1>6. ASSUME NEW e \in Editors, NEW n \in Sizes \union {seen[e].total}, SaveLot(e, n)
      PROVE  TypeOK' /\ LockInv'
    <2>1. n \in Nat /\ seen[e].total \in Nat /\ seen[e].avail \in Nat
        OBVIOUS
    <2>2. CASE n # seen[e].total /\ ~Fits(n, seen[e])
        BY <1>6, <2>2 DEF SaveLot, EditorGoes
    <2>3. CASE ~(n # seen[e].total /\ ~Fits(n, seen[e]))
        <3>1. avail' \in Nat
            BY <1>6, <2>1, <2>3 DEF SaveLot, Fits
        <3> QED BY <1>6, <2>1, <2>3, <3>1 DEF SaveLot, EditorGoes
    <2> QED BY <2>2, <2>3
<1>7. ASSUME NEW e \in Editors, EditFails(e) PROVE TypeOK' /\ LockInv'
    BY <1>7 DEF EditFails, EditorGoes
<1>8. ASSUME NEW d \in Deleters, ReadForDelete(d) PROVE TypeOK' /\ LockInv'
    BY <1>8 DEF ReadForDelete, DeleterGoes
<1>9. ASSUME NEW d \in Deleters, MarkDeleted(d) PROVE TypeOK' /\ LockInv'
    BY <1>9 DEF MarkDeleted, DeleterGoes
<1>10. ASSUME UNCHANGED vars PROVE TypeOK' /\ LockInv'
    BY <1>10 DEF vars
<1> QED
    BY <1>1, <1>2, <1>3, <1>4, <1>5, <1>6, <1>7, <1>8, <1>9, <1>10 DEF Next

-----------------------------------------------------------------------------
(* The columns *)

\* A step either leaves both sides alone, or a buyer joins or leaves the
\* holders and the quantity on sale follows.
LEMMA NextSold == IInv /\ [Next]_vars => SoldIsHeld'
<1> SUFFICES ASSUME IInv, [Next]_vars PROVE SoldIsHeld'
    OBVIOUS
<1>t. TypeOK /\ SoldIsHeld /\ LockInv
    BY DEF IInv
<1>f. IsFiniteSet(Holders) /\ \A b \in Buyers : Qty[b] \in Nat
    <2>1. Holders \subseteq Buyers
        BY DEF Holders
    <2> QED BY <2>1, FS_Subset
<1>u. Units(Holders, Qty) \in Nat
    <2>1. \A b \in Holders : Qty[b] \in Nat
        BY DEF Holders
    <2> QED BY <1>f, <2>1, UnitsMonotone
<1>same. ASSUME Holders' = Holders, total' - avail' = total - avail PROVE SoldIsHeld'
    <2>1. SoldIsHeld' <=> total' - avail' = Units(Holders', Qty)
        BY DEF SoldIsHeld
    <2> QED BY <1>same, <1>t, <2>1 DEF SoldIsHeld
<1>1. ASSUME NEW b \in Buyers, CheckLot(b) \/ TakeRefused(b) PROVE SoldIsHeld'
    <2>1. Holders' = Holders
        BY <1>1, <1>t DEF CheckLot, TakeRefused, BuyerGoes, Holders, TypeOK
    <2>2. total' - avail' = total - avail
        BY <1>1 DEF CheckLot, TakeRefused
    <2> QED BY <2>1, <2>2, <1>same
<1>2. ASSUME NEW b \in Buyers, TakeSeats(b) PROVE SoldIsHeld'
    <2>1. b \notin Holders /\ Holders' = Holders \union {b}
        BY <1>2, <1>t DEF TakeSeats, BuyerGoes, Holders, TypeOK
    <2>2. \A x \in Holders : Qty[x] \in Nat
        BY DEF Holders
    <2>3. Units(Holders \union {b}, Qty) = Units(Holders, Qty) + Qty[b]
        BY <2>1, <2>2, <1>f, UnitsAdd
    <2>4. total' = total /\ avail' = avail - Qty[b]
        BY <1>2 DEF TakeSeats
    <2>5. total - avail = Units(Holders, Qty) /\ total \in Nat /\ avail \in Nat
        BY <1>t DEF SoldIsHeld, TypeOK
    <2>6. Qty[b] \in Nat
        BY <1>f
    <2>7. total' - avail' = Units(Holders \union {b}, Qty)
        BY <2>3, <2>4, <2>5, <2>6, <1>u
    <2>8. SoldIsHeld' <=> total' - avail' = Units(Holders', Qty)
        BY DEF SoldIsHeld
    <2> QED BY <2>1, <2>7, <2>8
<1>3. ASSUME NEW b \in Buyers, GiveSeats(b) PROVE SoldIsHeld'
    <2>1. b \in Holders /\ Holders' = Holders \ {b}
        BY <1>3, <1>t DEF GiveSeats, BuyerGoes, Holders, TypeOK
    <2>2. IsFiniteSet(Holders \ {b}) /\ \A x \in Holders : Qty[x] \in Nat
        BY <1>f, FS_RemoveElement DEF Holders
    <2>3. Units((Holders \ {b}) \union {b}, Qty) = Units(Holders \ {b}, Qty) + Qty[b]
        BY <2>2, <1>f, UnitsAdd
    <2>4. (Holders \ {b}) \union {b} = Holders
        BY <2>1
    <2>5. total' = total /\ avail' = avail + Qty[b]
        BY <1>3 DEF GiveSeats
    <2>6. total - avail = Units(Holders, Qty) /\ total \in Nat /\ avail \in Nat
        BY <1>t DEF SoldIsHeld, TypeOK
    <2>7. Qty[b] \in Nat
        BY <1>f
    <2>8. Units(Holders \ {b}, Qty) \in Nat
        <3>1. \A x \in Holders \ {b} : Qty[x] \in Nat
            BY <2>2
        <3> QED BY <2>2, <3>1, UnitsMonotone
    <2>9. total' - avail' = Units(Holders \ {b}, Qty)
        <3>1. Units(Holders, Qty) = Units(Holders \ {b}, Qty) + Qty[b]
            BY <2>3, <2>4, Zenon
        <3> HIDE DEF Holders
        <3> QED BY <3>1, <2>5, <2>6, <2>7, <2>8
    <2>10. SoldIsHeld' <=> total' - avail' = Units(Holders', Qty)
        BY DEF SoldIsHeld
    <2> QED BY <2>1, <2>9, <2>10
<1>4. ASSUME NEW e \in Editors, LockLot(e) \/ EditFails(e) PROVE SoldIsHeld'
    BY <1>4, <1>same DEF LockLot, EditFails, Holders
<1>5. ASSUME NEW e \in Editors, NEW n \in Sizes \union {seen[e].total}, SaveLot(e, n)
      PROVE  SoldIsHeld'
    <2>1. Holders' = Holders
        BY <1>5 DEF SaveLot, Holders
    <2>2. seen[e].total = total /\ seen[e].avail = avail /\ total \in Nat /\ avail \in Nat
        BY <1>5, <1>t DEF SaveLot, LockInv, TypeOK
    <2>3. n \in Nat
        BY <2>2
    <2>4. total' - avail' = total - avail
        BY <1>5, <2>2, <2>3 DEF SaveLot
    <2> QED BY <2>1, <2>4, <1>same
<1>6. ASSUME NEW d \in Deleters, ReadForDelete(d) \/ MarkDeleted(d) PROVE SoldIsHeld'
    BY <1>6, <1>same DEF ReadForDelete, MarkDeleted, Holders
<1>7. ASSUME UNCHANGED vars PROVE SoldIsHeld'
    BY <1>7, <1>same DEF vars, Holders
<1> QED
    BY <1>1, <1>2, <1>3, <1>4, <1>5, <1>6, <1>7 DEF Next

LEMMA NextIInv == IInv /\ [Next]_vars => IInv'
BY NextLock, NextSold DEF IInv

\* The inductive invariant holds in every reachable state.
LEMMA AlwaysIInv == Spec => []IInv
BY InitIInv, NextIInv, PTL DEF Spec

\* The quantities never become negative, whatever resizings, sales and returns
\* interleave.
THEOREM LotTypeCorrect == Spec => []TypeOK
<1>1. IInv => TypeOK
    BY DEF IInv
<1> QED BY <1>1, AlwaysIInv, PTL

\* The two columns count the sold seats exactly in every reachable state.
THEOREM LotSoldIsHeld == Spec => []SoldIsHeld
<1>1. IInv => SoldIsHeld
    BY DEF IInv
<1> QED BY <1>1, AlwaysIInv, PTL

-----------------------------------------------------------------------------
(* Refinement *)

\* A full lot is an initial state of the ledger.
LEMMA InitLedger == Init => Ledger!Init
BY DEF Init, Ledger!Init

\* A resize maps to Resize, a sale or a return to Move, the rest to stuttering.
LEMMA NextLedger == IInv /\ IInv' /\ [Next]_vars => [Ledger!Next]_(Ledger!ledgerVars)
<1> SUFFICES ASSUME IInv, IInv', [Next]_vars PROVE [Ledger!Next]_(Ledger!ledgerVars)
    OBVIOUS
<1>a. /\ total \in Nat /\ avail \in Nat
      /\ total' \in Nat /\ avail' \in Nat
    BY DEF IInv, TypeOK
<1>b. total' - avail' \in Nat
    <2>1. \A b \in Holders' : Qty[b] \in Nat
        BY DEF Holders
    <2>2. IsFiniteSet(Holders')
        <3>1. Holders' \subseteq Buyers
            BY DEF Holders
        <3> QED BY <3>1, FS_Subset
    <2>3. Units(Holders', Qty) \in Nat
        BY <2>1, <2>2, UnitsMonotone
    <2>4. SoldIsHeld'
        BY DEF IInv
    <2>5. total' - avail' = Units(Holders', Qty)
        BY <2>4 DEF SoldIsHeld
    <2> QED BY <2>3, <2>5
<1>1. ASSUME total' = total PROVE [Ledger!Next]_(Ledger!ledgerVars)
    <2>1. avail' + (total' - avail') = avail + (total - avail)
        <3>1. PICK t \in Int, a \in Int : t = total' /\ a = avail'
            BY <1>a
        <3>2. a + (t - a) = t
            OBVIOUS
        <3>3. avail + (total - avail) = total
            BY <1>a
        <3> QED BY <1>1, <3>1, <3>2, <3>3, Zenon
    <2>2. Ledger!Move
        BY <2>1, <1>a, <1>b DEF Ledger!Move
    <2> QED BY <2>2 DEF Ledger!Next
<1>2. ASSUME total' - avail' = total - avail PROVE [Ledger!Next]_(Ledger!ledgerVars)
    BY <1>2, <1>a DEF Ledger!Next, Ledger!Resize, Ledger!ledgerVars
<1>3. ASSUME NEW b \in Buyers,
             CheckLot(b) \/ TakeSeats(b) \/ TakeRefused(b) \/ GiveSeats(b)
      PROVE  total' = total
    BY <1>3 DEF CheckLot, TakeSeats, TakeRefused, GiveSeats
<1>4. ASSUME NEW e \in Editors, LockLot(e) \/ EditFails(e) PROVE total' = total
    BY <1>4 DEF LockLot, EditFails
<1>5. ASSUME NEW e \in Editors, NEW n \in Sizes \union {seen[e].total}, SaveLot(e, n)
      PROVE  total' - avail' = total - avail
    <2>1. seen[e].total = total /\ seen[e].avail = avail
        BY <1>5 DEF SaveLot, IInv, LockInv
    <2>2. n \in Nat
        BY <2>1, <1>a
    <2> QED BY <1>5, <1>a, <2>1, <2>2 DEF SaveLot
<1>6. ASSUME NEW d \in Deleters, ReadForDelete(d) \/ MarkDeleted(d) PROVE total' = total
    BY <1>6 DEF ReadForDelete, MarkDeleted
<1>7. ASSUME UNCHANGED vars PROVE total' = total
    BY <1>7 DEF vars
<1> QED
    BY <1>1, <1>2, <1>3, <1>4, <1>5, <1>6, <1>7 DEF Next

\* Editors never change what is sold, buyers never change the size.
THEOREM LotsImplementLedger == Spec => ImplementsLedger
BY AlwaysIInv, InitLedger, NextLedger, PTL DEF Spec, ImplementsLedger, Ledger!Spec

-----------------------------------------------------------------------------
(* The lot with its cached entries *)

USE CreatorAssumption, AnswersAssumption

\* The lot knows nothing of the cache: a step of the two is one of the lot or
\* leaves it alone.
LEMMA CatalogNextIsNext == ASSUME [CatalogNext]_catalogVars PROVE [Next]_vars
<1>1. ASSUME NEW b \in Buyers, Sale(b) PROVE Next
    BY <1>1 DEF Sale, Next
<1>2. ASSUME NEW e \in Editors, Edit(e) PROVE Next
    BY <1>2 DEF Edit, Next
<1>3. ASSUME NEW d \in Deleters, Remover(d) PROVE Next
    BY <1>3 DEF Remover, Next
<1>4. ASSUME NEW r \in Readers, LookUp(r) \/ Load(r) \/ Fill(r) \/ ReadFails(r)
      PROVE  UNCHANGED vars
    BY <1>4 DEF LookUp, Load, Fill, ReadFails
<1>5. ASSUME NEW w \in Writers, NEW x \in Commands,
             ScanPages(w) \/ DropEntry(w, x) \/ DropFails(w, x)
      PROVE  UNCHANGED vars
    BY <1>5 DEF ScanPages, DropEntry, DropFails
<1>6. ASSUME NEW w \in Writers, ScanPages(w) PROVE UNCHANGED vars
    BY <1>6 DEF ScanPages
<1>7. ASSUME Expire \/ UNCHANGED catalogVars PROVE UNCHANGED vars
    BY <1>7 DEF Expire, catalogVars
<1> QED BY <1>1, <1>2, <1>3, <1>4, <1>5, <1>6, <1>7 DEF CatalogNext

LEMMA CatalogSpecIsSpec == CatalogSpec => Spec
<1>1. CatalogInit => Init
    BY DEF CatalogInit
<1> QED BY <1>1, CatalogNextIsNext, PTL DEF CatalogSpec, Spec

\* Whoever holds seats of a deleted lot, or of one whose deletion passed its
\* check, was served after that check.
LateInv == (deleted \/ \E d \in Deleters : deleter[d] = "read") => Holders \subseteq late

\* A lot that is not found is not stored under its id.
AnswersInv ==
    key = "id" => \A r \in Readers : reader[r].at = "loaded" => reader[r].value # Gone

CatalogInv ==
    /\ IInv
    /\ CatalogTypeOK
    /\ AnswersInv
    /\ LotStaleExplained
    /\ LateInv

LEMMA InitCatalogInv == CatalogInit => CatalogInv
<1> SUFFICES ASSUME CatalogInit PROVE CatalogInv
    OBVIOUS
<1>1. IInv
    BY InitIInv DEF CatalogInit
<1>2. Row = [total |-> total, avail |-> avail] /\ cache \in {Empty, Gone}
    BY DEF CatalogInit, Init, Row
<1>3. CatalogTypeOK /\ AnswersInv
    BY <1>1 DEF CatalogInit, CatalogTypeOK, AnswersInv, IInv, Views, Keys, Commands, KeyOf, Writers
<1>4. LotStaleExplained
    <2>1. CASE key = "id"
        BY <2>1 DEF CatalogInit, LotStaleExplained
    <2>2. CASE key = "list"
        <3>1. Creator \in Writers /\ drop[Creator] = {"keys"}
            BY <2>2 DEF CatalogInit, Writers
        <3> QED BY <3>1 DEF LotStaleExplained
    <2> QED BY <2>1, <2>2 DEF CatalogInit, Keys
<1>5. LateInv
    BY DEF CatalogInit, Init, LateInv
<1> QED BY <1>1, <1>3, <1>4, <1>5 DEF CatalogInv

LEMMA CatalogTypes ==
    ASSUME CatalogInv, [CatalogNext]_catalogVars PROVE CatalogTypeOK' /\ AnswersInv'
<1> USE DEF CatalogInv
<1>i. IInv'
    BY NextIInv, CatalogNextIsNext
<1>t. TypeOK' /\ Row \in Views
    BY <1>i DEF IInv, TypeOK, Row, Views
<1> USE DEF CatalogTypeOK, AnswersInv
<1>1. ASSUME NEW b \in Buyers, Sale(b) PROVE CatalogTypeOK' /\ AnswersInv'
    BY <1>1, <1>t DEF Sale
<1>2. ASSUME NEW w \in Editors \union Deleters, Edit(w) \/ Remover(w)
      PROVE  CatalogTypeOK' /\ AnswersInv'
    <2>1. {x \in Empties : KeyOf(x) = key} \subseteq {x \in Commands : KeyOf(x) = key}
        BY DEF Empties, Commands
    <2>2. drop' \in [Writers -> SUBSET {x \in Commands : KeyOf(x) = key}]
        BY <1>2, <2>1 DEF Edit, Remover, Owes
    <2> QED BY <1>2, <1>t, <2>2 DEF Edit, Remover
<1>3. ASSUME NEW r \in Readers, LookUp(r) \/ ReadFails(r) PROVE CatalogTypeOK' /\ AnswersInv'
    BY <1>3, <1>t DEF LookUp, ReadFails, ReaderGoes
<1>4. ASSUME NEW r \in Readers, Load(r) PROVE CatalogTypeOK' /\ AnswersInv'
    BY <1>4, <1>t DEF Load, ReaderGoes
<1>5. ASSUME NEW r \in Readers, Fill(r) PROVE CatalogTypeOK' /\ AnswersInv'
    <2>1. reader[r].value \in Views /\ (key = "id" => reader[r].value # Gone)
        BY <1>5 DEF Fill
    <2>2. reader' = [reader EXCEPT ![r] = [at |-> "idle"]]
        BY <1>5 DEF Fill, ReaderGoes
    <2>3. cache' \in Views /\ cache' # Empty /\ (key = "id" => cache' # Gone)
          /\ excused' \in BOOLEAN /\ moved' \in BOOLEAN
        BY <1>5, <2>1 DEF Fill
    <2> QED BY <1>5, <1>t, <2>2, <2>3 DEF Fill
<1>6. ASSUME Expire PROVE CatalogTypeOK' /\ AnswersInv'
    BY <1>6, <1>t DEF Expire, Remove, Views
<1>7. ASSUME NEW w \in Writers, ScanPages(w) PROVE CatalogTypeOK' /\ AnswersInv'
    BY <1>7, <1>t DEF ScanPages, KeyOf, Commands
<1>8. ASSUME NEW w \in Writers, NEW x \in Commands, DropEntry(w, x)
      PROVE  CatalogTypeOK' /\ AnswersInv'
    BY <1>8, <1>t DEF DropEntry, Remove, Views
<1>9. ASSUME NEW w \in Writers, NEW x \in Commands, DropFails(w, x)
      PROVE  CatalogTypeOK' /\ AnswersInv'
    BY <1>9, <1>t DEF DropFails
<1>10. ASSUME UNCHANGED catalogVars PROVE CatalogTypeOK' /\ AnswersInv'
    BY <1>10, <1>t DEF catalogVars
<1> QED
    BY <1>1, <1>2, <1>3, <1>4, <1>5, <1>6, <1>7, <1>8, <1>9, <1>10 DEF CatalogNext

LEMMA SameLotTransitive ==
    ASSUME NEW v, NEW w, NEW z, SameLot(v, w), SameLot(w, z) PROVE SameLot(v, z)
BY DEF SameLot

\* While the lot keeps its row, only the entry and its excuses count.
LEMMA StaleStep ==
    ASSUME CatalogInv, [CatalogNext]_catalogVars PROVE LotStaleExplained'
<1> USE DEF CatalogInv
<1>1. ASSUME NEW b \in Buyers, Sale(b) PROVE LotStaleExplained'
    <2>1. /\ total' = total /\ deleted' = deleted
          /\ moved' = (moved \/ (avail' # avail /\ cache # Empty))
          /\ UNCHANGED <<cache, excused, drop>>
        BY <1>1 DEF Sale, CheckLot, TakeSeats, TakeRefused, GiveSeats
    <2>2. SameLot(Row, Row')
        <3>1. TypeOK /\ TypeOK'
            BY NextIInv, CatalogNextIsNext DEF IInv
        <3> QED BY <2>1, <3>1 DEF Row, SameLot, TypeOK
    <2>3. CASE cache = Row /\ cache # Empty
        BY <2>1, <2>2, <2>3 DEF LotStaleExplained, Row
    <2>4. CASE moved /\ SameLot(cache, Row)
        BY <2>1, <2>2, <2>4, SameLotTransitive DEF LotStaleExplained
    <2> QED BY <2>1, <2>3, <2>4 DEF LotStaleExplained
<1>2. ASSUME NEW w \in Editors \union Deleters,
             (w \in Editors /\ Edit(w)) \/ (w \in Deleters /\ Remover(w))
      PROVE  LotStaleExplained'
    <2>1. w \in Writers /\ UNCHANGED <<cache, excused, moved>>
        BY <1>2 DEF Edit, Remover, Writers
    <2>2. CASE drop' = [drop EXCEPT ![w] = {x \in Empties : KeyOf(x) = key}]
        <3>1. \E x \in Empties : KeyOf(x) = key
            BY DEF CatalogTypeOK, Keys, Empties, KeyOf
        <3>2. drop'[w] = {x \in Empties : KeyOf(x) = key}
            BY <2>1, <2>2 DEF CatalogTypeOK
        <3>3. drop'[w] # {}
            BY <3>1, <3>2
        <3> QED BY <2>1, <3>3 DEF LotStaleExplained
    <2>3. CASE drop' = drop /\ Row' = Row
        BY <2>1, <2>3 DEF LotStaleExplained
    <2>4. \/ drop' = drop /\ Row' = Row
          \/ drop' = [drop EXCEPT ![w] = {x \in Empties : KeyOf(x) = key}]
        <3>1. CASE w \in Editors /\ Edit(w)
            <4>1. ASSUME editor'[w] # "done" PROVE Row' = Row
                BY <3>1, <4>1
                DEF Edit, LockLot, EditFails, SaveLot, EditorGoes, Row, IInv, TypeOK
            <4> QED BY <3>1, <4>1 DEF Edit, Owes
        <3>2. CASE w \in Deleters /\ Remover(w)
            <4>1. ASSUME deleter'[w] # "done" PROVE Row' = Row
                BY <3>2, <4>1
                DEF Remover, ReadForDelete, MarkDeleted, DeleterGoes, Row, IInv, TypeOK
            <4> QED BY <3>2, <4>1 DEF Remover, Owes
        <3> QED BY <1>2, <3>1, <3>2
    <2> QED BY <2>2, <2>3, <2>4
<1>3. ASSUME NEW r \in Readers, Fill(r) PROVE LotStaleExplained'
    <2>1. /\ Row' = Row
          /\ excused' = ~ SameLot(cache', Row)
          /\ moved' = (cache' # Row)
        BY <1>3 DEF Fill, Row, vars
    <2> QED BY <2>1 DEF LotStaleExplained
<1>4. ASSUME Remove PROVE LotStaleExplained'
    BY <1>4 DEF Remove, LotStaleExplained
<1>5. ASSUME NEW w \in Writers, ScanPages(w) PROVE LotStaleExplained'
    <2>1. UNCHANGED <<vars, cache, excused, moved>> /\ Row' = Row
        BY <1>5 DEF ScanPages, Row, vars
    <2>2. CASE cache = Empty
        BY <2>1, <2>2 DEF LotStaleExplained
    <2>3. CASE cache # Empty
        <3>1. "delKeys" \in drop'[w]
            BY <1>5, <2>3 DEF ScanPages, CatalogTypeOK
        <3> QED BY <3>1 DEF LotStaleExplained
    <2> QED BY <2>2, <2>3
<1>6. ASSUME NEW w \in Writers, NEW x \in Commands, DropFails(w, x) PROVE LotStaleExplained'
    BY <1>6 DEF DropFails, LotStaleExplained
<1>7. ASSUME UNCHANGED <<vars, cache, drop, excused, moved>> PROVE LotStaleExplained'
    BY <1>7 DEF LotStaleExplained, Row, vars
<1> QED
    BY <1>1, <1>2, <1>3, <1>4, <1>5, <1>6, <1>7
    DEF CatalogNext, LookUp, Load, ReadFails, Expire, DropEntry, catalogVars

\* Nothing sold, nobody holds.
LEMMA NothingSold == ASSUME IInv, total - avail =< 0 PROVE Holders = {}
<1> SUFFICES ASSUME NEW b \in Holders PROVE FALSE
    OBVIOUS
<1>1. Holders \subseteq Buyers /\ Qty[b] \in Nat /\ Qty[b] > 0
    BY DEF Holders
<1>2. IsFiniteSet(Holders) /\ \A x \in Holders : Qty[x] \in Nat
    BY <1>1, FS_Subset
<1>3. Units({b}, Qty) =< Units(Holders, Qty) /\ Units(Holders, Qty) \in Nat
      /\ Units({b}, Qty) \in Nat
    BY <1>2, UnitsMonotone
<1>4. Units({} \union {b}, Qty) = Units({}, Qty) + Qty[b]
    BY <1>1, FS_EmptySet, UnitsAdd
<1>5. Units({b}, Qty) = Qty[b]
    <2>1. {} \union {b} = {b}
        OBVIOUS
    <2> QED BY <1>1, <1>4, <2>1, UnitsEmpty
<1>6. total - avail = Units(Holders, Qty)
    BY DEF IInv, SoldIsHeld
<1> QED BY <1>1, <1>3, <1>5, <1>6

LEMMA LateStep == ASSUME CatalogInv, [CatalogNext]_catalogVars PROVE LateInv'
<1> USE DEF CatalogInv, LateInv, IInv, TypeOK, Holders
<1>1. ASSUME NEW b \in Buyers, Sale(b) PROVE LateInv'
    <2>1. /\ UNCHANGED <<deleted, deleter>>
          /\ \A x \in Buyers \ {b} : buyer'[x] = buyer[x]
        BY <1>1 DEF Sale, CheckLot, TakeSeats, TakeRefused, GiveSeats, BuyerGoes
    <2>2. late' = IF buyer'[b] = "holding"
                     /\ (deleted \/ \E d \in Deleters : deleter[d] = "read")
                  THEN late \union {b} ELSE late
        BY <1>1 DEF Sale
    <2> QED BY <2>1, <2>2
<1>2. ASSUME NEW e \in Editors, Edit(e) PROVE LateInv'
    BY <1>2 DEF Edit, LockLot, EditFails, SaveLot
<1>3. ASSUME NEW d \in Deleters, ReadForDelete(d), late' = late PROVE LateInv'
    <2>1. CASE deleted
        BY <1>3, <2>1 DEF ReadForDelete
    <2>2. CASE ~ deleted /\ ~ (total - avail > 0)
        <3>1. total - avail =< 0
            BY <2>2
        <3>2. Holders = {}
            BY <3>1, NothingSold
        <3> QED BY <1>3, <3>2 DEF ReadForDelete
    <2>3. CASE ~ deleted /\ total - avail > 0
        BY <1>3, <2>3 DEF ReadForDelete, DeleterGoes
    <2> QED BY <2>1, <2>2, <2>3
<1>4. ASSUME NEW d \in Deleters, MarkDeleted(d), late' = late PROVE LateInv'
    BY <1>4 DEF MarkDeleted
<1>5. ASSUME UNCHANGED <<vars, late>> PROVE LateInv'
    BY <1>5 DEF vars
<1> QED
    BY <1>1, <1>2, <1>3, <1>4, <1>5
    DEF CatalogNext, Remover, LookUp, Load, Fill, ReadFails, Expire, ScanPages, DropEntry,
        DropFails, catalogVars

LEMMA AlwaysCatalogInv == CatalogSpec => []CatalogInv
<1>1. CatalogInv /\ [CatalogNext]_catalogVars => CatalogInv'
    BY CatalogNextIsNext, NextIInv, CatalogTypes, StaleStep, LateStep DEF CatalogInv
<1> QED BY <1>1, InitCatalogInv, PTL DEF CatalogSpec

\* Entries, readers and commands keep their types.
THEOREM CatalogTypeCorrect == CatalogSpec => []CatalogTypeOK
<1>1. CatalogInv => CatalogTypeOK
    BY DEF CatalogInv
<1> QED BY <1>1, AlwaysCatalogInv, PTL

\* An entry that differs from the row has one of the excuses: a write that has
\* still to empty it or failed to, a reader that stored what it had read before,
\* or, as to the seats on sale, a sale or a return (FindTicketTypeUseCase and
\* ListTicketTypesUseCase against the writers of ticket_types).
THEOREM CatalogStaleExplained == CatalogSpec => []LotStaleExplained
<1>1. CatalogInv => LotStaleExplained
    BY DEF CatalogInv
<1> QED BY <1>1, AlwaysCatalogInv, PTL

\* Seats of a deleted lot belong to orders that were served after the check of
\* the deletion (DeleteTicketTypeUseCase, decrementStock).
THEOREM CatalogDeletedSoldLate == CatalogSpec => []DeletedSoldLate
<1>1. CatalogInv => DeletedSoldLate
    BY DEF CatalogInv, LateInv, DeletedSoldLate
<1> QED BY <1>1, AlwaysCatalogInv, PTL

\* The cache changes nothing about the columns: they count the seats sold, and
\* what happens to them is what LotLedger allows.
THEOREM CatalogKeepsLedger == CatalogSpec => []SoldIsHeld /\ ImplementsLedger
BY CatalogSpecIsSpec, LotSoldIsHeld, LotsImplementLedger, PTL
=============================================================================
