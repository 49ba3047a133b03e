---------------------------- MODULE SeatsProofs ----------------------------
(***************************************************************************)
(* Laws of Units: it adds, it is monotone, and for no buyer it is zero.    *)
(***************************************************************************)
EXTENDS Seats, TLAPS, FiniteSetTheorems

\* The seats of finitely many buyers are finitely many.
LEMMA SeatsFinite ==
    ASSUME NEW S, IsFiniteSet(S), NEW q, \A b \in S : q[b] \in Nat
    PROVE  IsFiniteSet(Seats(S, q))
<1> DEFINE f == [b \in S |-> {b} \X (1 .. q[b])]
           F == {{b} \X (1 .. q[b]) : b \in S}
<1>1. f \in Surjection(S, F)
    BY DEF Surjection
<1>2. IsFiniteSet(F)
    <2> HIDE DEF f, F
    <2> QED BY <1>1, FS_Surjection
<1>3. ASSUME NEW T \in F PROVE IsFiniteSet(T)
    <2>1. PICK b \in S : T = {b} \X (1 .. q[b])
        BY <1>3
    <2>2. IsFiniteSet(1 .. q[b])
        <3>1. q[b] \in Int
            OBVIOUS
        <3> QED BY <3>1, FS_Interval
    <2>3. IsFiniteSet({b})
        BY FS_Singleton
    <2> QED BY <2>1, <2>2, <2>3, FS_Product
<1>4. IsFiniteSet(UNION F)
    <2> HIDE DEF F
    <2> QED BY <1>2, <1>3, FS_UNION
<1> QED BY <1>4 DEF Seats

\* One more buyer adds exactly what it holds.
LEMMA UnitsAdd ==
    ASSUME NEW S, IsFiniteSet(S), NEW q, \A b \in S : q[b] \in Nat,
           NEW b, b \notin S, q[b] \in Nat
    PROVE  Units(S \union {b}, q) = Units(S, q) + q[b]
<1> DEFINE O == {b} \X (1 .. q[b])
<1>1. IsFiniteSet(O) /\ Cardinality(O) = q[b]
    <2>1. IsFiniteSet({b}) /\ Cardinality({b}) = 1
        BY FS_Singleton
    <2>2. IsFiniteSet(1 .. q[b]) /\ Cardinality(1 .. q[b]) = q[b]
        <3>1. q[b] \in Int /\ 1 \in Int
            OBVIOUS
        <3> QED BY <3>1, FS_Interval
    <2>3. IsFiniteSet(O) /\ Cardinality(O) = 1 * q[b]
        <3> DEFINE held == 1 .. q[b]
        <3> HIDE DEF held
        <3>1. /\ IsFiniteSet({b} \X held)
              /\ Cardinality({b} \X held) = Cardinality({b}) * Cardinality(held)
            BY <2>1, <2>2, FS_Product DEF held
        <3> QED BY <2>1, <2>2, <3>1 DEF held
    <2> HIDE DEF O
    <2>4. 1 * q[b] = q[b]
        OBVIOUS
    <2> QED BY <2>3, <2>4
<1>2. Seats(S \union {b}, q) = Seats(S, q) \union O
    BY DEF Seats
<1>3. Cardinality(Seats(S, q) \intersect O) = 0
    <2>1. Seats(S, q) \intersect O = {}
        BY DEF Seats
    <2> QED BY <2>1, FS_EmptySet
<1>4. IsFiniteSet(Seats(S, q)) /\ Cardinality(Seats(S, q)) \in Nat
    BY SeatsFinite, FS_CardinalityType
<1>5. Cardinality(Seats(S, q) \union O)
      = Cardinality(Seats(S, q)) + Cardinality(O) - Cardinality(Seats(S, q) \intersect O)
    <2> HIDE DEF O
    <2> QED BY <1>1, <1>4, FS_Union
<1> QED
    <2>1. Units(S \union {b}, q) = Cardinality(Seats(S, q) \union O)
        BY <1>2 DEF Units
    <2>2. Units(S, q) = Cardinality(Seats(S, q))
        BY DEF Units
    <2> HIDE DEF O
    <2> QED BY <1>1, <1>3, <1>4, <1>5, <2>1, <2>2

\* More buyers hold at least as much.
LEMMA UnitsMonotone ==
    ASSUME NEW T, IsFiniteSet(T), NEW q, \A b \in T : q[b] \in Nat, NEW S \in SUBSET T
    PROVE  Units(S, q) \in Nat /\ Units(T, q) \in Nat /\ Units(S, q) <= Units(T, q)
<1>1. Seats(S, q) \subseteq Seats(T, q)
    BY DEF Seats
<1>2. IsFiniteSet(Seats(T, q))
    BY SeatsFinite
<1> QED BY <1>1, <1>2, FS_Subset, FS_CardinalityType DEF Units

\* A buyer taken out of a set frees at most what it holds.
LEMMA UnitsRemove ==
    ASSUME NEW S, IsFiniteSet(S), NEW q, \A b \in S : q[b] \in Nat, NEW b, q[b] \in Nat
    PROVE  Units(S, q) <= Units(S \ {b}, q) + q[b]
<1>1. IsFiniteSet(S \ {b})
    BY FS_RemoveElement
<1>2. CASE b \in S
    <2>1. Units((S \ {b}) \union {b}, q) = Units(S \ {b}, q) + q[b]
        BY <1>1, UnitsAdd
    <2>2. (S \ {b}) \union {b} = S
        BY <1>2
    <2>3. Units(S, q) \in Nat
        BY UnitsMonotone
    <2> QED BY <2>1, <2>2, <2>3
<1>3. CASE b \notin S
    <2>1. S \ {b} = S
        BY <1>3
    <2>2. Units(S, q) \in Nat
        BY UnitsMonotone
    <2> QED BY <2>1, <2>2
<1> QED BY <1>2, <1>3

\* Nobody holds nothing.
LEMMA UnitsEmpty == ASSUME NEW q PROVE Units({}, q) = 0
<1>1. Seats({}, q) = {}
    BY DEF Seats
<1> QED BY <1>1, FS_EmptySet DEF Units

\* The seats held by a set depend on its buyers only.
LEMMA UnitsSame ==
    ASSUME NEW S, NEW q, NEW r, \A b \in S : q[b] = r[b]
    PROVE  Units(S, q) = Units(S, r)
<1>1. Seats(S, q) = Seats(S, r)
    BY DEF Seats
<1> QED BY <1>1 DEF Units

\* When one buyer's seats change, the sum follows.
LEMMA UnitsAt ==
    ASSUME NEW S, IsFiniteSet(S), NEW q, \A b \in S : q[b] \in Nat,
           NEW r, \A b \in S : r[b] \in Nat, NEW c \in S, \A b \in S \ {c} : r[b] = q[b]
    PROVE  /\ Units(S, q) \in Nat
           /\ Units(S, r) = Units(S, q) - q[c] + r[c]
<1> DEFINE R == S \ {c}
<1>1. IsFiniteSet(R) /\ c \notin R /\ R \union {c} = S
    BY FS_RemoveElement
<1>2. Units(R, q) = Units(R, r)
    BY UnitsSame
<1>3. Units(R, q) \in Nat /\ Units(S, q) \in Nat
    BY <1>1, UnitsMonotone
<1>4. /\ \A b \in R : q[b] \in Nat /\ r[b] \in Nat
      /\ q[c] \in Nat /\ r[c] \in Nat
    OBVIOUS
<1>5. Units(R \union {c}, q) = Units(R, q) + q[c]
    <2> HIDE DEF R
    <2> QED BY <1>1, <1>4, UnitsAdd
<1>6. Units(R \union {c}, r) = Units(R, r) + r[c]
    <2> HIDE DEF R
    <2> QED BY <1>1, <1>4, UnitsAdd
<1> HIDE DEF R
<1> QED BY <1>1, <1>2, <1>3, <1>4, <1>5, <1>6
=============================================================================
