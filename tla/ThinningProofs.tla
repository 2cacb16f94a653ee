--------------------------- MODULE ThinningProofs ---------------------------
(***************************************************************************)
(* What a thinned list holds: the elements at the places that are kept,    *)
(* all of them, each once and in their order; and what the list of a       *)
(* finite set holds.                                                       *)
(***************************************************************************)
EXTENDS Thinning, Sequences, SequencesExt, FiniteSetTheorems, WellFoundedInduction, TLAPS

LEMMA LeastOf ==
    ASSUME NEW S \in SUBSET Nat, S # {}
    PROVE  \E x \in S : \A y \in S : x <= y
<1>1. PICK x \in S : \A y \in S : <<y, x>> \notin OpToRel(<, Nat)
  BY WFMin, NatLessThanWellFounded
<1>2. \A y \in S : ~(y < x)
  BY <1>1 DEF OpToRel
<1> QED
  BY <1>2

LEMMA GreatestOf ==
    ASSUME NEW S \in SUBSET Nat, S # {}, NEW bound \in Nat, \A x \in S : x <= bound
    PROVE  \E x \in S : \A y \in S : y <= x
<1> DEFINE T == {bound - x : x \in S}
<1>1. T \in SUBSET Nat /\ T # {}
  <2>1. \A x \in S : bound - x \in Nat
    OBVIOUS
  <2> QED
    BY <2>1
<1>2. PICK d \in T : \A e \in T : d <= e
  BY <1>1, LeastOf
<1>3. PICK x \in S : d = bound - x
  BY <1>2
<1>4. ASSUME NEW y \in S PROVE y <= x
  <2>1. d <= bound - y
    BY <1>2
  <2> QED
    BY <1>3, <2>1
<1> QED
  BY <1>4

LEMMA LowerCounts ==
    ASSUME NEW N \in Nat, NEW places \in SUBSET (1..N)
    PROVE  /\ IsFiniteSet(places) /\ Cardinality(places) \in Nat
           /\ \A i : IsFiniteSet(Lower(places, i)) /\ Cardinality(Lower(places, i)) \in Nat
<1>1. IsFiniteSet(1..N)
  BY FS_Interval
<1>2. \A T \in SUBSET (1..N) : IsFiniteSet(T) /\ Cardinality(T) \in Nat
  BY <1>1, FS_Subset, FS_CardinalityType
<1>3. \A i : Lower(places, i) \in SUBSET (1..N)
  BY DEF Lower
<1> QED
  BY <1>2, <1>3

\* Every number up to the number of places is the rank of one of them.
LEMMA RankExists ==
    ASSUME NEW N \in Nat, NEW places \in SUBSET (1..N), NEW n \in 1..Cardinality(places)
    PROVE  \E i \in places : Cardinality(Lower(places, i)) = n - 1
<1> DEFINE Rank(i) == Cardinality(Lower(places, i))
           High == {i \in places : Rank(i) >= n - 1}
<1>1. /\ IsFiniteSet(places) /\ Cardinality(places) \in Nat
      /\ \A i : IsFiniteSet(Lower(places, i)) /\ Rank(i) \in Nat
  BY LowerCounts
<1>2. places # {}
  BY <1>1, FS_EmptySet
<1>3. places \in SUBSET Nat /\ \A x \in places : x <= N
  OBVIOUS
<1>4. High # {}
  <2>1. PICK m \in places : \A y \in places : y <= m
    BY <1>2, <1>3, GreatestOf
  <2>2. Lower(places, m) = places \ {m}
    <3>1. \A j \in places : j < m <=> j # m
      BY <1>3, <2>1
    <3> QED
      BY <3>1 DEF Lower
  <2>3. Rank(m) = Cardinality(places) - 1
    BY <1>1, <2>2, FS_RemoveElement
  <2>4. Rank(m) >= n - 1
    BY <1>1, <2>3
  <2> QED
    BY <2>4
<1>5. PICK i \in High : \A y \in High : i <= y
  BY <1>3, <1>4, LeastOf
<1>6. Rank(i) = n - 1
  <2>1. SUFFICES ASSUME Rank(i) > n - 1 PROVE FALSE
    BY <1>1, <1>5
  <2>2. Lower(places, i) # {}
    <3>1. Rank(i) # 0
      BY <1>1, <2>1
    <3> QED
      BY <3>1, FS_EmptySet
  <2>3. Lower(places, i) \in SUBSET Nat /\ \A x \in Lower(places, i) : x <= N
    BY <1>3 DEF Lower
  <2>4. PICK k \in Lower(places, i) : \A y \in Lower(places, i) : y <= k
    BY <2>2, <2>3, GreatestOf
  <2>5. k \in places /\ k < i
    BY <2>4 DEF Lower
  <2>6. Lower(places, k) = Lower(places, i) \ {k}
    <3>1. \A j \in places : j < i => j <= k
      BY <2>4 DEF Lower
    <3>2. i \in places
      BY <1>5
    <3>3. \A j \in places : j < k <=> j < i /\ j # k
      BY <1>3, <2>5, <3>1, <3>2
    <3> QED
      BY <3>3 DEF Lower
  <2>7. Rank(k) = Rank(i) - 1
    BY <1>1, <2>4, <2>6, FS_RemoveElement
  <2>8. Rank(k) >= n - 1
    BY <1>1, <2>1, <2>7
  <2>9. i <= k
    BY <1>5, <2>5, <2>8
  <2> QED
    BY <1>3, <1>5, <2>5, <2>9
<1> QED
  BY <1>5, <1>6

\* Two places of the same rank are the same place.
LEMMA RankUnique ==
    ASSUME NEW N \in Nat, NEW places \in SUBSET (1..N), NEW i \in places, NEW j \in places,
           Cardinality(Lower(places, i)) = Cardinality(Lower(places, j))
    PROVE  i = j
<1>1. ASSUME NEW a \in places, NEW b \in places, a < b,
             Cardinality(Lower(places, a)) = Cardinality(Lower(places, b))
      PROVE  FALSE
  <2>0. \A x \in places : x < a => x < b
    BY <1>1
  <2>1. Lower(places, a) \in SUBSET Lower(places, b)
    BY <2>0 DEF Lower
  <2>2. a \in Lower(places, b) /\ a \notin Lower(places, a)
    BY <1>1 DEF Lower
  <2>3. IsFiniteSet(Lower(places, b))
    BY LowerCounts
  <2>4. Lower(places, a) = Lower(places, b)
    BY <1>1, <2>1, <2>3, FS_Subset
  <2> QED
    BY <2>2, <2>4
<1>2. i \in Int /\ j \in Int
  OBVIOUS
<1> QED
  BY <1>1, <1>2

\* The n-th place is one of the places, and every place is the n-th for some n.
LEMMA PlaceIs ==
    ASSUME NEW N \in Nat, NEW places \in SUBSET (1..N), NEW n \in 1..Cardinality(places)
    PROVE  Place(places, n) \in places /\ Cardinality(Lower(places, Place(places, n))) = n - 1
BY RankExists DEF Place

LEMMA PlaceOf ==
    ASSUME NEW N \in Nat, NEW places \in SUBSET (1..N), NEW i \in places
    PROVE  LET n == Cardinality(Lower(places, i)) + 1
           IN  n \in 1..Cardinality(places) /\ Place(places, n) = i
<1> DEFINE n == Cardinality(Lower(places, i)) + 1
<1>1. /\ IsFiniteSet(places) /\ Cardinality(places) \in Nat
      /\ \A j : IsFiniteSet(Lower(places, j)) /\ Cardinality(Lower(places, j)) \in Nat
  BY LowerCounts
<1>2. n \in 1..Cardinality(places)
  <2>1. Lower(places, i) \in SUBSET (places \ {i})
    BY DEF Lower
  <2>2. IsFiniteSet(places \ {i}) /\ Cardinality(places \ {i}) = Cardinality(places) - 1
    BY <1>1, FS_RemoveElement
  <2>3. Cardinality(Lower(places, i)) <= Cardinality(places \ {i})
    BY <2>1, <2>2, FS_Subset
  <2> QED
    BY <1>1, <2>2, <2>3
<1>3. Place(places, n) \in places /\ Cardinality(Lower(places, Place(places, n))) = n - 1
  <2> HIDE DEF n
  <2> QED
    BY <1>2, PlaceIs
<1>4. Cardinality(Lower(places, Place(places, n))) = Cardinality(Lower(places, i))
  <2> DEFINE c == Cardinality(Lower(places, i))
  <2>1. c \in Nat /\ n = c + 1
    BY <1>1
  <2> HIDE DEF c, n
  <2>2. n - 1 = c
    BY <2>1
  <2> QED
    BY <1>3, <2>2 DEF c
<1>5. Place(places, n) = i
  <2> HIDE DEF n
  <2> QED
    BY <1>3, <1>4, RankUnique
<1> QED
  BY <1>2, <1>5

\* Later places are higher.
LEMMA PlacesInOrder ==
    ASSUME NEW N \in Nat, NEW places \in SUBSET (1..N), NEW m \in 1..Cardinality(places),
           NEW n \in 1..Cardinality(places), m < n
    PROVE  Place(places, m) < Place(places, n)
<1> DEFINE p == Place(places, m)
           q == Place(places, n)
<1>1. /\ p \in places /\ Cardinality(Lower(places, p)) = m - 1
      /\ q \in places /\ Cardinality(Lower(places, q)) = n - 1
  BY PlaceIs
<1> HIDE DEF p, q
<1>2. ASSUME q <= p PROVE FALSE
  <2>1. \A x \in places : x < q => x < p
    BY <1>1, <1>2
  <2>2. Lower(places, q) \in SUBSET Lower(places, p)
    BY <2>1 DEF Lower
  <2>3. IsFiniteSet(Lower(places, p))
    BY LowerCounts
  <2>4. Cardinality(Lower(places, q)) <= Cardinality(Lower(places, p))
    BY <2>2, <2>3, FS_Subset
  <2> QED
    BY <1>1, <2>4
<1>3. p \in Int /\ q \in Int
  BY <1>1
<1>4. p < q
  BY <1>2, <1>3
<1> QED
  BY <1>4 DEF p, q

\* What is thinned is a sequence of entries at the kept places, and holds all of them.
LEMMA ThinnedKeeps ==
    ASSUME NEW T, NEW s \in Seq(T), NEW places \in SUBSET DOMAIN s
    PROVE  /\ Thinned(s, places) \in Seq(T)
           /\ \A n \in DOMAIN Thinned(s, places) : \E i \in places : Thinned(s, places)[n] = s[i]
<1>1. DOMAIN s = 1..Len(s) /\ Len(s) \in Nat
  OBVIOUS
<1>2. Cardinality(places) \in Nat
  BY <1>1, LowerCounts
<1>3. \A n \in 1..Cardinality(places) : Place(places, n) \in places
  BY <1>1, PlaceIs
<1>4. \A n \in 1..Cardinality(places) : s[Place(places, n)] \in T
  BY <1>1, <1>3
<1> QED
  BY <1>2, <1>3, <1>4 DEF Thinned

LEMMA ThinnedHolds ==
    ASSUME NEW T, NEW s \in Seq(T), NEW places \in SUBSET DOMAIN s, NEW i \in places
    PROVE  \E n \in DOMAIN Thinned(s, places) : Thinned(s, places)[n] = s[i]
<1>1. Len(s) \in Nat /\ places \in SUBSET (1..Len(s))
  OBVIOUS
<1> DEFINE n == Cardinality(Lower(places, i)) + 1
<1>2. n \in 1..Cardinality(places) /\ Place(places, n) = i
  BY <1>1, PlaceOf
<1> HIDE DEF n
<1> QED
  BY <1>2 DEF Thinned

-----------------------------------------------------------------------------
\* The image of a finite set is finite.
LEMMA ImageFinite ==
    ASSUME NEW S, IsFiniteSet(S), NEW f, DOMAIN f = S, f = [x \in S |-> f[x]]
    PROVE  IsFiniteSet({f[x] : x \in S})
<1> DEFINE T == {f[x] : x \in S}
<1>1. f \in Surjection(S, T)
  BY DEF Surjection
<1> HIDE DEF T
<1> QED
  BY <1>1, FS_Surjection DEF T

\* A finite set, written as a list, is all of it.
LEMMA ListOfSet ==
    ASSUME NEW S, IsFiniteSet(S)
    PROVE  SetToSeq(S) \in Seq(S) /\ ToSet(SetToSeq(S)) = S
<1> DEFINE n == Cardinality(S)
           f == SetToSeq(S)
<1>1. IsFiniteSet(S) /\ n \in Nat /\ ExistsBijection(1 .. n, S)
  BY FS_CardinalityType
<1>2. \E g \in [1 .. n -> S] : IsInjective(g)
  BY <1>1 DEF ExistsBijection, Bijection, Injection
<1>3. f \in [1 .. n -> S] /\ IsInjective(f)
  BY <1>2 DEF SetToSeq
<1> HIDE DEF f
<1>4. IsFiniteSet(1 .. n) /\ Cardinality(1 .. n) = n
  BY <1>1, LowerCounts, FS_Interval
<1>5. f \in Injection(1 .. n, S)
  BY <1>3 DEF Injection
<1>6. f \in Surjection(1 .. n, S)
  <2>1. Cardinality(1 .. n) = Cardinality(S)
    BY <1>4
  <2> HIDE DEF n
  <2> QED
    BY <1>1, <1>5, <2>1, FS_Injection
<1>7. f \in Seq(S)
  BY <1>1, <1>3
<1>8. ToSet(f) = S
  BY <1>3, <1>6 DEF ToSet, Surjection
<1> QED
  BY <1>7, <1>8 DEF f

=============================================================================
