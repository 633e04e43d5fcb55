----------------------------- MODULE OrderFacts -----------------------------
(***************************************************************************)
(* What the proofs need of orders: sets of naturals have a least member,   *)
(* and the members of a finite set that is strictly and totally ordered    *)
(* are numbered by how many come before them.                              *)
(***************************************************************************)
EXTENDS Integers, TLAPS, FiniteSetTheorems, WellFoundedInduction

(* A set of naturals that is not empty has a least member; so a set that   *)
(* has 0, and with each number below n the next, has them all.             *)
LEMMA NatLess == IsWellFoundedOn({ss \in Nat \X Nat : ss[1] < ss[2]}, Nat)
BY NatLessThanWellFounded DEF OpToRel

LEMMA NatMin ==
    ASSUME NEW T \in SUBSET Nat, T # {}
    PROVE  \E n \in T : \A m \in T : n <= m
<1> DEFINE R == {ss \in Nat \X Nat : ss[1] < ss[2]}
<1>1. IsWellFoundedOn(R, Nat)
  BY NatLess
<1>a. \A m, n \in Nat : m < n => <<m, n>> \in R
  OBVIOUS
<1> HIDE DEF R
<1>2. PICK n \in T : \A y \in T : ~ (<<y, n>> \in R)
  BY <1>1, WFMin
<1>3. \A m \in T : ~(m < n)
  BY <1>2, <1>a
<1>4. \A m \in T : n <= m
  BY <1>3
<1> QED BY <1>4

LEMMA UpTo ==
    ASSUME NEW n \in Nat, NEW T, 0 \in T, \A m \in 1 .. n : m - 1 \in T => m \in T
    PROVE  0 .. n \subseteq T
<1> DEFINE B == {m \in 0 .. n : m \notin T}
<1> SUFFICES ASSUME B # {} PROVE FALSE
  OBVIOUS
<1>1. B \in SUBSET Nat
  OBVIOUS
<1>2. PICK m \in B : \A k \in B : m <= k
  BY <1>1, NatMin
<1>3. m \in 1 .. n /\ m - 1 \in 0 .. n /\ ~ (m - 1 \in B)
  BY <1>2
<1> QED BY <1>3

LEMMA LargestOf ==
    ASSUME NEW n \in Nat, NEW S \in SUBSET (1 .. n), S # {}
    PROVE \E x \in S : \A k \in S : x >= k
<1> DEFINE T == {m \in Nat : \A k \in S : m >= k}
<1>1. n \in T
  OBVIOUS
<1>2. PICK m \in T : \A k \in T : m <= k
  BY <1>1, NatMin
<1>3. m \in S
  <2>0. PICK k \in S : TRUE
    OBVIOUS
  <2>1. k \in Nat /\ k >= 1 /\ m >= k
    BY <1>2
  <2>2. m - 1 \in Nat /\ ~ (m - 1 \in T)
    BY <1>2, <2>1
  <2>3. PICK l \in S : ~ (m - 1 >= l)
    BY <2>2
  <2>4. l \in Nat /\ m >= l
    OBVIOUS
  <2> QED BY <2>3, <2>4
<1> QED BY <1>2, <1>3

-----------------------------------------------------------------------------
(* Places in an order: how many come before each.                          *)
PlaceIn(V, R) == [x \in V |-> Cardinality({y \in V : <<y, x>> \in R})]

Ordered(V, R) ==
    /\ \A x \in V : <<x, x>> \notin R
    /\ \A x, y, z \in V : <<x, y>> \in R /\ <<y, z>> \in R => <<x, z>> \in R
    /\ \A x, y \in V : x # y => <<x, y>> \in R \/ <<y, x>> \in R

LEMMA PlacesInOrder ==
    ASSUME NEW V, IsFiniteSet(V), NEW R, Ordered(V, R)
    PROVE  /\ \A x \in V : PlaceIn(V, R)[x] \in 0 .. Cardinality(V) - 1
           /\ \A x, y \in V : <<x, y>> \in R <=> PlaceIn(V, R)[x] < PlaceIn(V, R)[y]
           /\ \A x, y \in V : PlaceIn(V, R)[x] = PlaceIn(V, R)[y] => x = y
<1> DEFINE rank == PlaceIn(V, R)
           before(x) == {y \in V : <<y, x>> \in R}
<1>0. Cardinality(V) \in Nat
  BY FS_CardinalityType
<1>1. ASSUME NEW x \in V
      PROVE  /\ IsFiniteSet(before(x)) /\ rank[x] = Cardinality(before(x))
             /\ rank[x] \in 0 .. Cardinality(V) - 1 /\ rank[x] \in Int
  <2>1. before(x) \in SUBSET (V \ {x})
    BY DEF Ordered
  <2>2. IsFiniteSet(V \ {x}) /\ Cardinality(V \ {x}) = Cardinality(V) - 1
    BY FS_RemoveElement
  <2>3. IsFiniteSet(before(x)) /\ Cardinality(before(x)) <= Cardinality(V \ {x})
    BY <2>1, <2>2, FS_Subset
  <2>4. Cardinality(before(x)) \in Nat
    BY <2>3, FS_CardinalityType
  <2>5. rank[x] = Cardinality(before(x))
    BY DEF PlaceIn
  <2> HIDE DEF before, rank
  <2> QED BY <1>0, <2>2, <2>3, <2>4, <2>5
<1>2. ASSUME NEW x \in V, NEW y \in V, <<x, y>> \in R PROVE rank[x] < rank[y]
  <2>1. before(x) \in SUBSET before(y) /\ x \in before(y) /\ x \notin before(x)
    BY <1>2 DEF Ordered
  <2>2. Cardinality(before(x)) <= Cardinality(before(y))
        /\ (Cardinality(before(y)) = Cardinality(before(x)) => before(y) = before(x))
    BY <1>1, <2>1, FS_Subset
  <2>3. rank[x] \in Int /\ rank[y] \in Int /\ rank[x] = Cardinality(before(x))
        /\ rank[y] = Cardinality(before(y))
    BY <1>1
  <2> HIDE DEF before, rank
  <2> QED BY <2>1, <2>2, <2>3
<1>3. ASSUME NEW x \in V, NEW y \in V
      PROVE  (<<x, y>> \in R <=> rank[x] < rank[y]) /\ (rank[x] = rank[y] => x = y)
  <2>1. rank[x] \in Int /\ rank[y] \in Int
    BY <1>1
  <2>2. x = y \/ <<x, y>> \in R \/ <<y, x>> \in R
    BY DEF Ordered
  <2>3. CASE <<x, y>> \in R
    <3>1. rank[x] < rank[y]
      BY <1>2, <2>3
    <3> HIDE DEF rank
    <3> QED BY <2>1, <2>3, <3>1
  <2>4. CASE <<y, x>> \in R
    <3>1. rank[y] < rank[x] /\ <<x, y>> \notin R
      BY <1>2, <2>4 DEF Ordered
    <3> HIDE DEF rank
    <3> QED BY <2>1, <3>1
  <2>5. CASE x = y
    <3>1. <<x, y>> \notin R
      BY <2>5 DEF Ordered
    <3> HIDE DEF rank
    <3> QED BY <2>1, <2>5, <3>1
  <2> QED BY <2>2, <2>3, <2>4, <2>5
<1> HIDE DEF rank
<1>4. \A x \in V : rank[x] \in 0 .. Cardinality(V) - 1
  BY <1>1
<1> QED BY <1>3, <1>4 DEF rank

(* All that come before a place, and the places up to one that is taken.   *)
LEMMA UpToPlace ==
    ASSUME NEW V, IsFiniteSet(V), NEW R, Ordered(V, R), NEW n \in Nat,
           n = 0 \/ \E x \in V : PlaceIn(V, R)[x] = n - 1
    PROVE  Cardinality({x \in V : PlaceIn(V, R)[x] < n}) = n
<1> DEFINE rank == PlaceIn(V, R)
           first == {x \in V : rank[x] < n}
<1>0. \A x \in V : rank[x] \in Nat
  BY PlacesInOrder
<1>1. CASE n = 0
  <2>1. first = {}
    BY <1>0, <1>1
  <2> HIDE DEF first
  <2> QED BY <1>1, <2>1, FS_EmptySet DEF first
<1>2. CASE n # 0
  <2>1. PICK x \in V : rank[x] = n - 1
    BY <1>2
  <2> DEFINE before == {y \in V : <<y, x>> \in R}
  <2>2. IsFiniteSet(before) /\ Cardinality(before) = n - 1 /\ x \notin before
    BY <2>1, FS_Subset DEF PlaceIn, Ordered
  <2>3. \A y \in V : <<y, x>> \in R <=> rank[y] < n - 1
    BY <2>1, PlacesInOrder
  <2>4. \A y \in V : rank[y] = n - 1 => y = x
    BY <2>1, PlacesInOrder
  <2>5. first = before \cup {x}
    <3> HIDE DEF rank
    <3> QED BY <1>0, <2>1, <2>3, <2>4
  <2> HIDE DEF before, first
  <2>6. Cardinality(first) = Cardinality(before) + 1
    BY <2>2, <2>5, FS_AddElement
  <2> QED BY <2>2, <2>6 DEF first
<1> QED BY <1>1, <1>2

(* In a finite set that is strictly and totally ordered, each place below  *)
(* its cardinality is some member's: so a list of its members by their     *)
(* places, as the code's sorts by kickoff and id make one, leaves out none *)
(* and has no gap.                                                         *)
THEOREM PlacesTaken ==
    ASSUME NEW V, IsFiniteSet(V), NEW R, Ordered(V, R), NEW n \in 0 .. Cardinality(V) - 1
    PROVE  \E x \in V : PlaceIn(V, R)[x] = n
<1> DEFINE rank == PlaceIn(V, R)
           free == {k \in 0 .. Cardinality(V) - 1 : \A x \in V : rank[x] # k}
<1> SUFFICES ASSUME free # {} PROVE FALSE
  OBVIOUS
<1>0. Cardinality(V) \in Nat /\ \A x \in V : rank[x] \in Nat
  BY PlacesInOrder, FS_CardinalityType
<1>1. PICK m \in free : \A k \in free : m <= k
  <2>1. free \in SUBSET Nat
    OBVIOUS
  <2> HIDE DEF free
  <2> QED BY <2>1, NatMin
<1>2. m \in Nat /\ m < Cardinality(V) /\ (\A x \in V : rank[x] # m)
      /\ (m = 0 \/ \E x \in V : rank[x] = m - 1)
  <2> HIDE DEF rank
  <2> QED BY <1>0, <1>1
<1> DEFINE first == {x \in V : rank[x] < m}
<1>3. Cardinality(first) = m
  BY <1>2, UpToPlace
<1> DEFINE others == {rank[x] : x \in V \ first}
<1>4. others \in SUBSET Nat /\ others # {}
  <2>1. first # V
    <3> HIDE DEF first
    <3> QED BY <1>0, <1>2, <1>3
  <2> QED BY <1>0, <2>1
<1>5. PICK y \in V : y \notin first /\ \A z \in V \ first : rank[y] <= rank[z]
  <2>1. PICK k \in others : \A l \in others : k <= l
    <3> HIDE DEF others
    <3> QED BY <1>4, NatMin
  <2> QED BY <2>1
<1>6. first = {z \in V : <<z, y>> \in R}
  <2>1. \A z \in V : <<z, y>> \in R <=> rank[z] < rank[y]
    BY PlacesInOrder
  <2> HIDE DEF rank
  <2> QED BY <1>0, <1>2, <1>5, <2>1
<1>7. rank[y] = m
  BY <1>3, <1>6 DEF PlaceIn
<1> QED BY <1>2, <1>7

(* One comes before all others.                                            *)
LEMMA FirstMember ==
    ASSUME NEW V, IsFiniteSet(V), V # {}, NEW R, Ordered(V, R)
    PROVE  \E x \in V : \A y \in V \ {x} : <<x, y>> \in R
<1>1. Cardinality(V) \in Nat /\ Cardinality(V) # 0
  BY FS_CardinalityType, FS_EmptySet
<1>2. PICK x \in V : PlaceIn(V, R)[x] = 0
  BY <1>1, PlacesTaken
<1>3. ASSUME NEW y \in V \ {x} PROVE PlaceIn(V, R)[x] < PlaceIn(V, R)[y]
  BY <1>1, <1>2, PlacesInOrder
<1> QED BY <1>3, PlacesInOrder
=============================================================================
