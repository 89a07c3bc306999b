---------------------------- MODULE OrderLemmas ----------------------------
(***************************************************************************)
(* Lemmas about sets of natural numbers that the proofs about queues and   *)
(* pages share: least and greatest elements, and the first n elements of a *)
(* set in its order.  The induction is in the library's well-founded       *)
(* orders, through minimal counterexamples.                                *)
(***************************************************************************)
EXTENDS Integers, FiniteSets, FiniteSetTheorems, WellFoundedInduction, TLAPS

(* A set of numbers that is not empty has a least element. *)
LEMMA LeastNat ==
    ASSUME NEW S \in SUBSET Nat, S # {}
    PROVE  \E m \in S : \A k \in S : m <= k
  <1> DEFINE R == OpToRel(<, Nat)
  <1>1. IsWellFoundedOn(R, Nat)
      BY NatLessThanWellFounded
  <1>2. \A x, y \in Nat : <<y, x>> \in R <=> y < x
      BY DEF OpToRel
  <1> HIDE DEF R
  <1>3. PICK x \in S : \A y \in S : ~(<<y, x>> \in R)
      BY <1>1, WFMin
  <1>4. ASSUME NEW k \in S PROVE x <= k
    <2>1. ~(k < x)
        BY <1>2, <1>3
    <2> QED BY <2>1
  <1> QED BY <1>4

(* A bounded one has a greatest element: its least upper bound. *)
LEMMA GreatestNat ==
    ASSUME NEW S \in SUBSET Nat, S # {}, NEW n \in Nat, \A k \in S : k <= n
    PROVE  \E m \in S : \A k \in S : k <= m
  <1> DEFINE U == {u \in Nat : \A k \in S : k <= u}
  <1>1. PICK m \in U : \A u \in U : m <= u
    <2>1. U \in SUBSET Nat /\ U # {}
        OBVIOUS
    <2> QED BY <2>1, LeastNat
  <1>2. m \in S
    <2> SUFFICES ASSUME m \notin S PROVE FALSE
        OBVIOUS
    <2>1. PICK s \in S : TRUE
        OBVIOUS
    <2>2. m - 1 \in U
        BY <2>1
    <2> QED BY <2>2, <1>1
  <1> QED BY <1>1, <1>2

-----------------------------------------------------------------------------
(* The elements of a set before i in its order, and its first n elements.  *)
Before(S, i) == {k \in S : k < i}
FirstOf(S, n) == {i \in S : Cardinality(Before(S, i)) < n}

LEMMA BeforeIsFinite ==
    ASSUME NEW S \in SUBSET Nat, NEW b \in Nat, \A k \in S : k <= b, NEW i \in Nat
    PROVE  /\ IsFiniteSet(S)
           /\ IsFiniteSet(Before(S, i)) /\ Cardinality(Before(S, i)) \in Nat
  <1>1. IsFiniteSet(S)
      BY FS_BoundedSetOfNaturals
  <1>2. Before(S, i) \in SUBSET S
      BY DEF Before
  <1> QED BY <1>1, <1>2, FS_Subset, FS_CardinalityType

(* What comes before one of the first n is one of the first n. *)
LEMMA FirstOfIsDownClosed ==
    ASSUME NEW S \in SUBSET Nat, NEW b \in Nat, \A k \in S : k <= b, NEW n \in Nat,
           NEW i \in FirstOf(S, n), NEW j \in S, j <= i
    PROVE  j \in FirstOf(S, n)
  <1>1. i \in Nat /\ j \in Nat
      BY DEF FirstOf
  <1>2. Before(S, j) \in SUBSET Before(S, i)
    <2>1. ASSUME NEW k \in Before(S, j) PROVE k \in Before(S, i)
      <3>1. k \in S /\ k \in Nat /\ k < j
          BY DEF Before
      <3>2. k < i
          BY <1>1, <3>1
      <3> QED BY <3>1, <3>2 DEF Before
    <2> QED BY <2>1
  <1>3. /\ IsFiniteSet(Before(S, i)) /\ Cardinality(Before(S, i)) \in Nat
        /\ Cardinality(Before(S, j)) \in Nat
      BY <1>1, BeforeIsFinite
  <1>4. Cardinality(Before(S, j)) <= Cardinality(Before(S, i))
      BY <1>2, <1>3, FS_Subset
  <1>5. Cardinality(Before(S, i)) < n
      BY DEF FirstOf
  <1>6. Cardinality(Before(S, j)) < n
      BY <1>3, <1>4, <1>5
  <1> QED BY <1>6 DEF FirstOf

(* A set with something in it has a first element. *)
LEMMA FirstOfIsNotEmpty ==
    ASSUME NEW S \in SUBSET Nat, S # {}, NEW n \in Nat \ {0}
    PROVE  FirstOf(S, n) # {}
  <1>1. PICK m \in S : \A k \in S : m <= k
      BY LeastNat
  <1>2. ASSUME NEW k \in Before(S, m) PROVE FALSE
    <2>1. k \in Nat /\ m \in Nat /\ k < m /\ m <= k
        BY <1>1 DEF Before
    <2> QED BY <2>1
  <1>3. Cardinality(Before(S, m)) = 0
    <2>1. Before(S, m) = {}
        BY <1>2
    <2> QED BY <2>1, FS_EmptySet
  <1>4. m \in FirstOf(S, n)
      BY <1>3 DEF FirstOf
  <1> QED BY <1>4

(* A set of at most n elements is its first n. *)
LEMMA FirstOfSmallSet ==
    ASSUME NEW S \in SUBSET Nat, NEW b \in Nat, \A k \in S : k <= b, NEW n \in Nat,
           Cardinality(S) <= n
    PROVE  FirstOf(S, n) = S
  <1>1. ASSUME NEW i \in S PROVE Cardinality(Before(S, i)) < n
    <2>1. /\ i \in Nat /\ IsFiniteSet(S) /\ Cardinality(S) \in Nat
          /\ Cardinality(Before(S, i)) \in Nat
        BY BeforeIsFinite, FS_CardinalityType
    <2>2. Before(S, i) \in SUBSET S /\ i \notin Before(S, i)
        BY <2>1 DEF Before
    <2>3. Cardinality(Before(S, i)) <= Cardinality(S) /\ Cardinality(Before(S, i)) # Cardinality(S)
        BY <2>1, <2>2, FS_Subset
    <2> QED BY <2>1, <2>3
  <1> QED BY <1>1 DEF FirstOf

(* Asking for one element more than fit tells whether there are more: if   *)
(* the first n + 1 are at most n, they are all.                            *)
LEMMA OneMoreTells ==
    ASSUME NEW S \in SUBSET Nat, NEW b \in Nat, \A k \in S : k <= b, NEW n \in Nat,
           Cardinality(FirstOf(S, n + 1)) <= n
    PROVE  FirstOf(S, n + 1) = S
  <1> DEFINE F == FirstOf(S, n + 1)
             Out == S \ F
  <1>1. F \in SUBSET S
      BY DEF FirstOf
  <1> SUFFICES ASSUME Out # {} PROVE FALSE
      BY <1>1
  <1>2. PICK i \in Out : \A k \in Out : i <= k
    <2>1. Out \in SUBSET Nat
        OBVIOUS
    <2> QED BY <2>1, LeastNat
  <1>3. i \in Nat /\ IsFiniteSet(S) /\ Cardinality(Before(S, i)) \in Nat
      BY BeforeIsFinite
  <1>4. Before(S, i) \in SUBSET F
    <2>1. ASSUME NEW k \in Before(S, i) PROVE k \in F
      <3>1. k \in S /\ k \in Nat /\ k < i
          BY DEF Before
      <3>2. k \notin Out
          BY <1>2, <1>3, <3>1
      <3> QED BY <3>1, <3>2
    <2> QED BY <2>1
  <1>5. IsFiniteSet(F)
      BY <1>1, <1>3, FS_Subset
  <1>6. Cardinality(F) \in Nat
      BY <1>5, FS_CardinalityType
  <1>7. Cardinality(Before(S, i)) <= Cardinality(F)
      BY <1>4, <1>5, FS_Subset
  <1>8. Cardinality(Before(S, i)) < n + 1
      BY <1>3, <1>6, <1>7
  <1> QED BY <1>2, <1>8 DEF FirstOf

(* A page: of the first n + 1 elements of S the first n are shown.  It is  *)
(* full and ends with its greatest element m, having all of S up to m; or  *)
(* nothing was left over and it has all of S.                              *)
IsPage(S, found, data, n) ==
    /\ data \subseteq S
    /\ Cardinality(found) > n =>
          \E m \in data : /\ \A k \in data : k <= m
                          /\ \A i \in S : i <= m => i \in data
    /\ ~(Cardinality(found) > n) => data = S

LEMMA PageOfFirst ==
    ASSUME NEW S \in SUBSET Nat, NEW b \in Nat, \A k \in S : k <= b, NEW n \in Nat \ {0},
           NEW found, found = FirstOf(S, n + 1), NEW data, data = FirstOf(found, n)
    PROVE  IsPage(S, found, data, n)
  <1>1. found \in SUBSET S /\ data \in SUBSET found
      BY DEF FirstOf
  <1>2. /\ found \in SUBSET Nat /\ data \in SUBSET Nat /\ n + 1 \in Nat /\ n \in Nat
        /\ \A k \in found : k <= b
        /\ \A k \in data : k <= b
    <2>1. n + 1 \in Nat /\ n \in Nat
        OBVIOUS
    <2>2. found \subseteq S /\ data \subseteq S
        BY <1>1
    <2> QED BY <2>1, <2>2
  <1>3. IsFiniteSet(found) /\ Cardinality(found) \in Nat
    <2>1. IsFiniteSet(found)
        BY <1>2, FS_BoundedSetOfNaturals
    <2> QED BY <2>1, FS_CardinalityType
  <1>4. ASSUME Cardinality(found) > n
        PROVE  \E m \in data : /\ \A k \in data : k <= m
                               /\ \A i \in S : i <= m => i \in data
    <2>1. found # {}
        BY <1>3, <1>4, FS_EmptySet
    <2>2. data # {}
        BY <1>2, <2>1, FirstOfIsNotEmpty
    <2>3. PICK m \in data : \A k \in data : k <= m
        BY <1>2, <2>2, GreatestNat
    <2>4. ASSUME NEW i \in S, i <= m PROVE i \in data
      <3>1. m \in FirstOf(S, n + 1) /\ m \in FirstOf(found, n)
          BY <1>1
      <3>2. i \in FirstOf(S, n + 1)
          BY <1>2, <2>4, <3>1, FirstOfIsDownClosed
      <3>3. i \in found
          BY <3>2
      <3> QED BY <1>2, <2>4, <3>1, <3>3, FirstOfIsDownClosed
    <2> QED BY <2>3, <2>4
  <1>5. ASSUME ~(Cardinality(found) > n) PROVE data = S
    <2>1. Cardinality(found) <= n
        BY <1>2, <1>3, <1>5
    <2>2. found = S
        BY <1>2, <2>1, OneMoreTells
    <2>3. data = found
        BY <1>2, <2>1, FirstOfSmallSet
    <2> QED BY <2>2, <2>3
  <1> QED BY <1>1, <1>4, <1>5 DEF IsPage
=============================================================================
