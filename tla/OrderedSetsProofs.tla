-------------------------- MODULE OrderedSetsProofs --------------------------
(***************************************************************************)
(* Lemmas about data that the proofs of the other components cite:         *)
(* induction over the naturals, least and greatest elements, what the      *)
(* operators of OrderedSets return, products over a commutative monoid,    *)
(* and recursion over the nodes of a tree.                                 *)
(*                                                                         *)
(* Induction is stated about a set of naturals: the set of the numbers     *)
(* that have the property is an ordinary value, so the principle needs no  *)
(* operator as a parameter.                                                *)
(***************************************************************************)
EXTENDS OrderedSets, FiniteSetTheorems, SequenceTheorems, WellFoundedInduction, TLAPS

-----------------------------------------------------------------------------
(* Least elements and induction                                            *)

\* The order of the natural numbers, as a set of pairs, is well-founded.
LEMMA NatOrderWellFounded == IsWellFoundedOn({p \in Nat \X Nat : p[1] < p[2]}, Nat)
<1>1. IsWellFoundedOn(OpToRel(<, Nat), Nat)
  BY NatLessThanWellFounded
<1>2. {p \in Nat \X Nat : p[1] < p[2]} \cap (Nat \X Nat) \subseteq OpToRel(<, Nat)
  BY DEF OpToRel
<1>3. QED
  BY <1>1, <1>2, IsWellFoundedOnSubrelation

\* A set of naturals that is not empty has a least element.
LEMMA LeastNat ==
    ASSUME NEW T \in SUBSET Nat, T # {}
    PROVE  \E x \in T : \A y \in T : x <= y
<1> DEFINE R == {p \in Nat \X Nat : p[1] < p[2]}
<1>1. IsWellFoundedOn(R, Nat)
  BY NatOrderWellFounded
<1> HIDE DEF R
<1>2. PICK x \in T : \A y \in T : ~(<<y, x>> \in R)
  BY <1>1, WFMin
<1>3. ASSUME NEW y \in T PROVE x <= y
  <2>1. x \in Nat /\ y \in Nat
    OBVIOUS
  <2>2. ~(y < x)
    BY <1>2, <2>1 DEF R
  <2>3. QED
    BY <2>1, <2>2
<1>4. QED
  BY <1>3

\* A set of numbers that holds zero and the successor of each of its elements
\* holds every natural number.
LEMMA Induction ==
    ASSUME NEW T, 0 \in T, \A n \in Nat : n \in T => n + 1 \in T
    PROVE  Nat \subseteq T
<1> SUFFICES ASSUME Nat \ T # {} PROVE FALSE
  OBVIOUS
<1>1. PICK x \in Nat \ T : \A y \in Nat \ T : x <= y
  BY LeastNat
<1>2. x - 1 \in Nat /\ x - 1 \in T
  BY <1>1
<1>3. QED
  BY <1>1, <1>2

\* A finite, non-empty set has an element that nothing in it exceeds.
LEMMA FiniteHasMaximal ==
    ASSUME NEW S, IsFiniteSet(S), S # {}, NEW R,
           \A x \in S : <<x, x>> \notin R,
           \A x, y, z \in S : <<x, y>> \in R /\ <<y, z>> \in R => <<x, z>> \in R
    PROVE  \E m \in S : \A y \in S : <<m, y>> \notin R
<1> DEFINE Above(x) == {y \in S : <<x, y>> \in R}
           Uppers == {Above(x) : x \in S}
<1>1. IsWellFoundedOn(StrictSubsetOrdering(S), FiniteSubsetsOf(S))
  BY FS_StrictSubsetOrderingWellFounded
<1>2. \A x \in S : Above(x) \in SUBSET S
  OBVIOUS
<1> HIDE DEF Above
<1>3. Uppers \subseteq SUBSET S /\ Uppers # {}
  BY <1>2
<1>4. Uppers \subseteq FiniteSubsetsOf(S)
  BY <1>3, FS_FiniteSubsetsOfFinite
<1>5. \E U \in Uppers : \A V \in Uppers : ~(<<V, U>> \in StrictSubsetOrdering(S))
  <2> HIDE DEF Uppers
  <2>1. QED
    BY <1>1, <1>3, <1>4, WFMin
<1>6. PICK m \in S : \A x \in S : <<Above(x), Above(m)>> \notin StrictSubsetOrdering(S)
  BY <1>5
<1>7. ASSUME NEW y \in S, <<m, y>> \in R PROVE FALSE
  <2>1. Above(y) \subseteq Above(m) /\ y \in Above(m) /\ y \notin Above(y)
    BY <1>7 DEF Above
  <2>2. <<Above(y), Above(m)>> \in StrictSubsetOrdering(S)
    BY <1>2, <2>1 DEF StrictSubsetOrdering
  <2>3. QED
    BY <1>6, <2>2
<1>8. QED
  BY <1>7

\* There are n numbers from one to n.
LEMMA OneToN ==
    ASSUME NEW n \in Nat
    PROVE  IsFiniteSet(1 .. n) /\ Cardinality(1 .. n) = n
<1>1. 1 \in Int /\ n \in Int /\ (1 > n => n = 0)
  OBVIOUS
<1>2. QED
  BY <1>1, FS_Interval

\* A larger factor makes a larger product.
LEMMA ProductsGrow ==
    ASSUME NEW x \in Int, NEW y \in Int, NEW z \in Nat, x <= y
    PROVE  x * z <= y * z
  OBVIOUS

-----------------------------------------------------------------------------
(* Ascending                                                               *)

LowerThan(S, x) == {y \in S : y < x}

\* How many elements lie below one: fewer than there are, and the more the
\* larger it is.
LEMMA BelowCounts ==
    ASSUME NEW S \in SUBSET Int, IsFiniteSet(S), NEW x \in S
    PROVE  /\ Cardinality(LowerThan(S, x)) \in 0 .. Cardinality(S) - 1
           /\ \A z \in S : x < z => Cardinality(LowerThan(S, x)) < Cardinality(LowerThan(S, z))
<1>1. ASSUME NEW z \in S \cup {x}, NEW B \in SUBSET S, LowerThan(S, x) \cup {x} \subseteq B
      PROVE  IsFiniteSet(B) /\ Cardinality(LowerThan(S, x)) < Cardinality(B)
                            /\ Cardinality(LowerThan(S, x)) \in Nat /\ Cardinality(B) \in Nat
  <2>1. IsFiniteSet(B)
    BY FS_Subset
  <2>2. IsFiniteSet(LowerThan(S, x)) /\ x \notin LowerThan(S, x)
    BY FS_Subset DEF LowerThan
  <2>3. Cardinality(LowerThan(S, x) \cup {x}) = Cardinality(LowerThan(S, x)) + 1
    BY <2>2, FS_AddElement
  <2>4. Cardinality(LowerThan(S, x) \cup {x}) <= Cardinality(B)
    BY <1>1, <2>1, FS_Subset
  <2>5. Cardinality(LowerThan(S, x)) \in Nat /\ Cardinality(B) \in Nat
    BY <2>1, <2>2, FS_CardinalityType
  <2>6. QED
    BY <2>1, <2>3, <2>4, <2>5
<1>2. LowerThan(S, x) \cup {x} \subseteq S
  BY DEF LowerThan
<1>3. ASSUME NEW z \in S, x < z PROVE LowerThan(S, x) \cup {x} \subseteq LowerThan(S, z)
  <2>1. ASSUME NEW y \in S, y < x \/ y = x PROVE y < z
    <3>1. x \in Int /\ y \in Int /\ z \in Int
      OBVIOUS
    <3>2. QED
      BY <1>3, <2>1, <3>1
  <2>2. QED
    BY <2>1 DEF LowerThan
<1>4. \A z \in S : LowerThan(S, z) \in SUBSET S
  BY DEF LowerThan
<1>5. QED
  BY <1>1, <1>2, <1>3, <1>4

\* Every rank below the number of elements is the rank of an element.
LEMMA EveryRank ==
    ASSUME NEW S \in SUBSET Int, IsFiniteSet(S), NEW k \in 0 .. Cardinality(S) - 1
    PROVE  \E x \in S : Cardinality(LowerThan(S, x)) = k
<1> DEFINE n == Cardinality(S)
           rank == [x \in S |-> Cardinality(LowerThan(S, x))]
<1>1. n \in Nat
  BY FS_CardinalityType
<1>2. IsFiniteSet(0 .. n - 1) /\ Cardinality(0 .. n - 1) = n
  BY <1>1, FS_Interval
<1>3. rank \in [S -> 0 .. n - 1]
  BY BelowCounts
<1>4. ASSUME NEW x \in S, NEW y \in S, rank[x] = rank[y] PROVE x = y
  <2>1. ~(x < y) /\ ~(y < x)
    <3>1. rank[x] \in Int
      BY <1>3
    <3>2. QED
      BY <1>4, <3>1, BelowCounts
  <2>2. QED
    BY <2>1
<1>5. rank \in Injection(S, 0 .. n - 1)
  BY <1>3, <1>4 DEF Injection, IsInjective
<1>6. rank \in Surjection(S, 0 .. n - 1)
  BY <1>2, <1>5, FS_Injection
<1>7. QED
  BY <1>6 DEF Surjection

\* Ascending lists the set: as long as the set is large, its elements and
\* nothing else, each once, the smaller ones first.
LEMMA AscendingLists ==
    ASSUME NEW S \in SUBSET Int, IsFiniteSet(S)
    PROVE  /\ Ascending(S) \in Seq(S)
           /\ Len(Ascending(S)) = Cardinality(S)
           /\ \A x \in S : \E k \in 1 .. Len(Ascending(S)) : Ascending(S)[k] = x
           /\ \A k, l \in 1 .. Len(Ascending(S)) : k < l => Ascending(S)[k] < Ascending(S)[l]
<1> DEFINE n == Cardinality(S)
           A == Ascending(S)
<1>0. \A y \in S : y \in Int
  OBVIOUS
<1>1. n \in Nat
  BY FS_CardinalityType
<1>2. ASSUME NEW k \in 1 .. n
      PROVE  A[k] \in S /\ Cardinality(LowerThan(S, A[k])) = k - 1
  <2>1. k - 1 \in 0 .. n - 1
    BY <1>1
  <2>2. \E x \in S : Cardinality({y \in S : y < x}) = k - 1
    BY <2>1, EveryRank DEF LowerThan
  <2>3. A[k] = CHOOSE x \in S : Cardinality({y \in S : y < x}) = k - 1
    BY DEF Ascending
  <2>4. QED
    BY <2>2, <2>3 DEF LowerThan
<1>3. A \in Seq(S) /\ Len(A) = n
  <2>1. A \in [1 .. n -> S]
    BY <1>2 DEF Ascending
  <2>2. QED
    BY <1>1, <2>1
<1>4. ASSUME NEW k \in 1 .. n, NEW l \in 1 .. n, k < l PROVE A[k] < A[l]
  <2>1. A[k] \in Int /\ A[l] \in Int
    BY <1>0, <1>2
  <2>2. A[k] \in S /\ A[l] \in S
        /\ Cardinality(LowerThan(S, A[k])) < Cardinality(LowerThan(S, A[l]))
    BY <1>1, <1>2, <1>4
  <2>3. ~(A[l] < A[k]) /\ A[k] # A[l]
    <3>1. Cardinality(LowerThan(S, A[k])) \in Int /\ Cardinality(LowerThan(S, A[l])) \in Int
      BY <1>2
    <3>2. A[l] < A[k] => Cardinality(LowerThan(S, A[l])) < Cardinality(LowerThan(S, A[k]))
      BY <2>2, BelowCounts
    <3>3. QED
      BY <2>2, <3>1, <3>2
  <2>4. QED
    BY <2>1, <2>3
<1>5. ASSUME NEW x \in S PROVE \E k \in 1 .. n : A[k] = x
  <2> DEFINE k == Cardinality(LowerThan(S, x)) + 1
  <2>1. k \in 1 .. n /\ k - 1 = Cardinality(LowerThan(S, x))
    BY <1>1, BelowCounts
  <2>2. A[k] \in S /\ Cardinality(LowerThan(S, A[k])) = Cardinality(LowerThan(S, x))
    BY <1>2, <2>1
  <2>3. A[k] < x => Cardinality(LowerThan(S, A[k])) < Cardinality(LowerThan(S, x))
    BY <2>2, BelowCounts
  <2>4. x < A[k] => Cardinality(LowerThan(S, x)) < Cardinality(LowerThan(S, A[k]))
    BY <2>2, BelowCounts
  <2> HIDE DEF k, A
  <2>5. A[k] \in Int /\ x \in Int
    BY <1>0, <2>2
  <2>8. Cardinality(LowerThan(S, x)) \in Int
    BY BelowCounts
  <2>6. A[k] = x
    BY <2>2, <2>3, <2>4, <2>5, <2>8
  <2>7. QED
    BY <2>1, <2>6
<1> HIDE DEF n, A
<1>6. /\ A \in Seq(S) /\ Len(A) = n
      /\ \A x \in S : \E k \in 1 .. Len(A) : A[k] = x
      /\ \A k, l \in 1 .. Len(A) : k < l => A[k] < A[l]
  BY <1>3, <1>4, <1>5
<1>7. QED
  BY <1>6 DEF A, n

\* Up to the k-th element there are k of them.
LEMMA AscendingCounts ==
    ASSUME NEW S \in SUBSET Int, IsFiniteSet(S), NEW k \in 1 .. Cardinality(S)
    PROVE  Cardinality({y \in S : y <= Ascending(S)[k]}) = k
<1> DEFINE x == Ascending(S)[k]
<1>1. Cardinality(S) \in Nat
  BY FS_CardinalityType
<1>2. x \in S /\ Cardinality(LowerThan(S, x)) = k - 1
  <2>1. \E y \in S : Cardinality({z \in S : z < y}) = k - 1
    BY <1>1, EveryRank DEF LowerThan
  <2>2. x = CHOOSE y \in S : Cardinality({z \in S : z < y}) = k - 1
    BY DEF Ascending
  <2>3. QED
    BY <2>1, <2>2 DEF LowerThan
<1> HIDE DEF x
<1>3. {y \in S : y <= x} = LowerThan(S, x) \cup {x}
  <2>1. \A y \in S : y \in Int /\ x \in Int
    BY <1>2
  <2>2. \A y \in S : y <= x <=> y < x \/ y = x
    BY <2>1
  <2>3. QED
    BY <1>2, <2>2 DEF LowerThan
<1>4. IsFiniteSet(LowerThan(S, x)) /\ x \notin LowerThan(S, x)
  BY <1>2, FS_Subset DEF LowerThan
<1>5. Cardinality(LowerThan(S, x) \cup {x}) = (k - 1) + 1
  BY <1>2, <1>4, FS_AddElement
<1>6. QED
  BY <1>3, <1>5 DEF x

\* A finite set of integers that is not empty has a least and a greatest
\* element, and Min answers the least.
LEMMA LeastAndGreatest ==
    ASSUME NEW S \in SUBSET Int, IsFiniteSet(S), S # {}
    PROVE  /\ Min(S) \in S /\ \A y \in S : Min(S) <= y
           /\ Max(S) \in S /\ \A y \in S : Max(S) >= y
<1> DEFINE A == Ascending(S)
           n == Len(A)
<1>0. \A y \in S : y \in Int
  OBVIOUS
<1>1. /\ A \in Seq(S) /\ n \in Nat /\ n = Cardinality(S)
      /\ \A x \in S : \E k \in 1 .. n : A[k] = x
      /\ \A k, l \in 1 .. n : k < l => A[k] < A[l]
  BY AscendingLists, FS_CardinalityType
<1> HIDE DEF A
<1>2. \A k \in 1 .. n : A[k] \in S
  BY <1>1
<1> HIDE DEF n
<1>3. n >= 1
  <2>1. PICK y \in S : TRUE
    OBVIOUS
  <2>2. PICK k \in 1 .. n : A[k] = y
    BY <1>1
  <2>3. QED
    BY <1>1, <2>2
<1>4. ASSUME NEW y \in S PROVE A[1] <= y /\ A[n] >= y
  <2>1. PICK k \in 1 .. n : A[k] = y
    BY <1>1
  <2>2. 1 \in 1 .. n /\ n \in 1 .. n
    BY <1>1, <1>3
  <2>3. A[1] \in Int /\ A[n] \in Int /\ A[k] \in Int
    BY <1>0, <1>2, <2>2
  <2>4. 1 < k => A[1] < A[k]
    BY <1>1, <2>2
  <2>5. k < n => A[k] < A[n]
    BY <1>1, <2>2
  <2>6. QED
    BY <1>1, <2>1, <2>3, <2>4, <2>5
<1>5. A[1] \in S /\ A[n] \in S
  BY <1>1, <1>2, <1>3
<1>6. \E x \in S : \A y \in S : x <= y
  BY <1>4, <1>5
<1>7. \E x \in S : \A y \in S : x >= y
  BY <1>4, <1>5
<1>8. QED
  BY <1>6, <1>7 DEF Min, Max

-----------------------------------------------------------------------------
(* Selecting and ranking                                                   *)

\* The positions selected are listed in order, and the rows follow them.
LEMMA RowsAtSelects ==
    ASSUME NEW R, NEW rows \in Seq(R), NEW I \in SUBSET (1 .. Len(rows))
    PROVE  /\ RowsAt(rows, I) \in Seq(R)
           /\ Len(RowsAt(rows, I)) = Len(Ascending(I))
           /\ \A k \in 1 .. Len(Ascending(I)) :
                 Ascending(I)[k] \in I /\ RowsAt(rows, I)[k] = rows[Ascending(I)[k]]
           /\ \A i \in I : \E k \in 1 .. Len(Ascending(I)) : Ascending(I)[k] = i
           /\ \A k, l \in 1 .. Len(Ascending(I)) : k < l => Ascending(I)[k] < Ascending(I)[l]
           /\ Len(Ascending(I)) = Cardinality(I) /\ Len(Ascending(I)) \in Nat
<1> DEFINE A == Ascending(I)
           n == Len(A)
<1>1. Len(rows) \in Nat /\ \A i \in 1 .. Len(rows) : rows[i] \in R
  BY ElementOfSeq, LenProperties
<1>2. IsFiniteSet(I) /\ I \in SUBSET Int
  <2>1. IsFiniteSet(1 .. Len(rows))
    BY <1>1, FS_Interval
  <2>2. IsFiniteSet(I)
    BY <2>1, FS_Subset
  <2>3. I \in SUBSET Int
    BY <1>1
  <2>4. QED
    BY <2>2, <2>3
<1>3. /\ A \in Seq(I) /\ n = Cardinality(I)
      /\ \A x \in I : \E k \in 1 .. n : A[k] = x
      /\ \A k, l \in 1 .. n : k < l => A[k] < A[l]
  BY <1>2, AscendingLists
<1> HIDE DEF A
<1>4. n \in Nat /\ DOMAIN A = 1 .. n /\ \A k \in 1 .. n : A[k] \in I
  BY <1>3, ElementOfSeq, LenProperties
<1>5. RowsAt(rows, I) = [k \in 1 .. n |-> rows[A[k]]]
  BY <1>4 DEF RowsAt, A
<1>6. \A k \in 1 .. n : rows[A[k]] \in R
  BY <1>1, <1>4
<1>7. RowsAt(rows, I) \in Seq(R) /\ Len(RowsAt(rows, I)) = n
  BY <1>4, <1>5, <1>6
<1>8. /\ RowsAt(rows, I) \in Seq(R) /\ Len(RowsAt(rows, I)) = n
      /\ \A k \in 1 .. n : A[k] \in I /\ RowsAt(rows, I)[k] = rows[A[k]]
      /\ \A x \in I : \E k \in 1 .. n : A[k] = x
      /\ \A k, l \in 1 .. n : k < l => A[k] < A[l]
      /\ n = Cardinality(I) /\ n \in Nat
  BY <1>3, <1>4, <1>5, <1>7
<1>9. QED
  BY <1>8 DEF A

\* The values of a sequence are finitely many.
LEMMA RangeIsFinite ==
    ASSUME NEW S, NEW s \in Seq(S)
    PROVE  IsFiniteSet(Range(s)) /\ Range(s) \in SUBSET S
<1>1. Len(s) \in Nat /\ DOMAIN s = 1 .. Len(s) /\ s \in [1 .. Len(s) -> S]
  BY LenProperties
<1>2. s \in Surjection(1 .. Len(s), Range(s))
  BY <1>1 DEF Surjection, Range
<1>3. IsFiniteSet(1 .. Len(s))
  BY <1>1, FS_Interval
<1>4. IsFiniteSet(Range(s))
  BY <1>2, <1>3, FS_Surjection
<1>5. QED
  BY <1>1, <1>4 DEF Range

\* The k-th smallest of the numbers is one of them.
LEMMA RankedIsOne ==
    ASSUME NEW numbers \in Seq(Int), NEW k \in 1 .. Len(numbers)
    PROVE  Ranked(numbers, k) \in Int /\ Ranked(numbers, k) \in Range(numbers)
<1> DEFINE UpTo(v) == {i \in DOMAIN numbers : numbers[i] <= v}
           V == {v \in Range(numbers) : Cardinality(UpTo(v)) >= k}
           top == Max(Range(numbers))
<1>1. /\ Len(numbers) \in Nat /\ DOMAIN numbers = 1 .. Len(numbers)
      /\ \A i \in 1 .. Len(numbers) : numbers[i] \in Range(numbers)
  BY LenProperties DEF Range
<1>2. IsFiniteSet(Range(numbers)) /\ Range(numbers) \in SUBSET Int /\ Range(numbers) # {}
  BY <1>1, RangeIsFinite
<1>3. top \in Range(numbers) /\ \A y \in Range(numbers) : top >= y
  BY <1>2, LeastAndGreatest
<1>4. Cardinality(UpTo(top)) >= k
  <2>1. UpTo(top) = 1 .. Len(numbers)
    <3>1. \A i \in 1 .. Len(numbers) : numbers[i] \in Int /\ top \in Int /\ top >= numbers[i]
      BY <1>1, <1>2, <1>3
    <3>2. QED
      BY <1>1, <3>1
  <2>2. Cardinality(1 .. Len(numbers)) = Len(numbers)
    <3>1. 1 \in Int /\ Len(numbers) \in Int /\ ~(1 > Len(numbers))
      BY <1>1
    <3>2. Cardinality(1 .. Len(numbers)) = Len(numbers) - 1 + 1
      BY ONLY <3>1, FS_Interval
    <3>3. QED
      BY <3>1, <3>2
  <2> HIDE DEF UpTo, top
  <2>3. QED
    BY <1>1, <2>1, <2>2
<1>5. V \in SUBSET Int /\ IsFiniteSet(V) /\ V # {} /\ V \subseteq Range(numbers)
  <2>1. V \subseteq Range(numbers) /\ top \in V
    BY <1>3, <1>4
  <2>2. QED
    BY <1>2, <2>1, FS_Subset
<1>6. Ranked(numbers, k) = Min(V)
  BY DEF Ranked
<1> HIDE DEF V
<1>7. Min(V) \in V
  BY <1>5, LeastAndGreatest
<1>8. QED
  BY <1>5, <1>6, <1>7

-----------------------------------------------------------------------------
(* Recursion                                                               *)

\* f begins with x and follows the steps at every number of N but zero.
Follows(f, N, x, step) == f[0] = x /\ \A k \in N \ {0} : f[k] = step[k][f[k - 1]]

\* A function is defined by its first value and the step from each value to
\* the next.
LEMMA Recursion ==
    ASSUME NEW S, NEW x \in S, NEW n \in Nat, NEW step \in [1 .. n -> [S -> S]]
    PROVE  \E f \in [0 .. n -> S] : Follows(f, 0 .. n, x, step)
<1> DEFINE Good(m, f) == f[0] = x /\ \A k \in 1 .. n : k <= m => f[k] = step[k][f[k - 1]]
           T == {m \in Nat : m <= n => \E f \in [0 .. n -> S] : Good(m, f)}
<1>1. 0 \in T
  <2>1. [k \in 0 .. n |-> x] \in [0 .. n -> S] /\ Good(0, [k \in 0 .. n |-> x])
    OBVIOUS
  <2>2. QED
    BY <2>1
<1>2. ASSUME NEW m \in Nat, m \in T PROVE m + 1 \in T
  <2> SUFFICES ASSUME m + 1 <= n PROVE \E f \in [0 .. n -> S] : Good(m + 1, f)
    OBVIOUS
  <2>1. PICK f \in [0 .. n -> S] : Good(m, f)
    BY <1>2
  <2> DEFINE g == [k \in 0 .. n |-> IF k = m + 1 THEN step[m + 1][f[m]] ELSE f[k]]
  <2>2. m + 1 \in 1 .. n /\ f[m] \in S /\ step[m + 1][f[m]] \in S
    OBVIOUS
  <2>3. g \in [0 .. n -> S]
    BY <2>2
  <2>4. Good(m + 1, g)
    <3>1. g[0] = x
      BY <2>1
    <3>2. ASSUME NEW k \in 1 .. n, k <= m + 1 PROVE g[k] = step[k][g[k - 1]]
      <4>1. g[k - 1] = f[k - 1]
        BY <3>2
      <4>2. CASE k = m + 1
        <5>1. g[k] = step[m + 1][f[m]] /\ k - 1 = m
          BY <4>2
        <5> HIDE DEF g
        <5>2. QED
          BY <4>1, <4>2, <5>1
      <4>3. CASE k <= m
        BY <2>1, <4>1, <4>3
      <4>4. QED
        BY <3>2, <4>2, <4>3
    <3>3. QED
      BY <3>1, <3>2
  <2> HIDE DEF g, Good
  <2>5. QED
    BY <2>3, <2>4
<1>3. n \in T
  BY <1>1, <1>2, Induction
<1>4. PICK f \in [0 .. n -> S] : Good(n, f)
  BY <1>3
<1>5. \A k \in (0 .. n) \ {0} : k \in 1 .. n /\ k <= n
  OBVIOUS
<1>6. QED
  BY <1>4, <1>5 DEF Follows

\* Also without an end.
LEMMA EndlessRecursion ==
    ASSUME NEW S, NEW x \in S, NEW step \in [Nat -> [S -> S]]
    PROVE  \E f \in [Nat -> S] : Follows(f, Nat, x, step)
<1> DEFINE Good(n, f) == /\ f \in [0 .. n -> S] /\ f[0] = x
                         /\ \A k \in 1 .. n : f[k] = step[k][f[k - 1]]
           upto(n) == CHOOSE f : Good(n, f)
           F == [n \in Nat |-> upto(n)[n]]
<1>1. ASSUME NEW n \in Nat PROVE Good(n, upto(n))
  <2> DEFINE part == [k \in 1 .. n |-> step[k]]
  <2>1. part \in [1 .. n -> [S -> S]] /\ \A k \in 1 .. n : part[k] = step[k]
    OBVIOUS
  <2> HIDE DEF part, Good
  <2>2. PICK g \in [0 .. n -> S] : Follows(g, 0 .. n, x, part)
    BY <2>1, Recursion
  <2>3. Good(n, g)
    <3>1. \A k \in 1 .. n : k \in (0 .. n) \ {0}
      OBVIOUS
    <3>2. QED
      BY <2>1, <2>2, <3>1 DEF Good, Follows
  <2> HIDE DEF Good
  <2>4. QED
    BY <2>3
<1> HIDE DEF upto
<1>2. ASSUME NEW n \in Nat, NEW m \in Nat, n <= m PROVE upto(m)[n] = upto(n)[n]
  <2> DEFINE T == {k \in Nat : k <= n => upto(m)[k] = upto(n)[k]}
  <2>1. Good(n, upto(n)) /\ Good(m, upto(m))
    BY <1>1
  <2>2. 0 \in T
    BY <2>1
  <2>3. ASSUME NEW k \in Nat, k \in T PROVE k + 1 \in T
    <3> SUFFICES ASSUME k + 1 <= n PROVE upto(m)[k + 1] = upto(n)[k + 1]
      OBVIOUS
    <3>1. upto(m)[k] = upto(n)[k] /\ k + 1 \in 1 .. n /\ k + 1 \in 1 .. m
      BY <1>2, <2>3
    <3>2. (k + 1) - 1 = k
      OBVIOUS
    <3>3. upto(m)[k + 1] = step[k + 1][upto(m)[k]] /\ upto(n)[k + 1] = step[k + 1][upto(n)[k]]
      BY <2>1, <3>1, <3>2
    <3>4. QED
      BY <3>1, <3>3
  <2> HIDE DEF T, Good
  <2>4. n \in T
    BY <2>2, <2>3, Induction
  <2>5. QED
    BY <2>4 DEF T
<1>3. F \in [Nat -> S] /\ F[0] = x
  <2>1. \A n \in Nat : upto(n)[n] \in S /\ upto(0)[0] = x
    BY <1>1
  <2>2. QED
    BY <2>1
<1>4. ASSUME NEW k \in Nat \ {0} PROVE F[k] = step[k][F[k - 1]]
  <2>1. k - 1 \in Nat /\ k \in 1 .. k /\ k - 1 <= k
    OBVIOUS
  <2>2. upto(k)[k] = step[k][upto(k)[k - 1]]
    BY <1>1, <2>1
  <2>3. upto(k)[k - 1] = upto(k - 1)[k - 1]
    BY <1>2, <2>1
  <2>4. F[k] = upto(k)[k] /\ F[k - 1] = upto(k - 1)[k - 1]
    BY <2>1
  <2>5. QED
    BY <2>2, <2>3, <2>4
<1> HIDE DEF F
<1>5. QED
  BY <1>3, <1>4 DEF Follows

-----------------------------------------------------------------------------
(* Sums                                                                    *)

\* f is the running sum of w, from nothing to its n-th term.
IsRunning(f, w, n) ==
    f = [k \in 0 .. n |-> IF k = 0 THEN 0 ELSE f[k - 1] + w[k]]

\* Such a function exists, and its values are numbers.
LEMMA RunningSum ==
    ASSUME NEW n \in Nat, NEW w \in [1 .. n -> Int]
    PROVE  \E f \in [0 .. n -> Int] : IsRunning(f, w, n)
<1> DEFINE step == [k \in 1 .. n |-> [v \in Int |-> v + w[k]]]
<1>1. step \in [1 .. n -> [Int -> Int]] /\ 0 \in Int
  OBVIOUS
<1>2. \A k \in 1 .. n, v \in Int : step[k][v] = v + w[k]
  OBVIOUS
<1> HIDE DEF step
<1>3. PICK f \in [0 .. n -> Int] : Follows(f, 0 .. n, 0, step)
  BY <1>1, Recursion
<1>4. \A k \in 1 .. n : k - 1 \in 0 .. n /\ f[k - 1] \in Int
  OBVIOUS
<1>5. \A k \in 0 .. n : f[k] = IF k = 0 THEN 0 ELSE f[k - 1] + w[k]
  <2>1. \A k \in 0 .. n : k = 0 \/ (k \in 1 .. n /\ k \in (0 .. n) \ {0})
    OBVIOUS
  <2>2. QED
    BY <1>2, <1>3, <1>4, <2>1 DEF Follows
<1>6. f = [k \in 0 .. n |-> IF k = 0 THEN 0 ELSE f[k - 1] + w[k]]
  BY <1>5
<1>7. QED
  BY <1>6 DEF IsRunning

\* The values of a running sum.
LEMMA RunningValues ==
    ASSUME NEW n \in Nat, NEW w \in [1 .. n -> Int], NEW f, IsRunning(f, w, n)
    PROVE  /\ f \in [0 .. n -> Int] /\ f[0] = 0
           /\ \A k \in 1 .. n : f[k] = f[k - 1] + w[k]
<1>1. f = [k \in 0 .. n |-> IF k = 0 THEN 0 ELSE f[k - 1] + w[k]]
  BY DEF IsRunning
<1>2. DOMAIN f = 0 .. n /\ \A k \in 0 .. n : f[k] = IF k = 0 THEN 0 ELSE f[k - 1] + w[k]
  BY <1>1
<1> DEFINE T == {m \in Nat : m <= n => f[m] \in Int}
<1>3. 0 \in T
  BY <1>2
<1>4. ASSUME NEW m \in Nat, m \in T PROVE m + 1 \in T
  BY <1>2, <1>4
<1>5. Nat \subseteq T
  BY <1>3, <1>4, Induction
<1>6. \A k \in 0 .. n : f[k] \in Int
  BY <1>5
<1>7. f = [k \in 0 .. n |-> f[k]]
  BY <1>1
<1>8. f \in [0 .. n -> Int]
  BY <1>6, <1>7
<1>9. f[0] = 0
  BY <1>2
<1>10. ASSUME NEW k \in 1 .. n PROVE f[k] = f[k - 1] + w[k]
  <2>1. k \in 0 .. n /\ k # 0
    OBVIOUS
  <2>2. QED
    BY <1>2, <2>1
<1>11. QED
  BY <1>8, <1>9, <1>10

\* Of two running sums, the one with the smaller terms never gains on the other.
LEMMA RunningOrder ==
    ASSUME NEW n \in Nat, NEW v \in [1 .. n -> Int], NEW w \in [1 .. n -> Int],
           \A k \in 1 .. n : v[k] <= w[k],
           NEW f, IsRunning(f, v, n), NEW g, IsRunning(g, w, n),
           NEW l \in 0 .. n, NEW k \in l .. n
    PROVE  f[k] - f[l] <= g[k] - g[l]
<1>1. /\ f \in [0 .. n -> Int] /\ \A i \in 1 .. n : f[i] = f[i - 1] + v[i]
      /\ g \in [0 .. n -> Int] /\ \A i \in 1 .. n : g[i] = g[i - 1] + w[i]
  BY RunningValues
<1> DEFINE T == {m \in Nat : l + m <= n => f[l + m] - f[l] <= g[l + m] - g[l]}
<1>2. 0 \in T
  BY <1>1
<1>3. ASSUME NEW m \in Nat, m \in T PROVE m + 1 \in T
  <2> SUFFICES ASSUME l + m + 1 <= n PROVE f[l + m + 1] - f[l] <= g[l + m + 1] - g[l]
    OBVIOUS
  <2>1. l + m + 1 \in 1 .. n /\ l + m \in 0 .. n
    OBVIOUS
  <2>2. f[l + m + 1] = f[l + m] + v[l + m + 1] /\ g[l + m + 1] = g[l + m] + w[l + m + 1]
    BY <1>1, <2>1
  <2>3. /\ f[l + m] \in Int /\ g[l + m] \in Int /\ f[l] \in Int /\ g[l] \in Int
        /\ v[l + m + 1] \in Int /\ w[l + m + 1] \in Int /\ v[l + m + 1] <= w[l + m + 1]
    BY <1>1, <2>1
  <2>4. f[l + m] - f[l] <= g[l + m] - g[l]
    BY <1>3, <2>1
  <2>5. \A p, q, x, y, d, e \in Int :
          p - x <= q - y /\ d <= e => p + d - x <= q + e - y
    OBVIOUS
  <2>6. f[l + m] + v[l + m + 1] - f[l] <= g[l + m] + w[l + m + 1] - g[l]
    BY ONLY <2>3, <2>4, <2>5, Zenon
  <2>7. QED
    BY <2>1, <2>2, <2>3, <2>6, SMTT(30)
<1>4. Nat \subseteq T
  BY <1>2, <1>3, Induction
<1>5. k - l \in Nat /\ l + (k - l) = k /\ k <= n
  OBVIOUS
<1>6. k - l \in T
  BY <1>4, <1>5
<1>7. QED
  BY <1>5, <1>6

\* f adds up w over the subsets of S, taking out the element c at each turn.
IsTotal(f, w, c, S) ==
    f = [s \in SUBSET S |-> IF s = {} THEN 0 ELSE w[c[s]] + f[s \ {c[s]}]]

\* c chooses an element of every subset of S that has one.
Chooses(c, S) == \A s \in SUBSET S : s # {} => c[s] \in s

\* f adds up w over the subsets of S, whatever order the terms are taken in.
Adds(f, w, S) ==
    /\ f \in [SUBSET S -> Int] /\ f[{}] = 0
    /\ \A s \in SUBSET S : \A x \in s : f[s] = f[s \ {x}] + w[x]

\* Such a function exists, for any finite set and any choice of elements.
LEMMA TotalSum ==
    ASSUME NEW S, IsFiniteSet(S), NEW w \in [S -> Int], NEW c, Chooses(c, S)
    PROVE  \E f : IsTotal(f, w, c, S)
<1> USE DEF Chooses
<1> DEFINE Good(m, f) == \A s \in SUBSET S : Cardinality(s) <= m =>
                            f[s] = (IF s = {} THEN 0 ELSE w[c[s]] + f[s \ {c[s]}])
           T == {m \in Nat : \E f \in [SUBSET S -> Int] : Good(m, f)}
<1>1. \A s \in SUBSET S : /\ Cardinality(s) \in Nat
                          /\ s # {} => Cardinality(s \ {c[s]}) = Cardinality(s) - 1
                          /\ Cardinality(s) <= Cardinality(S)
                          /\ Cardinality(s) = 0 <=> s = {}
  BY FS_Subset, FS_CardinalityType, FS_RemoveElement, FS_EmptySet
<1>2. 0 \in T
  <2> DEFINE f == [s \in SUBSET S |-> 0]
  <2>1. f \in [SUBSET S -> Int]
    OBVIOUS
  <2>2. ASSUME NEW s \in SUBSET S, Cardinality(s) <= 0
        PROVE  f[s] = (IF s = {} THEN 0 ELSE w[c[s]] + f[s \ {c[s]}])
    <3>1. Cardinality(s) \in Nat /\ (Cardinality(s) = 0 <=> s = {})
      BY <1>1
    <3>2. s = {}
      BY <2>2, <3>1
    <3>3. QED
      BY <3>2
  <2>3. QED
    BY <2>1, <2>2
<1>3. ASSUME NEW m \in Nat, m \in T PROVE m + 1 \in T
  <2>1. PICK f \in [SUBSET S -> Int] : Good(m, f)
    BY <1>3
  <2> DEFINE g == [s \in SUBSET S |-> IF Cardinality(s) = m + 1 THEN w[c[s]] + f[s \ {c[s]}] ELSE f[s]]
  <2>2. ASSUME NEW s \in SUBSET S PROVE g[s] \in Int
    <3>1. CASE Cardinality(s) = m + 1
      <4>1. s # {} /\ c[s] \in S /\ s \ {c[s]} \in SUBSET S
        BY <1>1, <3>1
      <4>2. QED
        BY <3>1, <4>1
    <3>2. CASE Cardinality(s) # m + 1
      BY <3>2
    <3>3. QED
      BY <3>1, <3>2
  <2>3. g \in [SUBSET S -> Int]
    BY <2>2
  <2>4. ASSUME NEW s \in SUBSET S, Cardinality(s) <= m + 1
        PROVE  g[s] = (IF s = {} THEN 0 ELSE w[c[s]] + g[s \ {c[s]}])
    <3>1. CASE s = {}
      BY <1>1, <2>1, <3>1
    <3>2. CASE s # {}
      <4>1. /\ s \ {c[s]} \in SUBSET S /\ Cardinality(s \ {c[s]}) = Cardinality(s) - 1
            /\ Cardinality(s) \in Nat
        BY <1>1, <3>2
      <4>2. g[s \ {c[s]}] = f[s \ {c[s]}]
        BY <2>4, <4>1
      <4>3. CASE Cardinality(s) = m + 1
        BY <3>2, <4>2, <4>3
      <4>4. CASE Cardinality(s) <= m
        BY <2>1, <3>2, <4>1, <4>2, <4>4
      <4>5. QED
        BY <2>4, <4>1, <4>3, <4>4
    <3>3. QED
      BY <3>1, <3>2
  <2>5. Good(m + 1, g)
    BY <2>4
  <2> HIDE DEF g, Good
  <2>6. QED
    BY <2>3, <2>5
<1>4. Cardinality(S) \in T
  BY <1>1, <1>2, <1>3, Induction
<1>5. PICK f \in [SUBSET S -> Int] : Good(Cardinality(S), f)
  BY <1>4
<1>6. f = [s \in SUBSET S |-> f[s]]
  OBVIOUS
<1>7. f = [s \in SUBSET S |-> IF s = {} THEN 0 ELSE w[c[s]] + f[s \ {c[s]}]]
  BY <1>1, <1>5, <1>6
<1>8. QED
  BY <1>7 DEF IsTotal

\* A total does not depend on the order in which elements are taken out.
LEMMA TotalAdds ==
    ASSUME NEW S, IsFiniteSet(S), NEW w \in [S -> Int], NEW c, Chooses(c, S),
           NEW f, IsTotal(f, w, c, S)
    PROVE  Adds(f, w, S)
<1> USE DEF Chooses
<1>1. f = [s \in SUBSET S |-> IF s = {} THEN 0 ELSE w[c[s]] + f[s \ {c[s]}]]
  BY DEF IsTotal
<1>2. \A s \in SUBSET S : f[s] = IF s = {} THEN 0 ELSE w[c[s]] + f[s \ {c[s]}]
  BY <1>1
<1>3. \A s \in SUBSET S : /\ Cardinality(s) \in Nat
                          /\ \A x \in s : Cardinality(s \ {x}) = Cardinality(s) - 1
                          /\ Cardinality(s) = 0 <=> s = {}
  BY FS_Subset, FS_CardinalityType, FS_RemoveElement, FS_EmptySet
<1> DEFINE T == {m \in Nat : \A s \in SUBSET S : Cardinality(s) <= m =>
                     f[s] \in Int /\ \A x \in s : f[s] = f[s \ {x}] + w[x]}
<1>4. 0 \in T
  <2> SUFFICES ASSUME NEW s \in SUBSET S, Cardinality(s) <= 0
               PROVE  f[s] \in Int /\ \A x \in s : f[s] = f[s \ {x}] + w[x]
    OBVIOUS
  <2>1. s = {}
    BY <1>3
  <2>2. f[s] = 0 /\ \A x \in s : FALSE
    BY <1>2, <2>1
  <2>3. QED
    BY <2>2
<1>5. ASSUME NEW m \in Nat, m \in T PROVE m + 1 \in T
  <2> SUFFICES ASSUME NEW s \in SUBSET S, Cardinality(s) <= m + 1
               PROVE  f[s] \in Int /\ \A x \in s : f[s] = f[s \ {x}] + w[x]
    OBVIOUS
  <2>0. CASE s = {}
    <3>1. f[s] = 0 /\ \A x \in s : FALSE
      BY <1>2, <2>0
    <3>2. QED
      BY <3>1
  <2> SUFFICES ASSUME s # {} PROVE f[s] \in Int /\ \A x \in s : f[s] = f[s \ {x}] + w[x]
    BY <2>0
  <2> DEFINE y == c[s]
  <2>1. y \in s /\ y \in S /\ w[y] \in Int /\ f[s] = w[y] + f[s \ {y}]
    BY <1>2
  <2>2. s \ {y} \in SUBSET S /\ Cardinality(s \ {y}) <= m
    BY <1>3, <2>1
  <2>3. f[s \ {y}] \in Int /\ \A x \in s \ {y} : f[s \ {y}] = f[(s \ {y}) \ {x}] + w[x]
    BY <1>5, <2>2
  <2>4. f[s] \in Int
    BY <2>1, <2>3
  <2> HIDE DEF y
  <2>5. ASSUME NEW x \in s PROVE f[s] = f[s \ {x}] + w[x]
    <3>1. CASE x = y
      BY <2>1, <2>3, <3>1
    <3>2. CASE x # y
      <4>1. f[s \ {y}] = f[(s \ {y}) \ {x}] + w[x]
        BY <2>3, <3>2
      <4>2. s \ {x} \in SUBSET S /\ Cardinality(s \ {x}) <= m /\ y \in s \ {x}
        BY <1>3, <2>1, <3>2
      <4>3. f[s \ {x}] \in Int /\ f[s \ {x}] = f[(s \ {x}) \ {y}] + w[y]
        BY <1>5, <4>2
      <4>4. (s \ {x}) \ {y} = (s \ {y}) \ {x}
        OBVIOUS
      <4>5. f[(s \ {y}) \ {x}] \in Int
        <5>1. (s \ {y}) \ {x} \in SUBSET S /\ Cardinality((s \ {y}) \ {x}) <= m
          <6>1. Cardinality((s \ {x}) \ {y}) = Cardinality(s \ {x}) - 1
                /\ Cardinality(s \ {x}) \in Nat
            BY <1>3, <4>2
          <6>2. Cardinality((s \ {x}) \ {y}) <= m
            BY <4>2, <6>1
          <6>3. (s \ {x}) \ {y} \in SUBSET S
            OBVIOUS
          <6>4. QED
            BY <4>4, <6>2, <6>3
        <5>2. QED
          BY <1>5, <5>1
      <4>6. w[x] \in Int /\ w[y] \in Int
        BY <2>1
      <4>7. f[s] = w[y] + (f[(s \ {y}) \ {x}] + w[x])
        BY <2>1, <4>1
      <4>8. f[s \ {x}] = f[(s \ {y}) \ {x}] + w[y]
        BY <4>3, <4>4
      <4>9. QED
        BY <4>5, <4>6, <4>7, <4>8
    <3>3. QED
      BY <3>1, <3>2
  <2>6. QED
    BY <2>4, <2>5
<1>6. Nat \subseteq T
  BY <1>4, <1>5, Induction
<1>7. \A s \in SUBSET S : f[s] \in Int /\ \A x \in s : f[s] = f[s \ {x}] + w[x]
  BY <1>3, <1>6
<1>8. f = [s \in SUBSET S |-> f[s]]
  BY <1>1
<1>9. QED
  BY <1>2, <1>7, <1>8 DEF Adds

\* Totals of the same terms agree on the sets they share.
LEMMA TotalsAgree ==
    ASSUME NEW S, NEW R, IsFiniteSet(R), S \subseteq R,
           NEW w, NEW f, Adds(f, w, S), NEW g, Adds(g, w, R)
    PROVE  \A s \in SUBSET S : f[s] = g[s]
<1> USE DEF Adds
<1>1. \A s \in SUBSET S : /\ Cardinality(s) \in Nat
                          /\ \A x \in s : Cardinality(s \ {x}) = Cardinality(s) - 1
                          /\ Cardinality(s) = 0 <=> s = {}
  BY FS_Subset, FS_CardinalityType, FS_RemoveElement, FS_EmptySet
<1> DEFINE T == {m \in Nat : \A s \in SUBSET S : Cardinality(s) <= m => f[s] = g[s]}
<1>2. 0 \in T
  <2> SUFFICES ASSUME NEW s \in SUBSET S, Cardinality(s) <= 0 PROVE f[s] = g[s]
    OBVIOUS
  <2>1. s = {}
    BY <1>1
  <2>2. QED
    BY <2>1
<1>3. ASSUME NEW m \in Nat, m \in T PROVE m + 1 \in T
  <2> SUFFICES ASSUME NEW s \in SUBSET S, Cardinality(s) <= m + 1 PROVE f[s] = g[s]
    OBVIOUS
  <2>0. CASE s = {}
    BY <2>0
  <2> SUFFICES ASSUME s # {} PROVE f[s] = g[s]
    BY <2>0
  <2>1. PICK x \in s : TRUE
    OBVIOUS
  <2>2. s \ {x} \in SUBSET S /\ Cardinality(s \ {x}) <= m
    BY <1>1
  <2>3. f[s \ {x}] = g[s \ {x}]
    BY <1>3, <2>2
  <2>4. f[s] = f[s \ {x}] + w[x] /\ g[s] = g[s \ {x}] + w[x]
    OBVIOUS
  <2>5. QED
    BY <2>3, <2>4
<1>4. Nat \subseteq T
  BY <1>2, <1>3, Induction
<1>5. QED
  BY <1>1, <1>4

\* Taking terms out by CHOOSE, as the folds do, adds them up.
LEMMA ChoiceAdds ==
    ASSUME NEW S, IsFiniteSet(S), NEW w \in [S -> Int]
    PROVE  LET total == CHOOSE f : f = [s \in SUBSET S |->
                            IF s = {} THEN 0 ELSE w[CHOOSE x \in s : TRUE]
                                                    + f[s \ {CHOOSE x \in s : TRUE}]]
           IN  Adds(total, w, S)
<1> DEFINE c == [s \in SUBSET S |-> CHOOSE x \in s : TRUE]
           IsSum(f) == f = [s \in SUBSET S |-> IF s = {} THEN 0
                                               ELSE w[CHOOSE x \in s : TRUE]
                                                      + f[s \ {CHOOSE x \in s : TRUE}]]
           total == CHOOSE f : IsSum(f)
<1>1. \A s \in SUBSET S : c[s] = CHOOSE x \in s : TRUE
  OBVIOUS
<1>2. Chooses(c, S)
  BY <1>1 DEF Chooses
<1> HIDE DEF c
<1>3. ASSUME NEW f PROVE IsSum(f) <=> IsTotal(f, w, c, S)
  BY <1>1 DEF IsTotal
<1> HIDE DEF IsSum
<1>4. IsTotal(total, w, c, S)
  <2>1. \E f : IsTotal(f, w, c, S)
    BY <1>2, TotalSum
  <2>2. QED
    BY <1>3, <2>1
<1>5. Adds(total, w, S)
  <2> HIDE DEF total
  <2>1. QED
    BY <1>2, <1>4, TotalAdds
<1>6. QED
  BY <1>5 DEF total, IsSum

\* The positions of a list, in order, are themselves.
LEMMA AscendingOfAnInterval ==
    ASSUME NEW n \in Nat
    PROVE  Ascending(1 .. n) = [k \in 1 .. n |-> k]
<1> DEFINE A == Ascending(1 .. n)
<1>1. IsFiniteSet(1 .. n) /\ Cardinality(1 .. n) = n /\ 1 .. n \in SUBSET Int
  BY FS_Interval
<1>2. A \in Seq(1 .. n) /\ Len(A) = n
  BY <1>1, AscendingLists
<1>3. ASSUME NEW k \in 1 .. n PROVE A[k] = k
  <2>1. A[k] \in 1 .. n
    BY <1>2, ElementOfSeq
  <2>2. Cardinality({y \in 1 .. n : y <= A[k]}) = k
    BY <1>1, AscendingCounts
  <2> HIDE DEF A
  <2>3. {y \in 1 .. n : y <= A[k]} = 1 .. A[k]
    BY <2>1
  <2>4. Cardinality(1 .. A[k]) = A[k]
    BY <2>1, FS_Interval
  <2>5. QED
    BY <2>2, <2>3, <2>4
<1>4. A = [k \in 1 .. n |-> A[k]]
  BY <1>2
<1> HIDE DEF A
<1>5. A = [k \in 1 .. n |-> k]
  BY <1>3, <1>4
<1>6. QED
  BY <1>5 DEF A

-----------------------------------------------------------------------------
(* Products                                                                *)

\* M with the operation o and the unit u is a commutative monoid.
IsMonoid(M, o, u) ==
    /\ u \in M /\ o \in [M -> [M -> M]]
    /\ \A a \in M : o[u][a] = a
    /\ \A a, b \in M : o[a][b] = o[b][a]
    /\ \A a, b, c \in M : o[a][o[b][c]] = o[o[a][b]][c]

\* Two products of two factors, multiplied, are the products of the first
\* factors and of the second ones, multiplied.
LEMMA MonoidInterchange ==
    ASSUME NEW M, NEW o, NEW u, IsMonoid(M, o, u),
           NEW a \in M, NEW b \in M, NEW c \in M, NEW d \in M
    PROVE  o[o[a][b]][o[c][d]] = o[o[a][c]][o[b][d]]
<1> USE DEF IsMonoid
<1>1. /\ o[a][b] \in M /\ o[c][d] \in M /\ o[a][c] \in M /\ o[b][d] \in M /\ o[b][c] \in M
      /\ o[c][b] \in M
  OBVIOUS
<1>2. o[o[a][b]][o[c][d]] = o[a][o[b][o[c][d]]]
  BY <1>1
<1>3. o[b][o[c][d]] = o[o[b][c]][d]
  OBVIOUS
<1>4. o[b][c] = o[c][b]
  OBVIOUS
<1>5. o[o[c][b]][d] = o[c][o[b][d]]
  OBVIOUS
<1>6. o[a][o[c][o[b][d]]] = o[o[a][c]][o[b][d]]
  BY <1>1
<1>7. QED
  BY <1>2, <1>3, <1>4, <1>5, <1>6

\* The powers of an element of a monoid: the power of a sum is the product of
\* the powers.
IsPowersOf(p, M, o, u, x) ==
    /\ p \in [Nat -> M] /\ p[0] = u /\ p[1] = x
    /\ \A k \in Nat : p[k + 1] = o[x][p[k]]
    /\ \A i, j \in Nat : p[i + j] = o[p[i]][p[j]]

\* An element has powers.
LEMMA MonoidPowers ==
    ASSUME NEW M, NEW o, NEW u, IsMonoid(M, o, u), NEW x \in M
    PROVE  \E p : IsPowersOf(p, M, o, u, x)
<1> DEFINE step == [m \in Nat |-> o[x]]
<1>1. u \in M /\ step \in [Nat -> [M -> M]] /\ \A m \in Nat : step[m] = o[x]
  BY DEF IsMonoid
<1> HIDE DEF step
<1>2. PICK p \in [Nat -> M] : Follows(p, Nat, u, step)
  BY <1>1, EndlessRecursion
<1>3. \A k \in Nat : p[k + 1] = o[x][p[k]]
  <2>1. ASSUME NEW k \in Nat PROVE p[k + 1] = o[x][p[k]]
    <3>1. k + 1 \in Nat \ {0} /\ (k + 1) - 1 = k
      OBVIOUS
    <3>2. QED
      BY <1>1, <1>2, <3>1 DEF Follows
  <2>2. QED
    BY <2>1
<1>4. p[0] = u
  BY <1>2 DEF Follows
<1>5. p[1] = x
  <2>1. p[0 + 1] = o[x][u]
    BY <1>3, <1>4
  <2>2. o[x][u] = x
    BY DEF IsMonoid
  <2>3. QED
    BY <2>1, <2>2
<1>6. ASSUME NEW j \in Nat, NEW i \in Nat PROVE p[i + j] = o[p[i]][p[j]]
  <2> DEFINE T == {k \in Nat : p[k + j] = o[p[k]][p[j]]}
  <2>1. 0 \in T
    BY <1>4 DEF IsMonoid
  <2>2. ASSUME NEW k \in Nat, k \in T PROVE k + 1 \in T
    <3>1. p[k + j] = o[p[k]][p[j]] /\ (k + 1) + j = (k + j) + 1 /\ k + j \in Nat
      BY <2>2
    <3>2. p[(k + 1) + j] = o[x][o[p[k]][p[j]]]
      BY <1>3, <3>1
    <3>3. o[x][o[p[k]][p[j]]] = o[o[x][p[k]]][p[j]]
      BY DEF IsMonoid
    <3>4. QED
      BY <1>3, <3>2, <3>3
  <2> HIDE DEF T
  <2>3. i \in T
    BY <2>1, <2>2, Induction
  <2>4. QED
    BY <2>3 DEF T
<1>7. QED
  BY <1>3, <1>4, <1>5, <1>6 DEF IsPowersOf

\* A vector of exponents: of nothing, of one element, and of a product.
ZeroOn(S) == [y \in S |-> 0]

UnitAt(S, x) == [y \in S |-> IF y = x THEN 1 ELSE 0]

SumOn(S, v, w) == [y \in S |-> v[y] + w[y]]

\* P is the product of g over S, each factor as often as the vector says.
IsProductOf(P, S, M, o, u, g) ==
    /\ P \in [[S -> Nat] -> M] /\ P[ZeroOn(S)] = u
    /\ \A x \in S : P[UnitAt(S, x)] = g[x]
    /\ \A v, w \in [S -> Nat] : P[SumOn(S, v, w)] = o[P[v]][P[w]]

\* Over a finite set there is such a product.
LEMMA MonoidProducts ==
    ASSUME NEW M, NEW o, NEW u, IsMonoid(M, o, u),
           NEW S, IsFiniteSet(S), NEW g \in [S -> M]
    PROVE  \E P : IsProductOf(P, S, M, o, u, g)
<1> DEFINE power(x) == CHOOSE p : IsPowersOf(p, M, o, u, g[x])
<1>1. ASSUME NEW x \in S PROVE IsPowersOf(power(x), M, o, u, g[x])
  BY MonoidPowers
<1> HIDE DEF power
<1>2. PICK n \in Nat : ExistsBijection(1 .. n, S)
  BY FS_NatBijection
<1>3. PICK s \in Bijection(1 .. n, S) : TRUE
  BY <1>2 DEF ExistsBijection
<1>4. /\ s \in [1 .. n -> S] /\ \A x \in S : \E k \in 1 .. n : s[k] = x
      /\ \A j, k \in 1 .. n : s[j] = s[k] => j = k
  BY <1>3 DEF Bijection, Injection, Surjection, IsInjective
<1> DEFINE Products(p, v) == /\ p \in [0 .. n -> M] /\ p[0] = u
                             /\ \A k \in 1 .. n : p[k] = o[power(s[k])[v[s[k]]]][p[k - 1]]
           product(v) == CHOOSE p : Products(p, v)
<1>5. ASSUME NEW v \in [S -> Nat] PROVE Products(product(v), v)
  <2> DEFINE step == [k \in 1 .. n |-> o[power(s[k])[v[s[k]]]]]
  <2>1. ASSUME NEW k \in 1 .. n PROVE o[power(s[k])[v[s[k]]]] \in [M -> M]
    <3>1. s[k] \in S /\ v[s[k]] \in Nat
      BY <1>4
    <3>2. power(s[k])[v[s[k]]] \in M
      BY <1>1, <3>1 DEF IsPowersOf
    <3>3. QED
      BY <3>2 DEF IsMonoid
  <2>2. step \in [1 .. n -> [M -> M]] /\ u \in M
    BY <2>1 DEF IsMonoid
  <2>3. \A k \in 1 .. n : step[k] = o[power(s[k])[v[s[k]]]]
    OBVIOUS
  <2> HIDE DEF step
  <2>4. PICK p \in [0 .. n -> M] : Follows(p, 0 .. n, u, step)
    BY <2>2, Recursion
  <2>5. \A k \in 1 .. n : k \in (0 .. n) \ {0}
    OBVIOUS
  <2>6. Products(p, v)
    BY <2>3, <2>4, <2>5 DEF Follows
  <2> HIDE DEF Products
  <2>7. QED
    BY <2>6
<1> HIDE DEF product
<1> DEFINE P == [v \in [S -> Nat] |-> product(v)[n]]
<1>6. P \in [[S -> Nat] -> M]
  <2>1. n \in 0 .. n
    OBVIOUS
  <2>2. QED
    BY <1>5, <2>1
<1>7. ZeroOn(S) \in [S -> Nat] /\ \A x \in S : UnitAt(S, x) \in [S -> Nat]
  BY DEF ZeroOn, UnitAt
<1>8. ASSUME NEW x, NEW v \in [S -> Nat], NEW m \in Nat, m <= n,
             \A k \in 1 .. n : k <= m => v[s[k]] = 0
      PROVE  product(v)[m] = u
  <2> DEFINE T == {k \in Nat : k <= m => product(v)[k] = u}
  <2>1. 0 \in T
    BY <1>5
  <2>2. ASSUME NEW k \in Nat, k \in T PROVE k + 1 \in T
    <3> SUFFICES ASSUME k + 1 <= m PROVE product(v)[k + 1] = u
      OBVIOUS
    <3>1. k + 1 \in 1 .. n /\ (k + 1) - 1 = k /\ product(v)[k] = u
      BY <1>8, <2>2
    <3>2. product(v)[k + 1] = o[power(s[k + 1])[v[s[k + 1]]]][product(v)[k]]
      BY <1>5, <3>1
    <3>3. v[s[k + 1]] = 0 /\ s[k + 1] \in S
      BY <1>4, <1>8, <3>1
    <3>4. power(s[k + 1])[0] = u
      BY <1>1, <3>3 DEF IsPowersOf
    <3>5. QED
      BY <3>1, <3>2, <3>3, <3>4 DEF IsMonoid
  <2> HIDE DEF T
  <2>3. m \in T
    BY <2>1, <2>2, Induction
  <2>4. QED
    BY <2>3 DEF T
<1>9. P[ZeroOn(S)] = u
  <2>1. \A k \in 1 .. n : ZeroOn(S)[s[k]] = 0
    BY <1>4 DEF ZeroOn
  <2>2. product(ZeroOn(S))[n] = u
    BY <1>7, <1>8, <2>1
  <2>3. QED
    BY <1>7, <2>2
<1>10. ASSUME NEW x \in S PROVE P[UnitAt(S, x)] = g[x]
  <2> DEFINE v == UnitAt(S, x)
  <2>1. PICK j \in 1 .. n : s[j] = x
    BY <1>4
  <2>2. v \in [S -> Nat] /\ v[x] = 1 /\ \A k \in 1 .. n : k # j => v[s[k]] = 0
    BY <1>4, <1>7, <2>1 DEF UnitAt
  <2> HIDE DEF v
  <2>3. product(v)[j - 1] = u
    <3>1. j - 1 \in Nat /\ j - 1 <= n /\ \A k \in 1 .. n : k <= j - 1 => k # j
      OBVIOUS
    <3>2. QED
      BY <1>8, <2>2, <3>1
  <2> DEFINE T == {k \in Nat : k >= j /\ k <= n => product(v)[k] = g[x]}
  <2>4. 0 \in T
    OBVIOUS
  <2>5. ASSUME NEW k \in Nat, k \in T PROVE k + 1 \in T
    <3> SUFFICES ASSUME k + 1 >= j, k + 1 <= n PROVE product(v)[k + 1] = g[x]
      OBVIOUS
    <3>1. k + 1 \in 1 .. n /\ (k + 1) - 1 = k /\ s[k + 1] \in S
      BY <1>4
    <3>2. product(v)[k + 1] = o[power(s[k + 1])[v[s[k + 1]]]][product(v)[k]]
      BY <1>5, <2>2, <3>1
    <3>3. CASE k + 1 = j
      <4>1. k = j - 1
        BY <3>3
      <4>2. product(v)[k] = u /\ v[s[k + 1]] = 1 /\ s[k + 1] = x
        BY <2>1, <2>2, <2>3, <3>3, <4>1
      <4>3. power(x)[1] = g[x]
        BY <1>1 DEF IsPowersOf
      <4>4. product(v)[k + 1] = o[g[x]][u]
        BY <3>2, <4>2, <4>3
      <4>5. QED
        BY <4>4 DEF IsMonoid
    <3>4. CASE k + 1 # j
      <4>1. product(v)[k] = g[x] /\ v[s[k + 1]] = 0
        BY <2>2, <2>5, <3>1, <3>4
      <4>2. power(s[k + 1])[0] = u
        BY <1>1, <3>1 DEF IsPowersOf
      <4>3. product(v)[k + 1] = o[u][g[x]]
        BY <3>2, <4>1, <4>2
      <4>4. QED
        BY <4>3 DEF IsMonoid
    <3>5. QED
      BY <3>3, <3>4
  <2> HIDE DEF T
  <2>6. n \in T
    BY <2>4, <2>5, Induction
  <2>7. product(v)[n] = g[x]
    BY <2>6 DEF T
  <2>8. QED
    BY <2>2, <2>7 DEF v
<1>11. ASSUME NEW v \in [S -> Nat], NEW w \in [S -> Nat]
       PROVE  P[SumOn(S, v, w)] = o[P[v]][P[w]]
  <2> DEFINE z == SumOn(S, v, w)
             T == {k \in Nat : k <= n => product(z)[k] = o[product(v)[k]][product(w)[k]]}
  <2>1. z \in [S -> Nat] /\ \A y \in S : z[y] = v[y] + w[y]
    BY DEF SumOn
  <2> HIDE DEF z
  <2>2. 0 \in T
    <3>1. product(z)[0] = u /\ product(v)[0] = u /\ product(w)[0] = u
      BY <1>5, <2>1
    <3>2. o[u][u] = u
      BY DEF IsMonoid
    <3>3. QED
      BY <3>1, <3>2
  <2>3. ASSUME NEW k \in Nat, k \in T PROVE k + 1 \in T
    <3> SUFFICES ASSUME k + 1 <= n
                 PROVE  product(z)[k + 1] = o[product(v)[k + 1]][product(w)[k + 1]]
      OBVIOUS
    <3> DEFINE y == s[k + 1]
    <3>1. k + 1 \in 1 .. n /\ (k + 1) - 1 = k /\ y \in S /\ k \in 0 .. n
      BY <1>4
    <3>2. product(z)[k] = o[product(v)[k]][product(w)[k]]
      BY <2>3
    <3>3. /\ product(z)[k + 1] = o[power(y)[z[y]]][product(z)[k]]
          /\ product(v)[k + 1] = o[power(y)[v[y]]][product(v)[k]]
          /\ product(w)[k + 1] = o[power(y)[w[y]]][product(w)[k]]
      <4>1. ASSUME NEW x \in [S -> Nat]
            PROVE  product(x)[k + 1] = o[power(y)[x[y]]][product(x)[k]]
        <5>1. Products(product(x), x)
          BY <1>5
        <5> DEFINE p == product(x)
        <5>2. /\ k + 1 \in 1 .. n
              /\ \A i \in 1 .. n : p[i] = o[power(s[i])[x[s[i]]]][p[i - 1]]
          BY <3>1, <5>1
        <5> HIDE DEF p, power
        <5>3. p[k + 1] = o[power(y)[x[y]]][p[(k + 1) - 1]]
          BY <5>2
        <5>4. QED
          BY <3>1, <5>3 DEF p
      <4>2. QED
        BY <2>1, <4>1
    <3> HIDE DEF y
    <3>4. v[y] \in Nat /\ w[y] \in Nat /\ z[y] = v[y] + w[y]
      BY <2>1, <3>1
    <3>5. /\ power(y)[z[y]] = o[power(y)[v[y]]][power(y)[w[y]]]
          /\ power(y)[v[y]] \in M /\ power(y)[w[y]] \in M
      <4>1. IsPowersOf(power(y), M, o, u, g[y])
        BY <1>1, <3>1
      <4>2. power(y) \in [Nat -> M] /\ \A i, j \in Nat : power(y)[i + j] = o[power(y)[i]][power(y)[j]]
        BY <4>1 DEF IsPowersOf
      <4> DEFINE q == power(y)
                 i == v[y]
                 j == w[y]
      <4>3. /\ i \in Nat /\ j \in Nat /\ z[y] = i + j /\ q \in [Nat -> M]
            /\ \A h, l \in Nat : q[h + l] = o[q[h]][q[l]]
        BY <3>4, <4>2
      <4> HIDE DEF power, q, i, j
      <4>4. q[i + j] = o[q[i]][q[j]] /\ q[i] \in M /\ q[j] \in M
        BY <4>3
      <4>5. QED
        BY <4>3, <4>4 DEF q, i, j
    <3>6. product(v)[k] \in M /\ product(w)[k] \in M
      <4>1. Products(product(v), v) /\ Products(product(w), w)
        BY <1>5
      <4>2. product(v) \in [0 .. n -> M] /\ product(w) \in [0 .. n -> M]
        BY <4>1
      <4> HIDE DEF product
      <4>3. QED
        BY <3>1, <4>2
    <3>7. \A a, b, c, d \in M : o[o[a][b]][o[c][d]] = o[o[a][c]][o[b][d]]
      BY MonoidInterchange
    <3> HIDE DEF Products
    <3>8. product(z)[k + 1] = o[o[power(y)[v[y]]][power(y)[w[y]]]][o[product(v)[k]][product(w)[k]]]
      BY <3>2, <3>3, <3>5
    <3>9. o[o[power(y)[v[y]]][power(y)[w[y]]]][o[product(v)[k]][product(w)[k]]]
            = o[o[power(y)[v[y]]][product(v)[k]]][o[power(y)[w[y]]][product(w)[k]]]
      <4> DEFINE a == power(y)[v[y]]
                 b == power(y)[w[y]]
                 c == product(v)[k]
                 d == product(w)[k]
      <4>1. a \in M /\ b \in M /\ c \in M /\ d \in M
        BY <3>5, <3>6
      <4> HIDE DEF a, b, c, d
      <4>2. o[o[a][b]][o[c][d]] = o[o[a][c]][o[b][d]]
        BY <3>7, <4>1
      <4>3. QED
        BY <4>2 DEF a, b, c, d
    <3>10. QED
      BY <3>3, <3>8, <3>9
  <2> HIDE DEF T
  <2>4. n \in T
    BY <2>2, <2>3, Induction
  <2>5. product(z)[n] = o[product(v)[n]][product(w)[n]]
    BY <2>4 DEF T
  <2>6. QED
    BY <2>1, <2>5 DEF z
<1> HIDE DEF P
<1>12. QED
  BY <1>6, <1>9, <1>10, <1>11 DEF IsProductOf

\* f has the leaf's value at every leaf, and the steps elsewhere.
FollowsTree(f, n, Leaves, leaf, step, left, right) ==
    \A k \in 1 .. n : f[k] = IF k \in Leaves THEN leaf[k] ELSE step[k][f[left[k]]][f[right[k]]]

\* A function on the nodes of a tree is defined by its values at the leaves
\* and the step from the values at two earlier nodes.
LEMMA TreeRecursion ==
    ASSUME NEW V, NEW n \in Nat, NEW leaf \in [1 .. n -> V], NEW Leaves,
           NEW step \in [1 .. n -> [V -> [V -> V]]], NEW left, NEW right,
           \A k \in (1 .. n) \ Leaves : left[k] \in 1 .. k - 1 /\ right[k] \in 1 .. k - 1
    PROVE  \E f \in [1 .. n -> V] : FollowsTree(f, n, Leaves, leaf, step, left, right)
<1> DEFINE Local(f, k) ==
               f[k] = IF k \in Leaves THEN leaf[k] ELSE step[k][f[left[k]]][f[right[k]]]
           Good(m, f) == \A k \in 1 .. n : k <= m => Local(f, k)
           T == {m \in Nat : m <= n => \E f \in [1 .. n -> V] : Good(m, f)}
<1>1. 0 \in T
  <2>1. leaf \in [1 .. n -> V] /\ Good(0, leaf)
    OBVIOUS
  <2> HIDE DEF Good
  <2>2. QED
    BY <2>1
<1> HIDE DEF Good
<1>2. ASSUME NEW m \in Nat, m \in T PROVE m + 1 \in T
  <2> SUFFICES ASSUME m + 1 <= n PROVE \E f \in [1 .. n -> V] : Good(m + 1, f)
    OBVIOUS
  <2>1. PICK f \in [1 .. n -> V] : Good(m, f)
    BY <1>2
  <2> DEFINE j == m + 1
             new == IF j \in Leaves THEN leaf[j] ELSE step[j][f[left[j]]][f[right[j]]]
             g == [k \in 1 .. n |-> IF k = j THEN new ELSE f[k]]
  <2>2. j \in 1 .. n
    OBVIOUS
  <2>3. new \in V
    <3>1. CASE j \in Leaves
      BY <2>2, <3>1
    <3>2. CASE j \notin Leaves
      <4>1. left[j] \in 1 .. n /\ right[j] \in 1 .. n
        BY <2>2, <3>2
      <4>2. f[left[j]] \in V /\ f[right[j]] \in V /\ step[j] \in [V -> [V -> V]]
        BY <2>2, <4>1
      <4>3. step[j][f[left[j]]][f[right[j]]] \in V
        BY <4>2
      <4>4. QED
        BY <3>2, <4>3
    <3>3. QED
      BY <3>1, <3>2
  <2> HIDE DEF new
  <2>4. g \in [1 .. n -> V] /\ g[j] = new /\ \A k \in 1 .. n : k <= m => g[k] = f[k]
    BY <2>2, <2>3
  <2> HIDE DEF g
  <2>5. ASSUME NEW k \in 1 .. n, k <= m + 1 PROVE Local(g, k)
    <3>1. k \notin Leaves =>
             /\ left[k] \in 1 .. n /\ left[k] <= m
             /\ right[k] \in 1 .. n /\ right[k] <= m
      BY <2>5
    <3>2. k \notin Leaves => g[left[k]] = f[left[k]] /\ g[right[k]] = f[right[k]]
      BY <2>4, <3>1
    <3>3. CASE k <= m
      BY <2>1, <2>4, <3>2, <3>3 DEF Good
    <3>4. CASE k = j
      BY <2>4, <3>2, <3>4 DEF new
    <3>5. QED
      BY <2>5, <3>3, <3>4
  <2> HIDE DEF Local
  <2>6. Good(m + 1, g)
    BY <2>5 DEF Good
  <2>7. QED
    BY <2>4, <2>6
<1> HIDE DEF T, Local
<1>3. n \in T
  BY <1>1, <1>2, Induction
<1>4. QED
  BY <1>3 DEF T, Good, Local, FollowsTree

\* What holds of a node when it holds of the nodes before it holds of all.
LEMMA TreeInduction ==
    ASSUME NEW n \in Nat, NEW T,
           \A k \in 1 .. n : (\A j \in 1 .. k - 1 : j \in T) => k \in T
    PROVE  \A k \in 1 .. n : k \in T
<1> DEFINE U == {m \in Nat : \A j \in 1 .. n : j <= m => j \in T}
<1>1. 0 \in U
  OBVIOUS
<1>2. ASSUME NEW m \in Nat, m \in U PROVE m + 1 \in U
  <2>1. ASSUME NEW j \in 1 .. n, j = m + 1 PROVE j \in T
    <3>1. \A i \in 1 .. j - 1 : i \in 1 .. n /\ i <= m
      BY <2>1
    <3>2. QED
      BY <1>2, <3>1
  <2>2. QED
    BY <1>2, <2>1
<1> HIDE DEF U
<1>3. n \in U
  BY <1>1, <1>2, Induction
<1>4. QED
  BY <1>3 DEF U

=============================================================================
