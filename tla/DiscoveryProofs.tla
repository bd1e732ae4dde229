---------------------------- MODULE DiscoveryProofs ----------------------------
(***************************************************************************)
(* Proofs about the discovery: the family of tests and its corrections,    *)
(* the expansion of the relationship graph, the window the symbols of a    *)
(* panel share, what two formulas with one key have in common, and the     *)
(* pipeline that puts them together.                                       *)
(***************************************************************************)
EXTENDS AdvancedDiscovery, OrderedSetsProofs

-----------------------------------------------------------------------------
(* Factorials, harmonic numbers and powers                                 *)

\* m! is what its recursive definition says.
LEMMA FactorialValues ==
    /\ factorial \in [Nat -> Nat] /\ factorial[0] = 1
    /\ \A m \in Nat \ {0} : factorial[m] = m * factorial[m - 1]
<1> DEFINE IsFactorial(f) == f = [m \in Nat |-> IF m = 0 THEN 1 ELSE m * f[m - 1]]
           step == [m \in Nat |-> [v \in Nat |-> m * v]]
<1>1. step \in [Nat -> [Nat -> Nat]] /\ 1 \in Nat
  OBVIOUS
<1>2. \A m \in Nat, v \in Nat : step[m][v] = m * v
  OBVIOUS
<1> HIDE DEF step
<1>3. PICK f \in [Nat -> Nat] : Follows(f, Nat, 1, step)
  BY <1>1, EndlessRecursion
<1>4. ASSUME NEW m \in Nat \ {0} PROVE f[m] = m * f[m - 1]
  <2>1. m - 1 \in Nat /\ f[m - 1] \in Nat /\ f[m] = step[m][f[m - 1]]
    BY <1>3 DEF Follows
  <2>2. QED
    BY <1>2, <2>1
<1>5. IsFactorial(f)
  BY <1>3, <1>4 DEF Follows
<1>6. IsFactorial(factorial)
  <2>1. factorial = CHOOSE g : IsFactorial(g)
    BY DEF factorial
  <2> HIDE DEF IsFactorial
  <2>2. QED
    BY <1>5, <2>1
<1>7. factorial[0] = 1 /\ \A m \in Nat \ {0} : factorial[m] = m * factorial[m - 1]
  BY <1>6
<1>8. \A m \in Nat : factorial[m] \in Nat
  <2> DEFINE T == {m \in Nat : factorial[m] \in Nat}
  <2>1. 0 \in T
    BY <1>7
  <2>2. ASSUME NEW m \in Nat, m \in T PROVE m + 1 \in T
    <3>1. m + 1 \in Nat \ {0} /\ (m + 1) - 1 = m /\ factorial[m] \in Nat
      BY <2>2
    <3>2. factorial[m + 1] = (m + 1) * factorial[m]
      BY <1>7, <3>1
    <3>3. QED
      BY <3>1, <3>2
  <2> HIDE DEF T
  <2>3. Nat \subseteq T
    BY <2>1, <2>2, Induction
  <2>4. QED
    BY <2>3 DEF T
<1>9. DOMAIN factorial = Nat /\ factorial = [m \in Nat |-> factorial[m]]
  BY <1>6
<1>10. QED
  BY <1>7, <1>8, <1>9

\* Positive, too.
LEMMA FactorialIsPositive ==
    ASSUME NEW m \in Nat
    PROVE  factorial[m] >= 1
<1> DEFINE T == {k \in Nat : factorial[k] >= 1}
<1>1. 0 \in T
  BY FactorialValues
<1>2. ASSUME NEW k \in Nat, k \in T PROVE k + 1 \in T
  <2>1. k + 1 \in Nat \ {0} /\ (k + 1) - 1 = k /\ factorial[k] >= 1
    BY <1>2
  <2>2. factorial[k + 1] = (k + 1) * factorial[k] /\ factorial[k] \in Nat
    BY <2>1, FactorialValues
  <2>3. (k + 1) * factorial[k] = k * factorial[k] + factorial[k] /\ k * factorial[k] >= 0
    BY <2>2
  <2>4. QED
    BY <2>1, <2>2, <2>3
<1> HIDE DEF T
<1>3. m \in T
  BY <1>1, <1>2, Induction
<1>4. QED
  BY <1>3 DEF T

\* m! (1 + ... + 1/m), too.
LEMMA HarmonicValues ==
    /\ harmonic \in [Nat -> Nat]
    /\ \A m \in Nat \ {0} : harmonic[m] = m * harmonic[m - 1] + factorial[m - 1]
<1> DEFINE IsHarmonic(f) == f = [m \in Nat |-> IF m = 0 THEN 0 ELSE m * f[m - 1] + factorial[m - 1]]
           step == [m \in Nat |-> [v \in Nat |-> IF m = 0 THEN 0 ELSE m * v + factorial[m - 1]]]
<1>0. \A m \in Nat \ {0} : m - 1 \in Nat /\ factorial[m - 1] \in Nat
  BY FactorialValues
<1>1. step \in [Nat -> [Nat -> Nat]] /\ 0 \in Nat
  <2>1. \A m \in Nat, v \in Nat : (IF m = 0 THEN 0 ELSE m * v + factorial[m - 1]) \in Nat
    BY <1>0
  <2>2. QED
    BY <2>1
<1>2. \A m \in Nat \ {0}, v \in Nat : step[m][v] = m * v + factorial[m - 1]
  OBVIOUS
<1> HIDE DEF step
<1>3. PICK f \in [Nat -> Nat] : Follows(f, Nat, 0, step)
  BY <1>1, EndlessRecursion
<1>4. ASSUME NEW m \in Nat \ {0} PROVE f[m] = m * f[m - 1] + factorial[m - 1]
  <2>1. m - 1 \in Nat /\ f[m - 1] \in Nat /\ f[m] = step[m][f[m - 1]]
    BY <1>3 DEF Follows
  <2>2. QED
    BY <1>2, <2>1
<1>5. IsHarmonic(f)
  BY <1>3, <1>4 DEF Follows
<1>6. IsHarmonic(harmonic)
  <2>1. harmonic = CHOOSE g : IsHarmonic(g)
    BY DEF harmonic
  <2> HIDE DEF IsHarmonic
  <2>2. QED
    BY <1>5, <2>1
<1>7. harmonic[0] = 0 /\ \A m \in Nat \ {0} : harmonic[m] = m * harmonic[m - 1] + factorial[m - 1]
  BY <1>6
<1>8. \A m \in Nat : harmonic[m] \in Nat
  <2> DEFINE T == {m \in Nat : harmonic[m] \in Nat}
  <2>1. 0 \in T
    BY <1>7
  <2>2. ASSUME NEW m \in Nat, m \in T PROVE m + 1 \in T
    <3>1. m + 1 \in Nat \ {0} /\ (m + 1) - 1 = m /\ harmonic[m] \in Nat /\ factorial[m] \in Nat
      BY <2>2, FactorialValues
    <3>2. harmonic[m + 1] = (m + 1) * harmonic[m] + factorial[m]
      BY <1>7, <3>1
    <3>3. QED
      BY <3>1, <3>2
  <2> HIDE DEF T
  <2>3. Nat \subseteq T
    BY <2>1, <2>2, Induction
  <2>4. QED
    BY <2>3 DEF T
<1>9. DOMAIN harmonic = Nat /\ harmonic = [m \in Nat |-> harmonic[m]]
  BY <1>6
<1>10. QED
  BY <1>7, <1>8, <1>9

\* Powers of a natural number.
LEMMA PowerValues ==
    ASSUME NEW base \in Nat
    PROVE  /\ Power(base, 0) = 1
           /\ \A m \in Nat : Power(base, m) \in Nat /\ Power(base, m + 1) = base * Power(base, m)
<1> DEFINE IsPower(f) == f = [k \in Nat |-> IF k = 0 THEN 1 ELSE base * f[k - 1]]
           step == [m \in Nat |-> [v \in Nat |-> base * v]]
           power == CHOOSE g : IsPower(g)
<1>1. step \in [Nat -> [Nat -> Nat]] /\ 1 \in Nat
  OBVIOUS
<1>2. \A m \in Nat, v \in Nat : step[m][v] = base * v
  OBVIOUS
<1> HIDE DEF step
<1>3. PICK f \in [Nat -> Nat] : Follows(f, Nat, 1, step)
  BY <1>1, EndlessRecursion
<1>4. ASSUME NEW m \in Nat \ {0} PROVE f[m] = base * f[m - 1]
  <2>1. m - 1 \in Nat /\ f[m - 1] \in Nat /\ f[m] = step[m][f[m - 1]]
    BY <1>3 DEF Follows
  <2>2. QED
    BY <1>2, <2>1
<1>5. IsPower(f)
  BY <1>3, <1>4 DEF Follows
<1>6. \A m \in Nat : Power(base, m) = power[m]
  BY DEF Power
<1>7. IsPower(power)
  <2> HIDE DEF IsPower
  <2>1. QED
    BY <1>5
<1> HIDE DEF power
<1>8. power[0] = 1 /\ \A m \in Nat : power[m + 1] = base * power[m]
  <2>1. \A m \in Nat : m + 1 \in Nat \ {0} /\ (m + 1) - 1 = m
    OBVIOUS
  <2>2. QED
    BY <1>7, <2>1
<1>9. \A m \in Nat : power[m] \in Nat
  <2> DEFINE T == {m \in Nat : power[m] \in Nat}
  <2>1. 0 \in T
    BY <1>8
  <2>2. ASSUME NEW m \in Nat, m \in T PROVE m + 1 \in T
    BY <1>8, <2>2
  <2> HIDE DEF T
  <2>3. Nat \subseteq T
    BY <2>1, <2>2, Induction
  <2>4. QED
    BY <2>3 DEF T
<1>10. QED
  BY <1>6, <1>8, <1>9

\* A larger base has larger powers.
LEMMA PowersGrow ==
    ASSUME NEW a \in Nat, NEW b \in Nat, a <= b, NEW m \in Nat
    PROVE  Power(a, m) <= Power(b, m)
<1> DEFINE T == {k \in Nat : Power(a, k) <= Power(b, k)}
<1>1. 0 \in T
  BY PowerValues
<1>2. ASSUME NEW k \in Nat, k \in T PROVE k + 1 \in T
  <2>1. /\ Power(a, k) \in Nat /\ Power(b, k) \in Nat
        /\ Power(a, k + 1) = a * Power(a, k) /\ Power(b, k + 1) = b * Power(b, k)
    BY PowerValues
  <2>2. Power(a, k) <= Power(b, k)
    BY <1>2
  <2>3. Power(a, k) * a <= Power(b, k) * a
    BY <2>1, <2>2, ProductsGrow
  <2>4. a * Power(b, k) <= b * Power(b, k)
    BY <2>1, ProductsGrow
  <2>5. Power(a, k + 1) <= Power(b, k + 1)
    BY <2>1, <2>3, <2>4
  <2>6. QED
    BY <2>5
<1> HIDE DEF T
<1>3. m \in T
  BY <1>1, <1>2, Induction
<1>4. QED
  BY <1>3 DEF T

-----------------------------------------------------------------------------
(* The corrections                                                         *)

IsFamily(family) ==
    IsFiniteSet(DOMAIN family) /\ \A l \in DOMAIN family : family[l] \in 0 .. Unit

Without(family, m) == [l \in DOMAIN family \ {m} |-> family[l]]

\* The counts of a family are numbers, and a member makes one test.
LEMMA FamilyCounts ==
    ASSUME NEW family, IsFamily(family)
    PROVE  /\ Tests(family) \in Nat
           /\ \A p \in Int : AtMost(family, p) \in Nat /\ Below(family, p) \in Nat
           /\ \A p \in Int : Below(family, p) <= Tests(family)
           /\ \A l \in DOMAIN family : Tests(family) >= 1
<1>1. Tests(family) \in Nat
  BY FS_CardinalityType DEF IsFamily, Tests
<1>2. ASSUME NEW p \in Int
      PROVE  AtMost(family, p) \in Nat /\ Below(family, p) \in Nat /\ Below(family, p) <= Tests(family)
  <2>1. ASSUME NEW B \in SUBSET DOMAIN family
        PROVE  Cardinality(B) \in Nat /\ Cardinality(B) <= Tests(family)
    <3>1. IsFiniteSet(B) /\ Cardinality(B) <= Cardinality(DOMAIN family)
      BY FS_Subset DEF IsFamily
    <3>2. QED
      BY <3>1, FS_CardinalityType DEF Tests
  <2>2. /\ {l \in DOMAIN family : family[l] <= p} \in SUBSET DOMAIN family
        /\ {l \in DOMAIN family : family[l] < p} \in SUBSET DOMAIN family
    OBVIOUS
  <2>3. QED
    BY <2>1, <2>2 DEF AtMost, Below
<1>3. ASSUME NEW l \in DOMAIN family PROVE Tests(family) >= 1
  <2>1. Cardinality(DOMAIN family) # 0
    BY FS_EmptySet DEF IsFamily
  <2>2. QED
    BY <1>1, <2>1 DEF Tests
<1>4. QED
  BY <1>1, <1>2, <1>3

\* Without a test there is one test less, and what was counted below that
\* test is counted still.
LEMMA OneTestLess ==
    ASSUME NEW family, IsFamily(family), NEW m \in DOMAIN family
    PROVE  /\ IsFamily(Without(family, m)) /\ DOMAIN Without(family, m) = DOMAIN family \ {m}
           /\ \A l \in DOMAIN family \ {m} : Without(family, m)[l] = family[l]
           /\ Tests(Without(family, m)) = Tests(family) - 1
           /\ \A p \in Int : p < family[m] => AtMost(Without(family, m), p) = AtMost(family, p)
           /\ \A p \in Int : p <= family[m] => Below(Without(family, m), p) = Below(family, p)
<1> DEFINE less == Without(family, m)
<1>1. DOMAIN less = DOMAIN family \ {m} /\ \A l \in DOMAIN family \ {m} : less[l] = family[l]
  BY DEF Without
<1> HIDE DEF less
<1>2. IsFiniteSet(DOMAIN family \ {m}) /\ Tests(less) = Tests(family) - 1
  BY <1>1, FS_RemoveElement DEF IsFamily, Tests
<1>3. IsFamily(less)
  BY <1>1, <1>2 DEF IsFamily
<1>4. ASSUME NEW p \in Int, p < family[m] PROVE AtMost(less, p) = AtMost(family, p)
  <2>1. ~(family[m] <= p)
    BY <1>4 DEF IsFamily
  <2>2. {l \in DOMAIN less : less[l] <= p} = {l \in DOMAIN family : family[l] <= p}
    BY <1>1, <2>1
  <2>3. QED
    BY <2>2 DEF AtMost
<1>5. ASSUME NEW p \in Int, p <= family[m] PROVE Below(less, p) = Below(family, p)
  <2>1. ~(family[m] < p)
    BY <1>5 DEF IsFamily
  <2>2. {l \in DOMAIN less : less[l] < p} = {l \in DOMAIN family : family[l] < p}
    BY <1>1, <2>1
  <2>3. QED
    BY <2>2 DEF Below
<1>6. QED
  BY <1>1, <1>2, <1>3, <1>4, <1>5 DEF less

\* What is rejected takes every smaller p-value with it.
LEMMA RejectedIsDownClosed ==
    ASSUME NEW family, IsFamily(family), NEW method \in Methods, NEW alpha \in Int,
           NEW l \in Rejected(method, family, alpha), NEW m \in DOMAIN family,
           family[m] <= family[l]
    PROVE  l \in DOMAIN family /\ m \in Rejected(method, family, alpha)
<1>1. \A k \in DOMAIN family : family[k] \in 0 .. Unit /\ Unit \in Nat /\ family[k] \in Nat
  BY UnitIsPositive DEF IsFamily
<1>2. ASSUME NEW num, NEW den, l \in StepUp(family, alpha, num, den)
      PROVE  l \in DOMAIN family /\ m \in StepUp(family, alpha, num, den)
  <2>1. PICK k \in DOMAIN family :
            /\ family[l] <= family[k]
            /\ family[k] * Tests(family) * num <= AtMost(family, family[k]) * alpha * den
    BY <1>2 DEF StepUp
  <2>2. l \in DOMAIN family
    BY <1>2 DEF StepUp
  <2>3. family[m] <= family[k]
    BY <1>1, <2>1, <2>2
  <2>4. QED
    BY <2>1, <2>2, <2>3 DEF StepUp
<1>3. CASE method = "fdr_bh"
  BY <1>2, <1>3 DEF Rejected
<1>4. CASE method = "fdr_by"
  BY <1>2, <1>4 DEF Rejected
<1>5. CASE method = "holm"
  <2>1. l \in StepDown(family, alpha)
    BY <1>5 DEF Rejected
  <2>2. l \in DOMAIN family
    BY <2>1 DEF StepDown
  <2>3. \A k \in DOMAIN family : family[k] <= family[m] => family[k] <= family[l]
    BY <1>1, <2>2
  <2>4. m \in StepDown(family, alpha)
    BY <2>1, <2>3 DEF StepDown
  <2>5. QED
    BY <1>5, <2>2, <2>4 DEF Rejected
<1>6. CASE method = "bonferroni"
  <2>1. l \in DOMAIN family /\ family[l] * Tests(family) <= alpha
    BY <1>6 DEF Rejected
  <2>2. family[m] * Tests(family) <= family[l] * Tests(family)
    BY <1>1, <2>1, FamilyCounts, ProductsGrow
  <2>3. family[m] * Tests(family) \in Int /\ family[l] * Tests(family) \in Int
    BY <1>1, <2>1, FamilyCounts
  <2>4. family[m] * Tests(family) <= alpha
    BY <2>1, <2>2, <2>3
  <2>5. QED
    BY <1>6, <2>1, <2>4 DEF Rejected
<1>7. CASE method = "sidak"
  <2> DEFINE bound == (Unit - alpha) * Power(Unit, Tests(family) - 1)
  <2>1. l \in DOMAIN family /\ Power(Unit - family[l], Tests(family)) >= bound
    BY <1>7 DEF Rejected
  <2>2. Unit - family[l] \in Nat /\ Unit - family[m] \in Nat /\ Unit - family[l] <= Unit - family[m]
    BY <1>1, <2>1
  <2>3. Tests(family) \in Nat /\ Tests(family) - 1 \in Nat
    BY <2>1, FamilyCounts
  <2>4. Power(Unit - family[l], Tests(family)) <= Power(Unit - family[m], Tests(family))
    BY <2>2, <2>3, PowersGrow
  <2>5. /\ Power(Unit - family[l], Tests(family)) \in Nat
        /\ Power(Unit - family[m], Tests(family)) \in Nat
    BY <2>2, <2>3, PowerValues
  <2>6. bound \in Int
    <3>1. Power(Unit, Tests(family) - 1) \in Nat /\ Unit \in Nat
      BY <2>3, PowerValues, UnitIsPositive
    <3>2. QED
      BY <3>1
  <2> HIDE DEF bound
  <2>7. Power(Unit - family[m], Tests(family)) >= bound
    BY <2>1, <2>4, <2>5, <2>6
  <2>8. QED
    BY <1>7, <2>1, <2>7 DEF Rejected, bound
<1>8. QED
  BY <1>3, <1>4, <1>5, <1>6, <1>7 DEF Methods

\* A common factor can be taken out of a comparison.
LEMMA FactorsCancel ==
    ASSUME NEW x \in Int, NEW y \in Int, NEW z \in Nat \ {0}, x * z <= y * z
    PROVE  x <= y
<1> SUFFICES ASSUME y + 1 <= x PROVE FALSE
  OBVIOUS
<1>1. (y + 1) * z <= x * z
  BY ProductsGrow
<1>2. (y + 1) * z = y * z + z
  OBVIOUS
<1>3. x * z \in Int /\ y * z \in Int
  OBVIOUS
<1>4. QED
  BY <1>1, <1>2, <1>3

\* The bound of the step-up procedure for dependent tests, with one test less:
\* t! (1 + ... + 1/t) is t times that of t - 1, and (t - 1)! more.
LEMMA HarmonicBound ==
    ASSUME NEW p \in Nat, NEW t \in Nat \ {0}, NEW b \in Nat,
           p * t * harmonic[t] <= b * factorial[t]
    PROVE  p * (t - 1) * harmonic[t - 1] <= b * factorial[t - 1]
<1> DEFINE h == harmonic[t - 1]
           f == factorial[t - 1]
<1>1. /\ t - 1 \in Nat /\ h \in Nat /\ f \in Nat
      /\ harmonic[t] = t * h + f /\ factorial[t] = t * f
  BY HarmonicValues, FactorialValues
<1> HIDE DEF h, f
<1>2. p * t * (t * h + f) <= b * (t * f)
  BY <1>1
<1>3. p * t * (t * h + f) = (p * (t * h + f)) * t /\ b * (t * f) = (b * f) * t
  BY <1>1
<1>4. p * (t * h + f) \in Int /\ b * f \in Int
  BY <1>1
<1>5. p * (t * h + f) <= b * f
  BY <1>2, <1>3, <1>4, FactorsCancel
<1>6. p * (t * h + f) = p * (t - 1) * h + p * h + p * f
  BY <1>1
<1>7. p * h >= 0 /\ p * f >= 0 /\ p * (t - 1) * h \in Int
  BY <1>1
<1>8. p * (t - 1) * h <= b * f
  <2> DEFINE x == p * (t - 1) * h
             y == p * h
             z == p * f
             w == p * (t * h + f)
             v == b * f
  <2>1. w = x + y + z /\ y >= 0 /\ z >= 0 /\ w <= v
    BY <1>5, <1>6, <1>7
  <2>2. x \in Int /\ y \in Int /\ z \in Int /\ v \in Int
    BY <1>1
  <2> HIDE DEF x, y, z, w, v
  <2>3. x <= v
    BY <2>1, <2>2
  <2>4. QED
    BY <2>3 DEF x, v
<1>9. QED
  BY <1>8 DEF h, f

\* What is rejected is rejected without a test that was not.
LEMMA RejectedWithout ==
    ASSUME NEW family, IsFamily(family), NEW method \in Methods, NEW alpha \in 1 .. Unit - 1,
           NEW l \in Rejected(method, family, alpha),
           NEW m \in DOMAIN family \ Rejected(method, family, alpha)
    PROVE  l \in Rejected(method, Without(family, m), alpha)
<1> DEFINE less == Without(family, m)
           t == Tests(family)
<1>1. \A k \in DOMAIN family : family[k] \in Nat /\ family[k] <= Unit
  BY UnitIsPositive DEF IsFamily
<1>2. /\ t \in Nat \ {0} /\ Tests(less) = t - 1 /\ Unit \in Nat \ {0} /\ alpha \in Nat
      /\ DOMAIN less = DOMAIN family \ {m} /\ \A k \in DOMAIN less : less[k] = family[k]
  <2>1. m \in DOMAIN family
    OBVIOUS
  <2>2. /\ Tests(less) = t - 1 /\ DOMAIN less = DOMAIN family \ {m}
        /\ \A k \in DOMAIN family \ {m} : less[k] = family[k]
    BY <2>1, OneTestLess
  <2>3. t \in Nat /\ t >= 1
    BY <2>1, FamilyCounts
  <2> HIDE DEF less, t
  <2>4. QED
    BY <2>2, <2>3, UnitIsPositive
<1>3. /\ \A k \in DOMAIN family : family[k] < family[m] => AtMost(less, family[k]) = AtMost(family, family[k])
      /\ \A k \in DOMAIN family : family[k] <= family[m] => Below(less, family[k]) = Below(family, family[k])
      /\ \A k \in DOMAIN family : AtMost(family, family[k]) \in Nat /\ Below(family, family[k]) \in Nat
  <2>1. /\ \A p \in Int : p < family[m] => AtMost(less, p) = AtMost(family, p)
        /\ \A p \in Int : p <= family[m] => Below(less, p) = Below(family, p)
    BY OneTestLess
  <2>2. \A p \in Int : AtMost(family, p) \in Nat /\ Below(family, p) \in Nat
    BY FamilyCounts
  <2>3. \A k \in DOMAIN family : family[k] \in Int
    BY <1>1
  <2> HIDE DEF less
  <2>4. QED
    BY <2>1, <2>2, <2>3
<1> HIDE DEF less, t
<1>4. l \in DOMAIN family /\ l # m
  BY DEF Rejected, StepUp, StepDown, Methods
<1>5. l \in DOMAIN less
  BY <1>2, <1>4
<1>6. ASSUME NEW num \in Nat, NEW den \in Nat, NEW num2 \in Nat, NEW den2 \in Nat,
             l \in StepUp(family, alpha, num, den), m \notin StepUp(family, alpha, num, den),
             \A p \in Nat, b \in Nat :
                p * t * num <= b * den => p * (t - 1) * num2 <= b * den2
      PROVE  l \in StepUp(less, alpha, num2, den2)
  <2>1. PICK k \in DOMAIN family :
            /\ family[l] <= family[k]
            /\ family[k] * t * num <= AtMost(family, family[k]) * alpha * den
    BY <1>6 DEF StepUp, t
  <2>2. ~(family[m] <= family[k])
    BY <1>6, <2>1 DEF StepUp, t
  <2>3. family[k] < family[m] /\ k # m
    BY <1>1, <2>2
  <2>4. k \in DOMAIN less /\ less[k] = family[k] /\ less[l] <= less[k]
    BY <1>2, <1>5, <2>1, <2>3
  <2>5. AtMost(less, less[k]) = AtMost(family, family[k]) /\ AtMost(family, family[k]) * alpha \in Nat
    BY <1>2, <1>3, <2>3, <2>4
  <2>6. family[k] * (t - 1) * num2 <= AtMost(family, family[k]) * alpha * den2
    BY <1>1, <1>6, <2>1, <2>5
  <2>7. less[k] * Tests(less) * num2 <= AtMost(less, less[k]) * alpha * den2
    BY <1>2, <2>4, <2>5, <2>6
  <2>8. QED
    BY <1>5, <2>4, <2>7 DEF StepUp
<1>7. CASE method = "fdr_bh"
  <2>1. \A p \in Nat, b \in Nat : p * t * 1 <= b * 1 => p * (t - 1) * 1 <= b * 1
    <3> SUFFICES ASSUME NEW p \in Nat, NEW b \in Nat, p * t <= b PROVE p * (t - 1) <= b
      BY <1>2
    <3>1. p * (t - 1) = p * t - p /\ p * t \in Int
      BY <1>2
    <3>2. QED
      BY <3>1
  <2>2. l \in StepUp(family, alpha, 1, 1) /\ m \notin StepUp(family, alpha, 1, 1)
    BY <1>7 DEF Rejected
  <2>3. l \in StepUp(less, alpha, 1, 1)
    BY <1>6, <2>1, <2>2
  <2>4. QED
    BY <1>7, <2>3 DEF Rejected, less
<1>8. CASE method = "fdr_by"
  <2>1. /\ harmonic[t] \in Nat /\ factorial[t] \in Nat
        /\ harmonic[t - 1] \in Nat /\ factorial[t - 1] \in Nat
    BY <1>2, HarmonicValues, FactorialValues
  <2>2. \A p \in Nat, b \in Nat : p * t * harmonic[t] <= b * factorial[t]
                                    => p * (t - 1) * harmonic[t - 1] <= b * factorial[t - 1]
    BY <1>2, HarmonicBound
  <2>3. /\ l \in StepUp(family, alpha, harmonic[t], factorial[t])
        /\ m \notin StepUp(family, alpha, harmonic[t], factorial[t])
    BY <1>8 DEF Rejected, t
  <2>4. l \in StepUp(less, alpha, harmonic[t - 1], factorial[t - 1])
    BY <1>6, <2>1, <2>2, <2>3
  <2>5. QED
    BY <1>2, <1>8, <2>4 DEF Rejected, less
<1>9. CASE method = "holm"
  <2>1. l \in StepDown(family, alpha) /\ m \notin StepDown(family, alpha)
    BY <1>9 DEF Rejected
  <2>2. PICK j \in DOMAIN family :
            family[j] <= family[m] /\ ~(family[j] * (t - Below(family, family[j])) <= alpha)
    BY <2>1 DEF StepDown, t
  <2>3. ~(family[j] <= family[l])
    BY <2>1, <2>2 DEF StepDown, t
  <2>4. family[l] < family[m]
    BY <1>1, <1>4, <2>2, <2>3
  <2>5. ASSUME NEW k \in DOMAIN less, less[k] <= less[l]
        PROVE  less[k] * (Tests(less) - Below(less, less[k])) <= alpha
    <3>1. k \in DOMAIN family /\ less[k] = family[k] /\ family[k] <= family[l]
      BY <1>2, <1>5, <2>5
    <3>2. family[k] * (t - Below(family, family[k])) <= alpha
      BY <2>1, <3>1 DEF StepDown, t
    <3>3. family[k] <= family[m]
      BY <1>1, <1>4, <2>4, <3>1
    <3>4. Below(less, less[k]) = Below(family, family[k]) /\ Below(family, family[k]) \in Nat
      BY <1>3, <3>1, <3>3
    <3> DEFINE p == family[k]
               q == t - Below(family, family[k])
    <3>5. p \in Nat /\ q \in Int /\ p * q <= alpha /\ (t - 1) - Below(family, family[k]) = q - 1
      BY <1>1, <1>2, <3>1, <3>2, <3>4
    <3> HIDE DEF p, q
    <3>6. p * (q - 1) <= alpha
      <4>1. p * (q - 1) = p * q - p /\ p * q \in Int
        BY <3>5
      <4>2. QED
        BY <1>2, <3>5, <4>1
    <3>7. QED
      BY <1>2, <3>1, <3>4, <3>5, <3>6 DEF p
  <2>6. l \in StepDown(less, alpha)
    BY <1>5, <2>5 DEF StepDown
  <2>7. QED
    BY <1>9, <2>6 DEF Rejected, less
<1>10. CASE method = "bonferroni"
  <2>1. family[l] * t <= alpha
    BY <1>10 DEF Rejected, t
  <2>2. family[l] \in Nat /\ family[l] * (t - 1) = family[l] * t - family[l] /\ family[l] * t \in Int
    BY <1>1, <1>2, <1>4
  <2>3. less[l] * Tests(less) <= alpha
    BY <1>2, <1>5, <2>1, <2>2
  <2>4. QED
    BY <1>5, <1>10, <2>3 DEF Rejected, less
<1>11. CASE method = "sidak"
  <2> DEFINE base == Unit - family[l]
             gap == Unit - alpha
  <2>1. base \in Nat /\ base <= Unit /\ gap \in Nat
    BY <1>1, <1>2, <1>4
  <2>2. Power(base, t) >= gap * Power(Unit, t - 1)
    BY <1>11 DEF Rejected, t
  <2>3. t - 1 \in Nat \ {0}
    <3>1. Tests(less) # 0
      <4>1. IsFiniteSet(DOMAIN less)
        BY OneTestLess DEF IsFamily, less
      <4>2. QED
        BY <1>5, <4>1, FS_EmptySet DEF Tests
    <3>2. QED
      BY <1>2, <3>1
  <2> HIDE DEF base, gap
  <2>4. /\ Power(base, t - 1) \in Nat /\ Power(base, t) = base * Power(base, t - 1)
        /\ Power(Unit, t - 2) \in Nat /\ Power(Unit, t - 1) = Unit * Power(Unit, t - 2)
    <3>1. t - 1 \in Nat /\ t - 2 \in Nat /\ (t - 1) + 1 = t /\ (t - 2) + 1 = t - 1
      BY <1>2, <2>3
    <3>2. \A k \in Nat : Power(base, k) \in Nat /\ Power(base, k + 1) = base * Power(base, k)
      BY <2>1, PowerValues
    <3>3. \A k \in Nat : Power(Unit, k) \in Nat /\ Power(Unit, k + 1) = Unit * Power(Unit, k)
      BY <1>2, PowerValues
    <3>4. Power(base, t - 1) \in Nat /\ Power(base, t) = base * Power(base, t - 1)
      BY <3>1, <3>2
    <3>5. Power(Unit, t - 2) \in Nat /\ Power(Unit, t - 1) = Unit * Power(Unit, t - 2)
      BY <3>1, <3>3
    <3>6. QED
      BY <3>4, <3>5
  <2>5. base * Power(base, t - 1) <= Unit * Power(base, t - 1)
    BY <1>2, <2>1, <2>4, ProductsGrow
  <2> DEFINE x == Power(base, t - 1)
             y == gap * Power(Unit, t - 2)
  <2>6. x \in Nat /\ y \in Nat
    BY <2>1, <2>4
  <2>7. gap * Power(Unit, t - 1) = y * Unit
    <3> DEFINE z == Power(Unit, t - 2)
    <3>1. z \in Nat /\ Power(Unit, t - 1) = Unit * z
      BY <2>4
    <3> HIDE DEF z
    <3>2. gap * (Unit * z) = (gap * z) * Unit
      BY <1>2, <2>1, <3>1
    <3>3. QED
      BY <3>1, <3>2 DEF z
  <2>8. y * Unit <= x * Unit
    <3>1. Power(base, t) \in Int /\ gap * Power(Unit, t - 1) \in Int /\ Unit * x = x * Unit /\ x * Unit \in Int
      BY <1>2, <2>1, <2>4, <2>6, <2>7
    <3>2. QED
      BY <2>2, <2>4, <2>5, <2>7, <3>1
  <2> HIDE DEF x, y
  <2>9. y <= x
    BY <1>2, <2>6, <2>8, FactorsCancel
  <2>10. Power(Unit - less[l], Tests(less)) >= (Unit - alpha) * Power(Unit, Tests(less) - 1)
    <3>1. Tests(less) - 1 = t - 2 /\ Unit - less[l] = base
      BY <1>2, <1>5 DEF base
    <3>2. x >= y
      BY <2>6, <2>9
    <3>3. QED
      BY <1>2, <3>1, <3>2 DEF x, y, gap
  <2>11. QED
    BY <1>5, <1>11, <2>10 DEF Rejected, less
<1>12. QED
  BY <1>7, <1>8, <1>9, <1>10, <1>11 DEF Methods

\* A survivor would be significant by itself, carries every candidate with a
\* smaller p-value with it, and survives without a test that was not rejected.
LEMMA SurvivorsOfAFamily ==
    ASSUME NEW family, IsFamily(family), NEW method \in Methods, NEW alpha \in 1 .. Unit - 1,
           NEW l \in Adjust(method, family, alpha).survivors
    PROVE  /\ family[l] < alpha
           /\ \A m \in DOMAIN family :
                 family[m] <= family[l] => m \in Adjust(method, family, alpha).survivors
           /\ \A m \in DOMAIN family \ Adjust(method, family, alpha).rejected :
                 l \in Adjust(method, Without(family, m), alpha).survivors
<1>1. l \in Rejected(method, family, alpha) /\ l \in DOMAIN family /\ family[l] < alpha
  BY DEF Adjust
<1>2. \A k \in DOMAIN family : family[k] \in Int /\ alpha \in Int
  BY UnitIsPositive DEF IsFamily
<1>3. ASSUME NEW m \in DOMAIN family, family[m] <= family[l]
      PROVE  m \in Adjust(method, family, alpha).survivors
  <2>1. m \in Rejected(method, family, alpha)
    BY <1>1, <1>2, <1>3, RejectedIsDownClosed
  <2>2. family[m] < alpha
    BY <1>1, <1>2, <1>3
  <2>3. QED
    BY <2>1, <2>2 DEF Adjust
<1>4. ASSUME NEW m \in DOMAIN family \ Adjust(method, family, alpha).rejected
      PROVE  l \in Adjust(method, Without(family, m), alpha).survivors
  <2>1. m \in DOMAIN family \ Rejected(method, family, alpha)
    BY <1>4 DEF Adjust
  <2>2. l \in Rejected(method, Without(family, m), alpha)
    BY <1>1, <2>1, RejectedWithout
  <2>3. l # m
    BY <1>1, <2>1
  <2>4. l \in DOMAIN Without(family, m) /\ Without(family, m)[l] < alpha
    BY <1>1, <2>3 DEF Without
  <2>5. QED
    BY <2>2, <2>4 DEF Adjust
<1>5. QED
  BY <1>1, <1>3, <1>4

-----------------------------------------------------------------------------
(* The family of an evaluation                                             *)

\* Each name is that of the last evaluation that has it; a name is tested or
\* excluded, and what is tested makes a family.
LEMMA FamilyOfEvaluations ==
    ASSUME NEW E, NEW evals \in Seq(E),
           \A k \in 1 .. Len(evals) : evals[k].available => evals[k].p \in 0 .. Unit
    PROVE  /\ IsFamily(Family(evals)) /\ DOMAIN Family(evals) = Tested(evals)
           /\ DOMAIN Family(evals) \cup Excluded(evals) = {evals[k].name : k \in 1 .. Len(evals)}
           /\ \A name \in DOMAIN Family(evals) : \E k \in 1 .. Len(evals) :
                 /\ evals[k].name = name /\ evals[k].available
                 /\ ByName(evals)[name] = evals[k]
<1> DEFINE n == Len(evals)
           names == {evals[k].name : k \in 1 .. n}
           Latest(name, k) == /\ evals[k].name = name
                              /\ \A j \in DOMAIN evals : evals[j].name = name => j <= k
           latest(name) == CHOOSE k \in DOMAIN evals : Latest(name, k)
<1>1. n \in Nat /\ DOMAIN evals = 1 .. n
  BY LenProperties
<1>2. ASSUME NEW name \in names PROVE latest(name) \in 1 .. n /\ evals[latest(name)].name = name
  <2> DEFINE K == {k \in 1 .. n : evals[k].name = name}
  <2>1. K \in SUBSET Int /\ IsFiniteSet(K) /\ K # {}
    <3>1. IsFiniteSet(1 .. n)
      BY <1>1, FS_Interval
    <3>2. QED
      BY <1>1, <3>1, FS_Subset
  <2>2. Max(K) \in K /\ \A k \in K : Max(K) >= k
    BY <2>1, LeastAndGreatest
  <2> DEFINE top == Max(K)
  <2>3. top \in 1 .. n /\ evals[top].name = name
    BY <2>2
  <2>4. \A j \in 1 .. n : evals[j].name = name => j <= top
    BY <1>1, <2>2
  <2> HIDE DEF top, K
  <2>5. \E k \in DOMAIN evals : Latest(name, k)
    BY <1>1, <2>3, <2>4
  <2> HIDE DEF Latest
  <2>6. latest(name) \in DOMAIN evals /\ Latest(name, latest(name))
    BY <2>5
  <2>7. QED
    BY <1>1, <2>6 DEF Latest
<1>3. ByName(evals) = [name \in names |-> evals[latest(name)]]
  BY <1>1 DEF ByName
<1> HIDE DEF latest, names
<1>4. DOMAIN ByName(evals) = names /\ \A name \in names : ByName(evals)[name] = evals[latest(name)]
  BY <1>3
<1>5. Tested(evals) \subseteq names /\ \A name \in Tested(evals) : evals[latest(name)].available
  BY <1>4 DEF Tested
<1>6. IsFiniteSet(names)
  <2> DEFINE f == [k \in 1 .. n |-> evals[k].name]
  <2>1. f \in Surjection(1 .. n, names)
    BY DEF Surjection, names
  <2>2. IsFiniteSet(1 .. n)
    BY <1>1, FS_Interval
  <2> HIDE DEF f
  <2>3. QED
    BY <2>1, <2>2, FS_Surjection
<1>7. IsFiniteSet(Tested(evals))
  BY <1>5, <1>6, FS_Subset
<1>8. /\ DOMAIN Family(evals) = Tested(evals)
      /\ \A name \in Tested(evals) : Family(evals)[name] = evals[latest(name)].p
  BY <1>4, <1>5 DEF Family
<1>9. IsFamily(Family(evals))
  BY <1>2, <1>5, <1>7, <1>8 DEF IsFamily
<1>10. DOMAIN Family(evals) \cup Excluded(evals) = names
  BY <1>4, <1>5, <1>8 DEF Excluded
<1>11. \A name \in DOMAIN Family(evals) : \E k \in 1 .. n :
          evals[k].name = name /\ evals[k].available /\ ByName(evals)[name] = evals[k]
  BY <1>2, <1>4, <1>5, <1>8
<1>12. QED
  BY <1>8, <1>9, <1>10, <1>11 DEF names

\* Where no two evaluations share a name, as many are tested as have a
\* p-value, and an evaluation whose name is tested has one itself.
LEMMA FamilyOfDistinctNames ==
    ASSUME NEW E, NEW evals \in Seq(E),
           \A k \in 1 .. Len(evals) : evals[k].available => evals[k].p \in 0 .. Unit,
           \A j, k \in 1 .. Len(evals) : evals[j].name = evals[k].name => j = k
    PROVE  /\ Tests(Family(evals)) = Cardinality({k \in DOMAIN evals : evals[k].available})
           /\ \A k \in 1 .. Len(evals) :
                 evals[k].name \in DOMAIN Family(evals) => evals[k].available
<1> DEFINE n == Len(evals)
           A == {k \in DOMAIN evals : evals[k].available}
           f == [k \in A |-> evals[k].name]
           tested == DOMAIN Family(evals)
<1>1. n \in Nat /\ DOMAIN evals = 1 .. n
  BY LenProperties
<1>2. \A name \in tested : \E k \in 1 .. n : evals[k].name = name /\ evals[k].available
  BY FamilyOfEvaluations
<1>3. ASSUME NEW k \in 1 .. n, evals[k].available PROVE evals[k].name \in tested
  <2> DEFINE name == evals[k].name
             l == CHOOSE l \in DOMAIN evals :
                     /\ evals[l].name = name
                     /\ \A j \in DOMAIN evals : evals[j].name = name => j <= l
  <2>1. name \in DOMAIN ByName(evals) /\ ByName(evals)[name] = evals[l]
    BY <1>1 DEF ByName
  <2>2. \E i \in DOMAIN evals :
            evals[i].name = name /\ \A j \in DOMAIN evals : evals[j].name = name => j <= i
    <3>1. \A j \in DOMAIN evals : evals[j].name = name => j <= k
      BY <1>1
    <3>2. QED
      BY <1>1, <3>1
  <2>3. l \in DOMAIN evals /\ evals[l].name = name
    BY <2>2
  <2>4. l = k
    BY <1>1, <2>3
  <2>5. name \in Tested(evals)
    BY <1>3, <2>1, <2>4 DEF Tested
  <2>6. QED
    BY <2>5, FamilyOfEvaluations
<1> HIDE DEF tested
<1>4. \A k \in 1 .. n : evals[k].name \in tested => evals[k].available
  BY <1>2
<1>5. f \in Injection(A, tested) /\ f \in Surjection(A, tested)
  <2>1. f \in [A -> tested]
    BY <1>1, <1>3
  <2>2. \A j, k \in A : f[j] = f[k] => j = k
    BY <1>1
  <2>3. \A name \in tested : \E k \in A : f[k] = name
    BY <1>1, <1>2
  <2> HIDE DEF f, A
  <2>4. QED
    BY <2>1, <2>2, <2>3 DEF Injection, IsInjective, Surjection
<1>6. IsFiniteSet(A)
  <2>1. IsFiniteSet(1 .. n)
    BY <1>1, FS_Interval
  <2>2. QED
    BY <1>1, <2>1, FS_Subset
<1> HIDE DEF f, A
<1>7. Cardinality(tested) = Cardinality(A)
  BY <1>5, <1>6, FS_Surjection
<1>8. QED
  BY <1>4, <1>7 DEF Tests, tested, A

\* Candidates with as many names as there are candidates have distinct names.
LEMMA DistinctNames ==
    ASSUME NEW S, NEW kept \in Seq(S),
           Cardinality({kept[k].name : k \in DOMAIN kept}) = Len(kept)
    PROVE  \A j, k \in 1 .. Len(kept) : kept[j].name = kept[k].name => j = k
<1> DEFINE n == Len(kept)
           names == {kept[k].name : k \in DOMAIN kept}
           f == [k \in 1 .. n |-> kept[k].name]
<1>1. n \in Nat /\ DOMAIN kept = 1 .. n
  BY LenProperties
<1>2. IsFiniteSet(1 .. n) /\ Cardinality(1 .. n) = n
  BY <1>1, OneToN
<1>3. f \in Surjection(1 .. n, names)
  BY <1>1 DEF Surjection
<1>4. \A k \in 1 .. n : f[k] = kept[k].name
  OBVIOUS
<1> HIDE DEF f
<1>5. f \in Injection(1 .. n, names)
  BY <1>2, <1>3, FS_Surjection
<1>6. QED
  BY <1>4, <1>5 DEF Injection, IsInjective

-----------------------------------------------------------------------------
(* The expansion of the graph                                              *)

\* The values of a selection are those at the positions selected.
LEMMA RangeOfRowsAt ==
    ASSUME NEW R, NEW rows \in Seq(R), NEW I \in SUBSET (1 .. Len(rows))
    PROVE  Range(RowsAt(rows, I)) = {rows[i] : i \in I}
<1> DEFINE picked == RowsAt(rows, I)
           A == Ascending(I)
           n == Len(A)
<1>1. /\ picked \in Seq(R) /\ Len(picked) = n
      /\ \A k \in 1 .. n : A[k] \in I /\ picked[k] = rows[A[k]]
      /\ \A i \in I : \E k \in 1 .. n : A[k] = i
  BY RowsAtSelects
<1>2. DOMAIN picked = 1 .. n
  BY <1>1, LenProperties
<1> HIDE DEF picked, A, n
<1>3. Range(picked) = {rows[i] : i \in I}
  <2>1. \A k \in 1 .. n : picked[k] \in {rows[i] : i \in I}
    BY <1>1
  <2>2. \A i \in I : \E k \in 1 .. n : picked[k] = rows[i]
    BY <1>1
  <2>3. Range(picked) = {picked[k] : k \in 1 .. n}
    BY <1>2 DEF Range
  <2>4. QED
    BY <2>1, <2>2, <2>3
<1>4. QED
  BY <1>3 DEF picked

\* The values of a concatenation are those of its parts.
LEMMA RangeOfConcat ==
    ASSUME NEW R, NEW s \in Seq(R), NEW t \in Seq(R)
    PROVE  Range(s \o t) = Range(s) \cup Range(t)
<1>1. /\ Len(s) \in Nat /\ Len(t) \in Nat /\ Len(s \o t) = Len(s) + Len(t)
      /\ DOMAIN s = 1 .. Len(s) /\ DOMAIN t = 1 .. Len(t) /\ DOMAIN (s \o t) = 1 .. Len(s) + Len(t)
  BY LenProperties, ConcatProperties
<1>2. \A i \in 1 .. Len(s) + Len(t) : (s \o t)[i] = IF i <= Len(s) THEN s[i] ELSE t[i - Len(s)]
  BY ConcatProperties
<1>3. ASSUME NEW i \in 1 .. Len(s) + Len(t) PROVE (s \o t)[i] \in Range(s) \cup Range(t)
  <2>1. CASE i <= Len(s)
    BY <1>1, <1>2, <2>1 DEF Range
  <2>2. CASE ~(i <= Len(s))
    <3>1. i - Len(s) \in 1 .. Len(t)
      BY <1>1, <2>2
    <3>2. QED
      BY <1>1, <1>2, <2>2, <3>1 DEF Range
  <2>3. QED
    BY <2>1, <2>2
<1>4. ASSUME NEW i \in 1 .. Len(s) PROVE s[i] \in Range(s \o t)
  <2>1. i \in 1 .. Len(s) + Len(t) /\ (s \o t)[i] = s[i]
    BY <1>1, <1>2
  <2>2. QED
    BY <1>1, <2>1 DEF Range
<1>5. ASSUME NEW i \in 1 .. Len(t) PROVE t[i] \in Range(s \o t)
  <2>1. i + Len(s) \in 1 .. Len(s) + Len(t) /\ ~(i + Len(s) <= Len(s)) /\ (i + Len(s)) - Len(s) = i
    BY <1>1
  <2>2. (s \o t)[i + Len(s)] = t[i]
    BY <1>2, <2>1
  <2>3. QED
    BY <1>1, <2>1, <2>2 DEF Range
<1> DEFINE both == s \o t
<1>6. DOMAIN both = 1 .. Len(s) + Len(t)
  BY <1>1
<1>7. \A x \in Range(both) : x \in Range(s) \cup Range(t)
  BY <1>3, <1>6 DEF Range
<1>8. \A x \in Range(s) \cup Range(t) : x \in Range(both)
  BY <1>1, <1>4, <1>5 DEF Range
<1>9. QED
  BY <1>7, <1>8

\* What a definition may use.
Known(seeds, taken) == seeds \cup Targets(taken)

\* A layer appends definitions of the catalog that were not found and whose
\* symbols were known when it began: all of them.
LEMMA LayerAdds ==
    ASSUME NEW R, NEW definitions \in Seq(R), NEW seeds, NEW taken \in Seq(R)
    PROVE  LET layer == Layer(definitions, seeds, taken) IN
           /\ layer \in Seq(R) /\ Len(layer) >= Len(taken)
           /\ \A k \in 1 .. Len(taken) : layer[k] = taken[k]
           /\ \A k \in 1 .. Len(layer) :
                 k > Len(taken) => Dependencies(layer[k]) \subseteq Known(seeds, taken)
           /\ Range(layer) = Range(taken)
                \cup {d \in Range(definitions) : Dependencies(d) \subseteq Known(seeds, taken)}
<1> DEFINE I == {k \in DOMAIN definitions :
                    /\ definitions[k] \notin Range(taken)
                    /\ Dependencies(definitions[k]) \subseteq seeds \cup Targets(taken)}
           added == RowsAt(definitions, I)
           layer == taken \o added
<1>1. Layer(definitions, seeds, taken) = layer
  BY DEF Layer
<1>2. DOMAIN definitions = 1 .. Len(definitions) /\ Len(taken) \in Nat
  BY LenProperties
<1>3. I \in SUBSET (1 .. Len(definitions))
  BY <1>2
<1>4. \A i \in I : Dependencies(definitions[i]) \subseteq Known(seeds, taken)
  BY DEF Known
<1>5. \A d \in Range(definitions) :
         d \notin Range(taken) /\ Dependencies(d) \subseteq Known(seeds, taken)
            => \E i \in I : definitions[i] = d
  BY DEF Known, Range
<1>6. \A i \in I : definitions[i] \in Range(definitions)
  BY DEF Range
<1> HIDE DEF I
<1>7. added \in Seq(R) /\ Range(added) = {definitions[i] : i \in I}
  BY <1>3, RowsAtSelects, RangeOfRowsAt
<1> HIDE DEF added
<1>8. Len(added) \in Nat /\ DOMAIN added = 1 .. Len(added)
  BY <1>7, LenProperties
<1>9. /\ layer \in Seq(R) /\ Len(layer) = Len(taken) + Len(added)
      /\ \A k \in 1 .. Len(taken) + Len(added) :
            layer[k] = IF k <= Len(taken) THEN taken[k] ELSE added[k - Len(taken)]
  BY <1>7, ConcatProperties
<1>10. Range(layer) = Range(taken) \cup Range(added)
  BY <1>7, RangeOfConcat
<1> HIDE DEF layer
<1>11. ASSUME NEW k \in 1 .. Len(layer), k > Len(taken)
       PROVE  Dependencies(layer[k]) \subseteq Known(seeds, taken)
  <2>1. k - Len(taken) \in 1 .. Len(added) /\ ~(k <= Len(taken)) /\ k \in 1 .. Len(taken) + Len(added)
    BY <1>2, <1>8, <1>9, <1>11
  <2>2. layer[k] = added[k - Len(taken)] /\ added[k - Len(taken)] \in Range(added)
    BY <1>8, <1>9, <2>1 DEF Range
  <2>3. QED
    BY <1>4, <1>7, <2>2
<1>12. Len(layer) >= Len(taken) /\ \A k \in 1 .. Len(taken) : layer[k] = taken[k]
  BY <1>2, <1>8, <1>9
<1>13. Range(layer) = Range(taken)
         \cup {d \in Range(definitions) : Dependencies(d) \subseteq Known(seeds, taken)}
  BY <1>4, <1>5, <1>6, <1>7, <1>10
<1>14. QED
  BY <1>1, <1>9, <1>11, <1>12, <1>13

\* The layers of the expansion, from none to the last.
Layers(definitions, seeds, depth) ==
    CHOOSE e : e = [k \in 0 .. depth |->
                       IF k = 0 THEN <<>> ELSE Layer(definitions, seeds, e[k - 1])]

\* The expansion is the last of its layers.
LEMMA ExpansionByLayers ==
    ASSUME NEW R, NEW definitions \in Seq(R), NEW seeds, NEW depth \in Nat
    PROVE  LET e == Layers(definitions, seeds, depth) IN
           /\ e \in [0 .. depth -> Seq(R)]
           /\ e[0] = <<>> /\ Expanded(definitions, seeds, depth) = e[depth]
           /\ \A k \in 1 .. depth : e[k] = Layer(definitions, seeds, e[k - 1])
<1> DEFINE IsExpansion(f) ==
               f = [k \in 0 .. depth |->
                       IF k = 0 THEN <<>> ELSE Layer(definitions, seeds, f[k - 1])]
           expanded == Layers(definitions, seeds, depth)
           step == [k \in 1 .. depth |-> [s \in Seq(R) |-> Layer(definitions, seeds, s)]]
<1>0. \A s \in Seq(R) : Layer(definitions, seeds, s) \in Seq(R)
  BY LayerAdds
<1>1. step \in [1 .. depth -> [Seq(R) -> Seq(R)]] /\ <<>> \in Seq(R)
  BY <1>0, EmptySeq
<1>2. \A k \in 1 .. depth, s \in Seq(R) : step[k][s] = Layer(definitions, seeds, s)
  OBVIOUS
<1> HIDE DEF step
<1>3. PICK e \in [0 .. depth -> Seq(R)] : Follows(e, 0 .. depth, <<>>, step)
  BY <1>1, Recursion
<1>4. ASSUME NEW k \in 1 .. depth PROVE e[k] = Layer(definitions, seeds, e[k - 1])
  <2>1. k \in (0 .. depth) \ {0} /\ k - 1 \in 0 .. depth /\ e[k - 1] \in Seq(R)
    OBVIOUS
  <2>2. e[k] = step[k][e[k - 1]]
    BY <1>3, <2>1 DEF Follows
  <2>3. QED
    BY <1>2, <2>1, <2>2
<1>5. IsExpansion(e)
  <2>1. \A k \in 0 .. depth : k = 0 \/ k \in 1 .. depth
    OBVIOUS
  <2>2. QED
    BY <1>3, <1>4, <2>1 DEF Follows
<1>6. Expanded(definitions, seeds, depth) = expanded[depth]
  BY DEF Expanded, Layers
<1>7. IsExpansion(expanded)
  <2>1. expanded = CHOOSE f : IsExpansion(f)
    BY DEF Layers
  <2> HIDE DEF IsExpansion
  <2>2. QED
    BY <1>5, <2>1
<1> HIDE DEF expanded
<1>8. /\ expanded[0] = <<>>
      /\ \A k \in 1 .. depth : expanded[k] = Layer(definitions, seeds, expanded[k - 1])
      /\ expanded = [k \in 0 .. depth |-> expanded[k]]
  <2>1. 0 \in 0 .. depth /\ \A k \in 1 .. depth : k \in 0 .. depth /\ k # 0
    OBVIOUS
  <2>2. QED
    BY <1>7, <2>1
<1>9. \A k \in 0 .. depth : expanded[k] \in Seq(R)
  <2> DEFINE T == {k \in Nat : k <= depth => expanded[k] \in Seq(R)}
  <2>1. 0 \in T
    BY <1>1, <1>8
  <2>2. ASSUME NEW k \in Nat, k \in T PROVE k + 1 \in T
    <3> SUFFICES ASSUME k + 1 <= depth PROVE expanded[k + 1] \in Seq(R)
      OBVIOUS
    <3>1. k + 1 \in 1 .. depth /\ (k + 1) - 1 = k /\ expanded[k] \in Seq(R)
      BY <2>2
    <3>2. expanded[k + 1] = Layer(definitions, seeds, expanded[k])
      BY <1>8, <3>1
    <3>3. QED
      BY <1>0, <3>1, <3>2
  <2> HIDE DEF T
  <2>3. Nat \subseteq T
    BY <2>1, <2>2, Induction
  <2>4. \A k \in 0 .. depth : k \in Nat /\ k <= depth
    OBVIOUS
  <2>5. QED
    BY <2>3, <2>4 DEF T
<1> HIDE DEF IsExpansion
<1>10. expanded \in [0 .. depth -> Seq(R)]
  BY <1>8, <1>9
<1>11. QED
  BY <1>6, <1>8, <1>10 DEF expanded

\* What is found can be computed in the order in which it is found.
LEMMA ExpansionIsOrdered ==
    ASSUME NEW R, NEW definitions \in Seq(R), NEW seeds, NEW depth \in Nat
    PROVE  LET taken == Expanded(definitions, seeds, depth) IN
           /\ taken \in Seq(R)
           /\ \A k \in 1 .. Len(taken) :
                 Dependencies(taken[k]) \subseteq seeds \cup Targets(SubSeq(taken, 1, k - 1))
<1> DEFINE Before(s, k) == {s[j].target : j \in 1 .. k - 1}
           Sound(s) == \A k \in 1 .. Len(s) : Dependencies(s[k]) \subseteq seeds \cup Before(s, k)
<1> DEFINE e == Layers(definitions, seeds, depth)
<1>1. /\ e \in [0 .. depth -> Seq(R)]
      /\ e[0] = <<>> /\ Expanded(definitions, seeds, depth) = e[depth]
      /\ \A k \in 1 .. depth : e[k] = Layer(definitions, seeds, e[k - 1])
  BY ExpansionByLayers
<1> HIDE DEF e
<1>2. ASSUME NEW s \in Seq(R), Sound(s) PROVE Sound(Layer(definitions, seeds, s))
  <2> DEFINE layer == Layer(definitions, seeds, s)
  <2>1. /\ layer \in Seq(R) /\ Len(layer) >= Len(s)
        /\ \A k \in 1 .. Len(s) : layer[k] = s[k]
        /\ \A k \in 1 .. Len(layer) :
              k > Len(s) => Dependencies(layer[k]) \subseteq Known(seeds, s)
    BY LayerAdds
  <2> HIDE DEF layer
  <2>2. Len(layer) \in Nat /\ Len(s) \in Nat /\ DOMAIN s = 1 .. Len(s)
    BY <2>1, LenProperties
  <2>3. ASSUME NEW k \in 1 .. Len(layer)
        PROVE  Dependencies(layer[k]) \subseteq seeds \cup Before(layer, k)
    <3>1. CASE k <= Len(s)
      <4>1. k \in 1 .. Len(s) /\ layer[k] = s[k]
        BY <2>1, <2>2, <3>1
      <4>2. \A j \in 1 .. k - 1 : layer[j] = s[j]
        BY <2>1, <2>2, <3>1
      <4>3. Before(layer, k) = Before(s, k)
        BY <4>2
      <4>4. QED
        BY <1>2, <4>1, <4>3
    <3>2. CASE k > Len(s)
      <4>1. \A j \in 1 .. Len(s) : j \in 1 .. k - 1 /\ layer[j] = s[j]
        BY <2>1, <2>2, <3>2
      <4>2. Targets(s) \subseteq Before(layer, k)
        BY <2>2, <4>1 DEF Targets
      <4>3. QED
        BY <2>1, <3>2, <4>2 DEF Known
    <3>3. k <= Len(s) \/ k > Len(s)
      BY <2>2
    <3> HIDE DEF Before, Sound
    <3>4. QED
      BY <3>1, <3>2, <3>3
  <2>4. QED
    BY <2>3 DEF layer
<1>3. Sound(e[depth])
  <2> DEFINE T == {k \in Nat : k <= depth => Sound(e[k])}
  <2> HIDE DEF Sound
  <2>1. 0 \in T
    <3>1. Len(<<>>) = 0
      OBVIOUS
    <3>2. \A k \in 1 .. 0 : FALSE
      OBVIOUS
    <3>3. Sound(<<>>)
      BY <3>1, <3>2 DEF Sound
    <3>4. QED
      BY <1>1, <3>3
  <2>2. ASSUME NEW k \in Nat, k \in T PROVE k + 1 \in T
    <3> SUFFICES ASSUME k + 1 <= depth PROVE Sound(e[k + 1])
      OBVIOUS
    <3>1. k + 1 \in 1 .. depth /\ (k + 1) - 1 = k /\ k \in 0 .. depth /\ Sound(e[k])
      BY <2>2
    <3>2. e[k + 1] = Layer(definitions, seeds, e[k]) /\ e[k] \in Seq(R)
      BY <1>1, <3>1
    <3>3. QED
      BY <1>2, <3>1, <3>2
  <2> HIDE DEF T
  <2>3. depth \in T
    BY <2>1, <2>2, Induction
  <2>4. QED
    BY <2>3 DEF T
<1> DEFINE taken == e[depth]
<1>4. taken \in Seq(R)
  BY <1>1
<1> HIDE DEF taken
<1>5. ASSUME NEW k \in 1 .. Len(taken)
      PROVE  Dependencies(taken[k]) \subseteq seeds \cup Targets(SubSeq(taken, 1, k - 1))
  <2> DEFINE prefix == SubSeq(taken, 1, k - 1)
  <2>1. Len(taken) \in Nat
    BY <1>4, LenProperties
  <2>2. \A i \in 1 .. k - 1 : taken[i] \in R
    <3>1. \A i \in 1 .. Len(taken) : taken[i] \in R
      BY <1>4, ElementOfSeq
    <3>2. \A i \in 1 .. k - 1 : i \in 1 .. Len(taken)
      BY <2>1
    <3>3. QED
      BY <3>1, <3>2
  <2>3. /\ prefix \in Seq(R) /\ Len(prefix) = k - 1
        /\ \A i \in 1 .. k - 1 : prefix[i] = taken[i]
    <3>1. 1 \in Int /\ k - 1 \in Int /\ (k - 1) - 1 + 1 = k - 1
      BY <2>1
    <3>2. /\ prefix \in Seq(R) /\ Len(prefix) = IF 1 <= k - 1 THEN (k - 1) - 1 + 1 ELSE 0
          /\ \A i \in 1 .. (k - 1) - 1 + 1 : prefix[i] = taken[1 + i - 1]
      BY <2>2, <3>1, SubSeqProperties
    <3> HIDE DEF prefix
    <3>3. \A i \in 1 .. k - 1 : 1 + i - 1 = i
      OBVIOUS
    <3>4. Len(prefix) = k - 1
      BY <2>1, <3>2
    <3>5. QED
      BY <3>1, <3>2, <3>3, <3>4
  <2> HIDE DEF prefix
  <2>4. DOMAIN prefix = 1 .. k - 1
    BY <2>3, LenProperties
  <2>5. Targets(prefix) = Before(taken, k)
    BY <2>3, <2>4 DEF Targets
  <2>6. QED
    BY <1>3, <2>5 DEF taken, prefix
<1>6. QED
  BY <1>1, <1>4, <1>5 DEF taken

\* The targets of a sequence are those of its elements.
LEMMA TargetsOfRange ==
    ASSUME NEW taken
    PROVE  Targets(taken) = {x.target : x \in Range(taken)}
  BY DEF Targets, Range

\* The order of the definitions does not matter to what a layer finds.
LEMMA LayersAgree ==
    ASSUME NEW R, NEW definitions \in Seq(R), NEW other \in Seq(R), NEW seeds,
           Range(definitions) = Range(other),
           NEW s \in Seq(R), NEW t \in Seq(R), Range(s) = Range(t)
    PROVE  Range(Layer(definitions, seeds, s)) = Range(Layer(other, seeds, t))
<1>1. Known(seeds, s) = Known(seeds, t)
  BY TargetsOfRange DEF Known
<1>2. Range(Layer(definitions, seeds, s)) = Range(s)
         \cup {d \in Range(definitions) : Dependencies(d) \subseteq Known(seeds, s)}
  BY LayerAdds
<1>3. Range(Layer(other, seeds, t)) = Range(t)
         \cup {d \in Range(other) : Dependencies(d) \subseteq Known(seeds, t)}
  BY LayerAdds
<1>4. QED
  BY <1>1, <1>2, <1>3

\* Nor to what the expansion finds.
LEMMA ExpansionIgnoresTheOrder ==
    ASSUME NEW R, NEW definitions \in Seq(R), NEW other \in Seq(R), NEW seeds, NEW depth \in Nat,
           Range(definitions) = Range(other)
    PROVE  Range(Expanded(definitions, seeds, depth)) = Range(Expanded(other, seeds, depth))
<1> DEFINE e == Layers(definitions, seeds, depth)
           f == Layers(other, seeds, depth)
           T == {k \in Nat : k <= depth => Range(e[k]) = Range(f[k])}
<1>1. /\ e \in [0 .. depth -> Seq(R)] /\ e[0] = <<>>
      /\ Expanded(definitions, seeds, depth) = e[depth]
      /\ \A k \in 1 .. depth : e[k] = Layer(definitions, seeds, e[k - 1])
  BY ExpansionByLayers
<1>2. /\ f \in [0 .. depth -> Seq(R)] /\ f[0] = <<>>
      /\ Expanded(other, seeds, depth) = f[depth]
      /\ \A k \in 1 .. depth : f[k] = Layer(other, seeds, f[k - 1])
  BY ExpansionByLayers
<1> HIDE DEF e, f
<1>3. 0 \in T
  BY <1>1, <1>2
<1>4. ASSUME NEW k \in Nat, k \in T PROVE k + 1 \in T
  <2> SUFFICES ASSUME k + 1 <= depth PROVE Range(e[k + 1]) = Range(f[k + 1])
    OBVIOUS
  <2>1. k + 1 \in 1 .. depth /\ (k + 1) - 1 = k /\ k \in 0 .. depth /\ Range(e[k]) = Range(f[k])
    BY <1>4
  <2>2. e[k + 1] = Layer(definitions, seeds, e[k]) /\ e[k] \in Seq(R)
    BY <1>1, <2>1
  <2>3. f[k + 1] = Layer(other, seeds, f[k]) /\ f[k] \in Seq(R)
    BY <1>2, <2>1
  <2>4. Range(Layer(definitions, seeds, e[k])) = Range(Layer(other, seeds, f[k]))
    BY <2>1, <2>2, <2>3, LayersAgree
  <2>5. QED
    BY <2>2, <2>3, <2>4
<1> HIDE DEF T
<1>5. depth \in T
  BY <1>3, <1>4, Induction
<1>6. QED
  BY <1>1, <1>2, <1>5 DEF T

\* A sequence has no more values than places.
LEMMA RangeIsSmall ==
    ASSUME NEW R, NEW s \in Seq(R)
    PROVE  /\ IsFiniteSet(Range(s)) /\ Cardinality(Range(s)) \in Nat
           /\ Cardinality(Range(s)) <= Len(s)
<1>1. Len(s) \in Nat /\ DOMAIN s = 1 .. Len(s) /\ s \in [1 .. Len(s) -> R]
  BY LenProperties
<1>2. s \in Surjection(1 .. Len(s), Range(s))
  BY <1>1 DEF Surjection, Range
<1>3. IsFiniteSet(1 .. Len(s)) /\ Cardinality(1 .. Len(s)) = Len(s)
  BY <1>1, OneToN
<1>4. IsFiniteSet(Range(s)) /\ Cardinality(Range(s)) <= Len(s)
  BY <1>2, <1>3, FS_Surjection
<1>5. QED
  BY <1>4, FS_CardinalityType

\* With as many layers as there are definitions nothing is left to be found:
\* every layer finds a definition, until one finds none and none ever will.
LEMMA ExpansionIsComplete ==
    ASSUME NEW R, NEW definitions \in Seq(R), NEW seeds, NEW depth \in Nat,
           depth >= Len(definitions)
    PROVE  LET taken == Expanded(definitions, seeds, depth) IN
           \A d \in Range(definitions) :
              Dependencies(d) \subseteq seeds \cup Targets(taken) => d \in Range(taken)
<1> DEFINE D == Range(definitions)
           e == Layers(definitions, seeds, depth)
           Closed(s) == \A d \in D : Dependencies(d) \subseteq Known(seeds, s) => d \in Range(s)
           Reached(k) == /\ Range(e[k]) \subseteq D
                         /\ Closed(e[k]) \/ Cardinality(Range(e[k])) >= k
           T == {k \in Nat : k <= depth => Reached(k)}
<1>1. /\ e \in [0 .. depth -> Seq(R)] /\ e[0] = <<>>
      /\ Expanded(definitions, seeds, depth) = e[depth]
      /\ \A k \in 1 .. depth : e[k] = Layer(definitions, seeds, e[k - 1])
  BY ExpansionByLayers
<1> HIDE DEF e
<1>2. \A s \in Seq(R) : IsFiniteSet(Range(s)) /\ Cardinality(Range(s)) \in Nat
  BY RangeIsSmall
<1>3. \A s \in Seq(R) : Range(Layer(definitions, seeds, s)) =
         Range(s) \cup {d \in D : Dependencies(d) \subseteq Known(seeds, s)}
  BY LayerAdds
<1>4. Len(definitions) \in Nat /\ IsFiniteSet(D) /\ Cardinality(D) \in Nat /\ Cardinality(D) <= Len(definitions)
  BY RangeIsSmall, LenProperties
<1> HIDE DEF D
<1>5. 0 \in T
  <2>1. Range(<<>>) = {} /\ <<>> \in Seq(R)
    BY EmptySeq DEF Range
  <2>2. Cardinality(Range(e[0])) >= 0 /\ Range(e[0]) \subseteq D
    BY <1>1, <1>2, <2>1
  <2>3. QED
    BY <2>2
<1>6. ASSUME NEW k \in Nat, k \in T PROVE k + 1 \in T
  <2> SUFFICES ASSUME k + 1 <= depth PROVE Reached(k + 1)
    OBVIOUS
  <2> DEFINE s == e[k]
             t == e[k + 1]
  <2>1. k + 1 \in 1 .. depth /\ (k + 1) - 1 = k /\ k \in 0 .. depth /\ k + 1 \in 0 .. depth
    OBVIOUS
  <2>2. Range(s) \subseteq D /\ (Closed(s) \/ Cardinality(Range(s)) >= k)
    BY <1>6, <2>1
  <2>3. s \in Seq(R) /\ t \in Seq(R) /\ t = Layer(definitions, seeds, s)
    BY <1>1, <2>1
  <2> HIDE DEF s, t
  <2>4. Range(t) = Range(s) \cup {d \in D : Dependencies(d) \subseteq Known(seeds, s)}
    BY <1>3, <2>3
  <2>5. Range(t) \subseteq D
    BY <2>2, <2>4
  <2>6. CASE Closed(s)
    <3>1. Range(t) = Range(s)
      BY <2>4, <2>6
    <3>2. Known(seeds, t) = Known(seeds, s)
      BY <3>1, TargetsOfRange DEF Known
    <3>3. Closed(t)
      BY <2>6, <3>1, <3>2
    <3>4. QED
      BY <2>5, <3>3 DEF t
  <2>7. CASE ~Closed(s)
    <3>1. PICK d \in D : Dependencies(d) \subseteq Known(seeds, s) /\ d \notin Range(s)
      BY <2>7
    <3>2. Range(s) \cup {d} \subseteq Range(t)
      BY <2>4, <3>1
    <3>3. Cardinality(Range(s) \cup {d}) = Cardinality(Range(s)) + 1
      BY <1>2, <2>3, <3>1, FS_AddElement
    <3>4. Cardinality(Range(s) \cup {d}) <= Cardinality(Range(t))
      BY <1>2, <2>3, <3>2, FS_Subset
    <3>5. Cardinality(Range(s)) >= k
      BY <2>2, <2>7
    <3>6. Cardinality(Range(s)) \in Nat /\ Cardinality(Range(t)) \in Nat
      BY <1>2, <2>3
    <3>7. Cardinality(Range(t)) >= k + 1
      BY <3>3, <3>4, <3>5, <3>6
    <3>8. QED
      BY <2>5, <3>7 DEF t
  <2>8. QED
    BY <2>6, <2>7
<1>7. Reached(depth)
  <2> HIDE DEF T, Reached
  <2>1. depth \in T
    BY <1>5, <1>6, Induction
  <2>2. QED
    BY <2>1 DEF T
<1>8. Closed(e[depth])
  <2> SUFFICES ASSUME Cardinality(Range(e[depth])) >= depth PROVE Closed(e[depth])
    BY <1>7
  <2>1. e[depth] \in Seq(R)
    BY <1>1
  <2>2. Range(e[depth]) \subseteq D
    BY <1>7
  <2>3. Cardinality(Range(e[depth])) <= Cardinality(D) /\ Cardinality(Range(e[depth])) \in Nat
    BY <1>2, <1>4, <2>1, <2>2, FS_Subset
  <2>4. Cardinality(Range(e[depth])) = Cardinality(D)
    BY <1>4, <2>3
  <2>5. Range(e[depth]) = D
    BY <1>4, <2>2, <2>4, FS_Subset
  <2>6. QED
    BY <2>5
<1>9. QED
  BY <1>1, <1>8 DEF D, Known

\* Turned round, a sequence has the same values.
LEMMA RangeOfReverse ==
    ASSUME NEW R, NEW s \in Seq(R)
    PROVE  Reverse(s) \in Seq(R) /\ Range(Reverse(s)) = Range(s)
<1> DEFINE n == Len(s)
           r == Reverse(s)
<1>1. n \in Nat /\ DOMAIN s = 1 .. n /\ \A i \in 1 .. n : s[i] \in R
  BY LenProperties, ElementOfSeq
<1>2. r = [i \in 1 .. n |-> s[(n - i) + 1]]
  BY DEF Reverse
<1> HIDE DEF n, r
<1>3. \A i \in 1 .. n : (n - i) + 1 \in 1 .. n
  BY <1>1
<1>4. r \in [1 .. n -> R]
  BY <1>1, <1>2, <1>3
<1>5. r \in Seq(R)
  BY <1>1, <1>4
<1>6. DOMAIN r = 1 .. n /\ \A i \in 1 .. n : r[i] = s[(n - i) + 1]
  BY <1>2
<1>7. \A i \in 1 .. n : s[i] = r[(n - i) + 1]
  <2>1. \A i \in 1 .. n : (n - ((n - i) + 1)) + 1 = i
    BY <1>1
  <2>2. QED
    BY <1>3, <1>6, <2>1
<1>8. Range(r) = Range(s)
  <2>1. \A i \in 1 .. n : r[i] \in Range(s)
    BY <1>1, <1>3, <1>6 DEF Range
  <2>2. \A i \in 1 .. n : s[i] \in Range(r)
    BY <1>3, <1>6, <1>7 DEF Range
  <2>3. QED
    BY <1>1, <1>6, <2>1, <2>2 DEF Range
<1>9. QED
  BY <1>5, <1>8 DEF r

-----------------------------------------------------------------------------
(* Runs of consecutive rows                                                *)

\* Consecutive rows of a set lie in a maximal run of it.
LEMMA IntervalInARun ==
    ASSUME NEW rows \in SUBSET Int, IsFiniteSet(rows), NEW a \in Int, NEW b \in Int, a <= b,
           a .. b \subseteq rows
    PROVE  \E run \in Runs(rows) : run.first <= a /\ b <= run.last
<1> DEFINE A == {x \in rows : x <= a /\ x .. a \subseteq rows}
           B == {y \in rows : b <= y /\ b .. y \subseteq rows}
           first == Min(A)
           last == Max(B)
<1>0. \A x \in rows : x \in Int
  OBVIOUS
<1>1. a \in A /\ b \in B
  <2>1. a \in rows /\ b \in rows /\ a .. a \subseteq rows /\ b .. b \subseteq rows
    OBVIOUS
  <2>2. QED
    BY <2>1
<1>2. /\ A \in SUBSET Int /\ IsFiniteSet(A) /\ A # {}
      /\ B \in SUBSET Int /\ IsFiniteSet(B) /\ B # {}
  BY <1>1, FS_Subset
<1>3. first \in A /\ (\A y \in A : first <= y) /\ last \in B /\ (\A y \in B : last >= y)
  BY <1>2, LeastAndGreatest
<1> HIDE DEF first, last
<1>4. /\ first \in rows /\ first <= a /\ first .. a \subseteq rows /\ first \in Int
      /\ last \in rows /\ b <= last /\ b .. last \subseteq rows /\ last \in Int
  BY <1>3
<1>5. first .. last \subseteq rows
  <2>1. \A t \in first .. last : t \in first .. a \/ t \in a .. b \/ t \in b .. last
    BY <1>4
  <2>2. QED
    BY <1>4, <2>1
<1>6. first - 1 \notin rows
  <2> SUFFICES ASSUME first - 1 \in rows PROVE FALSE
    OBVIOUS
  <2>1. \A t \in (first - 1) .. a : t = first - 1 \/ t \in first .. a
    BY <1>4
  <2>2. (first - 1) .. a \subseteq rows
    BY <1>4, <2>1
  <2>3. first - 1 \in A
    BY <1>4, <2>2
  <2>4. QED
    BY <1>3, <1>4, <2>3
<1>7. last + 1 \notin rows
  <2> SUFFICES ASSUME last + 1 \in rows PROVE FALSE
    OBVIOUS
  <2>1. \A t \in b .. (last + 1) : t = last + 1 \/ t \in b .. last
    BY <1>4
  <2>2. b .. (last + 1) \subseteq rows
    BY <1>4, <2>1
  <2>3. last + 1 \in B
    BY <1>4, <2>2
  <2>4. QED
    BY <1>3, <1>4, <2>3
<1> DEFINE run == [first |-> first, last |-> last]
<1>8. run \in Runs(rows) /\ run.first <= a /\ b <= run.last
  BY <1>4, <1>5, <1>6, <1>7 DEF Runs
<1>9. QED
  BY <1>8

\* What a run is.
LEMMA RunValues ==
    ASSUME NEW rows \in SUBSET Int, NEW run \in Runs(rows)
    PROVE  /\ run \in [first : rows, last : rows] /\ run.first \in Int /\ run.last \in Int
           /\ run.first <= run.last /\ run.first .. run.last \subseteq rows
           /\ Rows(run) \in Nat \ {0} /\ run.first \in rows
<1>1. run \in [first : rows, last : rows] /\ run.first <= run.last /\ run.first .. run.last \subseteq rows
  BY DEF Runs
<1>2. run.first \in Int /\ run.last \in Int /\ run.first \in rows
  BY <1>1
<1>3. QED
  BY <1>1, <1>2 DEF Rows

\* The longest run is a run, and none is longer.
LEMMA LongestRunIs ==
    ASSUME NEW rows \in SUBSET Int, IsFiniteSet(rows), rows # {}
    PROVE  /\ LongestRun(rows) \in Runs(rows) /\ LongestRun(rows) # NoValue
           /\ \A other \in Runs(rows) : Rows(other) <= Rows(LongestRun(rows))
<1> DEFINE L == {Rows(run) : run \in Runs(rows)}
           m == Max(L)
           F == {run.first : run \in {r \in Runs(rows) : Rows(r) = m}}
           Best(run) == \A other \in Runs(rows) :
                           \/ Rows(other) < Rows(run)
                           \/ Rows(other) = Rows(run) /\ run.first <= other.first
<1>1. \A run \in Runs(rows) : /\ run.first \in Int /\ run.last \in Int /\ run.first \in rows
                              /\ run.last \in rows /\ Rows(run) \in Nat \ {0}
  BY RunValues
<1>2. PICK r0 \in Runs(rows) : TRUE
  <2>1. PICK x \in rows : TRUE
    OBVIOUS
  <2>2. x \in Int /\ x .. x \subseteq rows
    OBVIOUS
  <2>3. QED
    BY <2>2, IntervalInARun
<1>3. L \in SUBSET Int /\ IsFiniteSet(L) /\ L # {}
  <2> DEFINE low == Min(rows)
             high == Max(rows)
  <2>1. low \in Int /\ high \in Int /\ \A x \in rows : x \in Int /\ low <= x /\ high >= x
    <3>1. low \in rows /\ high \in rows /\ \A x \in rows : low <= x /\ high >= x
      BY LeastAndGreatest
    <3> HIDE DEF low, high
    <3>2. QED
      BY <3>1
  <2> HIDE DEF low, high
  <2>2. \A run \in Runs(rows) : Rows(run) \in 1 .. high - low + 1
    BY <1>1, <2>1 DEF Rows
  <2>3. L \subseteq 1 .. high - low + 1
    BY <2>2
  <2>4. IsFiniteSet(1 .. high - low + 1)
    BY <2>1, FS_Interval
  <2>5. IsFiniteSet(L)
    BY <2>3, <2>4, FS_Subset
  <2>6. QED
    BY <1>1, <1>2, <2>5
<1>4. m \in L /\ \A x \in L : m >= x
  BY <1>3, LeastAndGreatest
<1> HIDE DEF m
<1>5. \A run \in Runs(rows) : Rows(run) <= m
  BY <1>1, <1>4
<1>6. F \in SUBSET Int /\ IsFiniteSet(F) /\ F # {}
  <2>1. F \subseteq rows
    BY <1>1
  <2>2. QED
    BY <1>4, <2>1, FS_Subset
<1>7. Min(F) \in F /\ \A x \in F : Min(F) <= x
  BY <1>6, LeastAndGreatest
<1>8. PICK best \in Runs(rows) : Rows(best) = m /\ best.first = Min(F)
  BY <1>7
<1>9. Best(best)
  <2> SUFFICES ASSUME NEW other \in Runs(rows), ~(Rows(other) < Rows(best))
               PROVE  Rows(other) = Rows(best) /\ best.first <= other.first
    OBVIOUS
  <2>1. Rows(other) = m
    BY <1>1, <1>5, <1>8
  <2>2. other.first \in F
    BY <2>1
  <2>3. QED
    BY <1>7, <1>8, <2>1, <2>2
<1> HIDE DEF Best
<1>10. LongestRun(rows) = CHOOSE run \in Runs(rows) : Best(run)
  BY DEF LongestRun, Best
<1>11. LongestRun(rows) \in Runs(rows) /\ Best(LongestRun(rows))
  BY <1>9, <1>10
<1>12. \A other \in Runs(rows) : Rows(other) <= Rows(LongestRun(rows))
  BY <1>1, <1>11 DEF Best
<1>13. LongestRun(rows) # NoValue
  <2>1. LongestRun(rows) \in [first : rows, last : rows]
    BY <1>11, RunValues
  <2>2. LongestRun(rows) \in [first : Int, last : Int]
    BY <2>1
  <2>3. QED
    BY <2>2, NoValueIsNoRun
<1>14. QED
  BY <1>11, <1>12, <1>13

-----------------------------------------------------------------------------
(* Panels                                                                  *)

\* Every row of a panel has the symbols of the first, which have a place.
IsPanel(frame) ==
    /\ frame \in Seq(Range(frame)) /\ frame # <<>>
    /\ \A t \in DOMAIN frame : DOMAIN frame[t] = SymbolsOf(frame)
    /\ SymbolsOf(frame) \subseteq Range(Names)

\* Names are finitely many, and each has a place.
LEMMA NamesHavePlaces ==
    /\ IsFiniteSet(Range(Names)) /\ IsFiniteSet(DOMAIN Names) /\ DOMAIN Names \in SUBSET Int
    /\ \A s \in Range(Names) : Place(s) \in DOMAIN Names
<1>1. Len(Names) \in Nat /\ DOMAIN Names = 1 .. Len(Names)
  BY NamesAreListed, LenProperties
<1>2. IsFiniteSet(DOMAIN Names) /\ DOMAIN Names \in SUBSET Int
  <2>1. IsFiniteSet(1 .. Len(Names))
    BY <1>1, OneToN
  <2>2. QED
    BY <1>1, <2>1
<1>3. IsFiniteSet(Range(Names))
  BY NamesAreListed, RangeIsSmall
<1>4. ASSUME NEW s \in Range(Names) PROVE Place(s) \in DOMAIN Names
  <2>1. \E k \in DOMAIN Names : Names[k] = s
    BY DEF Range
  <2>2. QED
    BY <2>1 DEF Place
<1>5. QED
  BY <1>2, <1>3, <1>4

\* The rows of a panel and what is present on them are finite.
LEMMA PanelFacts ==
    ASSUME NEW frame, IsPanel(frame)
    PROVE  /\ Len(frame) \in Nat \ {0} /\ DOMAIN frame = 1 .. Len(frame)
           /\ IsFiniteSet(SymbolsOf(frame))
           /\ \A X : IsFiniteSet(Shared(frame, X)) /\ Shared(frame, X) \in SUBSET Int
                       /\ Shared(frame, X) \subseteq 1 .. Len(frame)
           /\ \A m : IsFiniteSet(Crowded(frame, m)) /\ Crowded(frame, m) \in SUBSET Int
                       /\ Crowded(frame, m) \subseteq 1 .. Len(frame)
           /\ \A t : IsFiniteSet(Present(frame, t)) /\ Cardinality(Present(frame, t)) \in Nat
<1>1. Len(frame) \in Nat \ {0} /\ DOMAIN frame = 1 .. Len(frame)
  BY LenProperties, EmptySeq DEF IsPanel
<1>2. IsFiniteSet(SymbolsOf(frame))
  BY NamesHavePlaces, FS_Subset DEF IsPanel
<1>3. IsFiniteSet(1 .. Len(frame)) /\ 1 .. Len(frame) \in SUBSET Int
  BY <1>1, OneToN
<1>4. ASSUME NEW S \in SUBSET (1 .. Len(frame)) PROVE IsFiniteSet(S) /\ S \in SUBSET Int
  BY <1>3, FS_Subset
<1>5. \A X : Shared(frame, X) \in SUBSET (1 .. Len(frame))
  BY <1>1 DEF Shared
<1>6. \A m : Crowded(frame, m) \in SUBSET (1 .. Len(frame))
  BY <1>1 DEF Crowded
<1>7. \A t : IsFiniteSet(Present(frame, t)) /\ Cardinality(Present(frame, t)) \in Nat
  <2>1. \A t : Present(frame, t) \in SUBSET SymbolsOf(frame)
    BY DEF Present
  <2>2. QED
    BY <1>2, <2>1, FS_Subset, FS_CardinalityType
<1>8. QED
  BY <1>1, <1>2, <1>4, <1>5, <1>6, <1>7

\* The symbol chosen is one of those offered, and none shares more rows.
LEMMA MostSharedIs ==
    ASSUME NEW slice, IsPanel(slice), NEW selected,
           NEW columns \in SUBSET Range(Names), columns # {}
    PROVE  LET best == MostShared(slice, selected, columns) IN
           /\ best \in columns
           /\ \A u \in columns : Cardinality(Shared(slice, selected \cup {u}))
                                   <= Cardinality(Shared(slice, selected \cup {best}))
<1> DEFINE Score(s) == Cardinality(Shared(slice, selected \cup {s}))
           L == {Score(s) : s \in columns}
           m == Max(L)
           P == {Place(s) : s \in {u \in columns : Score(u) = m}}
           Best(s) == \A u \in columns :
                         Score(u) < Score(s) \/ (Score(u) = Score(s) /\ Place(s) <= Place(u))
<1>1. \A s : Score(s) \in 0 .. Len(slice)
  <2>1. ASSUME NEW X PROVE Cardinality(Shared(slice, X)) \in 0 .. Len(slice)
    <3>1. Len(slice) \in Nat /\ Shared(slice, X) \subseteq 1 .. Len(slice) /\ IsFiniteSet(Shared(slice, X))
      BY PanelFacts
    <3>2. IsFiniteSet(1 .. Len(slice)) /\ Cardinality(1 .. Len(slice)) = Len(slice)
      BY <3>1, OneToN
    <3>3. Cardinality(Shared(slice, X)) <= Cardinality(1 .. Len(slice))
      BY <3>1, <3>2, FS_Subset
    <3>4. Cardinality(Shared(slice, X)) \in Nat
      BY <3>1, FS_CardinalityType
    <3>5. QED
      BY <3>1, <3>2, <3>3, <3>4
  <2>2. QED
    BY <2>1
<1> HIDE DEF Score
<1>2. \A s \in columns : Place(s) \in DOMAIN Names /\ Place(s) \in Int
  BY NamesHavePlaces
<1>3. L \in SUBSET Int /\ IsFiniteSet(L) /\ L # {}
  <2>1. IsFiniteSet(0 .. Len(slice)) /\ L \subseteq 0 .. Len(slice)
    <3>1. Len(slice) \in Int
      BY PanelFacts
    <3>2. QED
      BY <1>1, <3>1, FS_Interval
  <2>2. IsFiniteSet(L)
    BY <2>1, FS_Subset
  <2>3. QED
    BY <2>1, <2>2
<1>4. m \in L /\ \A x \in L : m >= x
  BY <1>3, LeastAndGreatest
<1> HIDE DEF m
<1>5. P \in SUBSET Int /\ IsFiniteSet(P) /\ P # {}
  <2>1. P \subseteq DOMAIN Names
    BY <1>2
  <2>2. IsFiniteSet(P)
    BY <2>1, NamesHavePlaces, FS_Subset
  <2>3. QED
    BY <1>2, <1>4, <2>2
<1>6. Min(P) \in P /\ \A x \in P : Min(P) <= x
  BY <1>5, LeastAndGreatest
<1>7. PICK b \in columns : Score(b) = m /\ Place(b) = Min(P)
  BY <1>6
<1>8. Best(b)
  <2> SUFFICES ASSUME NEW u \in columns, ~(Score(u) < Score(b))
               PROVE  Score(u) = Score(b) /\ Place(b) <= Place(u)
    OBVIOUS
  <2>1. Score(u) \in Int /\ Score(u) \in L /\ m \in Int
    BY <1>1, <1>3, <1>4
  <2>2. Score(u) = m
    BY <1>4, <1>7, <2>1
  <2>3. Place(u) \in P
    BY <2>2
  <2>4. QED
    BY <1>6, <1>7, <2>2, <2>3
<1> HIDE DEF Best
<1>9. MostShared(slice, selected, columns) = CHOOSE s \in columns : Best(s)
  BY DEF MostShared, Best, Score
<1> DEFINE best == MostShared(slice, selected, columns)
<1>10. best \in columns /\ Best(best)
  BY <1>8, <1>9
<1>11. \A u \in columns : Score(u) <= Score(best)
  <2>1. \A u : Score(u) \in Int
    BY <1>1
  <2>2. QED
    BY <1>10, <2>1 DEF Best
<1>12. QED
  BY <1>10, <1>11 DEF Score

-----------------------------------------------------------------------------
(* The greedy pass                                                         *)

\* A slice of a panel is a panel, row for row.
LEMMA SliceIsAPanel ==
    ASSUME NEW frame, IsPanel(frame), NEW first \in 1 .. Len(frame),
           NEW last \in first .. Len(frame)
    PROVE  LET slice == SubSeq(frame, first, last) IN
           /\ IsPanel(slice) /\ SymbolsOf(slice) = SymbolsOf(frame)
           /\ Len(slice) = last - first + 1
           /\ \A t \in 1 .. Len(slice) : /\ first + t - 1 \in first .. last
                                         /\ Present(slice, t) = Present(frame, first + t - 1)
<1> DEFINE slice == SubSeq(frame, first, last)
           m == last - first + 1
<1>1. /\ Len(frame) \in Nat \ {0} /\ DOMAIN frame = 1 .. Len(frame)
      /\ \A t \in 1 .. Len(frame) : DOMAIN frame[t] = SymbolsOf(frame)
  BY PanelFacts DEF IsPanel
<1>2. first \in Int /\ last \in Int /\ m \in Nat \ {0} /\ first <= last
  BY <1>1
<1>3. \A i \in first .. last : frame[i] \in Range(frame)
  BY <1>1 DEF Range
<1>4. /\ slice \in Seq(Range(frame)) /\ Len(slice) = m
      /\ \A i \in 1 .. m : slice[i] = frame[first + i - 1]
  BY <1>2, <1>3, SubSeqProperties
<1> HIDE DEF slice
<1>5. DOMAIN slice = 1 .. m
  BY <1>4, LenProperties
<1>6. \A t \in 1 .. m : first + t - 1 \in first .. last /\ first + t - 1 \in 1 .. Len(frame)
  BY <1>1, <1>2
<1>7. \A t \in 1 .. m : DOMAIN slice[t] = SymbolsOf(frame)
  BY <1>1, <1>4, <1>6
<1>8. SymbolsOf(slice) = SymbolsOf(frame)
  <2>1. 1 \in 1 .. m
    BY <1>2
  <2>2. QED
    BY <1>7, <2>1 DEF SymbolsOf
<1>9. slice \in Seq(Range(slice))
  <2>1. \A t \in 1 .. m : slice[t] \in Range(slice)
    BY <1>5 DEF Range
  <2>2. slice = [t \in 1 .. m |-> slice[t]]
    BY <1>4, <1>5, LenProperties
  <2>3. slice \in [1 .. m -> Range(slice)]
    BY <2>1, <2>2
  <2>4. QED
    BY <1>2, <2>3
<1>10. IsPanel(slice)
  <2>1. slice # <<>>
    BY <1>2, <1>4
  <2>2. QED
    BY <1>5, <1>7, <1>8, <1>9, <2>1 DEF IsPanel
<1>11. \A t \in 1 .. m : Present(slice, t) = Present(frame, first + t - 1)
  BY <1>4, <1>8 DEF Present
<1>12. QED
  BY <1>4, <1>6, <1>8, <1>10, <1>11 DEF slice

\* The symbols that can join those selected, and the selection with the best.
Joining(frame, slice, selected) ==
    {s \in SymbolsOf(frame) \ selected : selected = {} \/ Shared(slice, selected \cup {s}) # {}}

Grow(frame, slice, selected) ==
    IF Joining(frame, slice, selected) = {} THEN selected
    ELSE selected \cup {MostShared(slice, selected, Joining(frame, slice, selected))}

\* The selections of the greedy pass, from none to the last.
Grown(frame, slice, minimum) ==
    CHOOSE g : g = [k \in 0 .. minimum |->
                       IF k = 0 THEN {} ELSE Grow(frame, slice, g[k - 1])]

\* The greedy pass is the last of the selections it grows one by one.
LEMMA GreedyBySelections ==
    ASSUME NEW frame, IsPanel(frame), NEW slice, IsPanel(slice), NEW minimum \in Nat
    PROVE  LET g == Grown(frame, slice, minimum) IN
           /\ g \in [0 .. minimum -> SUBSET SymbolsOf(frame)] /\ g[0] = {}
           /\ \A k \in 1 .. minimum : g[k] = Grow(frame, slice, g[k - 1])
<1> DEFINE S == SUBSET SymbolsOf(frame)
           IsGrown(f) ==
               f = [k \in 0 .. minimum |-> IF k = 0 THEN {} ELSE Grow(frame, slice, f[k - 1])]
           g == Grown(frame, slice, minimum)
           step == [k \in 1 .. minimum |-> [X \in S |-> Grow(frame, slice, X)]]
<1>0. \A X \in S : Grow(frame, slice, X) \in S
  <2> SUFFICES ASSUME NEW X \in S, Joining(frame, slice, X) # {}
               PROVE  MostShared(slice, X, Joining(frame, slice, X)) \in SymbolsOf(frame)
    BY DEF Grow
  <2>1. Joining(frame, slice, X) \subseteq SymbolsOf(frame)
    BY DEF Joining
  <2>2. Joining(frame, slice, X) \in SUBSET Range(Names)
    BY <2>1 DEF IsPanel
  <2>3. QED
    BY <2>1, <2>2, MostSharedIs
<1>1. step \in [1 .. minimum -> [S -> S]] /\ {} \in S
  BY <1>0
<1>2. \A k \in 1 .. minimum, X \in S : step[k][X] = Grow(frame, slice, X)
  OBVIOUS
<1> HIDE DEF step, S
<1>3. PICK e \in [0 .. minimum -> S] : Follows(e, 0 .. minimum, {}, step)
  BY <1>1, Recursion
<1>4. ASSUME NEW k \in 1 .. minimum PROVE e[k] = Grow(frame, slice, e[k - 1])
  <2>1. k \in (0 .. minimum) \ {0} /\ k - 1 \in 0 .. minimum /\ e[k - 1] \in S
    OBVIOUS
  <2>2. e[k] = step[k][e[k - 1]]
    BY <1>3, <2>1 DEF Follows
  <2>3. QED
    BY <1>2, <2>1, <2>2
<1>5. IsGrown(e)
  <2>1. \A k \in 0 .. minimum : k = 0 \/ k \in 1 .. minimum
    OBVIOUS
  <2>2. QED
    BY <1>3, <1>4, <2>1 DEF Follows
<1>6. IsGrown(g)
  <2>1. g = CHOOSE f : IsGrown(f)
    BY DEF Grown
  <2> HIDE DEF IsGrown
  <2>2. QED
    BY <1>5, <2>1
<1> HIDE DEF g
<1>7. /\ g[0] = {}
      /\ \A k \in 1 .. minimum : g[k] = Grow(frame, slice, g[k - 1])
      /\ g = [k \in 0 .. minimum |-> g[k]]
  <2>1. 0 \in 0 .. minimum /\ \A k \in 1 .. minimum : k \in 0 .. minimum /\ k # 0
    OBVIOUS
  <2>2. QED
    BY <1>6, <2>1
<1>8. \A k \in 0 .. minimum : g[k] \in S
  <2> DEFINE T == {k \in Nat : k <= minimum => g[k] \in S}
  <2>1. 0 \in T
    BY <1>1, <1>7
  <2>2. ASSUME NEW k \in Nat, k \in T PROVE k + 1 \in T
    <3> SUFFICES ASSUME k + 1 <= minimum PROVE g[k + 1] \in S
      OBVIOUS
    <3>1. k + 1 \in 1 .. minimum /\ (k + 1) - 1 = k /\ g[k] \in S
      BY <2>2
    <3>2. g[k + 1] = Grow(frame, slice, g[k])
      BY <1>7, <3>1
    <3>3. QED
      BY <1>0, <3>1, <3>2 DEF S
  <2> HIDE DEF T
  <2>3. Nat \subseteq T
    BY <2>1, <2>2, Induction
  <2>4. \A k \in 0 .. minimum : k \in Nat /\ k <= minimum
    OBVIOUS
  <2>5. QED
    BY <2>3, <2>4 DEF T
<1> HIDE DEF IsGrown
<1>9. g \in [0 .. minimum -> S]
  BY <1>7, <1>8
<1>10. QED
  BY <1>7, <1>9 DEF g, S

\* On rows that are crowded enough the pass finds a symbol at every turn, and
\* those selected share a row: the row has a symbol more than they are.
LEMMA GreedySelects ==
    ASSUME NEW frame, IsPanel(frame), NEW slice, IsPanel(slice),
           SymbolsOf(slice) = SymbolsOf(frame), NEW minimum \in Nat \ {0},
           \A t \in 1 .. Len(slice) : Cardinality(Present(slice, t)) >= minimum
    PROVE  LET selected == Grown(frame, slice, minimum)[minimum] IN
           /\ selected \subseteq SymbolsOf(frame) /\ Cardinality(selected) = minimum
           /\ Shared(slice, selected) # {}
<1> DEFINE g == Grown(frame, slice, minimum)
           Good(k) == Cardinality(g[k]) = k /\ Shared(slice, g[k]) # {}
           T == {k \in Nat : k <= minimum => Good(k)}
<1>1. /\ g \in [0 .. minimum -> SUBSET SymbolsOf(frame)] /\ g[0] = {}
      /\ \A k \in 1 .. minimum : g[k] = Grow(frame, slice, g[k - 1])
  BY GreedyBySelections
<1> HIDE DEF g
<1>2. DOMAIN slice = 1 .. Len(slice) /\ Len(slice) \in Nat \ {0} /\ IsFiniteSet(SymbolsOf(frame))
  BY PanelFacts
<1>3. 0 \in T
  <2>1. 1 \in Shared(slice, {})
    BY <1>2 DEF Shared
  <2>2. QED
    BY <1>1, <2>1, FS_EmptySet
<1>4. ASSUME NEW k \in Nat, k \in T PROVE k + 1 \in T
  <2> SUFFICES ASSUME k + 1 <= minimum PROVE Good(k + 1)
    OBVIOUS
  <2> DEFINE X == g[k]
             J == Joining(frame, slice, X)
             best == MostShared(slice, X, J)
  <2>1. k \in 0 .. minimum /\ k + 1 \in 1 .. minimum /\ (k + 1) - 1 = k /\ k < minimum
    OBVIOUS
  <2>2. X \subseteq SymbolsOf(frame) /\ Cardinality(X) = k /\ Shared(slice, X) # {}
    BY <1>1, <1>4, <2>1
  <2>3. g[k + 1] = Grow(frame, slice, X)
    BY <1>1, <2>1
  <2> HIDE DEF X
  <2>4. IsFiniteSet(X)
    BY <1>2, <2>2, FS_Subset
  <2>5. PICK t \in Shared(slice, X) : TRUE
    BY <2>2
  <2>6. t \in DOMAIN slice /\ X \subseteq Present(slice, t) /\ Cardinality(Present(slice, t)) >= minimum
    BY <1>2, <2>5 DEF Shared
  <2>7. PICK s \in Present(slice, t) : s \notin X
    <3>1. Present(slice, t) # X
      BY <2>1, <2>2, <2>6
    <3>2. QED
      BY <2>6, <3>1
  <2>8. t \in Shared(slice, X \cup {s})
    BY <2>6, <2>7 DEF Shared
  <2>9. s \in J
    <3>1. s \in SymbolsOf(frame)
      BY <2>7 DEF Present
    <3>2. QED
      BY <2>7, <2>8, <3>1 DEF Joining
  <2>10. J \in SUBSET Range(Names) /\ J \subseteq SymbolsOf(frame) \ X
    BY DEF Joining, IsPanel
  <2>11. best \in J /\ Cardinality(Shared(slice, X \cup {s})) <= Cardinality(Shared(slice, X \cup {best}))
    BY <2>9, <2>10, MostSharedIs
  <2>12. g[k + 1] = X \cup {best}
    BY <2>3, <2>9 DEF Grow
  <2> HIDE DEF best, J
  <2>13. Shared(slice, X \cup {best}) # {}
    <3>1. \A Y : IsFiniteSet(Shared(slice, Y))
      BY PanelFacts
    <3>2. Cardinality(Shared(slice, X \cup {s})) \in Nat /\ Cardinality(Shared(slice, X \cup {s})) # 0
      BY <2>8, <3>1, FS_EmptySet, FS_CardinalityType
    <3>3. Cardinality(Shared(slice, X \cup {best})) \in Nat
      BY <3>1, FS_CardinalityType
    <3>4. Cardinality(Shared(slice, X \cup {best})) # 0
      BY <2>11, <3>2, <3>3
    <3>5. QED
      BY <3>4, FS_EmptySet
  <2>14. Cardinality(X \cup {best}) = k + 1
    <3>1. best \notin X
      BY <2>10, <2>11
    <3>2. QED
      BY <2>2, <2>4, <3>1, FS_AddElement
  <2>15. QED
    BY <2>12, <2>13, <2>14
<1> HIDE DEF T, Good
<1>5. minimum \in T
  BY <1>3, <1>4, Induction
<1>6. Good(minimum) /\ g[minimum] \subseteq SymbolsOf(frame)
  BY <1>1, <1>5 DEF T
<1>7. QED
  BY <1>6 DEF Good, g

-----------------------------------------------------------------------------
(* The shared window                                                       *)

\* The symbols that have a price on every row of a run.
Spanning(frame, run) ==
    {s \in SymbolsOf(frame) : run.first .. run.last \subseteq Shared(frame, {s})}

\* The candidates are enough symbols that share a row; and all those that span
\* the run, if these are enough.
LEMMA CandidatesShare ==
    ASSUME NEW frame, IsPanel(frame), NEW minimum \in Nat \ {0},
           NEW run \in Runs(Crowded(frame, minimum))
    PROVE  LET symbols == Candidates(frame, run, minimum)
               spanning == Spanning(frame, run)
           IN  /\ symbols \subseteq SymbolsOf(frame) /\ Cardinality(symbols) \in Nat
               /\ Cardinality(symbols) >= minimum /\ Shared(frame, symbols) # {}
               /\ Cardinality(spanning) >= minimum =>
                     symbols = spanning /\ run.first .. run.last \subseteq Shared(frame, symbols)
<1> DEFINE complete == {s \in SymbolsOf(frame) : \A t \in run.first .. run.last : s \in Present(frame, t)}
           symbols == Candidates(frame, run, minimum)
           slice == SubSeq(frame, run.first, run.last)
           grown == Grown(frame, slice, minimum)[minimum]
<1>1. /\ DOMAIN frame = 1 .. Len(frame) /\ Len(frame) \in Nat \ {0}
      /\ Crowded(frame, minimum) \in SUBSET Int /\ Crowded(frame, minimum) \subseteq 1 .. Len(frame)
      /\ IsFiniteSet(SymbolsOf(frame))
  BY PanelFacts
<1>2. /\ run.first \in Int /\ run.last \in Int /\ run.first <= run.last
      /\ run.first .. run.last \subseteq Crowded(frame, minimum)
  BY <1>1, RunValues
<1>3. run.first .. run.last \subseteq DOMAIN frame
  BY <1>1, <1>2
<1>4. complete = Spanning(frame, run)
  <2>1. ASSUME NEW s PROVE (run.first .. run.last \subseteq Shared(frame, {s}))
                              <=> \A t \in run.first .. run.last : s \in Present(frame, t)
    BY <1>3 DEF Shared
  <2>2. QED
    BY <2>1 DEF Spanning
<1>5. run.first .. run.last \subseteq Shared(frame, complete)
  BY <1>3 DEF Shared
<1>6. symbols = IF Cardinality(complete) >= minimum THEN complete ELSE GreedySubset(frame, run, minimum)
  BY DEF Candidates
<1>7. GreedySubset(frame, run, minimum) = grown
  BY DEF GreedySubset, Grown, Grow, Joining
<1>8. run.first \in 1 .. Len(frame) /\ run.last \in run.first .. Len(frame)
  <2>1. run.first \in run.first .. run.last /\ run.last \in run.first .. run.last
    BY <1>2
  <2>2. QED
    BY <1>1, <1>2, <1>3, <2>1
<1>9. /\ IsPanel(slice) /\ SymbolsOf(slice) = SymbolsOf(frame)
      /\ \A t \in 1 .. Len(slice) : /\ run.first + t - 1 \in run.first .. run.last
                                    /\ Present(slice, t) = Present(frame, run.first + t - 1)
  BY <1>8, SliceIsAPanel
<1> HIDE DEF complete, symbols, slice
<1>10. \A t \in 1 .. Len(slice) : Cardinality(Present(slice, t)) >= minimum
  BY <1>2, <1>9 DEF Crowded
<1>11. grown \subseteq SymbolsOf(frame) /\ Cardinality(grown) = minimum /\ Shared(slice, grown) # {}
  BY <1>9, <1>10, GreedySelects
<1> HIDE DEF grown
<1>12. Shared(frame, grown) # {}
  <2>1. PICK t \in Shared(slice, grown) : TRUE
    BY <1>11
  <2>2. t \in 1 .. Len(slice) /\ grown \subseteq Present(slice, t)
    BY <1>9, <2>1, PanelFacts DEF Shared
  <2>3. run.first + t - 1 \in DOMAIN frame /\ grown \subseteq Present(frame, run.first + t - 1)
    BY <1>3, <1>9, <2>2
  <2>4. QED
    BY <2>3 DEF Shared
<1>13. CASE Cardinality(complete) >= minimum
  <2>1. symbols = complete /\ complete \subseteq SymbolsOf(frame)
    BY <1>6, <1>13 DEF complete
  <2>2. IsFiniteSet(complete)
    BY <1>1, <2>1, FS_Subset
  <2>3. Cardinality(complete) \in Nat
    BY <2>2, FS_CardinalityType
  <2>4. run.first \in run.first .. run.last
    BY <1>2
  <2>5. Shared(frame, complete) # {}
    BY <1>5, <2>4
  <2>6. QED
    BY <1>4, <1>5, <1>13, <2>1, <2>3, <2>5 DEF symbols
<1>14. CASE ~(Cardinality(complete) >= minimum)
  BY <1>4, <1>6, <1>7, <1>11, <1>12, <1>14 DEF symbols
<1>15. QED
  BY <1>13, <1>14

\* What SharedWindowIsSound says of the window of a panel.
LEMMA WindowOfAPanel ==
    ASSUME NEW frame, IsPanel(frame), NEW minimum \in Nat \ {0}, Crowded(frame, minimum) # {}
    PROVE  LET best == BestSharedWindow(frame, minimum)
               run  == LongestRun(Crowded(frame, minimum))
           IN  /\ best # NoValue /\ best.symbols \subseteq SymbolsOf(frame)
               /\ Cardinality(best.symbols) >= minimum /\ Rows(best) \in Nat \ {0}
               /\ best.first .. best.last \subseteq Shared(frame, best.symbols)
               /\ \A other \in Runs(Shared(frame, best.symbols)) : Rows(other) <= Rows(best)
               /\ Cardinality(Spanning(frame, run)) >= minimum =>
                     \A symbols \in SUBSET SymbolsOf(frame) :
                        Cardinality(symbols) >= minimum =>
                           \A other \in Runs(Shared(frame, symbols)) : Rows(other) <= Rows(best)
<1> DEFINE best == BestSharedWindow(frame, minimum)
           run == LongestRun(Crowded(frame, minimum))
           symbols == Candidates(frame, run, minimum)
           refined == LongestRun(Shared(frame, symbols))
<1>1. /\ \A X : IsFiniteSet(Shared(frame, X)) /\ Shared(frame, X) \in SUBSET Int
      /\ IsFiniteSet(Crowded(frame, minimum)) /\ Crowded(frame, minimum) \in SUBSET Int
      /\ \A t : IsFiniteSet(Present(frame, t)) /\ Cardinality(Present(frame, t)) \in Nat
  BY PanelFacts
<1>2. /\ run \in Runs(Crowded(frame, minimum)) /\ run # NoValue
      /\ \A other \in Runs(Crowded(frame, minimum)) : Rows(other) <= Rows(run)
  BY <1>1, LongestRunIs
<1>3. /\ symbols \subseteq SymbolsOf(frame) /\ Cardinality(symbols) \in Nat
      /\ Cardinality(symbols) >= minimum /\ Shared(frame, symbols) # {}
      /\ Cardinality(Spanning(frame, run)) >= minimum =>
            run.first .. run.last \subseteq Shared(frame, symbols)
  BY <1>2, CandidatesShare
<1>4. /\ refined \in Runs(Shared(frame, symbols)) /\ refined # NoValue
      /\ \A other \in Runs(Shared(frame, symbols)) : Rows(other) <= Rows(refined)
  BY <1>1, <1>3, LongestRunIs
<1>5. best = IF run = NoValue THEN NoValue
             ELSE IF Cardinality(symbols) < minimum \/ refined = NoValue THEN NoValue
             ELSE [first |-> refined.first, last |-> refined.last, symbols |-> symbols]
  BY DEF BestSharedWindow
<1> HIDE DEF best, run, symbols, refined
<1>6. best = [first |-> refined.first, last |-> refined.last, symbols |-> symbols]
  BY <1>2, <1>3, <1>4, <1>5
<1>7. best.symbols = symbols /\ best.first = refined.first /\ best.last = refined.last
      /\ Rows(best) = Rows(refined)
  BY <1>6 DEF Rows
<1>8. /\ refined.first \in Int /\ refined.last \in Int /\ Rows(refined) \in Nat \ {0}
      /\ refined.first .. refined.last \subseteq Shared(frame, symbols)
  BY <1>1, <1>4, RunValues
<1>9. best # NoValue
  <2>1. symbols \in SUBSET Range(Names)
    BY <1>3 DEF IsPanel
  <2>2. best \in [first : Int, last : Int, symbols : SUBSET Range(Names)]
    BY <1>6, <1>8, <2>1
  <2>3. QED
    BY <2>2, NoValueIsNoRun
<1>10. ASSUME Cardinality(Spanning(frame, run)) >= minimum,
              NEW X \in SUBSET SymbolsOf(frame), Cardinality(X) >= minimum,
              NEW other \in Runs(Shared(frame, X))
       PROVE  Rows(other) <= Rows(best)
  <2>1. Shared(frame, X) \subseteq Crowded(frame, minimum)
    <3> SUFFICES ASSUME NEW t \in Shared(frame, X)
                 PROVE  Cardinality(Present(frame, t)) >= minimum /\ t \in DOMAIN frame
      BY DEF Crowded
    <3>1. t \in DOMAIN frame /\ X \subseteq Present(frame, t)
      BY DEF Shared
    <3>2. IsFiniteSet(X) /\ Cardinality(X) <= Cardinality(Present(frame, t))
      BY <1>1, <3>1, FS_Subset
    <3>3. Cardinality(X) \in Nat /\ Cardinality(Present(frame, t)) \in Nat
      BY <1>1, <3>2, FS_CardinalityType
    <3>4. QED
      BY <1>10, <3>1, <3>2, <3>3
  <2>2. /\ other.first \in Int /\ other.last \in Int /\ other.first <= other.last
        /\ other.first .. other.last \subseteq Shared(frame, X)
    BY <1>1, RunValues
  <2>3. PICK wide \in Runs(Crowded(frame, minimum)) :
            wide.first <= other.first /\ other.last <= wide.last
    BY <1>1, <2>1, <2>2, IntervalInARun
  <2>4. wide.first \in Int /\ wide.last \in Int
    BY <1>1, RunValues
  <2>5. run.first \in Int /\ run.last \in Int /\ run.first <= run.last
    BY <1>1, <1>2, RunValues
  <2>6. run.first .. run.last \subseteq Shared(frame, symbols)
    BY <1>3, <1>10
  <2>7. PICK long \in Runs(Shared(frame, symbols)) :
            long.first <= run.first /\ run.last <= long.last
    BY <1>1, <2>5, <2>6, IntervalInARun
  <2>8. long.first \in Int /\ long.last \in Int
    BY <1>1, RunValues
  <2>9. Rows(other) <= Rows(wide) /\ Rows(wide) <= Rows(run)
    BY <1>2, <2>2, <2>3, <2>4 DEF Rows
  <2>10. Rows(run) <= Rows(long) /\ Rows(long) <= Rows(refined)
    BY <1>4, <2>5, <2>7, <2>8 DEF Rows
  <2>11. Rows(other) \in Int /\ Rows(wide) \in Int /\ Rows(run) \in Int /\ Rows(long) \in Int
    BY <2>2, <2>4, <2>5, <2>8 DEF Rows
  <2>12. QED
    BY <1>7, <1>8, <2>9, <2>10, <2>11
<1>11. /\ best # NoValue /\ best.symbols \subseteq SymbolsOf(frame)
       /\ Cardinality(best.symbols) >= minimum /\ Rows(best) \in Nat \ {0}
       /\ best.first .. best.last \subseteq Shared(frame, best.symbols)
       /\ \A other \in Runs(Shared(frame, best.symbols)) : Rows(other) <= Rows(best)
  BY <1>3, <1>4, <1>7, <1>8, <1>9
<1>12. Cardinality(Spanning(frame, run)) >= minimum =>
          \A X \in SUBSET SymbolsOf(frame) :
             Cardinality(X) >= minimum =>
                \A other \in Runs(Shared(frame, X)) : Rows(other) <= Rows(best)
  BY <1>10
<1>13. QED
  BY <1>11, <1>12 DEF best, run

-----------------------------------------------------------------------------
(* Expressions                                                             *)

\* The nodes of an expression.
LEMMA ExpressionNodes ==
    ASSUME NEW names, NEW e, IsExpression(e, names)
    PROVE  /\ Len(e) \in Nat \ {0} /\ DOMAIN e = 1 .. Len(e) /\ Len(e) \in 1 .. Len(e)
           /\ \A k \in 1 .. Len(e) :
                 \/ /\ e[k].op = "symbol" /\ e[k].name \in names /\ e[k] = Symbol(e[k].name)
                 \/ /\ e[k].op \in Operations /\ e[k].op # "symbol"
                    /\ e[k].left \in 1 .. k - 1 /\ e[k].right \in 1 .. k - 1
<1>1. e \in Seq(Range(e)) /\ e # <<>>
  BY DEF IsExpression
<1>2. Len(e) \in Nat /\ DOMAIN e = 1 .. Len(e) /\ Len(e) # 0
  BY <1>1, LenProperties, EmptySeq
<1>3. ASSUME NEW k \in 1 .. Len(e)
      PROVE  \/ /\ e[k].op = "symbol" /\ e[k].name \in names /\ e[k] = Symbol(e[k].name)
             \/ /\ e[k].op \in Operations /\ e[k].op # "symbol"
                /\ e[k].left \in 1 .. k - 1 /\ e[k].right \in 1 .. k - 1
  <2>1. CASE \E name \in names : e[k] = Symbol(name)
    BY <2>1 DEF Symbol
  <2>2. CASE \E op \in Operations, i, j \in 1 .. k - 1 : e[k] = Node(op, i, j)
    BY <2>2 DEF Node, Operations
  <2>3. QED
    BY <1>2, <1>3, <2>1, <2>2 DEF IsExpression
<1>4. QED
  BY <1>2, <1>3

\* The exponents of a symbol in the nodes.
AreExponents(x, e, name) ==
    /\ x \in [1 .. Len(e) -> Int]
    /\ \A k \in 1 .. Len(e) : x[k] = ExponentInNode(e[k], name, x[e[k].left], x[e[k].right])

\* Each symbol has an exponent at every node, and the expression's is the last one's.
LEMMA ExponentsOfNodes ==
    ASSUME NEW names, NEW e, IsExpression(e, names), NEW name
    PROVE  \E x : AreExponents(x, e, name) /\ Exponent(e, name) = x[Len(e)]
<1> DEFINE n == Len(e)
           Leaves == {k \in 1 .. n : e[k].op = "symbol"}
           leaf == [k \in 1 .. n |-> IF e[k].name = name THEN 1 ELSE 0]
           left == [k \in 1 .. n |-> e[k].left]
           right == [k \in 1 .. n |-> e[k].right]
           step == [k \in 1 .. n |-> [l \in Int |-> [r \in Int |->
                       IF e[k].op = "*" THEN l + r ELSE l - r]]]
           Recurs(f) == f = [k \in DOMAIN e |->
                                ExponentInNode(e[k], name, f[e[k].left], f[e[k].right])]
           exponent == CHOOSE f : Recurs(f)
<1>1. n \in Nat /\ n \in 1 .. n /\ DOMAIN e = 1 .. n
  BY ExpressionNodes
<1>2. \A k \in 1 .. n :
         \/ k \in Leaves
         \/ /\ e[k].op # "symbol"
            /\ left[k] \in 1 .. k - 1 /\ right[k] \in 1 .. k - 1
  BY ExpressionNodes
<1>3. leaf \in [1 .. n -> Int] /\ step \in [1 .. n -> [Int -> [Int -> Int]]]
  OBVIOUS
<1>4. \A k \in 1 .. n, l, r \in Int : step[k][l][r] = IF e[k].op = "*" THEN l + r ELSE l - r
  OBVIOUS
<1>5. \A k \in (1 .. n) \ Leaves : left[k] \in 1 .. k - 1 /\ right[k] \in 1 .. k - 1
  BY <1>2
<1>6. PICK x \in [1 .. n -> Int] : FollowsTree(x, n, Leaves, leaf, step, left, right)
  <2> HIDE DEF n, Leaves, leaf, left, right, step, Recurs
  <2>1. QED
    BY <1>1, <1>3, <1>5, TreeRecursion
<1>7. ASSUME NEW k \in 1 .. n
      PROVE  x[k] = ExponentInNode(e[k], name, x[e[k].left], x[e[k].right])
  <2>1. CASE k \in Leaves
    BY <1>6, <2>1 DEF ExponentInNode, FollowsTree
  <2>2. CASE k \notin Leaves
    <3>1. e[k].op # "symbol" /\ left[k] \in 1 .. n /\ right[k] \in 1 .. n
      BY <1>1, <1>2, <2>2
    <3>2. x[left[k]] \in Int /\ x[right[k]] \in Int
      BY <3>1
    <3>3. x[k] = step[k][x[left[k]]][x[right[k]]]
      BY <1>6, <2>2 DEF FollowsTree
    <3>4. x[k] = IF e[k].op = "*" THEN x[left[k]] + x[right[k]] ELSE x[left[k]] - x[right[k]]
      BY <1>4, <3>2, <3>3
    <3>5. QED
      BY <3>1, <3>4 DEF ExponentInNode
  <2>3. QED
    BY <2>1, <2>2
<1>8. Recurs(x)
  BY <1>1, <1>7
<1>9. Recurs(exponent)
  <2> HIDE DEF Recurs
  <2>1. QED
    BY <1>8
<1>10. Exponent(e, name) = exponent[n]
  BY DEF Exponent
<1> HIDE DEF exponent
<1>11. ASSUME NEW f, Recurs(f), NEW g, Recurs(g), NEW k \in 1 .. n PROVE f[k] = g[k]
  <2> DEFINE T == {j \in 1 .. n : f[j] = g[j]}
  <2>1. ASSUME NEW j \in 1 .. n, \A i \in 1 .. j - 1 : i \in T PROVE j \in T
    <3>1. e[j].op # "symbol" => f[e[j].left] = g[e[j].left] /\ f[e[j].right] = g[e[j].right]
      BY <1>2, <2>1
    <3>2. /\ f[j] = ExponentInNode(e[j], name, f[e[j].left], f[e[j].right])
          /\ g[j] = ExponentInNode(e[j], name, g[e[j].left], g[e[j].right])
      BY <1>1, <1>11
    <3>3. QED
      BY <3>1, <3>2 DEF ExponentInNode
  <2> HIDE DEF T
  <2>2. k \in T
    BY <1>1, <2>1, TreeInduction
  <2>3. QED
    BY <2>2 DEF T
<1>12. exponent[n] = x[n]
  <2> HIDE DEF Recurs
  <2>1. QED
    BY <1>1, <1>8, <1>9, <1>11
<1>13. QED
  BY <1>7, <1>10, <1>12 DEF AreExponents

\* Pairs of a numerator and a denominator, zero or not.
Pair == [num : Int, den : Int]

\* The operations on pairs give pairs.
LEMMA PairsOfPairs ==
    ASSUME NEW a \in Pair, NEW b \in Pair
    PROVE  /\ None \in Pair /\ Plus(a, b) \in Pair /\ Minus(a, b) \in Pair
           /\ Times(a, b) \in Pair /\ Over(a, b) \in Pair
<1>1. a.num \in Int /\ a.den \in Int /\ b.num \in Int /\ b.den \in Int
  BY DEF Pair
<1>2. \A x, y \in Int : [num |-> x, den |-> y] \in Pair
  BY DEF Pair
<1>3. /\ a.num * b.num \in Int /\ a.den * b.den \in Int
      /\ a.num * b.den \in Int /\ a.den * b.num \in Int /\ b.num * a.den \in Int
  BY <1>1
<1>4. None \in Pair
  BY <1>2 DEF None
<1>5. Plus(a, b) \in Pair
  BY <1>2, <1>3 DEF Plus
<1>6. Minus(a, b) \in Pair
  BY <1>2, <1>3 DEF Minus
<1>7. Times(a, b) \in Pair
  BY <1>2, <1>3 DEF Times
<1>8. Over(a, b) \in Pair
  BY <1>2, <1>3, <1>4 DEF Over
<1>9. QED
  BY <1>4, <1>5, <1>6, <1>7, <1>8

\* The values of the nodes at some prices.
AreValues(x, e, price) ==
    /\ x \in [1 .. Len(e) -> Pair]
    /\ \A k \in 1 .. Len(e) : x[k] = ValueOfNode(e[k], price, x[e[k].left], x[e[k].right])

\* Each node has a value at given prices, and the expression's is the last one's.
LEMMA ValuesOfNodes ==
    ASSUME NEW names, NEW e, IsExpression(e, names), NEW price \in [names -> Int]
    PROVE  \E x : AreValues(x, e, price) /\ ValueAt(e, price) = x[Len(e)]
<1> DEFINE n == Len(e)
           Leaves == {k \in 1 .. n : e[k].op = "symbol"}
           leaf == [k \in 1 .. n |->
                       IF k \in Leaves THEN [num |-> price[e[k].name], den |-> 1] ELSE None]
           left == [k \in 1 .. n |-> e[k].left]
           right == [k \in 1 .. n |-> e[k].right]
           step == [k \in 1 .. n |-> [l \in Pair |-> [r \in Pair |->
                       IF k \in Leaves THEN None ELSE ValueOfNode(e[k], price, l, r)]]]
           Recurs(f) == f = [k \in DOMAIN e |->
                                ValueOfNode(e[k], price, f[e[k].left], f[e[k].right])]
           value == CHOOSE f : Recurs(f)
<1>1. n \in Nat /\ n \in 1 .. n /\ DOMAIN e = 1 .. n
  BY ExpressionNodes
<1>2. \A k \in 1 .. n :
         \/ k \in Leaves /\ e[k].op = "symbol" /\ e[k].name \in names
         \/ /\ k \notin Leaves /\ e[k].op # "symbol" /\ e[k].op \in Operations
            /\ left[k] \in 1 .. k - 1 /\ right[k] \in 1 .. k - 1
            /\ left[k] = e[k].left /\ right[k] = e[k].right
  BY ExpressionNodes
<1>3. None \in Pair
  BY DEF None, Pair
<1>4. leaf \in [1 .. n -> Pair]
  <2>1. ASSUME NEW k \in Leaves PROVE [num |-> price[e[k].name], den |-> 1] \in Pair
    <3>1. price[e[k].name] \in Int
      BY <1>2
    <3>2. QED
      BY <3>1 DEF Pair
  <2>2. QED
    BY <1>3, <2>1
<1>5. step \in [1 .. n -> [Pair -> [Pair -> Pair]]]
  <2>1. ASSUME NEW k \in (1 .. n) \ Leaves, NEW l \in Pair, NEW r \in Pair
        PROVE  ValueOfNode(e[k], price, l, r) \in Pair
    <3>1. e[k].op \in Operations
      BY <1>2
    <3>2. /\ Plus(l, r) \in Pair /\ Minus(l, r) \in Pair
          /\ Times(l, r) \in Pair /\ Over(l, r) \in Pair
      BY PairsOfPairs
    <3>3. QED
      BY <3>1, <3>2 DEF ValueOfNode, Operations
  <2>2. QED
    BY <1>3, <2>1
<1>6. \A k \in (1 .. n) \ Leaves, l, r \in Pair : step[k][l][r] = ValueOfNode(e[k], price, l, r)
  OBVIOUS
<1>7. \A k \in (1 .. n) \ Leaves : left[k] \in 1 .. k - 1 /\ right[k] \in 1 .. k - 1
  BY <1>2
<1>8. \A k \in Leaves : leaf[k] = [num |-> price[e[k].name], den |-> 1]
  OBVIOUS
<1> HIDE DEF leaf, step
<1>9. PICK x \in [1 .. n -> Pair] : FollowsTree(x, n, Leaves, leaf, step, left, right)
  <2> HIDE DEF n, Leaves, left, right, Recurs
  <2>1. QED
    BY <1>1, <1>4, <1>5, <1>7, TreeRecursion
<1>10. ASSUME NEW k \in 1 .. n
       PROVE  x[k] = ValueOfNode(e[k], price, x[e[k].left], x[e[k].right])
  <2>1. CASE k \in Leaves
    <3>1. x[k] = [num |-> price[e[k].name], den |-> 1]
      BY <1>8, <1>9, <2>1 DEF FollowsTree
    <3>2. QED
      BY <1>2, <2>1, <3>1 DEF ValueOfNode
  <2>2. CASE k \notin Leaves
    <3>1. /\ left[k] \in 1 .. n /\ right[k] \in 1 .. n
          /\ left[k] = e[k].left /\ right[k] = e[k].right
      BY <1>1, <1>2, <2>2
    <3>2. x[left[k]] \in Pair /\ x[right[k]] \in Pair
      BY <3>1
    <3>3. x[k] = step[k][x[left[k]]][x[right[k]]]
      BY <1>9, <2>2 DEF FollowsTree
    <3>4. x[k] = ValueOfNode(e[k], price, x[left[k]], x[right[k]])
      BY <1>6, <2>2, <3>2, <3>3
    <3>5. QED
      BY <3>1, <3>4
  <2>3. QED
    BY <2>1, <2>2
<1>11. Recurs(x)
  BY <1>1, <1>10
<1>12. Recurs(value)
  <2> HIDE DEF Recurs
  <2>1. QED
    BY <1>11
<1>13. ValueAt(e, price) = value[n]
  BY DEF ValueAt
<1> HIDE DEF value
<1>14. \A k \in 1 .. n : value[k] = x[k]
  <2> DEFINE T == {j \in 1 .. n : value[j] = x[j]}
  <2>1. ASSUME NEW j \in 1 .. n, \A i \in 1 .. j - 1 : i \in T PROVE j \in T
    <3>1. e[j].op # "symbol" => value[e[j].left] = x[e[j].left] /\ value[e[j].right] = x[e[j].right]
      BY <1>2, <2>1
    <3>2. /\ value[j] = ValueOfNode(e[j], price, value[e[j].left], value[e[j].right])
          /\ x[j] = ValueOfNode(e[j], price, x[e[j].left], x[e[j].right])
      BY <1>1, <1>11, <1>12
    <3>3. value[j] = x[j]
      <4>1. CASE e[j].op = "symbol"
        BY <3>2, <4>1 DEF ValueOfNode
      <4>2. CASE e[j].op # "symbol"
        BY <3>1, <3>2, <4>2
      <4>3. QED
        BY <4>1, <4>2
    <3>4. QED
      BY <3>3
  <2> HIDE DEF T
  <2>2. \A k \in 1 .. n : k \in T
    BY <1>1, <2>1, TreeInduction
  <2>3. QED
    BY <2>2 DEF T
<1>15. QED
  BY <1>1, <1>10, <1>13, <1>14 DEF AreValues

\* The forms of the nodes.
AreForms(x, e) ==
    \A k \in 1 .. Len(e) : x[k] = FormOfNode(e[k], x[e[k].left], x[e[k].right])

\* Each node has a form, and the expression's canonical form is the last one's.
LEMMA FormsOfNodes ==
    ASSUME NEW names, NEW e, IsExpression(e, names)
    PROVE  \E x : AreForms(x, e) /\ Canonical(e) = x[Len(e)].canonical
<1> DEFINE n == Len(e)
           Local(f, k) == f[k] = FormOfNode(e[k], f[e[k].left], f[e[k].right])
           Good(m, f) == DOMAIN f = 1 .. n /\ \A k \in 1 .. n : k <= m => Local(f, k)
           T == {m \in Nat : m <= n => \E f : Good(m, f)}
           Recurs(f) == f = [k \in DOMAIN e |-> FormOfNode(e[k], f[e[k].left], f[e[k].right])]
           form == CHOOSE f : Recurs(f)
<1>1. n \in Nat /\ n \in 1 .. n /\ DOMAIN e = 1 .. n
  BY ExpressionNodes
<1>2. \A k \in 1 .. n : \/ e[k].op = "symbol"
                        \/ e[k].left \in 1 .. k - 1 /\ e[k].right \in 1 .. k - 1
  BY ExpressionNodes
<1> HIDE DEF n
<1>3. ASSUME NEW k \in 1 .. n, NEW l, NEW r, NEW x, NEW y,
             e[k].op = "symbol" \/ (l = x /\ r = y)
      PROVE  FormOfNode(e[k], l, r) = FormOfNode(e[k], x, y)
  <2>1. CASE e[k].op = "symbol"
    BY <2>1 DEF FormOfNode
  <2>2. QED
    BY <1>3, <2>1
<1>4. 0 \in T
  <2>1. Good(0, [k \in 1 .. n |-> 0])
    BY <1>1
  <2> HIDE DEF Good
  <2>2. QED
    BY <2>1
<1>5. ASSUME NEW m \in Nat, m \in T PROVE m + 1 \in T
  <2> HIDE DEF Good
  <2> SUFFICES ASSUME m + 1 <= n PROVE \E f : Good(m + 1, f)
    OBVIOUS
  <2>1. PICK f : Good(m, f)
    BY <1>1, <1>5
  <2> DEFINE j == m + 1
             new == FormOfNode(e[j], f[e[j].left], f[e[j].right])
             g == [k \in 1 .. n |-> IF k = j THEN new ELSE f[k]]
  <2> HIDE DEF new
  <2>2. DOMAIN g = 1 .. n /\ g[j] = new /\ \A k \in 1 .. n : k <= m => g[k] = f[k]
    BY <1>1
  <2> HIDE DEF g
  <2>3. ASSUME NEW k \in 1 .. n, k <= m + 1 PROVE Local(g, k)
    <3>1. e[k].op # "symbol" => g[e[k].left] = f[e[k].left] /\ g[e[k].right] = f[e[k].right]
      <4>1. e[k].op # "symbol" => /\ e[k].left \in 1 .. n /\ e[k].left <= m
                                  /\ e[k].right \in 1 .. n /\ e[k].right <= m
        BY <1>1, <1>2, <2>3
      <4>2. QED
        BY <2>2, <4>1
    <3>2. FormOfNode(e[k], g[e[k].left], g[e[k].right])
            = FormOfNode(e[k], f[e[k].left], f[e[k].right])
      BY <1>3, <3>1
    <3>3. CASE k <= m
      BY <2>1, <2>2, <3>2, <3>3 DEF Good
    <3>4. CASE k = j
      BY <2>2, <3>2, <3>4 DEF new
    <3>5. QED
      BY <1>1, <2>3, <3>3, <3>4
  <2>4. Good(m + 1, g)
    BY <2>2, <2>3 DEF Good
  <2>5. QED
    BY <2>4
<1> HIDE DEF T
<1>6. n \in T
  BY <1>1, <1>4, <1>5, Induction
<1>7. PICK f : Good(n, f)
  BY <1>1, <1>6 DEF T
<1>8. Recurs([k \in 1 .. n |-> f[k]])
  <2> DEFINE g == [k \in 1 .. n |-> f[k]]
  <2>1. \A k \in 1 .. n : g[k] = f[k] /\ f[k] = FormOfNode(e[k], f[e[k].left], f[e[k].right])
    BY <1>1, <1>7
  <2> HIDE DEF g
  <2>2. ASSUME NEW k \in 1 .. n PROVE g[k] = FormOfNode(e[k], g[e[k].left], g[e[k].right])
    <3>1. e[k].op # "symbol" => g[e[k].left] = f[e[k].left] /\ g[e[k].right] = f[e[k].right]
      BY <1>1, <1>2, <2>1
    <3>2. QED
      BY <1>3, <2>1, <3>1
  <2>3. g = [k \in 1 .. n |-> g[k]]
    BY DEF g
  <2>4. QED
    BY <1>1, <2>2, <2>3 DEF g
<1>9. Recurs(form)
  <2> HIDE DEF Recurs
  <2>1. QED
    BY <1>8
<1>10. Canonical(e) = form[n].canonical
  BY DEF Canonical, n
<1> HIDE DEF form
<1>11. AreForms(form, e)
  BY <1>1, <1>9 DEF AreForms, n
<1>12. QED
  BY <1>10, <1>11 DEF n

-----------------------------------------------------------------------------
(* Products and ratios                                                     *)

Positive == Nat \ {0}

Multiplied == [a \in Positive |-> [b \in Positive |-> a * b]]

\* The positive numbers are a monoid under multiplication.
LEMMA PositiveNumbers ==
    /\ IsMonoid(Positive, Multiplied, 1)
    /\ \A a, b \in Positive : a * b \in Positive /\ Multiplied[a][b] = a * b
<1>1. \A a, b \in Positive : a * b \in Positive
  BY DEF Positive
<1>2. Multiplied \in [Positive -> [Positive -> Positive]]
  BY <1>1 DEF Multiplied
<1>3. \A a, b \in Positive : Multiplied[a][b] = a * b
  BY DEF Multiplied
<1> HIDE DEF Multiplied
<1>4. 1 \in Positive /\ \A a \in Positive : Multiplied[1][a] = a
  <2>1. 1 \in Positive /\ \A a \in Positive : 1 * a = a
    BY DEF Positive
  <2>2. QED
    BY <1>3, <2>1
<1>5. \A a, b \in Positive : Multiplied[a][b] = Multiplied[b][a]
  <2>1. \A a, b \in Positive : a * b = b * a
    BY DEF Positive
  <2>2. QED
    BY <1>3, <2>1
<1>6. \A a, b, c \in Positive : Multiplied[a][Multiplied[b][c]] = Multiplied[Multiplied[a][b]][c]
  <2> SUFFICES ASSUME NEW a \in Positive, NEW b \in Positive, NEW c \in Positive
               PROVE  Multiplied[a][Multiplied[b][c]] = Multiplied[Multiplied[a][b]][c]
    OBVIOUS
  <2>1. a * b \in Positive /\ b * c \in Positive
    BY <1>1
  <2>2. /\ Multiplied[b][c] = b * c /\ Multiplied[a][b * c] = a * (b * c)
        /\ Multiplied[a][b] = a * b /\ Multiplied[a * b][c] = (a * b) * c
    BY <1>3, <2>1
  <2>3. a * (b * c) = (a * b) * c
    BY DEF Positive
  <2>4. QED
    BY <2>2, <2>3
<1>7. QED
  BY <1>1, <1>2, <1>3, <1>4, <1>5, <1>6 DEF IsMonoid

\* P is the product of prices.
IsPriceProduct(P, names, price) == IsProductOf(P, names, Positive, Multiplied, 1, price)

\* What a node of a monomial is: a product of prices over another.  pos and
\* neg are the exponents above and below.
Ratio(e, names, k, pos, neg) ==
    /\ pos \in [names -> Nat] /\ neg \in [names -> Nat]
    /\ \A s \in names : \A x : AreExponents(x, e, s) => x[k] = pos[s] - neg[s]
    /\ \A price \in [names -> Positive] : \A P, v :
          IsPriceProduct(P, names, price) /\ AreValues(v, e, price)
              => v[k] = [num |-> P[pos], den |-> P[neg]]

\* The product of a sum of exponents.
LEMMA PriceProducts ==
    ASSUME NEW names, NEW price, NEW P, IsPriceProduct(P, names, price),
           NEW v \in [names -> Nat], NEW w \in [names -> Nat]
    PROVE  /\ SumOn(names, v, w) \in [names -> Nat]
           /\ P[v] \in Positive /\ P[w] \in Positive
           /\ P[SumOn(names, v, w)] = P[v] * P[w]
<1>1. SumOn(names, v, w) \in [names -> Nat]
  BY DEF SumOn
<1>2. P[v] \in Positive /\ P[w] \in Positive
  BY DEF IsPriceProduct, IsProductOf
<1>3. P[SumOn(names, v, w)] = Multiplied[P[v]][P[w]]
  BY DEF IsPriceProduct, IsProductOf
<1>4. QED
  BY <1>1, <1>2, <1>3, PositiveNumbers

\* Every node of a monomial is such a ratio.
LEMMA NodesAreRatios ==
    ASSUME NEW names, NEW e, IsExpression(e, names), IsMonomialRatio(e)
    PROVE  \A k \in 1 .. Len(e) : \E pos, neg : Ratio(e, names, k, pos, neg)
<1> DEFINE n == Len(e)
           T == {k \in 1 .. n : \E pos, neg : Ratio(e, names, k, pos, neg)}
<1>1. n \in Nat
  BY ExpressionNodes
<1>2. ASSUME NEW k \in 1 .. n, \A j \in 1 .. k - 1 : j \in T PROVE k \in T
  <2>1. e[k].op \in {"symbol", "*", "/"}
    BY ExpressionNodes DEF IsMonomialRatio
  <2>2. CASE e[k].op = "symbol"
    <3> DEFINE name == e[k].name
               pos == UnitAt(names, name)
               neg == ZeroOn(names)
    <3>1. name \in names
      BY <2>2, ExpressionNodes DEF Operations
    <3>2. pos \in [names -> Nat] /\ neg \in [names -> Nat]
      BY DEF UnitAt, ZeroOn
    <3>3. ASSUME NEW s \in names, NEW x, AreExponents(x, e, s) PROVE x[k] = pos[s] - neg[s]
      <4>1. x[k] = IF name = s THEN 1 ELSE 0
        BY <2>2, <3>3 DEF AreExponents, ExponentInNode
      <4>2. QED
        BY <4>1 DEF UnitAt, ZeroOn
    <3>4. ASSUME NEW price \in [names -> Positive], NEW P, NEW v,
                 IsPriceProduct(P, names, price), AreValues(v, e, price)
          PROVE  v[k] = [num |-> P[pos], den |-> P[neg]]
      <4>1. v[k] = [num |-> price[name], den |-> 1]
        BY <2>2, <3>4 DEF AreValues, ValueOfNode
      <4>2. P[pos] = price[name] /\ P[neg] = 1
        BY <3>1, <3>4 DEF IsPriceProduct, IsProductOf
      <4>3. QED
        BY <4>1, <4>2
    <3> HIDE DEF pos, neg
    <3>5. Ratio(e, names, k, pos, neg)
      BY <3>2, <3>3, <3>4 DEF Ratio
    <3>6. QED
      BY <3>5
  <2>3. CASE e[k].op \in {"*", "/"}
    <3> DEFINE l == e[k].left
               r == e[k].right
    <3>1. l \in 1 .. k - 1 /\ r \in 1 .. k - 1
      BY <2>3, ExpressionNodes
    <3>2. PICK lp, ln : Ratio(e, names, l, lp, ln)
      BY <1>2, <3>1
    <3>3. PICK rp, rn : Ratio(e, names, r, rp, rn)
      BY <1>2, <3>1
    <3>4. /\ lp \in [names -> Nat] /\ ln \in [names -> Nat]
          /\ rp \in [names -> Nat] /\ rn \in [names -> Nat]
      BY <3>2, <3>3 DEF Ratio
    <3> DEFINE above == IF e[k].op = "*" THEN rp ELSE rn
               below == IF e[k].op = "*" THEN rn ELSE rp
               pos == SumOn(names, lp, above)
               neg == SumOn(names, ln, below)
    <3>5. /\ pos \in [names -> Nat] /\ neg \in [names -> Nat]
          /\ \A s \in names : pos[s] = lp[s] + above[s] /\ neg[s] = ln[s] + below[s]
      BY <3>4 DEF SumOn
    <3>6. ASSUME NEW s \in names, NEW x, AreExponents(x, e, s) PROVE x[k] = pos[s] - neg[s]
      <4>1. x[l] = lp[s] - ln[s] /\ x[r] = rp[s] - rn[s]
        BY <3>2, <3>3, <3>6 DEF Ratio
      <4>2. x[k] = IF e[k].op = "*" THEN x[l] + x[r] ELSE x[l] - x[r]
        BY <2>3, <3>6 DEF AreExponents, ExponentInNode
      <4>3. lp[s] \in Nat /\ ln[s] \in Nat /\ rp[s] \in Nat /\ rn[s] \in Nat
        BY <3>4
      <4> HIDE DEF l, r, pos, neg
      <4>4. QED
        BY <3>5, <4>1, <4>2, <4>3
    <3>7. ASSUME NEW price \in [names -> Positive], NEW P, NEW v,
                 IsPriceProduct(P, names, price), AreValues(v, e, price)
          PROVE  v[k] = [num |-> P[pos], den |-> P[neg]]
      <4>1. v[l] = [num |-> P[lp], den |-> P[ln]] /\ v[r] = [num |-> P[rp], den |-> P[rn]]
        BY <3>2, <3>3, <3>7 DEF Ratio
      <4>2. v[k] = ValueOfNode(e[k], price, v[l], v[r])
        BY <3>7 DEF AreValues
      <4>3. P[pos] = P[lp] * P[above] /\ P[neg] = P[ln] * P[below]
        <5>1. above \in [names -> Nat] /\ below \in [names -> Nat]
          BY <3>4
        <5> HIDE DEF above, below
        <5>2. \A a, b \in [names -> Nat] : P[SumOn(names, a, b)] = P[a] * P[b]
          BY <3>7, PriceProducts
        <5>3. QED
          BY <3>4, <5>1, <5>2
      <4>4. P[rp] \in Positive
        BY <3>4, <3>7, PriceProducts
      <4>5. P[rp] # 0
        BY <4>4 DEF Positive
      <4> HIDE DEF l, r, pos, neg
      <4>6. CASE e[k].op = "*"
        <5>1. v[k] = Times(v[l], v[r])
          BY <4>2, <4>6 DEF ValueOfNode
        <5>2. QED
          BY <4>1, <4>3, <4>6, <5>1 DEF Times
      <4>7. CASE e[k].op = "/"
        <5>1. v[k] = Over(v[l], v[r])
          BY <4>2, <4>7 DEF ValueOfNode
        <5>2. QED
          BY <4>1, <4>3, <4>5, <4>7, <5>1 DEF Over
      <4>8. QED
        BY <2>3, <4>6, <4>7
    <3> HIDE DEF pos, neg
    <3>8. Ratio(e, names, k, pos, neg)
      BY <3>5, <3>6, <3>7 DEF Ratio
    <3>9. QED
      BY <3>8
  <2>4. QED
    BY <2>1, <2>2, <2>3
<1> HIDE DEF T
<1>3. \A k \in 1 .. n : k \in T
  BY <1>1, <1>2, TreeInduction
<1>4. QED
  BY <1>3 DEF T

\* A monomial at positive prices is a ratio of two products of prices, with the
\* symbol's exponent between them.
LEMMA MonomialIsARatio ==
    ASSUME NEW names, NEW e, IsExpression(e, names), IsMonomialRatio(e)
    PROVE  \E pos, neg \in [names -> Nat] :
              /\ \A s \in names : Exponent(e, s) = pos[s] - neg[s]
              /\ \A price \in [names -> Positive] : \A P :
                    IsPriceProduct(P, names, price) =>
                        ValueAt(e, price) = [num |-> P[pos], den |-> P[neg]]
<1>1. Len(e) \in 1 .. Len(e)
  BY ExpressionNodes
<1>2. PICK pos, neg : Ratio(e, names, Len(e), pos, neg)
  BY <1>1, NodesAreRatios
<1>3. ASSUME NEW s \in names PROVE Exponent(e, s) = pos[s] - neg[s]
  <2>1. PICK x : AreExponents(x, e, s) /\ Exponent(e, s) = x[Len(e)]
    BY ExponentsOfNodes
  <2>2. QED
    BY <1>2, <2>1 DEF Ratio
<1>4. ASSUME NEW price \in [names -> Positive], NEW P, IsPriceProduct(P, names, price)
      PROVE  ValueAt(e, price) = [num |-> P[pos], den |-> P[neg]]
  <2>1. price \in [names -> Int]
    BY DEF Positive
  <2>2. PICK v : AreValues(v, e, price) /\ ValueAt(e, price) = v[Len(e)]
    BY <2>1, ValuesOfNodes
  <2>3. QED
    BY <1>2, <1>4, <2>2 DEF Ratio
<1>5. pos \in [names -> Nat] /\ neg \in [names -> Nat]
  BY <1>2 DEF Ratio
<1>6. QED
  BY <1>3, <1>4, <1>5

\* Both are values, and one value, or neither is.
SameValue(a, b) == (a = None <=> b = None) /\ Equal(a, b)

\* Two monomials with the same exponents have one value.
LEMMA SameExponentsAgree ==
    ASSUME NEW names, IsFiniteSet(names),
           NEW e, IsExpression(e, names), IsMonomialRatio(e),
           NEW f, IsExpression(f, names), IsMonomialRatio(f),
           \A s \in names : Exponent(e, s) = Exponent(f, s),
           NEW price \in [names -> Positive]
    PROVE  SameValue(ValueAt(e, price), ValueAt(f, price))
<1>1. PICK P : IsPriceProduct(P, names, price)
  BY PositiveNumbers, MonoidProducts DEF IsPriceProduct
<1>2. PICK ep, en \in [names -> Nat] :
          /\ \A s \in names : Exponent(e, s) = ep[s] - en[s]
          /\ ValueAt(e, price) = [num |-> P[ep], den |-> P[en]]
  BY <1>1, MonomialIsARatio
<1>3. PICK fp, fn \in [names -> Nat] :
          /\ \A s \in names : Exponent(f, s) = fp[s] - fn[s]
          /\ ValueAt(f, price) = [num |-> P[fp], den |-> P[fn]]
  BY <1>1, MonomialIsARatio
<1>4. SumOn(names, ep, fn) = SumOn(names, fp, en)
  <2>1. ASSUME NEW s \in names PROVE ep[s] + fn[s] = fp[s] + en[s]
    <3>1. ep[s] \in Nat /\ en[s] \in Nat /\ fp[s] \in Nat /\ fn[s] \in Nat
      OBVIOUS
    <3>2. ep[s] - en[s] = fp[s] - fn[s]
      BY <1>2, <1>3
    <3>3. QED
      BY <3>1, <3>2
  <2>2. QED
    BY <2>1 DEF SumOn
<1>5. P[SumOn(names, ep, fn)] = P[ep] * P[fn] /\ P[SumOn(names, fp, en)] = P[fp] * P[en]
  BY <1>1, PriceProducts
<1>6. Equal(ValueAt(e, price), ValueAt(f, price))
  BY <1>2, <1>3, <1>4, <1>5 DEF Equal
<1>7. ValueAt(e, price).den # 0 /\ ValueAt(f, price).den # 0
  <2>1. P[en] \in Positive /\ P[fn] \in Positive
    BY <1>1, PriceProducts
  <2>2. QED
    BY <1>2, <1>3, <2>1 DEF Positive
<1>8. QED
  BY <1>6, <1>7 DEF SameValue, None

\* Prices of one, but two for x.
Doubled(names, x) == [s \in names |-> IF s = x THEN 2 ELSE 1]

\* The product of these is a power of two, which tells the exponents of x apart.
LEMMA DoubledProducts ==
    ASSUME NEW names, NEW x \in names
    PROVE  /\ Doubled(names, x) \in [names -> Positive]
           /\ \E P : /\ IsPriceProduct(P, names, Doubled(names, x))
                     /\ \A v, w \in [names -> Nat] : P[v] = P[w] => v[x] = w[x]
<1>1. 2 \in Positive /\ Doubled(names, x) \in [names -> Positive]
  BY DEF Doubled, Positive
<1>2. PICK p : IsPowersOf(p, Positive, Multiplied, 1, 2)
  <2>1. IsMonoid(Positive, Multiplied, 1)
    BY PositiveNumbers
  <2>2. QED
    BY <1>1, <2>1, MonoidPowers
<1>3. /\ p \in [Nat -> Positive] /\ p[0] = 1
      /\ \A k \in Nat : p[k + 1] = Multiplied[2][p[k]]
  BY <1>2 DEF IsPowersOf
<1>4. \A i, j \in Nat : p[i + j] = p[i] * p[j]
  BY <1>2, <1>3, PositiveNumbers DEF IsPowersOf
<1>5. ASSUME NEW i \in Nat, NEW j \in Nat, i < j PROVE p[i] # p[j]
  <2>1. j - i - 1 \in Nat /\ j = i + ((j - i - 1) + 1) /\ (j - i - 1) + 1 \in Nat
    BY <1>5
  <2>2. p[(j - i - 1) + 1] = 2 * p[j - i - 1]
    BY <1>1, <1>3, <2>1, PositiveNumbers
  <2>3. p[j - i - 1] \in Positive /\ p[i] \in Positive
    BY <1>3, <2>1
  <2>4. p[j] = p[i] * (2 * p[j - i - 1])
    BY <1>4, <2>1, <2>2
  <2>5. 2 <= 2 * p[j - i - 1] /\ 2 * p[j - i - 1] \in Int /\ p[i] \in Nat /\ p[i] >= 1
    BY <2>3 DEF Positive
  <2>6. 2 * p[i] <= (2 * p[j - i - 1]) * p[i]
    BY <2>5, ProductsGrow
  <2>7. p[j] = (2 * p[j - i - 1]) * p[i]
    BY <2>4, <2>5
  <2>8. p[j] # p[i]
    <3> DEFINE q == (2 * p[j - i - 1]) * p[i]
    <3>1. q \in Int /\ p[j] = q /\ 2 * p[i] <= q
      BY <2>5, <2>6, <2>7
    <3> HIDE DEF q
    <3>2. QED
      BY <2>5, <3>1
  <2>9. QED
    BY <2>8
<1> DEFINE P == [v \in [names -> Nat] |-> p[v[x]]]
<1>6. /\ P \in [[names -> Nat] -> Positive]
      /\ \A v \in [names -> Nat] : P[v] = p[v[x]] /\ v[x] \in Nat
  BY <1>3
<1> HIDE DEF P
<1>7. /\ ZeroOn(names) \in [names -> Nat] /\ ZeroOn(names)[x] = 0
      /\ \A s \in names : /\ UnitAt(names, s) \in [names -> Nat]
                          /\ UnitAt(names, s)[x] = IF x = s THEN 1 ELSE 0
  BY DEF ZeroOn, UnitAt
<1>8. \A v, w \in [names -> Nat] : /\ SumOn(names, v, w) \in [names -> Nat]
                                  /\ SumOn(names, v, w)[x] = v[x] + w[x]
  BY DEF SumOn
<1>9. P[ZeroOn(names)] = 1
  BY <1>3, <1>6, <1>7
<1>10. ASSUME NEW s \in names PROVE P[UnitAt(names, s)] = Doubled(names, x)[s]
  <2>1. /\ UnitAt(names, s) \in [names -> Nat]
        /\ P[UnitAt(names, s)] = p[UnitAt(names, s)[x]]
    BY <1>6, <1>7
  <2>2. UnitAt(names, s)[x] = IF x = s THEN 1 ELSE 0
    BY <1>7
  <2>3. Doubled(names, x)[s] = IF x = s THEN 2 ELSE 1
    BY DEF Doubled
  <2>4. p[0] = 1 /\ p[1] = 2
    BY <1>2, <1>3 DEF IsPowersOf
  <2>5. QED
    BY <2>1, <2>2, <2>3, <2>4
<1>11. ASSUME NEW v \in [names -> Nat], NEW w \in [names -> Nat]
       PROVE  P[SumOn(names, v, w)] = Multiplied[P[v]][P[w]]
  <2>1. P[SumOn(names, v, w)] = p[v[x] + w[x]]
    BY <1>6, <1>8
  <2>2. v[x] \in Nat /\ w[x] \in Nat /\ P[v] = p[v[x]] /\ P[w] = p[w[x]]
    BY <1>6
  <2>3. \A k, l \in Nat : p[k + l] = Multiplied[p[k]][p[l]]
    BY <1>2 DEF IsPowersOf
  <2>4. QED
    BY <2>1, <2>2, <2>3
<1>12. IsPriceProduct(P, names, Doubled(names, x))
  BY <1>6, <1>9, <1>10, <1>11 DEF IsPriceProduct, IsProductOf
<1>13. ASSUME NEW v \in [names -> Nat], NEW w \in [names -> Nat], P[v] = P[w] PROVE v[x] = w[x]
  <2>1. v[x] \in Nat /\ w[x] \in Nat /\ p[v[x]] = p[w[x]]
    BY <1>6, <1>13
  <2>2. ~(v[x] < w[x]) /\ ~(w[x] < v[x])
    BY <1>5, <2>1
  <2>3. QED
    BY <2>1, <2>2
<1>14. QED
  BY <1>1, <1>12, <1>13

\* Two monomials with different exponents of x differ at these prices.
LEMMA OtherExponentsDiffer ==
    ASSUME NEW names, NEW e, IsExpression(e, names), IsMonomialRatio(e),
           NEW f, IsExpression(f, names), IsMonomialRatio(f),
           NEW x \in names, Exponent(e, x) # Exponent(f, x)
    PROVE  LET a == ValueAt(e, Doubled(names, x))
               b == ValueAt(f, Doubled(names, x))
           IN  None \notin {a, b} /\ ~Equal(a, b)
<1> DEFINE price == Doubled(names, x)
<1>1. PICK P : /\ IsPriceProduct(P, names, price)
               /\ \A v, w \in [names -> Nat] : P[v] = P[w] => v[x] = w[x]
  BY DoubledProducts
<1>2. price \in [names -> Positive]
  BY DoubledProducts
<1> HIDE DEF price
<1>3. PICK ep, en \in [names -> Nat] :
          /\ \A s \in names : Exponent(e, s) = ep[s] - en[s]
          /\ ValueAt(e, price) = [num |-> P[ep], den |-> P[en]]
  BY <1>1, <1>2, MonomialIsARatio
<1>4. PICK fp, fn \in [names -> Nat] :
          /\ \A s \in names : Exponent(f, s) = fp[s] - fn[s]
          /\ ValueAt(f, price) = [num |-> P[fp], den |-> P[fn]]
  BY <1>1, <1>2, MonomialIsARatio
<1>5. /\ SumOn(names, ep, fn) \in [names -> Nat] /\ SumOn(names, fp, en) \in [names -> Nat]
      /\ P[en] \in Positive /\ P[fn] \in Positive
      /\ P[SumOn(names, ep, fn)] = P[ep] * P[fn] /\ P[SumOn(names, fp, en)] = P[fp] * P[en]
  BY <1>1, PriceProducts
<1>6. P[ep] * P[fn] # P[fp] * P[en]
  <2> SUFFICES ASSUME P[ep] * P[fn] = P[fp] * P[en] PROVE FALSE
    OBVIOUS
  <2>1. SumOn(names, ep, fn)[x] = SumOn(names, fp, en)[x]
    BY <1>1, <1>5
  <2>2. ep[x] + fn[x] = fp[x] + en[x]
    BY <2>1 DEF SumOn
  <2>3. ep[x] \in Nat /\ en[x] \in Nat /\ fp[x] \in Nat /\ fn[x] \in Nat
    OBVIOUS
  <2>4. ep[x] - en[x] # fp[x] - fn[x]
    BY <1>3, <1>4
  <2>5. QED
    BY <2>2, <2>3, <2>4
<1>7. P[en] # 0 /\ P[fn] # 0
  BY <1>5 DEF Positive
<1>8. None.den = 0
  BY DEF None
<1>9. None # ValueAt(e, price) /\ None # ValueAt(f, price)
  BY <1>3, <1>4, <1>7, <1>8
<1>10. ~Equal(ValueAt(e, price), ValueAt(f, price))
  BY <1>3, <1>4, <1>6 DEF Equal
<1>11. QED
  BY <1>9, <1>10 DEF price

\* The symbols of an expression are names, and the others have no exponent.
LEMMA SymbolsHaveExponents ==
    ASSUME NEW names, NEW e, IsExpression(e, names)
    PROVE  /\ SymbolsOfExpression(e) \subseteq names
           /\ IsMonomialRatio(e) =>
                 \A s \in names \ SymbolsOfExpression(e) : Exponent(e, s) = 0
<1> DEFINE n == Len(e)
<1>1. n \in Nat /\ n \in 1 .. n /\ DOMAIN e = 1 .. n
  BY ExpressionNodes
<1>2. \A k \in 1 .. n :
         \/ e[k].op = "symbol" /\ e[k].name \in names
         \/ /\ e[k].op # "symbol"
            /\ e[k].left \in 1 .. k - 1 /\ e[k].right \in 1 .. k - 1
  BY ExpressionNodes
<1>3. SymbolsOfExpression(e) \subseteq names
  BY <1>1, <1>2 DEF SymbolsOfExpression
<1>4. ASSUME NEW s \in names \ SymbolsOfExpression(e) PROVE Exponent(e, s) = 0
  <2>1. PICK x : AreExponents(x, e, s) /\ Exponent(e, s) = x[n]
    BY ExponentsOfNodes
  <2> DEFINE T == {k \in 1 .. n : x[k] = 0}
  <2>2. ASSUME NEW k \in 1 .. n, \A j \in 1 .. k - 1 : j \in T PROVE k \in T
    <3>1. x[k] = ExponentInNode(e[k], s, x[e[k].left], x[e[k].right])
      BY <2>1 DEF AreExponents
    <3>2. CASE e[k].op = "symbol"
      <4>1. e[k].name \in SymbolsOfExpression(e)
        BY <1>1, <3>2 DEF SymbolsOfExpression
      <4>2. QED
        BY <3>1, <3>2, <4>1 DEF ExponentInNode
    <3>3. CASE e[k].op # "symbol"
      <4>1. x[e[k].left] = 0 /\ x[e[k].right] = 0
        BY <1>2, <2>2, <3>3
      <4>2. QED
        BY <3>1, <3>3, <4>1 DEF ExponentInNode
    <3>4. QED
      BY <3>2, <3>3
  <2> HIDE DEF T
  <2>3. \A k \in 1 .. n : k \in T
    BY <1>1, <2>2, TreeInduction
  <2>4. QED
    BY <1>1, <2>1, <2>3 DEF T
<1>5. QED
  BY <1>3, <1>4

\* The semantic key of a monomial tells its exponents, and no more.
LEMMA KeysAreExponents ==
    ASSUME NEW names, NEW e, IsExpression(e, names), IsMonomialRatio(e),
           NEW f, IsExpression(f, names), IsMonomialRatio(f)
    PROVE  SemanticKey(e) = SemanticKey(f) <=> \A s \in names : Exponent(e, s) = Exponent(f, s)
<1> DEFINE Key(g) == {<<name, Exponent(g, name)>> :
                         name \in {n \in SymbolsOfExpression(g) : Exponent(g, n) # 0}}
<1>1. SemanticKey(e) = [exponents |-> Key(e)] /\ SemanticKey(f) = [exponents |-> Key(f)]
  BY DEF SemanticKey
<1>2. /\ SymbolsOfExpression(e) \subseteq names /\ SymbolsOfExpression(f) \subseteq names
      /\ \A s \in names : s \in SymbolsOfExpression(e) \/ Exponent(e, s) = 0
      /\ \A s \in names : s \in SymbolsOfExpression(f) \/ Exponent(f, s) = 0
  BY SymbolsHaveExponents
<1>3. ASSUME NEW g, NEW h, Key(g) = Key(h), NEW s \in SymbolsOfExpression(g), Exponent(g, s) # 0
      PROVE  Exponent(g, s) = Exponent(h, s)
  <2>1. <<s, Exponent(g, s)>> \in Key(h)
    BY <1>3
  <2>2. PICK n \in SymbolsOfExpression(h) : <<s, Exponent(g, s)>> = <<n, Exponent(h, n)>>
    BY <2>1
  <2>3. QED
    BY <2>2
<1>4. ASSUME Key(e) = Key(f), NEW s \in names PROVE Exponent(e, s) = Exponent(f, s)
  <2>1. CASE Exponent(e, s) # 0
    BY <1>2, <1>3, <1>4, <2>1
  <2>2. CASE Exponent(f, s) # 0
    <3>1. Key(f) = Key(e)
      BY <1>4
    <3> HIDE DEF Key
    <3>2. QED
      BY <1>2, <1>3, <2>2, <3>1
  <2>3. QED
    BY <2>1, <2>2
<1>5. ASSUME \A s \in names : Exponent(e, s) = Exponent(f, s) PROVE Key(e) = Key(f)
  <2>1. {n \in SymbolsOfExpression(e) : Exponent(e, n) # 0}
          = {n \in SymbolsOfExpression(f) : Exponent(f, n) # 0}
    BY <1>2, <1>5
  <2>2. \A n \in SymbolsOfExpression(e) : Exponent(e, n) = Exponent(f, n)
    BY <1>2, <1>5
  <2>3. QED
    BY <2>1, <2>2
<1> HIDE DEF Key
<1>6. SemanticKey(e) = SemanticKey(f) <=> Key(e) = Key(f)
  BY <1>1
<1>7. QED
  BY <1>4, <1>5, <1>6

\* One semantic key is one value at all positive prices.
LEMMA SameKeysAgree ==
    ASSUME NEW names, IsFiniteSet(names),
           NEW e, IsExpression(e, names), NEW f, IsExpression(f, names),
           SemanticKey(e) = SemanticKey(f), NEW price \in [names -> Positive]
    PROVE  SameValue(ValueAt(e, price), ValueAt(f, price))
<1>1. CASE IsMonomialRatio(e) /\ IsMonomialRatio(f)
  <2>1. \A s \in names : Exponent(e, s) = Exponent(f, s)
    BY <1>1, KeysAreExponents
  <2>2. QED
    BY <1>1, <2>1, SameExponentsAgree
<1>2. CASE ~IsMonomialRatio(e) /\ ~IsMonomialRatio(f)
  <2>1. [written |-> e].written = [written |-> f].written
    BY <1>2 DEF SemanticKey
  <2>2. e = f
    BY <2>1
  <2>3. QED
    BY <2>2 DEF SameValue, Equal
<1>3. CASE \/ IsMonomialRatio(e) /\ ~IsMonomialRatio(f)
           \/ IsMonomialRatio(f) /\ ~IsMonomialRatio(e)
  <2>1. ASSUME NEW g, NEW h, IsMonomialRatio(g), ~IsMonomialRatio(h)
        PROVE  SemanticKey(g) # SemanticKey(h)
    <3>1. /\ DOMAIN SemanticKey(g) = {"exponents"}
          /\ DOMAIN SemanticKey(h) = {"written"}
      BY <2>1 DEF SemanticKey
    <3>2. QED
      BY <3>1
  <2>2. QED
    BY <1>3, <2>1
<1>4. QED
  BY <1>1, <1>2, <1>3

-----------------------------------------------------------------------------
(* Chains of sums and products                                             *)

\* How many copies of each element of S the bag has.
CopiesOn(S, bag) == [c \in S |-> IF c \in DOMAIN bag THEN bag[c] ELSE 0]

\* The copies in a union of bags.
LEMMA CopiesInUnion ==
    ASSUME NEW S, NEW A, NEW B, NEW C, A = B (+) C
    PROVE  CopiesOn(S, A) = SumOn(S, CopiesOn(S, B), CopiesOn(S, C))
<1> DEFINE Copies(c, bag) == IF c \in DOMAIN bag THEN bag[c] ELSE 0
<1>1. ASSUME NEW c \in S PROVE Copies(c, A) = Copies(c, B) + Copies(c, C)
  <2>1. CASE c \in DOMAIN B \/ c \in DOMAIN C
    BY <2>1 DEF (+)
  <2>2. CASE ~(c \in DOMAIN B \/ c \in DOMAIN C)
    BY <2>2 DEF (+)
  <2>3. QED
    BY <2>1, <2>2
<1>2. QED
  BY <1>1 DEF CopiesOn, SumOn

\* The copies in the bag of one element.
LEMMA CopiesOfOne ==
    ASSUME NEW S, NEW A, NEW c \in S, A = SetToBag({c})
    PROVE  CopiesOn(S, A) = UnitAt(S, c)
BY DEF CopiesOn, UnitAt, SetToBag

\* The nodes of a chain combine the bags of their operands, each other node
\* is an operand by its canonical form.
IsChained(chain, n, Chained, canonical, left, right) ==
    \A k \in 1 .. n :
        IF k \in Chained
        THEN /\ left[k] \in 1 .. k - 1 /\ right[k] \in 1 .. k - 1
             /\ chain[k] = chain[left[k]] (+) chain[right[k]]
        ELSE chain[k] = SetToBag({canonical[k]})

\* So do their values.
Combines(value, n, Chained, o, left, right) ==
    \A k \in 1 .. n : k \in Chained => value[k] = o[value[left[k]]][value[right[k]]]

\* The value of a node is that of its canonical form.
ValuesOfForms(g, S, value, n, canonical) ==
    \A k \in 1 .. n : canonical[k] \in S /\ g[canonical[k]] = value[k]

\* The bag of a node is its value: the product of the values of its operands.
LEMMA ChainValues ==
    ASSUME NEW M, NEW o, NEW u, IsMonoid(M, o, u),
           NEW n \in Nat, NEW Chained, NEW canonical, NEW left, NEW right, NEW chain,
           IsChained(chain, n, Chained, canonical, left, right),
           NEW value \in [1 .. n -> M],
           Combines(value, n, Chained, o, left, right),
           NEW S, NEW g \in [S -> M], NEW P, IsProductOf(P, S, M, o, u, g),
           ValuesOfForms(g, S, value, n, canonical)
    PROVE  \A k \in 1 .. n : /\ CopiesOn(S, chain[k]) \in [S -> Nat]
                             /\ value[k] = P[CopiesOn(S, chain[k])]
<1> DEFINE Copies(k) == CopiesOn(S, chain[k])
           T == {k \in 1 .. n : Copies(k) \in [S -> Nat] /\ value[k] = P[Copies(k)]}
<1>1. ASSUME NEW k \in 1 .. n, \A j \in 1 .. k - 1 : j \in T PROVE k \in T
  <2>1. CASE k \in Chained
    <3>1. /\ left[k] \in 1 .. k - 1 /\ right[k] \in 1 .. k - 1
          /\ chain[k] = chain[left[k]] (+) chain[right[k]]
      BY <2>1 DEF IsChained
    <3>2. Copies(k) = SumOn(S, Copies(left[k]), Copies(right[k]))
      BY <3>1, CopiesInUnion
    <3>3. /\ Copies(left[k]) \in [S -> Nat] /\ value[left[k]] = P[Copies(left[k])]
          /\ Copies(right[k]) \in [S -> Nat] /\ value[right[k]] = P[Copies(right[k])]
      BY <1>1, <3>1
    <3> HIDE DEF Copies
    <3>4. Copies(k) \in [S -> Nat]
      BY <3>2, <3>3 DEF SumOn
    <3>5. P[Copies(k)] = o[P[Copies(left[k])]][P[Copies(right[k])]]
      <4>1. \A v, w \in [S -> Nat] : P[SumOn(S, v, w)] = o[P[v]][P[w]]
        BY DEF IsProductOf
      <4>2. QED
        BY <3>2, <3>3, <4>1
    <3>6. value[k] = o[value[left[k]]][value[right[k]]]
      BY <2>1 DEF Combines
    <3>7. QED
      BY <3>3, <3>4, <3>5, <3>6
  <2>2. CASE k \notin Chained
    <3>1. /\ chain[k] = SetToBag({canonical[k]})
          /\ canonical[k] \in S /\ g[canonical[k]] = value[k]
      BY <2>2 DEF IsChained, ValuesOfForms
    <3>2. Copies(k) = UnitAt(S, canonical[k])
      BY <3>1, CopiesOfOne
    <3>3. Copies(k) \in [S -> Nat]
      BY <3>2 DEF UnitAt
    <3>4. P[UnitAt(S, canonical[k])] = g[canonical[k]]
      BY <3>1 DEF IsProductOf
    <3>5. P[Copies(k)] = value[k]
      BY <3>1, <3>2, <3>4
    <3> HIDE DEF Copies
    <3>6. QED
      BY <3>3, <3>5
  <2>3. QED
    BY <2>1, <2>2
<1> HIDE DEF T
<1>2. \A k \in 1 .. n : k \in T
  BY <1>1, TreeInduction
<1>3. QED
  BY <1>2 DEF T

\* Two nodes of chains with one bag have one value, where one canonical form
\* is one value.
LEMMA SameBagsAgree ==
    ASSUME NEW M, NEW o, NEW u, IsMonoid(M, o, u),
           NEW n \in Nat, NEW Chained, NEW canonical, NEW left, NEW right, NEW chain,
           IsChained(chain, n, Chained, canonical, left, right),
           NEW value \in [1 .. n -> M],
           Combines(value, n, Chained, o, left, right),
           NEW k \in 1 .. n, NEW j \in 1 .. k, k \in Chained, j \in Chained,
           \A a, b \in 1 .. k - 1 : canonical[a] = canonical[b] => value[a] = value[b],
           chain[j] = chain[k]
    PROVE  value[j] = value[k]
<1> DEFINE m == k - 1
           S == {canonical[i] : i \in 1 .. m}
           g == [c \in S |-> value[CHOOSE i \in 1 .. m : canonical[i] = c]]
           part == [i \in 1 .. m |-> value[i]]
<1>1. m \in Nat /\ \A i \in 1 .. m : i \in 1 .. n
  OBVIOUS
<1>2. \A i \in 1 .. m : canonical[i] \in S /\ g[canonical[i]] = value[i]
  <2>1. ASSUME NEW i \in 1 .. m PROVE canonical[i] \in S /\ g[canonical[i]] = value[i]
    <3> DEFINE h == CHOOSE h \in 1 .. m : canonical[h] = canonical[i]
    <3>1. h \in 1 .. m /\ canonical[h] = canonical[i]
      OBVIOUS
    <3>2. canonical[i] \in S /\ g[canonical[i]] = value[h]
      OBVIOUS
    <3> HIDE DEF h, g, S
    <3>3. QED
      BY <3>1, <3>2
  <2>2. QED
    BY <2>1
<1>3. IsFiniteSet(S)
  <2>1. IsFiniteSet(1 .. m)
    BY <1>1, OneToN
  <2>2. [i \in 1 .. m |-> canonical[i]] \in Surjection(1 .. m, S)
    BY DEF Surjection
  <2>3. QED
    BY <2>1, <2>2, FS_Surjection
<1>4. g \in [S -> M]
  <2>1. ASSUME NEW c \in S PROVE g[c] \in M
    <3>1. PICK i \in 1 .. m : canonical[i] = c
      OBVIOUS
    <3>2. g[c] = value[i] /\ value[i] \in M
      BY <1>1, <1>2, <3>1
    <3>3. QED
      BY <3>2
  <2>2. QED
    BY <2>1
<1> HIDE DEF g, S
<1>5. PICK P : IsProductOf(P, S, M, o, u, g)
  BY <1>3, <1>4, MonoidProducts
<1>6. /\ part \in [1 .. m -> M] /\ \A i \in 1 .. m : part[i] = value[i]
  BY <1>1
<1> HIDE DEF part
<1>7. IsChained(chain, m, Chained, canonical, left, right)
  BY <1>1 DEF IsChained
<1>8. Combines(part, m, Chained, o, left, right)
  <2>1. ASSUME NEW i \in 1 .. m, i \in Chained PROVE part[i] = o[part[left[i]]][part[right[i]]]
    <3>1. left[i] \in 1 .. m /\ right[i] \in 1 .. m
      <4>1. left[i] \in 1 .. i - 1 /\ right[i] \in 1 .. i - 1
        BY <1>7, <2>1 DEF IsChained
      <4>2. QED
        BY <4>1
    <3>2. value[i] = o[value[left[i]]][value[right[i]]]
      BY <1>1, <2>1 DEF Combines
    <3>3. QED
      BY <1>6, <3>1, <3>2
  <2>2. QED
    BY <2>1 DEF Combines
<1>9. ValuesOfForms(g, S, part, m, canonical)
  BY <1>2, <1>6 DEF ValuesOfForms
<1>10. \A i \in 1 .. m : /\ CopiesOn(S, chain[i]) \in [S -> Nat]
                        /\ part[i] = P[CopiesOn(S, chain[i])]
  <2> HIDE DEF m
  <2>1. QED
    BY <1>1, <1>4, <1>5, <1>6, <1>7, <1>8, <1>9, ChainValues
<1>11. ASSUME NEW i \in 1 .. k, i \in Chained PROVE value[i] = P[CopiesOn(S, chain[i])]
  <2>1. /\ i \in 1 .. n /\ left[i] \in 1 .. m /\ right[i] \in 1 .. m
        /\ chain[i] = chain[left[i]] (+) chain[right[i]]
    <3>1. i \in 1 .. n
      OBVIOUS
    <3>2. /\ left[i] \in 1 .. i - 1 /\ right[i] \in 1 .. i - 1
          /\ chain[i] = chain[left[i]] (+) chain[right[i]]
      BY <1>11, <3>1 DEF IsChained
    <3>3. left[i] \in 1 .. m /\ right[i] \in 1 .. m
      BY <3>2
    <3>4. QED
      BY <3>1, <3>2, <3>3
  <2>2. CopiesOn(S, chain[i]) = SumOn(S, CopiesOn(S, chain[left[i]]), CopiesOn(S, chain[right[i]]))
    BY <2>1, CopiesInUnion
  <2>3. P[CopiesOn(S, chain[i])] = o[part[left[i]]][part[right[i]]]
    <3>1. \A v, w \in [S -> Nat] : P[SumOn(S, v, w)] = o[P[v]][P[w]]
      BY <1>5 DEF IsProductOf
    <3>2. /\ CopiesOn(S, chain[left[i]]) \in [S -> Nat]
          /\ part[left[i]] = P[CopiesOn(S, chain[left[i]])]
          /\ CopiesOn(S, chain[right[i]]) \in [S -> Nat]
          /\ part[right[i]] = P[CopiesOn(S, chain[right[i]])]
      BY <1>10, <2>1
    <3> DEFINE v == CopiesOn(S, chain[left[i]])
               w == CopiesOn(S, chain[right[i]])
    <3> HIDE DEF v, w
    <3>3. P[SumOn(S, v, w)] = o[P[v]][P[w]]
      BY <3>1, <3>2 DEF v, w
    <3>4. QED
      BY <2>2, <3>2, <3>3 DEF v, w
  <2>4. value[i] = o[value[left[i]]][value[right[i]]]
    BY <1>11, <2>1 DEF Combines
  <2>5. QED
    BY <1>6, <2>1, <2>3, <2>4
<1>12. k \in 1 .. k
  OBVIOUS
<1>13. QED
  BY <1>11, <1>12

PairTimes == [a \in Pair |-> [b \in Pair |-> Times(a, b)]]

PairPlus == [a \in Pair |-> [b \in Pair |-> Plus(a, b)]]

\* Pairs are a monoid under multiplication and under addition, also those with
\* a zero below: nothing is reduced.
LEMMA PairMonoids ==
    /\ IsMonoid(Pair, PairTimes, [num |-> 1, den |-> 1])
    /\ IsMonoid(Pair, PairPlus, [num |-> 0, den |-> 1])
    /\ \A a, b \in Pair : PairTimes[a][b] = Times(a, b) /\ PairPlus[a][b] = Plus(a, b)
<1> DEFINE one == [num |-> 1, den |-> 1]
           zero == [num |-> 0, den |-> 1]
<1>1. \A a, b \in Pair : Times(a, b) \in Pair /\ Plus(a, b) \in Pair
  BY PairsOfPairs
<1>2. \A a, b \in Pair : PairTimes[a][b] = Times(a, b) /\ PairPlus[a][b] = Plus(a, b)
  BY DEF PairTimes, PairPlus
<1>3. PairTimes \in [Pair -> [Pair -> Pair]] /\ PairPlus \in [Pair -> [Pair -> Pair]]
  BY <1>1 DEF PairTimes, PairPlus
<1>4. one \in Pair /\ zero \in Pair
  BY DEF Pair
<1>5. \A a \in Pair : /\ a.num \in Int /\ a.den \in Int
                      /\ a = [num |-> a.num, den |-> a.den]
  BY DEF Pair
<1>6. ASSUME NEW a \in Pair PROVE Times(one, a) = a /\ Plus(zero, a) = a
  <2>1. a.num \in Int /\ a.den \in Int /\ a = [num |-> a.num, den |-> a.den]
    BY <1>5
  <2>2. /\ 1 * a.num = a.num /\ 1 * a.den = a.den
        /\ 0 * a.den + a.num * 1 = a.num
    BY <2>1
  <2>3. Times(one, a) = [num |-> 1 * a.num, den |-> 1 * a.den]
    BY DEF Times
  <2>4. Plus(zero, a) = [num |-> 0 * a.den + a.num * 1, den |-> 1 * a.den]
    BY DEF Plus
  <2>5. QED
    BY <2>1, <2>2, <2>3, <2>4
<1>7. ASSUME NEW a \in Pair, NEW b \in Pair
      PROVE  Times(a, b) = Times(b, a) /\ Plus(a, b) = Plus(b, a)
  <2>1. a.num \in Int /\ a.den \in Int /\ b.num \in Int /\ b.den \in Int
    BY <1>5
  <2>2. a.num * b.num = b.num * a.num /\ a.den * b.den = b.den * a.den
    BY <2>1
  <2>3. a.num * b.den + b.num * a.den = b.num * a.den + a.num * b.den
    BY <2>1
  <2>4. QED
    BY <2>2, <2>3 DEF Times, Plus
<1>8. ASSUME NEW a \in Pair, NEW b \in Pair, NEW c \in Pair
      PROVE  /\ Times(a, Times(b, c)) = Times(Times(a, b), c)
             /\ Plus(a, Plus(b, c)) = Plus(Plus(a, b), c)
  <2>1. /\ a.num \in Int /\ a.den \in Int /\ b.num \in Int /\ b.den \in Int
        /\ c.num \in Int /\ c.den \in Int
    BY <1>5
  <2>2. /\ a.num * (b.num * c.num) = (a.num * b.num) * c.num
        /\ a.den * (b.den * c.den) = (a.den * b.den) * c.den
    BY <2>1
  <2>3. a.num * (b.den * c.den) + (b.num * c.den + c.num * b.den) * a.den
          = (a.num * b.den + b.num * a.den) * c.den + c.num * (a.den * b.den)
    BY <2>1
  <2>4. QED
    BY <2>2, <2>3 DEF Times, Plus
<1> HIDE DEF one, zero
<1>9. IsMonoid(Pair, PairTimes, one)
  <2>1. \A a \in Pair : PairTimes[one][a] = a
    BY <1>2, <1>4, <1>6
  <2>2. \A a, b \in Pair : PairTimes[a][b] = PairTimes[b][a]
    BY <1>2, <1>7
  <2>3. ASSUME NEW a \in Pair, NEW b \in Pair, NEW c \in Pair
        PROVE  PairTimes[a][PairTimes[b][c]] = PairTimes[PairTimes[a][b]][c]
    <3>1. /\ PairTimes[b][c] = Times(b, c) /\ PairTimes[a][b] = Times(a, b)
          /\ Times(b, c) \in Pair /\ Times(a, b) \in Pair
      BY <1>1, <1>2
    <3>2. /\ PairTimes[a][Times(b, c)] = Times(a, Times(b, c))
          /\ PairTimes[Times(a, b)][c] = Times(Times(a, b), c)
      BY <1>2, <3>1
    <3>3. QED
      BY <1>8, <3>1, <3>2
  <2>4. QED
    BY <1>3, <1>4, <2>1, <2>2, <2>3 DEF IsMonoid
<1>10. IsMonoid(Pair, PairPlus, zero)
  <2>1. \A a \in Pair : PairPlus[zero][a] = a
    BY <1>2, <1>4, <1>6
  <2>2. \A a, b \in Pair : PairPlus[a][b] = PairPlus[b][a]
    BY <1>2, <1>7
  <2>3. ASSUME NEW a \in Pair, NEW b \in Pair, NEW c \in Pair
        PROVE  PairPlus[a][PairPlus[b][c]] = PairPlus[PairPlus[a][b]][c]
    <3>1. /\ PairPlus[b][c] = Plus(b, c) /\ PairPlus[a][b] = Plus(a, b)
          /\ Plus(b, c) \in Pair /\ Plus(a, b) \in Pair
      BY <1>1, <1>2
    <3>2. /\ PairPlus[a][Plus(b, c)] = Plus(a, Plus(b, c))
          /\ PairPlus[Plus(a, b)][c] = Plus(Plus(a, b), c)
      BY <1>2, <3>1
    <3>3. QED
      BY <1>8, <3>1, <3>2
  <2>4. QED
    BY <1>3, <1>4, <2>1, <2>2, <2>3 DEF IsMonoid
<1>11. QED
  BY <1>2, <1>9, <1>10 DEF one, zero

\* What the form of a node is, by its operation.
IsFormOf(form, node, l, r) ==
    /\ node.op = "symbol" => form.canonical = node
    /\ node.op = "*" => /\ form.canonical = [op |-> "*", operands |-> form.factors]
                        /\ form.factors = l.factors (+) r.factors
    /\ node.op = "+" => /\ form.canonical = [op |-> "+", operands |-> form.terms]
                        /\ form.terms = l.terms (+) r.terms
    /\ node.op \in {"-", "/"} => form.canonical = Node(node.op, l.canonical, r.canonical)
    /\ node.op # "*" => form.factors = SetToBag({form.canonical})
    /\ node.op # "+" => form.terms = SetToBag({form.canonical})

\* FormOfNode builds the form of its operation.
LEMMA FormsByOperation ==
    ASSUME NEW node, NEW l, NEW r
    PROVE  IsFormOf(FormOfNode(node, l, r), node, l, r)
<1> DEFINE form == FormOfNode(node, l, r)
           factors == l.factors (+) r.factors
           terms == l.terms (+) r.terms
           Whole(c) == [canonical |-> c, factors |-> SetToBag({c}), terms |-> SetToBag({c})]
<1>1. \A c : /\ Whole(c).canonical = c
             /\ Whole(c).factors = SetToBag({c}) /\ Whole(c).terms = SetToBag({c})
             /\ \A b : /\ [Whole(c) EXCEPT !.factors = b].canonical = c
                       /\ [Whole(c) EXCEPT !.factors = b].factors = b
                       /\ [Whole(c) EXCEPT !.factors = b].terms = SetToBag({c})
                       /\ [Whole(c) EXCEPT !.terms = b].canonical = c
                       /\ [Whole(c) EXCEPT !.terms = b].terms = b
                       /\ [Whole(c) EXCEPT !.terms = b].factors = SetToBag({c})
  OBVIOUS
<1>2. form = CASE node.op = "symbol" -> Whole(node)
               [] node.op = "*" ->
                     [Whole([op |-> "*", operands |-> factors]) EXCEPT !.factors = factors]
               [] node.op = "+" ->
                     [Whole([op |-> "+", operands |-> terms]) EXCEPT !.terms = terms]
               [] OTHER -> Whole(Node(node.op, l.canonical, r.canonical))
  BY DEF FormOfNode
<1> HIDE DEF form, factors, terms, Whole
<1> SUFFICES IsFormOf(form, node, l, r)
  BY DEF form
<1>3. CASE node.op = "symbol"
  <2>1. form = Whole(node)
    BY <1>2, <1>3
  <2>2. QED
    BY <1>1, <1>3, <2>1 DEF IsFormOf
<1>4. CASE node.op = "*"
  <2>1. form = [Whole([op |-> "*", operands |-> factors]) EXCEPT !.factors = factors]
    BY <1>2, <1>4
  <2>2. QED
    BY <1>1, <1>4, <2>1 DEF IsFormOf, factors
<1>5. CASE node.op = "+"
  <2>1. form = [Whole([op |-> "+", operands |-> terms]) EXCEPT !.terms = terms]
    BY <1>2, <1>5
  <2>2. QED
    BY <1>1, <1>5, <2>1 DEF IsFormOf, terms
<1>6. CASE node.op \notin {"symbol", "*", "+"}
  <2>1. form = Whole(Node(node.op, l.canonical, r.canonical))
    BY <1>2, <1>6
  <2>2. QED
    BY <1>1, <1>6, <2>1 DEF IsFormOf
<1>7. QED
  BY <1>3, <1>4, <1>5, <1>6

\* The nodes of some expressions with their forms and their values at some
\* prices, those of the operands found with left and right.
IsTable(n, node, left, right, form, value, price) ==
    /\ value \in [1 .. n -> Pair]
    /\ \A k \in 1 .. n :
          /\ \/ node[k].op = "symbol"
             \/ /\ node[k].op \in Operations
                /\ left[k] \in 1 .. k - 1 /\ right[k] \in 1 .. k - 1
          /\ form[k] = FormOfNode(node[k], form[left[k]], form[right[k]])
          /\ value[k] = ValueOfNode(node[k], price, value[left[k]], value[right[k]])

\* One canonical form is one value.
LEMMA FormsDetermineValues ==
    ASSUME NEW n \in Nat, NEW node, NEW left, NEW right, NEW form, NEW value, NEW price,
           IsTable(n, node, left, right, form, value, price)
    PROVE  \A j, k \in 1 .. n : form[j].canonical = form[k].canonical => value[j] = value[k]
<1> DEFINE canonical == [k \in 1 .. n |-> form[k].canonical]
           factors == [k \in 1 .. n |-> form[k].factors]
           terms == [k \in 1 .. n |-> form[k].terms]
           Products == {k \in 1 .. n : node[k].op = "*"}
           Sums == {k \in 1 .. n : node[k].op = "+"}
           T == {k \in 1 .. n : \A j \in 1 .. k : canonical[j] = canonical[k] => value[j] = value[k]}
<1>1. ASSUME NEW k \in 1 .. n
      PROVE  /\ canonical[k] = form[k].canonical
             /\ factors[k] = form[k].factors /\ terms[k] = form[k].terms
             /\ node[k].op \in {"symbol", "+", "-", "*", "/"}
             /\ node[k].op # "symbol" => left[k] \in 1 .. k - 1 /\ right[k] \in 1 .. k - 1
             /\ IsFormOf(form[k], node[k], form[left[k]], form[right[k]])
             /\ value[k] = ValueOfNode(node[k], price, value[left[k]], value[right[k]])
  <2>0. IsFormOf(form[k], node[k], form[left[k]], form[right[k]])
    <3>1. form[k] = FormOfNode(node[k], form[left[k]], form[right[k]])
      BY DEF IsTable
    <3>2. IsFormOf(FormOfNode(node[k], form[left[k]], form[right[k]]), node[k], form[left[k]], form[right[k]])
      BY FormsByOperation
    <3>3. QED
      BY <3>1, <3>2
  <2>1. canonical[k] = form[k].canonical /\ factors[k] = form[k].factors /\ terms[k] = form[k].terms
    OBVIOUS
  <2> HIDE DEF canonical, factors, terms
  <2>2. QED
    BY <2>0, <2>1 DEF IsTable, Operations
<1>2. value \in [1 .. n -> Pair]
  BY DEF IsTable
<1>3. ASSUME NEW k \in 1 .. n
      PROVE  /\ node[k].op = "symbol" => canonical[k] = node[k]
             /\ node[k].op = "*" => canonical[k] = [op |-> "*", operands |-> factors[k]]
             /\ node[k].op = "+" => canonical[k] = [op |-> "+", operands |-> terms[k]]
             /\ node[k].op \in {"-", "/"} =>
                   canonical[k] = Node(node[k].op, canonical[left[k]], canonical[right[k]])
             /\ canonical[k].op = node[k].op
  <2>1. /\ node[k].op = "symbol" => canonical[k] = node[k]
        /\ node[k].op = "*" => canonical[k] = [op |-> "*", operands |-> factors[k]]
        /\ node[k].op = "+" => canonical[k] = [op |-> "+", operands |-> terms[k]]
        /\ node[k].op \in {"-", "/"} =>
              canonical[k] = Node(node[k].op, form[left[k]].canonical, form[right[k]].canonical)
    <3> HIDE DEF canonical, factors, terms
    <3>1. QED
      BY <1>1 DEF IsFormOf
  <2>2. node[k].op \in {"-", "/"} =>
            /\ canonical[left[k]] = form[left[k]].canonical
            /\ canonical[right[k]] = form[right[k]].canonical
    <3>1. node[k].op \in {"-", "/"} => left[k] \in 1 .. n /\ right[k] \in 1 .. n
      BY <1>1
    <3>2. QED
      BY <1>1, <3>1
  <2> HIDE DEF canonical, factors, terms
  <2>3. canonical[k].op = node[k].op
    BY <1>1, <2>1 DEF Node
  <2>4. QED
    BY <2>1, <2>2, <2>3
<1>4. IsChained(factors, n, Products, canonical, left, right)
  <2>1. ASSUME NEW k \in Products
        PROVE  /\ left[k] \in 1 .. k - 1 /\ right[k] \in 1 .. k - 1
               /\ factors[k] = factors[left[k]] (+) factors[right[k]]
    <3>1. left[k] \in 1 .. k - 1 /\ right[k] \in 1 .. k - 1 /\ left[k] \in 1 .. n /\ right[k] \in 1 .. n
      BY <1>1
    <3>2. form[k].factors = form[left[k]].factors (+) form[right[k]].factors
      BY <1>1 DEF IsFormOf
    <3>3. /\ factors[k] = form[k].factors /\ factors[left[k]] = form[left[k]].factors
          /\ factors[right[k]] = form[right[k]].factors
      BY <3>1
    <3> HIDE DEF factors
    <3>4. QED
      BY <3>1, <3>2, <3>3
  <2>2. ASSUME NEW k \in (1 .. n) \ Products PROVE factors[k] = SetToBag({canonical[k]})
    <3>1. form[k].factors = SetToBag({form[k].canonical})
      BY <1>1 DEF IsFormOf
    <3>2. QED
      BY <3>1
  <2> HIDE DEF canonical, factors, Products
  <2>3. QED
    BY <2>1, <2>2 DEF IsChained
<1>5. IsChained(terms, n, Sums, canonical, left, right)
  <2>1. ASSUME NEW k \in Sums
        PROVE  /\ left[k] \in 1 .. k - 1 /\ right[k] \in 1 .. k - 1
               /\ terms[k] = terms[left[k]] (+) terms[right[k]]
    <3>1. left[k] \in 1 .. k - 1 /\ right[k] \in 1 .. k - 1 /\ left[k] \in 1 .. n /\ right[k] \in 1 .. n
      BY <1>1
    <3>2. form[k].terms = form[left[k]].terms (+) form[right[k]].terms
      BY <1>1 DEF IsFormOf
    <3>3. /\ terms[k] = form[k].terms /\ terms[left[k]] = form[left[k]].terms
          /\ terms[right[k]] = form[right[k]].terms
      BY <3>1
    <3> HIDE DEF terms
    <3>4. QED
      BY <3>1, <3>2, <3>3
  <2>2. ASSUME NEW k \in (1 .. n) \ Sums PROVE terms[k] = SetToBag({canonical[k]})
    <3>1. form[k].terms = SetToBag({form[k].canonical})
      BY <1>1 DEF IsFormOf
    <3>2. QED
      BY <3>1
  <2> HIDE DEF canonical, terms, Sums
  <2>3. QED
    BY <2>1, <2>2 DEF IsChained
<1>6. /\ Combines(value, n, Products, PairTimes, left, right)
      /\ Combines(value, n, Sums, PairPlus, left, right)
  <2>1. ASSUME NEW k \in 1 .. n, node[k].op \in {"*", "+"}
        PROVE  value[left[k]] \in Pair /\ value[right[k]] \in Pair
    <3>1. left[k] \in 1 .. n /\ right[k] \in 1 .. n
      BY <1>1, <2>1
    <3>2. QED
      BY <1>2, <3>1
  <2>2. ASSUME NEW k \in Products PROVE value[k] = PairTimes[value[left[k]]][value[right[k]]]
    <3>1. value[k] = Times(value[left[k]], value[right[k]])
      BY <1>1 DEF ValueOfNode
    <3>2. QED
      BY <2>1, <3>1, PairMonoids
  <2>3. ASSUME NEW k \in Sums PROVE value[k] = PairPlus[value[left[k]]][value[right[k]]]
    <3>1. value[k] = Plus(value[left[k]], value[right[k]])
      BY <1>1 DEF ValueOfNode
    <3>2. QED
      BY <2>1, <3>1, PairMonoids
  <2>4. QED
    BY <2>2, <2>3 DEF Combines
<1> HIDE DEF canonical, factors, terms
<1>7. ASSUME NEW k \in 1 .. n, \A i \in 1 .. k - 1 : i \in T PROVE k \in T
  <2>1. \A a, b \in 1 .. k - 1 : canonical[a] = canonical[b] => value[a] = value[b]
    <3>1. ASSUME NEW a \in 1 .. k - 1, NEW b \in 1 .. k - 1, canonical[a] = canonical[b]
          PROVE  value[a] = value[b]
      <4>1. a \in T /\ b \in T
        BY <1>7
      <4>2. CASE a <= b
        BY <3>1, <4>1, <4>2
      <4>3. CASE b <= a
        BY <3>1, <4>1, <4>3
      <4>4. QED
        BY <4>2, <4>3
    <3>2. QED
      BY <3>1
  <2>2. ASSUME NEW j \in 1 .. k, canonical[j] = canonical[k] PROVE value[j] = value[k]
    <3>0. j \in 1 .. n
      OBVIOUS
    <3>1. j \in 1 .. n /\ node[j].op = node[k].op
      <4>1. canonical[j].op = node[j].op /\ canonical[k].op = node[k].op
        BY <1>3, <3>0
      <4>2. QED
        BY <2>2, <3>0, <4>1
    <3>2. CASE node[k].op = "symbol"
      <4>1. node[j] = node[k]
        BY <1>3, <2>2, <3>1, <3>2
      <4>2. \A i \in {j, k} : value[i] = [num |-> price[node[i].name], den |-> 1]
        BY <1>1, <3>1, <3>2 DEF ValueOfNode
      <4>3. QED
        BY <4>1, <4>2
    <3>3. CASE node[k].op = "*"
      <4>1. [op |-> "*", operands |-> factors[j]] = [op |-> "*", operands |-> factors[k]]
        BY <1>3, <2>2, <3>1, <3>3
      <4>2. factors[j] = factors[k]
        BY <4>1
      <4>3. j \in Products /\ k \in Products
        BY <3>1, <3>3
      <4> HIDE DEF Products, T
      <4>4. IsMonoid(Pair, PairTimes, [num |-> 1, den |-> 1])
        BY PairMonoids
      <4>5. QED
        BY <1>2, <1>4, <1>6, <2>1, <4>2, <4>3, <4>4, SameBagsAgree
    <3>4. CASE node[k].op = "+"
      <4>1. [op |-> "+", operands |-> terms[j]] = [op |-> "+", operands |-> terms[k]]
        BY <1>3, <2>2, <3>1, <3>4
      <4>2. terms[j] = terms[k]
        BY <4>1
      <4>3. j \in Sums /\ k \in Sums
        BY <3>1, <3>4
      <4> HIDE DEF Sums, T
      <4>4. IsMonoid(Pair, PairPlus, [num |-> 0, den |-> 1])
        BY PairMonoids
      <4>5. QED
        BY <1>2, <1>5, <1>6, <2>1, <4>2, <4>3, <4>4, SameBagsAgree
    <3>5. CASE node[k].op \in {"-", "/"}
      <4>1. Node(node[k].op, canonical[left[j]], canonical[right[j]])
              = Node(node[k].op, canonical[left[k]], canonical[right[k]])
        <5>1. canonical[j] = Node(node[j].op, canonical[left[j]], canonical[right[j]])
          BY <1>3, <3>1, <3>5
        <5>2. canonical[k] = Node(node[k].op, canonical[left[k]], canonical[right[k]])
          BY <1>3, <3>5
        <5>3. QED
          BY <2>2, <3>1, <5>1, <5>2
      <4>2. canonical[left[j]] = canonical[left[k]] /\ canonical[right[j]] = canonical[right[k]]
        BY <4>1 DEF Node
      <4>3. /\ left[j] \in 1 .. k - 1 /\ right[j] \in 1 .. k - 1
            /\ left[k] \in 1 .. k - 1 /\ right[k] \in 1 .. k - 1
        BY <1>1, <3>1, <3>5
      <4>4. value[left[j]] = value[left[k]] /\ value[right[j]] = value[right[k]]
        BY <2>1, <4>2, <4>3
      <4>5. /\ value[j] = ValueOfNode(node[j], price, value[left[j]], value[right[j]])
            /\ value[k] = ValueOfNode(node[k], price, value[left[k]], value[right[k]])
        BY <1>1, <3>1
      <4>6. QED
        BY <3>1, <3>5, <4>4, <4>5 DEF ValueOfNode
    <3>6. QED
      BY <1>1, <3>2, <3>3, <3>4, <3>5
  <2>3. QED
    BY <2>2
<1> HIDE DEF T
<1>8. \A k \in 1 .. n : k \in T
  BY <1>7, TreeInduction
<1>9. ASSUME NEW j \in 1 .. n, NEW k \in 1 .. n, canonical[j] = canonical[k] PROVE value[j] = value[k]
  <2>1. CASE j <= k
    BY <1>8, <1>9, <2>1 DEF T
  <2>2. CASE k <= j
    BY <1>8, <1>9, <2>2 DEF T
  <2>3. QED
    BY <2>1, <2>2
<1>10. QED
  BY <1>1, <1>9

\* A symbol has no operands.
LEMMA SymbolsHaveNoOperands ==
    ASSUME NEW node, node.op = "symbol", NEW price, NEW l, NEW r, NEW x, NEW y
    PROVE  /\ FormOfNode(node, l, r) = FormOfNode(node, x, y)
           /\ ValueOfNode(node, price, l, r) = ValueOfNode(node, price, x, y)
BY DEF FormOfNode, ValueOfNode

\* Two expressions with one canonical form have one value at all prices: their
\* nodes, one after the other, are a table.
LEMMA SameFormsAgree ==
    ASSUME NEW names, NEW e, IsExpression(e, names), NEW f, IsExpression(f, names),
           Canonical(e) = Canonical(f), NEW price \in [names -> Int]
    PROVE  ValueAt(e, price) = ValueAt(f, price)
<1>1. PICK x : AreForms(x, e) /\ Canonical(e) = x[Len(e)].canonical
  BY FormsOfNodes
<1>2. PICK y : AreForms(y, f) /\ Canonical(f) = y[Len(f)].canonical
  BY FormsOfNodes
<1>3. PICK v : AreValues(v, e, price) /\ ValueAt(e, price) = v[Len(e)]
  BY ValuesOfNodes
<1>4. PICK w : AreValues(w, f, price) /\ ValueAt(f, price) = w[Len(f)]
  BY ValuesOfNodes
<1> DEFINE m == Len(e)
           n == Len(e) + Len(f)
           node == [k \in 1 .. n |-> IF k <= m THEN e[k] ELSE f[k - m]]
           left == [k \in 1 .. n |-> IF k <= m THEN e[k].left ELSE f[k - m].left + m]
           right == [k \in 1 .. n |-> IF k <= m THEN e[k].right ELSE f[k - m].right + m]
           form == [k \in 1 .. n |-> IF k <= m THEN x[k] ELSE y[k - m]]
           value == [k \in 1 .. n |-> IF k <= m THEN v[k] ELSE w[k - m]]
<1>5. /\ m \in Nat \ {0} /\ Len(f) \in Nat \ {0} /\ n \in Nat /\ m \in 1 .. n /\ n \in 1 .. n
      /\ m <= m /\ ~(n <= m) /\ n - m = Len(f)
  BY ExpressionNodes
<1>6. ASSUME NEW k \in 1 .. n, k <= m
      PROVE  /\ k \in 1 .. Len(e)
             /\ node[k] = e[k] /\ form[k] = x[k] /\ value[k] = v[k]
             /\ left[k] = e[k].left /\ right[k] = e[k].right
  BY <1>5, <1>6
<1>7. ASSUME NEW k \in 1 .. n, ~(k <= m)
      PROVE  /\ k - m \in 1 .. Len(f)
             /\ node[k] = f[k - m] /\ form[k] = y[k - m] /\ value[k] = w[k - m]
             /\ left[k] = f[k - m].left + m /\ right[k] = f[k - m].right + m
  BY <1>5, <1>7
<1>8. value \in [1 .. n -> Pair]
  <2>1. \A k \in 1 .. n : value[k] \in Pair
    BY <1>3, <1>4, <1>6, <1>7 DEF AreValues
  <2>2. QED
    BY <2>1
<1> HIDE DEF n, m, node, left, right, form, value
<1>9. ASSUME NEW k \in 1 .. n
      PROVE  /\ \/ node[k].op = "symbol"
                \/ /\ node[k].op \in Operations
                   /\ left[k] \in 1 .. k - 1 /\ right[k] \in 1 .. k - 1
             /\ form[k] = FormOfNode(node[k], form[left[k]], form[right[k]])
             /\ value[k] = ValueOfNode(node[k], price, value[left[k]], value[right[k]])
  <2>1. CASE k <= m
    <3>1. /\ form[k] = FormOfNode(node[k], x[left[k]], x[right[k]])
          /\ value[k] = ValueOfNode(node[k], price, v[left[k]], v[right[k]])
      BY <1>1, <1>3, <1>6, <2>1 DEF AreForms, AreValues
    <3>2. CASE node[k].op = "symbol"
      BY <3>1, <3>2, SymbolsHaveNoOperands
    <3>3. CASE node[k].op # "symbol"
      <4>1. node[k].op \in Operations /\ left[k] \in 1 .. k - 1 /\ right[k] \in 1 .. k - 1
        BY <1>6, <2>1, <3>3, ExpressionNodes
      <4>2. left[k] \in 1 .. n /\ left[k] <= m /\ right[k] \in 1 .. n /\ right[k] <= m
        BY <1>5, <2>1, <4>1
      <4>3. /\ form[left[k]] = x[left[k]] /\ value[left[k]] = v[left[k]]
            /\ form[right[k]] = x[right[k]] /\ value[right[k]] = v[right[k]]
        BY <1>6, <4>2
      <4>4. QED
        BY <3>1, <4>1, <4>3
    <3>4. QED
      BY <3>2, <3>3
  <2>2. CASE ~(k <= m)
    <3> DEFINE j == k - m
    <3>1. /\ j \in 1 .. Len(f) /\ node[k] = f[j] /\ left[k] = f[j].left + m
          /\ right[k] = f[j].right + m /\ form[k] = y[j] /\ value[k] = w[j]
      BY <1>7, <2>2
    <3>2. /\ form[k] = FormOfNode(node[k], y[f[j].left], y[f[j].right])
          /\ value[k] = ValueOfNode(node[k], price, w[f[j].left], w[f[j].right])
      BY <1>2, <1>4, <3>1 DEF AreForms, AreValues
    <3>3. CASE node[k].op = "symbol"
      BY <3>2, <3>3, SymbolsHaveNoOperands
    <3>4. CASE node[k].op # "symbol"
      <4>1. node[k].op \in Operations /\ f[j].left \in 1 .. j - 1 /\ f[j].right \in 1 .. j - 1
        BY <3>1, <3>4, ExpressionNodes
      <4>2. /\ left[k] \in 1 .. k - 1 /\ left[k] \in 1 .. n /\ ~(left[k] <= m)
            /\ left[k] - m = f[j].left
        BY <1>5, <3>1, <4>1
      <4>3. /\ right[k] \in 1 .. k - 1 /\ right[k] \in 1 .. n /\ ~(right[k] <= m)
            /\ right[k] - m = f[j].right
        BY <1>5, <3>1, <4>1
      <4>4. /\ form[left[k]] = y[f[j].left] /\ value[left[k]] = w[f[j].left]
        BY <1>7, <4>2
      <4>5. /\ form[right[k]] = y[f[j].right] /\ value[right[k]] = w[f[j].right]
        BY <1>7, <4>3
      <4>6. QED
        BY <3>2, <4>1, <4>2, <4>3, <4>4, <4>5
    <3>5. QED
      BY <3>3, <3>4
  <2>3. QED
    BY <2>1, <2>2
<1>10. IsTable(n, node, left, right, form, value, price)
  BY <1>8, <1>9 DEF IsTable
<1>11. form[m] = x[m] /\ value[m] = v[m]
  BY <1>5, <1>6
<1>12. form[n] = y[Len(f)] /\ value[n] = w[Len(f)]
  BY <1>5, <1>7
<1>13. form[m].canonical = form[n].canonical
  BY <1>1, <1>2, <1>11, <1>12 DEF m
<1>14. value[m] = value[n]
  BY <1>5, <1>10, <1>13, FormsDetermineValues
<1>15. QED
  BY <1>3, <1>4, <1>11, <1>12, <1>14 DEF m

\* Candidates with one hypothesis agree at all positive prices.
LEMMA SameHypothesesAgree ==
    ASSUME NEW names, IsFiniteSet(names),
           NEW c, IsExpression(Expression(c.formula), names),
           NEW d, IsExpression(Expression(d.formula), names),
           SameHypothesis(c, d), NEW prices \in [names -> Positive]
    PROVE  c.target = d.target /\ AgreeAt(c, d, prices)
<1> DEFINE e == Expression(c.formula)
           f == Expression(d.formula)
<1>1. c.target = d.target /\ (SemanticKey(e) = SemanticKey(f) \/ Canonical(e) = Canonical(f))
  BY DEF SameHypothesis
<1>2. ValueOf(c.formula, prices) = ValueAt(e, prices) /\ ValueOf(d.formula, prices) = ValueAt(f, prices)
  BY DEF ValueOf
<1> HIDE DEF e, f
<1>3. IsExpression(e, names) /\ IsExpression(f, names)
  BY DEF e, f
<1>4. CASE SemanticKey(e) = SemanticKey(f)
  <2>1. SameValue(ValueAt(e, prices), ValueAt(f, prices))
    BY <1>3, <1>4, SameKeysAgree
  <2>2. QED
    BY <1>1, <1>2, <2>1 DEF AgreeAt, SameValue
<1>5. CASE Canonical(e) = Canonical(f)
  <2>1. prices \in [names -> Int]
    BY DEF Positive
  <2>2. ValueAt(e, prices) = ValueAt(f, prices)
    BY <1>3, <1>5, <2>1, SameFormsAgree
  <2>3. Equal(ValueAt(e, prices), ValueAt(f, prices))
    BY <2>2 DEF Equal
  <2>4. QED
    BY <1>1, <1>2, <2>2, <2>3 DEF AgreeAt
<1>6. QED
  BY <1>1, <1>4, <1>5

\* Products and ratios with other hypotheses for one target differ at prices
\* that tell one symbol from the rest.
LEMMA OtherHypothesesDiffer ==
    ASSUME NEW names,
           NEW c, IsExpression(Expression(c.formula), names), IsMonomialRatio(Expression(c.formula)),
           NEW d, IsExpression(Expression(d.formula), names), IsMonomialRatio(Expression(d.formula)),
           c.target = d.target, ~SameHypothesis(c, d)
    PROVE  \E x \in names : ~AgreeAt(c, d, Doubled(names, x))
<1> DEFINE e == Expression(c.formula)
           f == Expression(d.formula)
<1>1. SemanticKey(e) # SemanticKey(f)
  BY DEF SameHypothesis
<1>2. \A prices : /\ ValueOf(c.formula, prices) = ValueAt(e, prices)
                  /\ ValueOf(d.formula, prices) = ValueAt(f, prices)
  BY DEF ValueOf
<1>3. /\ IsExpression(e, names) /\ IsMonomialRatio(e)
      /\ IsExpression(f, names) /\ IsMonomialRatio(f)
  OBVIOUS
<1> HIDE DEF e, f
<1>4. PICK x \in names : Exponent(e, x) # Exponent(f, x)
  BY <1>1, <1>3, KeysAreExponents
<1>5. /\ None \notin {ValueAt(e, Doubled(names, x)), ValueAt(f, Doubled(names, x))}
      /\ ~Equal(ValueAt(e, Doubled(names, x)), ValueAt(f, Doubled(names, x)))
  BY <1>3, <1>4, OtherExponentsDiffer
<1>6. ~AgreeAt(c, d, Doubled(names, x))
  BY <1>2, <1>5 DEF AgreeAt
<1>7. QED
  BY <1>6

\* The prices the runs look at are positive, and among them are those.
LEMMA TellingPrices ==
    /\ Telling(Range(Names)) \subseteq [Range(Names) -> Positive]
    /\ \A x \in Range(Names) : Doubled(Range(Names), x) \in Telling(Range(Names))
<1> DEFINE S == Range(Names)
<1>1. \A s \in S : Place(s) \in Nat \ {0}
  <2>1. DOMAIN Names = 1 .. Len(Names) /\ Len(Names) \in Nat
    BY NamesAreListed, LenProperties
  <2>2. QED
    BY <2>1, NamesHavePlaces
<1>2. \A s \in S : Place(s) + 1 \in Positive /\ 4 * Place(s) - 3 \in Positive
  BY <1>1 DEF Positive
<1>3. 1 \in Positive /\ 2 \in Positive
  BY DEF Positive
<1> HIDE DEF S
<1>4. /\ \A x \in S : [s \in S |-> IF s = x THEN 2 ELSE 1] \in [S -> Positive]
      /\ [s \in S |-> Place(s) + 1] \in [S -> Positive]
      /\ [s \in S |-> 4 * Place(s) - 3] \in [S -> Positive]
  BY <1>2, <1>3
<1>5. Telling(S) \subseteq [S -> Positive]
  BY <1>4 DEF Telling
<1>6. \A x \in S : Doubled(S, x) \in Telling(S)
  BY DEF Doubled, Telling
<1>7. QED
  BY <1>5, <1>6 DEF S

-----------------------------------------------------------------------------
(* Files, candidates and evaluations                                       *)

\* The times of a file in order: some, and each of a row.
LEMMA TimesOfAFile ==
    ASSUME NEW R, NEW rows \in Seq(R), rows # <<>>, \A k \in DOMAIN rows : rows[k].at \in Int
    PROVE  LET times == Ascending({rows[k].at : k \in DOMAIN rows}) IN
           /\ Len(times) \in Nat \ {0} /\ DOMAIN times = 1 .. Len(times)
           /\ \A t \in 1 .. Len(times) : \E row \in Range(rows) : row.at = times[t]
<1> DEFINE X == {rows[k].at : k \in DOMAIN rows}
           f == [k \in DOMAIN rows |-> rows[k].at]
           times == Ascending(X)
<1>1. Len(rows) \in Nat \ {0} /\ DOMAIN rows = 1 .. Len(rows)
  BY LenProperties, EmptySeq
<1>2. f \in Surjection(DOMAIN rows, X) /\ X \in SUBSET Int /\ X # {}
  BY <1>1 DEF Surjection
<1>3. IsFiniteSet(DOMAIN rows)
  BY <1>1, OneToN
<1>4. \A x \in X : \E row \in Range(rows) : row.at = x
  BY DEF Range
<1> HIDE DEF X, f
<1>5. IsFiniteSet(X)
  BY <1>2, <1>3, FS_Surjection
<1>6. times \in Seq(X) /\ Len(times) = Cardinality(X)
  BY <1>2, <1>5, AscendingLists
<1> HIDE DEF times
<1>7. Len(times) \in Nat /\ DOMAIN times = 1 .. Len(times) /\ \A t \in 1 .. Len(times) : times[t] \in X
  BY <1>6, LenProperties, ElementOfSeq
<1>8. Len(times) # 0
  BY <1>2, <1>5, <1>6, FS_EmptySet
<1>9. /\ Len(times) \in Nat \ {0} /\ DOMAIN times = 1 .. Len(times)
      /\ \A t \in 1 .. Len(times) : \E row \in Range(rows) : row.at = times[t]
  BY <1>4, <1>7, <1>8
<1>10. QED
  BY <1>9 DEF times, X

\* Rows that all have the same symbols are a panel.
LEMMA RowsArePanel ==
    ASSUME NEW n \in Nat \ {0}, NEW symbols \in SUBSET Range(Names), NEW frame,
           frame = [t \in 1 .. n |-> frame[t]], \A t \in 1 .. n : DOMAIN frame[t] = symbols
    PROVE  IsPanel(frame)
<1>1. DOMAIN frame = 1 .. n /\ \A t \in 1 .. n : frame[t] \in Range(frame)
  BY DEF Range
<1>2. frame \in [1 .. n -> Range(frame)]
  BY <1>1
<1>3. frame \in Seq(Range(frame)) /\ Len(frame) = n
  BY <1>1, <1>2
<1>4. frame # <<>> /\ 1 \in 1 .. n
  BY <1>3
<1>5. SymbolsOf(frame) = symbols
  BY <1>4 DEF SymbolsOf
<1>6. QED
  BY <1>1, <1>3, <1>4, <1>5 DEF IsPanel

\* What is loaded is a panel.
LEMMA WideIsAPanel ==
    ASSUME NEW R, NEW rows \in Seq(R), rows # <<>>, WideFile(rows)
    PROVE  IsPanel(Wide(rows))
<1> DEFINE times == Ascending({rows[k].at : k \in DOMAIN rows})
           n == Len(times)
           row(t) == CHOOSE row \in Range(rows) : row.at = times[t]
           symbols == DOMAIN rows[1].price
           frame == Wide(rows)
<1>1. Len(rows) \in Nat \ {0} /\ DOMAIN rows = 1 .. Len(rows)
  BY LenProperties, EmptySeq
<1>2. \A k \in DOMAIN rows : rows[k].at \in Int /\ DOMAIN rows[k].price = symbols
  BY <1>1 DEF WideFile
<1>3. symbols \in SUBSET Range(Names)
  BY <1>1 DEF WideFile
<1>4. /\ n \in Nat \ {0} /\ DOMAIN times = 1 .. n
      /\ \A t \in 1 .. n : \E r \in Range(rows) : r.at = times[t]
  BY <1>2, TimesOfAFile
<1>5. frame = [t \in DOMAIN times |-> row(t).price]
  BY DEF Wide
<1>6. \A t \in 1 .. n : row(t) \in Range(rows)
  BY <1>4
<1>7. \A r \in Range(rows) : DOMAIN r.price = symbols
  BY <1>2 DEF Range
<1> HIDE DEF times, n, row, symbols, frame
<1>8. frame = [t \in 1 .. n |-> frame[t]] /\ \A t \in 1 .. n : DOMAIN frame[t] = symbols
  BY <1>4, <1>5, <1>6, <1>7
<1>9. IsPanel(frame)
  BY <1>3, <1>4, <1>8, RowsArePanel
<1>10. QED
  BY <1>9 DEF frame

\* A long file that is loaded is a panel.
LEMMA LongIsAPanel ==
    ASSUME NEW R, NEW rows \in Seq(R), rows # <<>>, LongFile(rows)
    PROVE  IsPanel(Long(rows))
<1> DEFINE times == Ascending({rows[k].at : k \in DOMAIN rows})
           n == Len(times)
           symbols == {rows[k].symbol : k \in DOMAIN rows}
           Closes(t, s) == {rows[k].close : k \in {l \in DOMAIN rows :
                                                     rows[l].at = times[t] /\ rows[l].symbol = s}}
           close(t, s) == IF Closes(t, s) = {} THEN NoValue ELSE CHOOSE c \in Closes(t, s) : TRUE
           frame == Long(rows)
<1>1. \A k \in DOMAIN rows : rows[k].at \in Int
  BY DEF LongFile
<1>2. symbols \in SUBSET Range(Names)
  BY DEF LongFile
<1>3. n \in Nat \ {0} /\ DOMAIN times = 1 .. n
  BY <1>1, TimesOfAFile
<1>4. frame = [t \in DOMAIN times |-> [s \in symbols |-> close(t, s)]]
  BY DEF Long
<1> HIDE DEF times, n, close, symbols, frame
<1>5. frame = [t \in 1 .. n |-> frame[t]] /\ \A t \in 1 .. n : DOMAIN frame[t] = symbols
  BY <1>3, <1>4
<1>6. IsPanel(frame)
  BY <1>2, <1>3, <1>5, RowsArePanel
<1>7. QED
  BY <1>6 DEF frame

\* The reports of a deduplication of some candidates.
Reports(R) == [kept : Seq(R), duplicates : Seq(R \X R), unparsable : Seq({c.name : c \in R})]

\* A report for each number of candidates, the first of none.
AreReports(report, candidates) ==
    /\ report[0] = [kept |-> <<>>, duplicates |-> <<>>, unparsable |-> <<>>]
    /\ \A k \in 1 .. Len(candidates) : report[k] = Deduplicate(report[k - 1], candidates[k])

\* The deduplication is one turn of the loop after another.
LEMMA DeduplicationSteps ==
    ASSUME NEW R, NEW candidates \in Seq(R)
    PROVE  \E report : /\ AreReports(report, candidates)
                       /\ \A k \in 0 .. Len(candidates) : report[k] \in Reports(R)
                       /\ Deduplication(candidates) = report[Len(candidates)]
<1> DEFINE n == Len(candidates)
           Report == Reports(R)
           nothing == [kept |-> <<>>, duplicates |-> <<>>, unparsable |-> <<>>]
           Recurs(f) == f = [k \in 0 .. n |-> IF k = 0 THEN nothing
                                              ELSE Deduplicate(f[k - 1], candidates[k])]
           report == CHOOSE f : Recurs(f)
           step == [k \in 1 .. n |-> [r \in Report |-> Deduplicate(r, candidates[k])]]
<1>0. n \in Nat /\ \A k \in 1 .. n : candidates[k] \in R
  BY LenProperties, ElementOfSeq
<1>1. ASSUME NEW r \in Report, NEW c \in R PROVE Deduplicate(r, c) \in Report
  <2>1. r.kept \in Seq(R) /\ r.duplicates \in Seq(R \X R) /\ r.unparsable \in Seq({d.name : d \in R})
    BY DEF Reports
  <2>2. CASE Refused(c.formula)
    <3>1. Append(r.unparsable, c.name) \in Seq({d.name : d \in R})
      BY <2>1, AppendProperties
    <3>2. Deduplicate(r, c) = [r EXCEPT !.unparsable = Append(@, c.name)]
      BY <2>2 DEF Deduplicate
    <3>3. QED
      BY <2>1, <3>1, <3>2 DEF Reports
  <2>3. CASE ~Refused(c.formula) /\ \E d \in Range(r.kept) : SameHypothesis(d, c)
    <3> DEFINE d == CHOOSE d \in Range(r.kept) : SameHypothesis(d, c)
    <3>1. d \in Range(r.kept)
      BY <2>3
    <3>2. d \in R
      BY <2>1, <3>1, RangeIsFinite
    <3>3. Append(r.duplicates, <<d, c>>) \in Seq(R \X R)
      BY <2>1, <3>2, AppendProperties
    <3>4. Deduplicate(r, c) = [r EXCEPT !.duplicates = Append(@, <<d, c>>)]
      BY <2>3 DEF Deduplicate
    <3> HIDE DEF d
    <3>5. QED
      BY <2>1, <3>3, <3>4 DEF Reports
  <2>4. CASE ~Refused(c.formula) /\ ~\E d \in Range(r.kept) : SameHypothesis(d, c)
    <3>1. Append(r.kept, c) \in Seq(R)
      BY <2>1, AppendProperties
    <3>2. Deduplicate(r, c) = [r EXCEPT !.kept = Append(@, c)]
      BY <2>4 DEF Deduplicate
    <3>3. QED
      BY <2>1, <3>1, <3>2 DEF Reports
  <2>5. QED
    BY <2>2, <2>3, <2>4
<1>2. nothing \in Report
  BY EmptySeq DEF Reports
<1> HIDE DEF Report, nothing, n
<1>3. step \in [1 .. n -> [Report -> Report]]
  BY <1>0, <1>1
<1>4. \A k \in 1 .. n, r \in Report : step[k][r] = Deduplicate(r, candidates[k])
  OBVIOUS
<1> HIDE DEF step
<1>5. PICK e \in [0 .. n -> Report] : Follows(e, 0 .. n, nothing, step)
  BY <1>0, <1>2, <1>3, Recursion
<1>6. ASSUME NEW k \in 1 .. n PROVE e[k] = Deduplicate(e[k - 1], candidates[k])
  <2>1. k \in (0 .. n) \ {0} /\ k - 1 \in 0 .. n /\ e[k - 1] \in Report
    BY <1>0
  <2>2. e[k] = step[k][e[k - 1]]
    BY <1>5, <2>1 DEF Follows
  <2>3. QED
    BY <1>4, <2>1, <2>2
<1>7. Recurs(e)
  <2>1. \A k \in 0 .. n : k = 0 \/ k \in 1 .. n
    BY <1>0
  <2>2. QED
    BY <1>5, <1>6, <2>1 DEF Follows
<1>8. Deduplication(candidates) = report[n]
  BY DEF Deduplication, nothing, n
<1>9. Recurs(report)
  <2> HIDE DEF Recurs
  <2>1. QED
    BY <1>7
<1> HIDE DEF report
<1>10. /\ report[0] = nothing
       /\ \A k \in 1 .. n : report[k] = Deduplicate(report[k - 1], candidates[k])
  <2>1. 0 \in 0 .. n /\ \A k \in 1 .. n : k \in 0 .. n /\ k # 0
    BY <1>0
  <2>2. QED
    BY <1>9, <2>1
<1>11. \A k \in 0 .. n : report[k] \in Report
  <2> DEFINE T == {k \in Nat : k <= n => report[k] \in Report}
  <2>1. 0 \in T
    BY <1>2, <1>10
  <2>2. ASSUME NEW k \in Nat, k \in T PROVE k + 1 \in T
    <3> SUFFICES ASSUME k + 1 <= n PROVE report[k + 1] \in Report
      OBVIOUS
    <3>1. k + 1 \in 1 .. n /\ (k + 1) - 1 = k /\ report[k] \in Report
      BY <1>0, <2>2
    <3>2. report[k + 1] = Deduplicate(report[k], candidates[k + 1])
      BY <1>10, <3>1
    <3>3. QED
      BY <1>0, <1>1, <3>1, <3>2
  <2> HIDE DEF T
  <2>3. \A k \in 0 .. n : k \in T
    BY <1>0, <2>1, <2>2, Induction
  <2>4. QED
    BY <1>0, <2>3 DEF T
<1>12. AreReports(report, candidates)
  BY <1>10 DEF AreReports, nothing, n
<1>13. QED
  BY <1>8, <1>11, <1>12 DEF Report, n

\* What is kept are candidates.
LEMMA KeptAreCandidates ==
    ASSUME NEW R, NEW candidates \in Seq(R)
    PROVE  Deduplication(candidates) \in Reports(R) /\ Deduplication(candidates).kept \in Seq(R)
<1>1. Len(candidates) \in 0 .. Len(candidates)
  BY LenProperties
<1>2. Deduplication(candidates) \in Reports(R)
  BY <1>1, DeduplicationSteps
<1>3. QED
  BY <1>2 DEF Reports

\* What Append adds to a sequence.
LEMMA AppendAdds ==
    ASSUME NEW S, NEW s \in Seq(S), NEW x
    PROVE  /\ Len(s) \in Nat /\ Len(Append(s, x)) = Len(s) + 1
           /\ DOMAIN s = 1 .. Len(s) /\ DOMAIN Append(s, x) = 1 .. Len(s) + 1
           /\ \A k \in 1 .. Len(s) : Append(s, x)[k] = s[k]
           /\ Append(s, x)[Len(s) + 1] = x
           /\ Range(Append(s, x)) = Range(s) \cup {x}
<1>1. s \in Seq(S \cup {x}) /\ x \in S \cup {x}
  <2>1. Len(s) \in Nat /\ s \in [1 .. Len(s) -> S]
    BY LenProperties
  <2>2. s \in [1 .. Len(s) -> S \cup {x}]
    BY <2>1
  <2>3. QED
    BY <2>1, <2>2
<1>2. /\ Len(s) \in Nat /\ Len(Append(s, x)) = Len(s) + 1
      /\ DOMAIN s = 1 .. Len(s) /\ DOMAIN Append(s, x) = 1 .. Len(s) + 1
      /\ \A k \in 1 .. Len(s) : Append(s, x)[k] = s[k]
      /\ Append(s, x)[Len(s) + 1] = x
  <2>1. Append(s, x) \in Seq(S \cup {x}) /\ Len(Append(s, x)) = Len(s) + 1
    BY <1>1, AppendProperties
  <2>2. QED
    BY <1>1, <2>1, AppendProperties, LenProperties
<1>3. \A k : k \in 1 .. Len(s) + 1 <=> (k \in 1 .. Len(s) \/ k = Len(s) + 1)
  BY <1>2
<1>4. QED
  BY <1>2, <1>3 DEF Range

\* Every one of n candidates, those of C, is kept or named with one that is
\* kept and asserts its hypothesis, and none that is kept asserts that of
\* one kept before it.
IsExact(report, C, n) ==
    /\ Range(report.kept) \cup {report.duplicates[k][2] : k \in DOMAIN report.duplicates} = C
    /\ Len(report.kept) + Len(report.duplicates) = n
    /\ \A k \in DOMAIN report.duplicates :
          /\ report.duplicates[k][1] \in Range(report.kept)
          /\ SameHypothesis(report.duplicates[k][1], report.duplicates[k][2])
    /\ \A i, j \in DOMAIN report.kept : i < j => ~SameHypothesis(report.kept[i], report.kept[j])

\* One turn of the loop keeps it so.
LEMMA OneMoreCandidate ==
    ASSUME NEW R, NEW report \in Reports(R), NEW C, NEW n \in Nat, IsExact(report, C, n),
           NEW c, ~Refused(c.formula)
    PROVE  IsExact(Deduplicate(report, c), C \cup {c}, n + 1)
<1> DEFINE kept == report.kept
           dups == report.duplicates
           Second(s) == {s[k][2] : k \in DOMAIN s}
<1>1. kept \in Seq(R) /\ dups \in Seq(R \X R)
  BY DEF Reports
<1>2. DOMAIN report = {"kept", "duplicates", "unparsable"}
  BY DEF Reports
<1>3. /\ Range(kept) \cup Second(dups) = C
      /\ Len(kept) + Len(dups) = n
      /\ \A k \in DOMAIN dups : dups[k][1] \in Range(kept) /\ SameHypothesis(dups[k][1], dups[k][2])
      /\ \A i, j \in DOMAIN kept : i < j => ~SameHypothesis(kept[i], kept[j])
  BY DEF IsExact
<1>4. /\ Len(kept) \in Nat /\ Len(dups) \in Nat
      /\ DOMAIN kept = 1 .. Len(kept) /\ DOMAIN dups = 1 .. Len(dups)
  BY <1>1, LenProperties
<1> HIDE DEF kept, dups
<1>5. CASE \E d \in Range(kept) : SameHypothesis(d, c)
  <2> DEFINE d == CHOOSE d \in Range(kept) : SameHypothesis(d, c)
             new == Append(dups, <<d, c>>)
             after == Deduplicate(report, c)
  <2>1. d \in Range(kept) /\ SameHypothesis(d, c)
    BY <1>5
  <2>2. after = [report EXCEPT !.duplicates = Append(@, <<d, c>>)]
    BY <1>5 DEF Deduplicate, kept
  <2> HIDE DEF d, after
  <2>3. after.kept = kept /\ after.duplicates = new
    BY <1>2, <2>2 DEF kept, dups
  <2>4. /\ Len(new) = Len(dups) + 1 /\ DOMAIN new = 1 .. Len(dups) + 1
        /\ \A k \in 1 .. Len(dups) : new[k] = dups[k]
        /\ new[Len(dups) + 1] = <<d, c>>
    BY <1>1, AppendAdds
  <2> HIDE DEF new
  <2>5. \A k : k \in 1 .. Len(dups) + 1 <=> (k \in 1 .. Len(dups) \/ k = Len(dups) + 1)
    BY <1>4
  <2>6. Second(new) = Second(dups) \cup {c}
    <3>1. new[Len(dups) + 1][2] = c
      BY <2>4
    <3>2. QED
      BY <1>4, <2>4, <2>5, <3>1
  <2>7. \A k \in DOMAIN new : new[k][1] \in Range(kept) /\ SameHypothesis(new[k][1], new[k][2])
    <3>1. new[Len(dups) + 1][1] = d /\ new[Len(dups) + 1][2] = c
      BY <2>4
    <3>2. QED
      BY <1>3, <1>4, <2>1, <2>4, <2>5, <3>1
  <2>8. Len(kept) + Len(new) = n + 1
    BY <1>3, <1>4, <2>4
  <2>9. Range(kept) \cup Second(new) = C \cup {c}
    <3> HIDE DEF Second
    <3>1. QED
      BY <1>3, <2>6
  <2>10. IsExact(after, C \cup {c}, n + 1)
    BY <1>3, <2>3, <2>7, <2>8, <2>9 DEF IsExact
  <2>11. QED
    BY <2>10 DEF after
<1>6. CASE ~\E d \in Range(kept) : SameHypothesis(d, c)
  <2> DEFINE new == Append(kept, c)
             after == Deduplicate(report, c)
  <2>1. after = [report EXCEPT !.kept = Append(@, c)]
    BY <1>6 DEF Deduplicate, kept
  <2> HIDE DEF after
  <2>2. after.kept = new /\ after.duplicates = dups
    BY <1>2, <2>1 DEF kept, dups
  <2>3. /\ Len(new) = Len(kept) + 1 /\ DOMAIN new = 1 .. Len(kept) + 1
        /\ \A k \in 1 .. Len(kept) : new[k] = kept[k]
        /\ new[Len(kept) + 1] = c /\ Range(new) = Range(kept) \cup {c}
    BY <1>1, AppendAdds
  <2> HIDE DEF new
  <2>4. ASSUME NEW i \in DOMAIN new, NEW j \in DOMAIN new, i < j
        PROVE  ~SameHypothesis(new[i], new[j])
    <3>1. i \in 1 .. Len(kept) /\ new[i] = kept[i] /\ kept[i] \in Range(kept)
      <4>1. i \in 1 .. Len(kept)
        BY <1>4, <2>3, <2>4
      <4>2. QED
        BY <1>4, <2>3, <4>1 DEF Range
    <3>2. CASE j \in 1 .. Len(kept)
      BY <1>3, <1>4, <2>3, <2>4, <3>1, <3>2
    <3>3. CASE j = Len(kept) + 1
      BY <1>6, <2>3, <3>1, <3>3
    <3>4. QED
      BY <1>4, <2>3, <3>2, <3>3
  <2>5. Len(new) + Len(dups) = n + 1
    BY <1>3, <1>4, <2>3
  <2>6. Range(new) \cup Second(dups) = C \cup {c}
    <3> HIDE DEF Second
    <3>1. QED
      BY <1>3, <2>3
  <2>7. \A k \in DOMAIN dups : dups[k][1] \in Range(new) /\ SameHypothesis(dups[k][1], dups[k][2])
    BY <1>3, <2>3
  <2>8. IsExact(after, C \cup {c}, n + 1)
    BY <2>2, <2>4, <2>5, <2>6, <2>7 DEF IsExact
  <2>9. QED
    BY <2>8 DEF after
<1>7. QED
  BY <1>5, <1>6

\* So a deduplication is exact unless a formula is refused.
LEMMA DeduplicationIsExact ==
    ASSUME NEW R, NEW candidates \in Seq(R), \A c \in Range(candidates) : ~Refused(c.formula)
    PROVE  IsExact(Deduplication(candidates), Range(candidates), Len(candidates))
<1> DEFINE n == Len(candidates)
           First(k) == {candidates[j] : j \in 1 .. k}
           T(report) == {k \in Nat : k <= n => IsExact(report[k], First(k), k)}
<1>1. n \in Nat /\ DOMAIN candidates = 1 .. n
  BY LenProperties
<1>2. PICK report : /\ AreReports(report, candidates)
                    /\ \A k \in 0 .. n : report[k] \in Reports(R)
                    /\ Deduplication(candidates) = report[n]
  BY DeduplicationSteps
<1>3. 0 \in T(report)
  <2>1. report[0] = [kept |-> <<>>, duplicates |-> <<>>, unparsable |-> <<>>]
    BY <1>2 DEF AreReports
  <2>2. report[0].kept = <<>> /\ report[0].duplicates = <<>>
    BY <2>1
  <2>3. DOMAIN <<>> = {} /\ Len(<<>>) = 0 /\ Range(<<>>) = {} /\ First(0) = {}
    BY EmptySeq DEF Range
  <2>4. IsExact(report[0], First(0), 0)
    <3> HIDE DEF First
    <3>1. QED
      BY <2>2, <2>3 DEF IsExact
  <2>5. QED
    BY <2>4
<1>4. ASSUME NEW k \in Nat, k \in T(report) PROVE k + 1 \in T(report)
  <2> SUFFICES ASSUME k + 1 <= n PROVE IsExact(report[k + 1], First(k + 1), k + 1)
    OBVIOUS
  <2>1. k + 1 \in 1 .. n /\ (k + 1) - 1 = k /\ k \in 0 .. n /\ k <= n
    BY <1>1
  <2>2. report[k + 1] = Deduplicate(report[k], candidates[k + 1])
    BY <1>2, <2>1 DEF AreReports
  <2>3. First(k + 1) = First(k) \cup {candidates[k + 1]}
    <3>1. \A j : j \in 1 .. k + 1 <=> (j \in 1 .. k \/ j = k + 1)
      OBVIOUS
    <3>2. QED
      BY <3>1
  <2>4. ~Refused(candidates[k + 1].formula)
    BY <1>1, <2>1 DEF Range
  <2>5. IsExact(report[k], First(k), k)
    BY <1>4, <2>1
  <2> HIDE DEF First
  <2>6. QED
    BY <1>2, <2>1, <2>2, <2>3, <2>4, <2>5, OneMoreCandidate
<1> HIDE DEF T
<1>5. n \in T(report)
  BY <1>1, <1>3, <1>4, Induction
<1>6. IsExact(report[n], First(n), n)
  BY <1>1, <1>5 DEF T
<1>7. First(n) = Range(candidates)
  BY <1>1 DEF Range
<1>8. QED
  BY <1>2, <1>6, <1>7

\* A history is a sequence.
LEMMA HistoryIsASequence ==
    ASSUME NEW rows, NEW n \in Nat, DOMAIN rows = 1 .. n, NEW candidate
    PROVE  Len(History(rows, candidate)) \in Nat
<1> DEFINE T == {t \in DOMAIN rows : ValueOf(candidate.formula, rows[t]) # None}
           valid == Ascending(T)
           row(k) == [at |-> valid[k],
                      actual |-> [num |-> rows[valid[k]][candidate.target], den |-> 1],
                      synthetic |-> ValueOf(candidate.formula, rows[valid[k]])]
<1>1. T \in SUBSET Int /\ IsFiniteSet(T)
  <2>1. IsFiniteSet(1 .. n) /\ T \in SUBSET (1 .. n)
    BY OneToN
  <2>2. QED
    BY <2>1, FS_Subset
<1> HIDE DEF T
<1>2. valid \in Seq(T)
  BY <1>1, AscendingLists
<1> HIDE DEF valid
<1>3. Len(valid) \in Nat /\ DOMAIN valid = 1 .. Len(valid)
  BY <1>2, LenProperties
<1>4. History(rows, candidate) = [k \in DOMAIN valid |-> row(k)]
  BY DEF History, valid, T
<1> HIDE DEF row
<1>5. DOMAIN History(rows, candidate) = 1 .. Len(valid)
  BY <1>3, <1>4
<1>6. Len(History(rows, candidate)) = Len(valid)
  BY <1>3, <1>4
<1>7. QED
  BY <1>3, <1>6

\* An evaluation is of its candidate; one with a p-value could be tested.
LEMMA EvaluationFacts ==
    ASSUME NEW rows, NEW candidate, NEW req, NEW pValues,
           NEW evaluation \in Evaluations(rows, candidate, req, pValues)
    PROVE  /\ evaluation.name = candidate.name /\ evaluation.candidate = candidate
           /\ evaluation.available =>
                 /\ evaluation.p \in pValues /\ evaluation.history = History(rows, candidate)
                 /\ Required(candidate) \subseteq SymbolsOf(rows)
                 /\ ~(Len(evaluation.history) < req.minimumObservations)
                 /\ ~Untestable(evaluation.history)
<1> DEFINE history == History(rows, candidate)
           result == Evaluated(candidate, "requires_further_validation", history)
<1>1. CASE ~(Required(candidate) \subseteq SymbolsOf(rows))
  BY <1>1 DEF Evaluations, Evaluated
<1>2. CASE Required(candidate) \subseteq SymbolsOf(rows) /\ Len(history) < req.minimumObservations
  BY <1>2 DEF Evaluations, Evaluated
<1>3. CASE /\ Required(candidate) \subseteq SymbolsOf(rows) /\ ~(Len(history) < req.minimumObservations)
           /\ Refuses(req)
  BY <1>3 DEF Evaluations, Evaluated
<1>4. CASE /\ Required(candidate) \subseteq SymbolsOf(rows) /\ ~(Len(history) < req.minimumObservations)
           /\ ~Refuses(req)
  <2>1. evaluation \in {result} \cup IF Untestable(history) THEN {}
                                     ELSE {[result EXCEPT !.available = TRUE, !.p = p] : p \in pValues}
    BY <1>4 DEF Evaluations
  <2>2. /\ result.name = candidate.name /\ result.candidate = candidate
        /\ result.available = FALSE /\ result.history = history
    BY DEF Evaluated
  <2>3. CASE evaluation = result
    BY <2>2, <2>3
  <2>4. CASE evaluation # result
    <3>1. PICK p \in pValues : evaluation = [result EXCEPT !.available = TRUE, !.p = p]
      BY <2>1, <2>4
    <3>2. ~Untestable(history)
      BY <2>1, <2>4
    <3>3. /\ evaluation.name = candidate.name /\ evaluation.candidate = candidate
          /\ evaluation.p = p /\ evaluation.history = history
      <4> HIDE DEF history
      <4>1. QED
        BY <3>1 DEF Evaluated
    <3>4. QED
      BY <1>4, <3>2, <3>3
  <2>5. QED
    BY <2>3, <2>4
<1>5. QED
  BY <1>1, <1>2, <1>3, <1>4

-----------------------------------------------------------------------------
(* The pipeline                                                            *)

\* The evaluations so far are those of the first candidates kept, in order.
EvaluationsInOrder ==
    /\ evaluations \in Seq(Range(evaluations)) /\ Len(evaluations) <= Len(dedup.kept)
    /\ \A k \in 1 .. Len(evaluations) :
          evaluations[k] \in Evaluations(Analysed(panel, window), dedup.kept[k], request, PValues)

\* The inductive invariant: what each step has left for the next, and that the
\* later steps rest on the results of the earlier ones.
DiscoveryInv ==
    /\ input \in Inputs
    /\ pc \in {"cover", "expand", "evaluate", "done"} => IsPanel(panel)
    /\ pc \in {"expand", "evaluate", "done"} =>
          /\ request.minimumSymbols >= 2
          /\ window = BestSharedWindow(panel, request.minimumSymbols)
          /\ ~Unusable(panel, request.minimumSymbols, request.minimumObservations)
    /\ pc \in {"load", "cover", "expand"} => evaluations = <<>>
    /\ pc \in {"evaluate", "done"} =>
          /\ request.depth >= 0
          /\ found = Expanded(Catalog, window.symbols, request.depth)
          /\ dedup = Deduplication(found)
          /\ \A d \in Range(Catalog) : ~Refused(d.formula)
          /\ EvaluationsInOrder
    /\ pc = "done" =>
          /\ Len(evaluations) = Len(dedup.kept)
          /\ request.minimumObservations >= 3 /\ request.alpha \in 1 .. Unit - 1
          /\ multiplicity = Adjust(request.method, Family(evaluations), request.alpha)

\* The request and the catalog of an input.
LEMMA InputFacts ==
    ASSUME DiscoveryInv
    PROVE  /\ request.minimumSymbols \in Int /\ request.minimumObservations \in Int
           /\ request.depth \in Int /\ request.alpha \in Int /\ request.method \in Methods
           /\ input.catalog \in Seq(Range(input.catalog))
           /\ Catalog \in Seq(Range(input.catalog))
<1>1. input \in Inputs
  BY DEF DiscoveryInv
<1>2. /\ request.minimumSymbols \in Int /\ request.minimumObservations \in Int
      /\ request.depth \in Int /\ request.alpha \in Int /\ request.method \in Methods
      /\ input.catalog \in Seq(Range(input.catalog))
  BY <1>1, InputsAreReadable DEF request
<1>3. Catalog \in Seq(Range(input.catalog))
  <2> DEFINE I == {k \in DOMAIN input.catalog :
                      \A j \in 1 .. k - 1 : input.catalog[j] # input.catalog[k]}
  <2>1. I \in SUBSET (1 .. Len(input.catalog))
    BY <1>2, LenProperties
  <2>2. Catalog = RowsAt(input.catalog, I)
    BY DEF Catalog, FromDefinitions
  <2> HIDE DEF I
  <2>3. QED
    BY <1>2, <2>1, <2>2, RowsAtSelects
<1>4. QED
  BY <1>2, <1>3

\* What was found and what was kept of it are sequences of definitions.
LEMMA FoundFacts ==
    ASSUME DiscoveryInv, pc \in {"evaluate", "done"}
    PROVE  LET R == Range(input.catalog) IN
           /\ found \in Seq(R) /\ dedup.kept \in Seq(R)
<1> DEFINE R == Range(input.catalog)
<1>1. /\ Catalog \in Seq(R) /\ request.depth \in Nat
      /\ found = Expanded(Catalog, window.symbols, request.depth) /\ dedup = Deduplication(found)
  BY InputFacts DEF DiscoveryInv
<1>2. found \in Seq(R)
  BY <1>1, ExpansionIsOrdered
<1>3. dedup.kept \in Seq(R)
  BY <1>1, <1>2, KeptAreCandidates
<1>4. QED
  BY <1>2, <1>3

\* What was found was parsed: its formulas are expressions over the names.
LEMMA FoundAreParsed ==
    ASSUME DiscoveryInv, pc \in {"evaluate", "done"}
    PROVE  /\ found \in Seq(Range(Catalog))
           /\ \A d \in Range(found) : /\ ~Refused(d.formula)
                                     /\ IsExpression(Expression(d.formula), Range(Names))
<1>1. /\ Catalog \in Seq(Range(input.catalog)) /\ request.depth \in Nat /\ input \in Inputs
      /\ found = Expanded(Catalog, window.symbols, request.depth)
      /\ \A d \in Range(Catalog) : ~Refused(d.formula)
  BY InputFacts DEF DiscoveryInv
<1>2. Catalog \in Seq(Range(Catalog)) /\ Range(Catalog) \subseteq Range(input.catalog)
  <2>1. /\ Len(Catalog) \in Nat /\ DOMAIN Catalog = 1 .. Len(Catalog)
        /\ Catalog \in [1 .. Len(Catalog) -> Range(input.catalog)]
    BY <1>1, LenProperties
  <2>2. Catalog \in [1 .. Len(Catalog) -> Range(Catalog)]
    BY <2>1 DEF Range
  <2>3. Range(Catalog) \subseteq Range(input.catalog)
    BY <1>1, RangeIsFinite
  <2>4. QED
    BY <2>1, <2>2, <2>3
<1>3. found \in Seq(Range(Catalog))
  BY <1>1, <1>2, ExpansionIsOrdered
<1>4. Range(found) \subseteq Range(Catalog)
  BY <1>3, RangeIsFinite
<1>5. QED
  BY <1>1, <1>2, <1>3, <1>4, FormulasAreParsed

\* The invariant holds before the file is loaded.
LEMMA DiscoveryInit == Init => DiscoveryInv
<1> SUFFICES ASSUME Init PROVE DiscoveryInv
  OBVIOUS
<1>1. input \in Inputs /\ pc = "load" /\ evaluations = <<>>
  BY DEF Init
<1>2. QED
  BY <1>1 DEF DiscoveryInv

\* An exception leaves everything as it was.
LEMMA FailStep ==
    ASSUME DiscoveryInv, NEW exception \in {"DataQualityError", "ValueError"}, Fail(exception)
    PROVE  DiscoveryInv'
<1>1. input' = input /\ pc' = exception
  BY DEF Fail
<1>2. pc' \notin {"load", "cover", "expand", "evaluate", "done"}
  BY <1>1
<1>3. QED
  BY <1>1, <1>2 DEF DiscoveryInv

\* Loading leaves a panel.
LEMMA LoadStep ==
    ASSUME DiscoveryInv, Load
    PROVE  DiscoveryInv'
<1> DEFINE refused == IF input.long THEN LongRefused(input.file) ELSE WideRefused(input.file)
           loaded == IF input.long THEN Long(input.file) ELSE Wide(input.file)
<1>1. CASE refused \/ NotPositive(loaded)
  BY <1>1, FailStep DEF Load
<1>2. CASE ~(refused \/ NotPositive(loaded))
  <2>1. pc = "load" /\ panel' = loaded /\ pc' = "cover" /\ input' = input /\ evaluations' = evaluations
    BY <1>2 DEF Load
  <2>2. /\ input.file \in Seq(Range(input.file))
        /\ IF input.long THEN LongFile(input.file) ELSE WideFile(input.file)
    BY InputsAreReadable DEF DiscoveryInv
  <2>3. input.file # <<>>
    BY <1>2 DEF LongRefused, WideRefused
  <2>4. IsPanel(loaded)
    <3>1. CASE input.long
      BY <2>2, <2>3, <3>1, LongIsAPanel
    <3>2. CASE ~input.long
      BY <2>2, <2>3, <3>2, WideIsAPanel
    <3>3. QED
      BY <3>1, <3>2
  <2> HIDE DEF loaded
  <2>5. IsPanel(panel)'
    BY <2>1, <2>4 DEF IsPanel, SymbolsOf
  <2>6. evaluations' = <<>> /\ input' \in Inputs
    BY <2>1 DEF DiscoveryInv
  <2>7. QED
    BY <2>1, <2>5, <2>6 DEF DiscoveryInv
<1>3. QED
  BY <1>1, <1>2

\* Cutting leaves the best window of the panel.
LEMMA CoverStep ==
    ASSUME DiscoveryInv, Cover
    PROVE  DiscoveryInv'
<1> DEFINE refused == Unusable(panel, request.minimumSymbols, request.minimumObservations)
<1>1. CASE request.minimumSymbols < 2 \/ refused
  BY <1>1, FailStep DEF Cover
<1>2. CASE ~(request.minimumSymbols < 2) /\ ~refused
  <2>1. /\ pc = "cover" /\ window' = BestSharedWindow(panel, request.minimumSymbols)
        /\ pc' = "expand" /\ input' = input /\ panel' = panel /\ evaluations' = evaluations
    BY <1>2 DEF Cover
  <2>2. request.minimumSymbols >= 2
    BY <1>2, InputFacts
  <2>3. input \in Inputs /\ IsPanel(panel) /\ evaluations = <<>>
    BY <2>1 DEF DiscoveryInv
  <2>4. request' = request
    BY <2>1 DEF request
  <2>5. IsPanel(panel)'
    BY <2>1, <2>3 DEF IsPanel, SymbolsOf
  <2>6. /\ request'.minimumSymbols >= 2
        /\ window' = BestSharedWindow(panel', request'.minimumSymbols)
        /\ ~Unusable(panel', request'.minimumSymbols, request'.minimumObservations)
    BY <1>2, <2>1, <2>2, <2>4
  <2>7. QED
    BY <2>1, <2>3, <2>5, <2>6 DEF DiscoveryInv
<1>3. QED
  BY <1>1, <1>2

\* The expansion leaves what the catalog and the window determine.
LEMMA ExpandStep ==
    ASSUME DiscoveryInv, Expand
    PROVE  DiscoveryInv'
<1> DEFINE refused == request.depth < 0 \/ \E d \in Range(Catalog) : Refused(d.formula)
<1>1. CASE refused
  BY <1>1, FailStep DEF Expand
<1>2. CASE ~refused
  <2>1. /\ pc = "expand" /\ found' = Expanded(Catalog, window.symbols, request.depth)
        /\ dedup' = Deduplication(found') /\ pc' = "evaluate"
        /\ input' = input /\ panel' = panel /\ window' = window /\ evaluations' = evaluations
    BY <1>2 DEF Expand
  <2>2. request.depth >= 0 /\ request.depth \in Nat
    BY <1>2, InputFacts
  <2>3. /\ input \in Inputs /\ IsPanel(panel) /\ evaluations = <<>>
        /\ request.minimumSymbols >= 2
        /\ window = BestSharedWindow(panel, request.minimumSymbols)
        /\ ~Unusable(panel, request.minimumSymbols, request.minimumObservations)
    BY <2>1 DEF DiscoveryInv
  <2>4. request' = request /\ Catalog' = Catalog
    BY <2>1 DEF request, Catalog
  <2>5. IsPanel(panel)'
    BY <2>1, <2>3 DEF IsPanel, SymbolsOf
  <2>6. Len(dedup'.kept) \in Nat
    <3>1. Catalog \in Seq(Range(input.catalog))
      BY InputFacts
    <3>2. found' \in Seq(Range(input.catalog))
      BY <2>1, <2>2, <3>1, ExpansionIsOrdered
    <3>3. dedup'.kept \in Seq(Range(input.catalog))
      BY <2>1, <3>2, KeptAreCandidates
    <3>4. QED
      BY <3>3, LenProperties
  <2>7. EvaluationsInOrder'
    <3>1. evaluations' = <<>> /\ Len(evaluations') = 0 /\ evaluations' \in Seq(Range(evaluations'))
      BY <2>1, <2>3, EmptySeq
    <3>2. \A k \in 1 .. Len(evaluations') : FALSE
      BY <3>1
    <3>3. QED
      BY <2>6, <3>1, <3>2 DEF EvaluationsInOrder
  <2>8. /\ request'.depth >= 0
        /\ found' = Expanded(Catalog', window'.symbols, request'.depth)
        /\ dedup' = Deduplication(found')
        /\ \A d \in Range(Catalog') : ~Refused(d.formula)
    BY <1>2, <2>1, <2>2, <2>4
  <2>9. /\ request'.minimumSymbols >= 2
        /\ window' = BestSharedWindow(panel', request'.minimumSymbols)
        /\ ~Unusable(panel', request'.minimumSymbols, request'.minimumObservations)
    BY <2>1, <2>3, <2>4
  <2>10. QED
    BY <2>1, <2>3, <2>5, <2>7, <2>8, <2>9 DEF DiscoveryInv
<1>3. QED
  BY <1>1, <1>2

\* One more candidate is evaluated, in order.
LEMMA EvaluateStep ==
    ASSUME DiscoveryInv, Evaluate
    PROVE  DiscoveryInv'
<1> DEFINE next == Len(evaluations) + 1
           Results(k) == Evaluations(Analysed(panel, window), dedup.kept[k], request, PValues)
<1>1. PICK evaluation \in Results(next) : evaluations' = Append(evaluations, evaluation)
  BY DEF Evaluate
<1>2. /\ pc = "evaluate" /\ Len(evaluations) < Len(dedup.kept)
      /\ UNCHANGED <<input, pc, panel, window, found, dedup, ranking, multiplicity>>
  BY DEF Evaluate
<1>3. EvaluationsInOrder
  BY <1>2 DEF DiscoveryInv
<1> HIDE DEF Results
<1>4. EvaluationsInOrder'
  <2> DEFINE E == Range(evaluations) \cup {evaluation}
  <2>1. Len(evaluations) \in Nat /\ Len(dedup.kept) \in Nat
    <3>1. dedup.kept \in Seq(Range(input.catalog))
      BY <1>2, FoundFacts
    <3>2. QED
      BY <1>3, <3>1, LenProperties DEF EvaluationsInOrder
  <2>2. evaluations \in Seq(E) /\ evaluation \in E
    BY <1>3, SeqMonotonic DEF EvaluationsInOrder
  <2>3. /\ evaluations' \in Seq(E) /\ Len(evaluations') = next
        /\ \A k \in 1 .. Len(evaluations) : evaluations'[k] = evaluations[k]
        /\ evaluations'[next] = evaluation
    BY <1>1, <2>2, AppendProperties
  <2>4. evaluations' \in Seq(Range(evaluations'))
    <3>1. DOMAIN evaluations' = 1 .. next /\ evaluations' \in [1 .. next -> E] /\ next \in Nat
      BY <2>1, <2>3, LenProperties
    <3>2. \A k \in 1 .. next : evaluations'[k] \in Range(evaluations')
      BY <3>1 DEF Range
    <3>3. evaluations' \in [1 .. next -> Range(evaluations')]
      BY <3>1, <3>2
    <3>4. QED
      BY <3>1, <3>3
  <2>5. \A k \in 1 .. Len(evaluations) : evaluations[k] \in Results(k)
    BY <1>3 DEF EvaluationsInOrder, Results
  <2>6. \A k \in 1 .. next : evaluations'[k] \in Results(k)
    <3>1. \A k \in 1 .. next : k \in 1 .. Len(evaluations) \/ k = next
      BY <2>1
    <3>2. QED
      BY <2>3, <2>5, <3>1
  <2>7. next <= Len(dedup.kept)
    BY <1>2, <2>1
  <2>8. request' = request
    BY <1>2 DEF request
  <2>9. \A k \in 1 .. next : evaluations'[k]
           \in Evaluations(Analysed(panel', window'), dedup'.kept[k], request', PValues)
    BY <1>2, <2>6, <2>8 DEF Results
  <2>10. QED
    BY <1>2, <2>3, <2>4, <2>7, <2>9 DEF EvaluationsInOrder
<1>5. /\ input \in Inputs /\ IsPanel(panel)
      /\ request.minimumSymbols >= 2
      /\ window = BestSharedWindow(panel, request.minimumSymbols)
      /\ ~Unusable(panel, request.minimumSymbols, request.minimumObservations)
      /\ request.depth >= 0
      /\ found = Expanded(Catalog, window.symbols, request.depth)
      /\ dedup = Deduplication(found)
      /\ \A d \in Range(Catalog) : ~Refused(d.formula)
  BY <1>2 DEF DiscoveryInv
<1>6. request' = request /\ Catalog' = Catalog
  BY <1>2 DEF request, Catalog
<1>7. IsPanel(panel)'
  BY <1>2, <1>5 DEF IsPanel, SymbolsOf
<1>8. /\ request'.minimumSymbols >= 2
      /\ window' = BestSharedWindow(panel', request'.minimumSymbols)
      /\ ~Unusable(panel', request'.minimumSymbols, request'.minimumObservations)
      /\ request'.depth >= 0
      /\ found' = Expanded(Catalog', window'.symbols, request'.depth)
      /\ dedup' = Deduplication(found')
      /\ \A d \in Range(Catalog') : ~Refused(d.formula)
  BY <1>2, <1>5, <1>6
<1>9. QED
  BY <1>2, <1>4, <1>5, <1>7, <1>8 DEF DiscoveryInv

\* The call concludes with the correction of the whole family.
LEMMA ConcludeStep ==
    ASSUME DiscoveryInv, Conclude
    PROVE  DiscoveryInv'
<1> DEFINE refused == \/ request.minimumObservations < 3 \/ request.alpha \notin 1 .. Unit - 1
                      \/ request.regimeWindow < 2
<1>1. CASE refused
  BY <1>1, FailStep DEF Conclude
<1>2. CASE ~refused
  <2>1. /\ pc = "evaluate" /\ pc' = "done"
        /\ Len(evaluations) = Len(dedup.kept) \/ request.minimumObservations < 3
        /\ multiplicity' = Adjust(request.method, Family(evaluations), request.alpha)
        /\ UNCHANGED <<input, panel, window, found, dedup, evaluations>>
    BY <1>2 DEF Conclude
  <2>2. request.minimumObservations >= 3 /\ request.alpha \in 1 .. Unit - 1
    BY <1>2, InputFacts
  <2>3. Len(evaluations) = Len(dedup.kept)
    BY <1>2, <2>1
  <2>4. /\ input \in Inputs /\ IsPanel(panel)
        /\ request.minimumSymbols >= 2
        /\ window = BestSharedWindow(panel, request.minimumSymbols)
        /\ ~Unusable(panel, request.minimumSymbols, request.minimumObservations)
        /\ request.depth >= 0
        /\ found = Expanded(Catalog, window.symbols, request.depth)
        /\ dedup = Deduplication(found) /\ EvaluationsInOrder
        /\ \A d \in Range(Catalog) : ~Refused(d.formula)
    BY <2>1 DEF DiscoveryInv
  <2>5. request' = request /\ Catalog' = Catalog
    BY <2>1 DEF request, Catalog
  <2>6. IsPanel(panel)'
    BY <2>1, <2>4 DEF IsPanel, SymbolsOf
  <2>7. EvaluationsInOrder'
    BY <2>1, <2>4, <2>5 DEF EvaluationsInOrder
  <2>8. /\ request'.minimumSymbols >= 2
        /\ window' = BestSharedWindow(panel', request'.minimumSymbols)
        /\ ~Unusable(panel', request'.minimumSymbols, request'.minimumObservations)
        /\ request'.depth >= 0
        /\ found' = Expanded(Catalog', window'.symbols, request'.depth)
        /\ dedup' = Deduplication(found')
        /\ \A d \in Range(Catalog') : ~Refused(d.formula)
    BY <2>1, <2>4, <2>5
  <2>9. /\ Len(evaluations') = Len(dedup'.kept)
        /\ request'.minimumObservations >= 3 /\ request'.alpha \in 1 .. Unit - 1
        /\ multiplicity' = Adjust(request'.method, Family(evaluations'), request'.alpha)
    BY <2>1, <2>2, <2>3, <2>5
  <2>10. QED
    BY <2>1, <2>4, <2>6, <2>7, <2>8, <2>9 DEF DiscoveryInv
<1>3. QED
  BY <1>1, <1>2

\* Each step of the pipeline rests on the results of the steps before it
\* (advanced_research.py: run).
THEOREM DiscoveryInvariant == Spec => []DiscoveryInv
<1>1. DiscoveryInv /\ [Next]_vars => DiscoveryInv'
  <2> SUFFICES ASSUME DiscoveryInv, [Next]_vars PROVE DiscoveryInv'
    OBVIOUS
  <2>1. CASE Load
    BY <2>1, LoadStep
  <2>2. CASE Cover
    BY <2>2, CoverStep
  <2>3. CASE Expand
    BY <2>3, ExpandStep
  <2>4. CASE Evaluate
    BY <2>4, EvaluateStep
  <2>5. CASE Conclude
    BY <2>5, ConcludeStep
  <2>6. CASE UNCHANGED vars
    BY <2>6 DEF vars, DiscoveryInv, EvaluationsInOrder, request, Catalog, IsPanel, SymbolsOf
  <2>7. QED
    BY <2>1, <2>2, <2>3, <2>4, <2>5, <2>6 DEF Next
<1>2. QED
  BY <1>1, DiscoveryInit, PTL DEF Spec

-----------------------------------------------------------------------------
(* The properties                                                          *)

\* The window of a panel is sound, and it is the window the steps use.
LEMMA SoundWindow == DiscoveryInv => SharedWindowIsSound
<1> SUFFICES ASSUME DiscoveryInv, pc \in {"cover", "expand", "evaluate", "done"},
                    request.minimumSymbols >= 2
             PROVE  LET best == BestSharedWindow(panel, request.minimumSymbols)
                        run  == LongestRun(Crowded(panel, request.minimumSymbols))
                        spanning == Spanning(panel, run)
                    IN  IF Crowded(panel, request.minimumSymbols) = {} THEN best = NoValue
                        ELSE /\ best # NoValue
                             /\ Cardinality(best.symbols) >= request.minimumSymbols
                             /\ best.first .. best.last \subseteq Shared(panel, best.symbols)
                             /\ \A other \in Runs(Shared(panel, best.symbols)) : Rows(other) <= Rows(best)
                             /\ Cardinality(spanning) >= request.minimumSymbols =>
                                   \A symbols \in SUBSET SymbolsOf(panel) :
                                       Cardinality(symbols) >= request.minimumSymbols =>
                                           \A other \in Runs(Shared(panel, symbols)) :
                                              Rows(other) <= Rows(best)
  BY DEF SharedWindowIsSound, Spanning
<1>1. IsPanel(panel) /\ request.minimumSymbols \in Nat \ {0}
  BY InputFacts DEF DiscoveryInv
<1>2. CASE Crowded(panel, request.minimumSymbols) = {}
  <2>1. LongestRun(Crowded(panel, request.minimumSymbols)) = NoValue
    BY <1>2 DEF LongestRun
  <2>2. BestSharedWindow(panel, request.minimumSymbols) = NoValue
    BY <2>1 DEF BestSharedWindow
  <2>3. QED
    BY <1>2, <2>2
<1>3. CASE Crowded(panel, request.minimumSymbols) # {}
  BY <1>1, <1>3, WindowOfAPanel
<1>4. QED
  BY <1>2, <1>3

\* What was found is the expansion, of which the lemmas on layers speak.
LEMMA ExactExpansion == DiscoveryInv => ExpansionIsExact
<1> SUFFICES ASSUME DiscoveryInv, pc = "evaluate" PROVE ExpansionIsExact
  BY DEF ExpansionIsExact
<1> DEFINE R == Range(input.catalog)
           seeds == window.symbols
           depth == request.depth
<1>1. Catalog \in Seq(R) /\ depth \in Nat /\ found = Expanded(Catalog, seeds, depth)
  BY InputFacts DEF DiscoveryInv
<1>2. found \in Seq(R)
  BY FoundFacts
<1> HIDE DEF seeds, depth, R
<1>3. \A k \in DOMAIN found :
         Dependencies(found[k]) \subseteq seeds \cup Targets(SubSeq(found, 1, k - 1))
  <2>1. DOMAIN found = 1 .. Len(found)
    BY <1>2, LenProperties
  <2>2. QED
    BY <1>1, <2>1, ExpansionIsOrdered
<1>4. depth >= Len(Catalog) =>
         \A d \in Range(Catalog) :
            Dependencies(d) \subseteq seeds \cup Targets(found) => d \in Range(found)
  BY <1>1, ExpansionIsComplete
<1>5. Range(found) = Range(Expanded(Reverse(Catalog), seeds, depth))
  <2>1. Reverse(Catalog) \in Seq(R) /\ Range(Catalog) = Range(Reverse(Catalog))
    BY <1>1, RangeOfReverse
  <2>2. QED
    BY <1>1, <2>1, ExpansionIgnoresTheOrder
<1>6. QED
  BY <1>3, <1>4, <1>5 DEF ExpansionIsExact, seeds, depth

\* What was merged agrees at all positive prices, not only at those the runs
\* look at.
MergedAgree ==
    pc \in {"evaluate", "done"} =>
        \A k \in DOMAIN dedup.duplicates :
            \A prices \in [Range(Names) -> Nat \ {0}] :
                AgreeAt(dedup.duplicates[k][1], dedup.duplicates[k][2], prices)

\* The deduplication of what was found is exact, and its formulas were parsed.
LEMMA FoundAreDeduplicated ==
    ASSUME DiscoveryInv, pc \in {"evaluate", "done"}
    PROVE  /\ IsExact(dedup, Range(found), Len(found))
           /\ \A c \in Range(dedup.kept) : IsExpression(Expression(c.formula), Range(Names))
           /\ \A k \in DOMAIN dedup.duplicates :
                 LET kept == dedup.duplicates[k][1]  removed == dedup.duplicates[k][2]
                 IN  /\ kept.target = removed.target
                     /\ \A prices \in [Range(Names) -> Positive] : AgreeAt(kept, removed, prices)
<1> DEFINE parsed(c) == IsExpression(Expression(c.formula), Range(Names))
<1>1. /\ found \in Seq(Range(Catalog)) /\ dedup = Deduplication(found)
      /\ \A c \in Range(found) : ~Refused(c.formula) /\ parsed(c)
  BY FoundAreParsed DEF DiscoveryInv
<1>2. IsExact(dedup, Range(found), Len(found))
  BY <1>1, DeduplicationIsExact
<1>3. Range(dedup.kept) \subseteq Range(found)
  BY <1>2 DEF IsExact
<1>4. ASSUME NEW k \in DOMAIN dedup.duplicates, NEW kept, NEW removed,
             kept = dedup.duplicates[k][1], removed = dedup.duplicates[k][2]
      PROVE  /\ kept.target = removed.target
             /\ \A prices \in [Range(Names) -> Positive] : AgreeAt(kept, removed, prices)
  <2>1. kept \in Range(dedup.kept) /\ SameHypothesis(kept, removed) /\ removed \in Range(found)
    BY <1>2, <1>4 DEF IsExact
  <2>2. parsed(kept) /\ parsed(removed)
    BY <1>1, <1>3, <2>1
  <2>3. [Range(Names) -> Positive] # {}
    <3>1. [s \in Range(Names) |-> 1] \in [Range(Names) -> Positive]
      BY DEF Positive
    <3>2. QED
      BY <3>1
  <2>4. QED
    BY <2>1, <2>2, <2>3, NamesHavePlaces, SameHypothesesAgree
<1>5. QED
  BY <1>1, <1>2, <1>3, <1>4

\* So no hypothesis is tested twice and none is lost.
LEMMA DistinctHypotheses == DiscoveryInv => HypothesesAreDistinct /\ MergedAgree
<1> SUFFICES ASSUME DiscoveryInv PROVE HypothesesAreDistinct /\ MergedAgree
  OBVIOUS
<1>1. ASSUME pc = "evaluate" PROVE HypothesesAreDistinct
  <2>1. IsExact(dedup, Range(found), Len(found))
    BY <1>1, FoundAreDeduplicated
  <2>2. \A k \in DOMAIN dedup.duplicates :
           LET kept == dedup.duplicates[k][1]  removed == dedup.duplicates[k][2]
           IN  /\ kept \in Range(dedup.kept) /\ kept.target = removed.target
               /\ \A prices \in Telling(Range(Names)) : AgreeAt(kept, removed, prices)
    BY <1>1, <2>1, FoundAreDeduplicated, TellingPrices DEF IsExact
  <2>3. ASSUME NEW c \in Range(dedup.kept), NEW d \in Range(dedup.kept), c # d, c.target = d.target,
               IsMonomialRatio(Expression(c.formula)), IsMonomialRatio(Expression(d.formula))
        PROVE  \E prices \in Telling(Range(Names)) : ~AgreeAt(c, d, prices)
    <3>1. PICK i, j \in DOMAIN dedup.kept : c = dedup.kept[i] /\ d = dedup.kept[j]
      BY DEF Range
    <3>2. i # j /\ i \in Int /\ j \in Int
      <4>1. dedup.kept \in Seq(Range(input.catalog))
        BY <1>1, FoundFacts
      <4>2. DOMAIN dedup.kept = 1 .. Len(dedup.kept)
        BY <4>1, LenProperties
      <4>3. QED
        BY <2>3, <3>1, <4>2
    <3>3. ~SameHypothesis(c, d)
      <4>1. SameHypothesis(c, d) => SameHypothesis(d, c)
        BY DEF SameHypothesis
      <4>2. CASE i < j
        BY <2>1, <3>1, <4>2 DEF IsExact
      <4>3. CASE j < i
        BY <2>1, <3>1, <4>1, <4>3 DEF IsExact
      <4>4. QED
        BY <3>2, <4>2, <4>3
    <3>4. /\ IsExpression(Expression(c.formula), Range(Names))
          /\ IsExpression(Expression(d.formula), Range(Names))
      BY <1>1, FoundAreDeduplicated
    <3>5. PICK x \in Range(Names) : ~AgreeAt(c, d, Doubled(Range(Names), x))
      BY <2>3, <3>3, <3>4, OtherHypothesesDiffer
    <3>6. QED
      BY <3>5, TellingPrices
  <2>4. /\ Range(dedup.kept) \cup {dedup.duplicates[k][2] : k \in DOMAIN dedup.duplicates}
             = Range(found)
        /\ Len(dedup.kept) + Len(dedup.duplicates) = Len(found)
    BY <2>1 DEF IsExact
  <2>5. QED
    BY <2>2, <2>3, <2>4 DEF HypothesesAreDistinct
<1>2. MergedAgree
  BY FoundAreDeduplicated DEF MergedAgree, Positive
<1>3. QED
  BY <1>1, <1>2 DEF HypothesesAreDistinct

\* An evaluation with a p-value is of a candidate that could be tested.
LEMMA AvailableIsTestable ==
    ASSUME DiscoveryInv, pc = "done", NEW k \in 1 .. Len(evaluations), evaluations[k].available
    PROVE  Testable(evaluations[k]) /\ evaluations[k].p \in 0 .. Unit
<1> DEFINE rows == Analysed(panel, window)
           evaluation == evaluations[k]
           candidate == dedup.kept[k]
           history == evaluation.history
<1>1. evaluation \in Evaluations(rows, candidate, request, PValues)
  BY DEF DiscoveryInv, EvaluationsInOrder
<1>2. SymbolsOf(rows) = window.symbols /\ Rows(window) \in Nat /\ DOMAIN rows = 1 .. Rows(window)
  <2>1. window = BestSharedWindow(panel, request.minimumSymbols)
        /\ ~(Rows(window) < request.minimumObservations) /\ window # NoValue
        /\ request.minimumObservations >= 3 /\ IsPanel(panel)
        /\ request.minimumSymbols >= 2
    BY DEF DiscoveryInv, Unusable
  <2>2. request.minimumSymbols \in Nat \ {0} /\ request.minimumObservations \in Int
    BY <2>1, InputFacts
  <2>3. Crowded(panel, request.minimumSymbols) # {}
    BY <2>1 DEF BestSharedWindow, LongestRun
  <2>4. Rows(window) \in Nat \ {0}
    BY <2>1, <2>2, <2>3, WindowOfAPanel
  <2>5. 1 \in 1 .. Rows(window)
    BY <2>4
  <2>6. /\ rows[1] = [s \in window.symbols |-> panel[window.first + 1 - 1][s]]
        /\ DOMAIN rows = 1 .. Rows(window)
    BY <2>5 DEF Analysed
  <2> HIDE DEF rows
  <2>7. QED
    BY <2>4, <2>6 DEF SymbolsOf
<1> HIDE DEF rows, evaluation, candidate
<1>3. /\ evaluation.candidate = candidate
      /\ evaluation.p \in PValues /\ history = History(rows, candidate)
      /\ Required(candidate) \subseteq SymbolsOf(rows)
      /\ ~(Len(history) < request.minimumObservations)
      /\ ~Untestable(history)
  <2>1. evaluation.available
    BY DEF evaluation
  <2>2. QED
    BY <1>1, <2>1, EvaluationFacts
<1>4. Len(history) >= request.minimumObservations
  <2>1. Len(history) \in Nat
    BY <1>2, <1>3, HistoryIsASequence
  <2>2. request.minimumObservations \in Int
    BY InputFacts
  <2> HIDE DEF history
  <2>3. QED
    BY <1>3, <2>1, <2>2
<1>5. ~Constant(Actual(history), DOMAIN history) /\ ~Constant(Synthetic(history), DOMAIN history)
  BY <1>3 DEF Untestable
<1> HIDE DEF history
<1>6. \E i, j \in DOMAIN history : ~Equal(history[i].actual, history[j].actual)
  BY <1>5 DEF Constant, Actual
<1>7. \E i, j \in DOMAIN history : ~Equal(history[i].synthetic, history[j].synthetic)
  BY <1>5 DEF Constant, Synthetic
<1>8. QED
  BY <1>2, <1>3, <1>4, <1>6, <1>7, PValuesAreProportions DEF Testable, evaluation, history

\* The family at the end is that of the candidates kept, in order.
LEMMA TestedSurvivors == DiscoveryInv => SurvivorsWereTested
<1> DEFINE family == Family(evaluations)
           survivors == multiplicity.survivors
           R == Range(input.catalog)
<1> SUFFICES ASSUME DiscoveryInv, pc = "done",
                    Cardinality({dedup.kept[k].name : k \in DOMAIN dedup.kept}) = Len(dedup.kept)
             PROVE  SurvivorsWereTested
  BY DEF SurvivorsWereTested
<1>1. /\ EvaluationsInOrder /\ Len(evaluations) = Len(dedup.kept)
      /\ request.alpha \in 1 .. Unit - 1
      /\ multiplicity = Adjust(request.method, family, request.alpha)
  BY DEF DiscoveryInv
<1>2. dedup.kept \in Seq(R) /\ request.method \in Methods
  BY FoundFacts, InputFacts
<1> HIDE DEF R
<1>3. /\ evaluations \in Seq(Range(evaluations))
      /\ DOMAIN evaluations = 1 .. Len(evaluations) /\ DOMAIN dedup.kept = 1 .. Len(evaluations)
  BY <1>1, <1>2, LenProperties DEF EvaluationsInOrder
<1>4. \A k \in 1 .. Len(evaluations) : evaluations[k].name = dedup.kept[k].name
  BY <1>1, EvaluationFacts DEF EvaluationsInOrder
<1>5. \A k \in 1 .. Len(evaluations) :
         evaluations[k].available => Testable(evaluations[k]) /\ evaluations[k].p \in 0 .. Unit
  BY AvailableIsTestable
<1>6. \A j, k \in 1 .. Len(evaluations) : evaluations[j].name = evaluations[k].name => j = k
  <2>1. \A j, k \in 1 .. Len(dedup.kept) : dedup.kept[j].name = dedup.kept[k].name => j = k
    BY <1>2, DistinctNames
  <2>2. QED
    BY <1>1, <1>4, <2>1
<1>7. /\ IsFamily(family)
      /\ DOMAIN family \cup Excluded(evaluations) = {evaluations[k].name : k \in 1 .. Len(evaluations)}
  BY <1>3, <1>5, FamilyOfEvaluations
<1>8. /\ Tests(family) = Cardinality({k \in DOMAIN evaluations : evaluations[k].available})
      /\ \A k \in 1 .. Len(evaluations) :
            evaluations[k].name \in DOMAIN family => evaluations[k].available
  BY <1>3, <1>5, <1>6, FamilyOfDistinctNames
<1>9. DOMAIN family \cup Excluded(evaluations) = {c.name : c \in Range(dedup.kept)}
  <2>1. {evaluations[k].name : k \in 1 .. Len(evaluations)} = {c.name : c \in Range(dedup.kept)}
    BY <1>3, <1>4 DEF Range
  <2>2. QED
    BY <1>7, <2>1
<1>10. multiplicity.tests = Cardinality({k \in DOMAIN evaluations : evaluations[k].available})
  BY <1>1, <1>8 DEF Adjust
<1>11. \A k \in DOMAIN evaluations : evaluations[k].name \in DOMAIN family => Testable(evaluations[k])
  BY <1>3, <1>5, <1>8
<1> HIDE DEF family
<1>12. ASSUME NEW l \in survivors
       PROVE  /\ family[l] < request.alpha
              /\ \A m \in DOMAIN family : family[m] <= family[l] => m \in survivors
              /\ \A m \in DOMAIN family \ multiplicity.rejected :
                    l \in Adjust(request.method, [n \in DOMAIN family \ {m} |-> family[n]],
                                 request.alpha).survivors
  <2>1. l \in Adjust(request.method, family, request.alpha).survivors
    BY <1>1
  <2>2. /\ family[l] < request.alpha
        /\ \A m \in DOMAIN family :
              family[m] <= family[l] => m \in Adjust(request.method, family, request.alpha).survivors
        /\ \A m \in DOMAIN family \ Adjust(request.method, family, request.alpha).rejected :
              l \in Adjust(request.method, Without(family, m), request.alpha).survivors
    BY <1>1, <1>2, <1>7, <2>1, SurvivorsOfAFamily
  <2>3. QED
    BY <1>1, <2>2 DEF Without
<1>13. QED
  BY <1>9, <1>10, <1>11, <1>12 DEF SurvivorsWereTested, family

\* The window the discovery analyses is sound on every panel that can be
\* loaded, whatever the greedy pass meets (coverage.py: _best_shared_window,
\* _greedy_subset).
THEOREM WindowIsSound == Spec => []SharedWindowIsSound
  BY DiscoveryInvariant, SoundWindow, PTL

\* The expansion finds what can be computed and nothing else, for every
\* catalog, window and depth (graph.py: expand).
THEOREM ExpansionFindsAll == Spec => []ExpansionIsExact
  BY DiscoveryInvariant, ExactExpansion, PTL

\* No hypothesis is tested twice and none is lost, for every catalog whose
\* formulas the parser makes expressions of (deduplicate.py: deduplicate).
THEOREM HypothesesDistinct == Spec => []HypothesesAreDistinct
  BY DiscoveryInvariant, DistinctHypotheses, PTL

\* A candidate that is merged into another has its value at all positive
\* prices: the exponents of a product, and the form of a formula up to the
\* order and the grouping of its sums and products, tell what it computes
\* (formula.py: semantic_key, canonical_formula; evaluator.py:201-227).
THEOREM MergedCandidatesAgree == Spec => []MergedAgree
  BY DiscoveryInvariant, DistinctHypotheses, PTL

\* Only candidates that could be tested are corrected for, and what survives
\* the correction survives without the tests that were not rejected, for each
\* of the five methods (advanced_research.py: run; multiplicity.py: adjust).
THEOREM TestedSurvive == Spec => []SurvivorsWereTested
  BY DiscoveryInvariant, TestedSurvivors, PTL
===============================================================================
