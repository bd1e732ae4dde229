--------------------- MODULE CrossBrokerComparisonProofs ---------------------
(***************************************************************************)
(* Proofs about CrossBrokerComparison and TickAlignment: for files of any  *)
(* length in any order, any request and any cost.                          *)
(*                                                                         *)
(* Symmetric alignment never uses a quote twice, never crosses in time,    *)
(* does not depend on which broker is called A, and pairs the nearest      *)
(* quotes.  An episode is a run of crossable rows with no silence wider    *)
(* than the gap, and the runs partition them.                              *)
(***************************************************************************)
EXTENDS CrossBrokerComparison, EpisodesProofs

-----------------------------------------------------------------------------
(* Alignment of prepared frames                                            *)

\* A prepared frame: timestamps are numbers and strictly increase.
IsPrepared(frame) ==
    /\ \E S : frame \in Seq(S)
    /\ \A k \in DOMAIN frame : frame[k].at \in Int
    /\ \A k, l \in DOMAIN frame : k < l => frame[k].at < frame[l].at

-----------------------------------------------------------------------------

\* A prepared frame's indices run from 1 to its length.
LEMMA PreparedDomain ==
    ASSUME NEW frame, IsPrepared(frame)
    PROVE  Len(frame) \in Nat /\ DOMAIN frame = 1 .. Len(frame)
<1>1. PICK S : frame \in Seq(S)
  BY DEF IsPrepared
<1>2. QED
  BY <1>1

\* searchsorted answers a position of the frame or the one after its end, and
\* a later time is never inserted before an earlier one.
LEMMA InsertionPointIsMonotone ==
    ASSUME NEW frame, IsPrepared(frame), NEW s \in Int, NEW t \in Int, s <= t
    PROVE  /\ InsertionPoint(frame, s) \in Nat
           /\ InsertionPoint(frame, t) \in Nat
           /\ InsertionPoint(frame, s) <= InsertionPoint(frame, t)
<1> DEFINE Before(u) == {k \in DOMAIN frame : frame[k].at < u}
<1>1. IsFiniteSet(DOMAIN frame)
  BY PreparedDomain, FS_Interval
<1>2. Before(s) \subseteq Before(t) /\ Before(t) \subseteq DOMAIN frame
  <2>1. ASSUME NEW k \in DOMAIN frame, frame[k].at < s PROVE frame[k].at < t
    BY <2>1 DEF IsPrepared
  <2>2. QED
    BY <2>1
<1>3. IsFiniteSet(Before(t)) /\ IsFiniteSet(Before(s))
  BY <1>1, <1>2, FS_Subset
<1>4. Cardinality(Before(s)) <= Cardinality(Before(t))
  BY <1>2, <1>3, FS_Subset
<1>5. Cardinality(Before(s)) \in Nat /\ Cardinality(Before(t)) \in Nat
  BY <1>3, FS_CardinalityType
<1>6. InsertionPoint(frame, s) = 1 + Cardinality(Before(s))
      /\ InsertionPoint(frame, t) = 1 + Cardinality(Before(t))
  BY DEF InsertionPoint
<1>7. QED
  BY <1>4, <1>5, <1>6

\* Of two neighbours, once the later one is the nearer it stays the nearer.
LEMMA LaterStaysNearer ==
    ASSUME NEW l \in Int, NEW r \in Int, l <= r, NEW s \in Int, NEW t \in Int, s <= t,
           Distance(l, t) < Distance(r, t)
    PROVE  Distance(l, s) < Distance(r, s) \/ l = r
  BY DEF Distance

\* The nearest quote never moves back as time moves on.
LEMMA NearestIsMonotone ==
    ASSUME NEW frame, IsPrepared(frame), frame # <<>>,
           NEW s \in Int, NEW t \in Int, s <= t
    PROVE  /\ Nearest(frame, s) \in DOMAIN frame
           /\ Nearest(frame, s) <= Nearest(frame, t)
<1> DEFINE n == Len(frame)
           p == InsertionPoint(frame, s)
           q == InsertionPoint(frame, t)
<1>1. n \in Nat \ {0} /\ DOMAIN frame = 1 .. n
  <2>1. PICK S : frame \in Seq(S)
    BY DEF IsPrepared
  <2>2. QED
    BY <2>1
<1>2. p \in Nat /\ q \in Nat /\ p <= q
  BY InsertionPointIsMonotone
<1> HIDE DEF n, p, q
<1>3. \A k \in Int : Clip(k, n) \in 1 .. n
  BY <1>1 DEF Clip
<1>4. \A k \in DOMAIN frame, l \in DOMAIN frame :
        k <= l => frame[k].at \in Int /\ frame[l].at \in Int /\ frame[k].at <= frame[l].at
  <2> TAKE k \in DOMAIN frame, l \in DOMAIN frame
  <2>1. CASE k = l
    BY <2>1 DEF IsPrepared
  <2>2. CASE k < l
    BY <2>2 DEF IsPrepared
  <2>3. QED
    BY <1>1, <2>1, <2>2
<1> DEFINE leftS == Clip(p - 1, n)
           rightS == Clip(p, n)
           leftT == Clip(q - 1, n)
           rightT == Clip(q, n)
<1>5. /\ leftS \in 1 .. n /\ rightS \in 1 .. n /\ leftT \in 1 .. n /\ rightT \in 1 .. n
      /\ leftS <= rightS /\ leftT <= rightT
      /\ p < q => rightS <= leftT
  BY <1>1, <1>2 DEF Clip
<1>6. /\ Nearest(frame, s) = IF Distance(frame[leftS].at, s) < Distance(frame[rightS].at, s)
                             THEN leftS ELSE rightS
      /\ Nearest(frame, t) = IF Distance(frame[leftT].at, t) < Distance(frame[rightT].at, t)
                             THEN leftT ELSE rightT
  BY DEF Nearest, n, p, q
<1>7. CASE p < q
  BY <1>1, <1>5, <1>6, <1>7
<1>8. CASE p = q
  <2>1. leftS = leftT /\ rightS = rightT
    BY <1>8
  <2>2. Distance(frame[leftS].at, t) < Distance(frame[rightS].at, t)
          => Distance(frame[leftS].at, s) < Distance(frame[rightS].at, s)
             \/ frame[leftS].at = frame[rightS].at
    BY <1>1, <1>4, <1>5, LaterStaysNearer
  <2>3. frame[leftS].at = frame[rightS].at
          => ~(Distance(frame[leftS].at, t) < Distance(frame[rightS].at, t))
    BY <1>1, <1>4, <1>5 DEF Distance
  <2> HIDE DEF leftS, leftT, rightS, rightT
  <2>4. QED
    BY <1>1, <1>5, <1>6, <2>1, <2>2, <2>3
<1>9. QED
  BY <1>2, <1>7, <1>8

-----------------------------------------------------------------------------

\* A member of a product is a pair.
LEMMA MemberIsAPair ==
    ASSUME NEW S, NEW T, NEW m \in S \X T
    PROVE  m[1] \in S /\ m[2] \in T /\ m = <<m[1], m[2]>>
  OBVIOUS

\* A match is the pair of its two indices.
LEMMA MatchIsAPair ==
    ASSUME NEW f, NEW g, NEW tolerance, NEW m \in SymmetricMatches(f, g, tolerance)
    PROVE  /\ m[1] \in DOMAIN f /\ m[2] \in DOMAIN g /\ m = <<m[1], m[2]>>
           /\ m[2] = Nearest(g, f[m[1]].at) /\ m[1] = Nearest(f, g[m[2]].at)
<1>1. m \in (DOMAIN f) \X (DOMAIN g)
      /\ m[2] = Nearest(g, f[m[1]].at) /\ m[1] = Nearest(f, g[m[2]].at)
  BY DEF SymmetricMatches
<1>2. m[1] \in DOMAIN f /\ m[2] \in DOMAIN g /\ m = <<m[1], m[2]>>
  <2>1. m \in (DOMAIN f) \X (DOMAIN g)
    BY <1>1
  <2>2. QED
    BY ONLY <2>1, MemberIsAPair
<1>3. QED
  BY <1>1, <1>2

\* "This produces a one-to-one comparison set and prevents duplicate reuse of a
\* quote" (docs/research/EVENT_TIME.md:7): two symmetric matches share no quote
\* and do not cross, for every pair of prepared frames and every tolerance.
THEOREM SymmetricIsOneToOne ==
    ASSUME NEW f, IsPrepared(f), NEW g, IsPrepared(g), NEW tolerance,
           NEW m \in SymmetricMatches(f, g, tolerance),
           NEW n \in SymmetricMatches(f, g, tolerance),
           m # n
    PROVE  (m[1] < n[1] /\ m[2] < n[2]) \/ (n[1] < m[1] /\ n[2] < m[2])
<1>1. /\ m[1] \in DOMAIN f /\ m[2] \in DOMAIN g /\ m = <<m[1], m[2]>>
      /\ m[1] = Nearest(f, g[m[2]].at) /\ m[2] = Nearest(g, f[m[1]].at)
      /\ n[1] \in DOMAIN f /\ n[2] \in DOMAIN g /\ n = <<n[1], n[2]>>
      /\ n[1] = Nearest(f, g[n[2]].at) /\ n[2] = Nearest(g, f[n[1]].at)
  BY MatchIsAPair
<1>2. DOMAIN f = 1 .. Len(f) /\ DOMAIN g = 1 .. Len(g) /\ Len(f) \in Nat /\ Len(g) \in Nat
  BY PreparedDomain
<1>3. m[1] # n[1] /\ m[2] # n[2]
  BY <1>1
<1>4. ASSUME NEW x \in SymmetricMatches(f, g, tolerance),
             NEW y \in SymmetricMatches(f, g, tolerance),
             x[1] < y[1]
      PROVE  x[2] <= y[2]
  <2>1. /\ x[1] \in DOMAIN f /\ y[1] \in DOMAIN f /\ x[2] \in DOMAIN g
        /\ x[2] = Nearest(g, f[x[1]].at) /\ y[2] = Nearest(g, f[y[1]].at)
    BY MatchIsAPair
  <2>2. f[x[1]].at \in Int /\ f[y[1]].at \in Int /\ f[x[1]].at < f[y[1]].at
    BY <1>4, <2>1 DEF IsPrepared
  <2>3. f[x[1]].at <= f[y[1]].at
    BY <2>2
  <2>4. g # <<>>
    BY <2>1
  <2>5. QED
    BY <2>1, <2>2, <2>3, <2>4, NearestIsMonotone
<1>5. m[1] \in Int /\ n[1] \in Int /\ m[2] \in Int /\ n[2] \in Int
  <2>1. \A k \in DOMAIN f : k \in Int
    BY <1>2
  <2>2. \A k \in DOMAIN g : k \in Int
    BY <1>2
  <2>3. QED
    BY <1>1, <2>1, <2>2
<1>6. m[1] < n[1] \/ n[1] < m[1]
  BY <1>3, <1>5
<1>7. CASE m[1] < n[1]
  BY <1>3, <1>4, <1>5, <1>7
<1>8. CASE n[1] < m[1]
  BY <1>3, <1>4, <1>5, <1>8
<1>9. QED
  BY <1>6, <1>7, <1>8

\* The symmetric matches of B with A are those of A with B, turned round: ties
\* are broken the same way from both sides.
THEOREM SymmetricHasNoAnchor ==
    ASSUME NEW f, IsPrepared(f), NEW g, IsPrepared(g), NEW tolerance
    PROVE  SymmetricMatches(g, f, tolerance)
             = {<<m[2], m[1]>> : m \in SymmetricMatches(f, g, tolerance)}
<1>1. \A i \in DOMAIN f, j \in DOMAIN g : Distance(f[i].at, g[j].at) = Distance(g[j].at, f[i].at)
  <2> TAKE i \in DOMAIN f, j \in DOMAIN g
  <2>1. f[i].at \in Int /\ g[j].at \in Int
    BY DEF IsPrepared
  <2>2. QED
    BY <2>1 DEF Distance
<1>2. \A i \in DOMAIN f, j \in DOMAIN g :
        <<j, i>> \in SymmetricMatches(g, f, tolerance)
          <=> <<i, j>> \in SymmetricMatches(f, g, tolerance)
  BY <1>1 DEF SymmetricMatches
<1>3. ASSUME NEW x \in SymmetricMatches(g, f, tolerance)
      PROVE  <<x[2], x[1]>> \in SymmetricMatches(f, g, tolerance)
  BY <1>2, MatchIsAPair
<1>4. ASSUME NEW m \in SymmetricMatches(f, g, tolerance)
      PROVE  <<m[2], m[1]>> \in SymmetricMatches(g, f, tolerance)
  BY <1>2, MatchIsAPair
<1>5. ASSUME NEW x \in SymmetricMatches(g, f, tolerance)
      PROVE  \E m \in SymmetricMatches(f, g, tolerance) : x = <<m[2], m[1]>>
  <2>1. x = <<x[1], x[2]>> /\ <<x[2], x[1]>> \in SymmetricMatches(f, g, tolerance)
    BY <1>3, MatchIsAPair
  <2>2. QED
    BY <2>1
<1>6. QED
  BY <1>4, <1>5

\* The indices of the quotes before t are the first ones, as many as
\* searchsorted skips.
LEMMA InsertionPointSplits ==
    ASSUME NEW frame, IsPrepared(frame), NEW t \in Int
    PROVE  /\ InsertionPoint(frame, t) \in 1 .. Len(frame) + 1
           /\ \A k \in DOMAIN frame : frame[k].at < t <=> k < InsertionPoint(frame, t)
<1> DEFINE B == {k \in DOMAIN frame : frame[k].at < t}
           n == Len(frame)
<1>1. n \in Nat /\ DOMAIN frame = 1 .. n
  BY PreparedDomain
<1>2. InsertionPoint(frame, t) = 1 + Cardinality(B)
  BY DEF InsertionPoint
<1>3. \A k \in 1 .. n : frame[k].at \in Int
  BY <1>1 DEF IsPrepared
<1>4. \A k, l \in 1 .. n : k < l /\ l \in B => k \in B
  <2> SUFFICES ASSUME NEW k \in 1 .. n, NEW l \in 1 .. n, k < l, l \in B
               PROVE  frame[k].at < t
    BY <1>1
  <2>1. frame[k].at < frame[l].at /\ frame[l].at < t
    BY <1>1 DEF IsPrepared
  <2>2. QED
    BY <1>3, <2>1
<1>5. B \subseteq 1 .. n
  BY <1>1
<1>6. \A k \in 1 .. n : k \in B <=> frame[k].at < t
  BY <1>1
<1> HIDE DEF B, n
<1>7. CASE B = {}
  <2>1. Cardinality(B) = 0
    BY <1>7, FS_EmptySet
  <2>2. QED
    BY <1>1, <1>2, <1>6, <1>7, <2>1 DEF n
<1>8. CASE B # {}
  <2>1. IsFiniteSet(B) /\ B \in SUBSET Int
    <3>1. IsFiniteSet(1 .. n)
      BY <1>1, FS_Interval
    <3>2. IsFiniteSet(B)
      BY <1>5, <3>1, FS_Subset
    <3>3. QED
      BY <1>5, <3>2
  <2>2. PICK top \in B : \A k \in B : top >= k
    BY <1>8, <2>1, LeastAndGreatest
  <2>3. top \in 1 .. n /\ B = 1 .. top
    <3>1. top \in 1 .. n
      BY <1>5, <2>2
    <3>2. ASSUME NEW k \in 1 .. top PROVE k \in B
      BY <1>1, <1>4, <2>2, <3>1
    <3>3. ASSUME NEW k \in B PROVE k \in 1 .. top
      BY <1>1, <1>5, <2>2, <3>1
    <3>4. QED
      BY <3>1, <3>2, <3>3
  <2>4. Cardinality(B) = top
    BY <2>3, FS_Interval
  <2>5. QED
    BY <1>1, <1>2, <1>6, <2>3, <2>4 DEF n
<1>9. QED
  BY <1>7, <1>8

\* No quote of the frame is nearer than the one _nearest_indices answers.
LEMMA NearestIsNearest ==
    ASSUME NEW frame, IsPrepared(frame), frame # <<>>, NEW t \in Int
    PROVE  /\ Nearest(frame, t) \in DOMAIN frame
           /\ \A k \in DOMAIN frame :
                 Distance(frame[Nearest(frame, t)].at, t) <= Distance(frame[k].at, t)
<1> DEFINE n == Len(frame)
           p == InsertionPoint(frame, t)
           left == Clip(p - 1, n)
           right == Clip(p, n)
<1>1. n \in Nat \ {0} /\ DOMAIN frame = 1 .. n
  <2>1. PICK S : frame \in Seq(S)
    BY DEF IsPrepared
  <2>2. QED
    BY <2>1
<1>2. p \in 1 .. n + 1 /\ \A k \in 1 .. n : frame[k].at < t <=> k < p
  BY <1>1, InsertionPointSplits
<1> HIDE DEF n, p
<1>3. \A k \in 1 .. n : frame[k].at \in Int
  BY <1>1 DEF IsPrepared
<1>4. \A k, l \in 1 .. n : k < l => frame[k].at < frame[l].at
  BY <1>1 DEF IsPrepared
<1>5. /\ left \in 1 .. n /\ right \in 1 .. n
      /\ left = (IF p = 1 THEN 1 ELSE p - 1) /\ right = (IF p = n + 1 THEN n ELSE p)
  BY <1>1, <1>2 DEF Clip
<1> HIDE DEF left, right
<1>6. Nearest(frame, t) = IF Distance(frame[left].at, t) < Distance(frame[right].at, t)
                          THEN left ELSE right
  BY DEF Nearest, n, p, left, right
<1>7. ASSUME NEW k \in 1 .. n
      PROVE  \/ Distance(frame[left].at, t) <= Distance(frame[k].at, t)
             \/ Distance(frame[right].at, t) <= Distance(frame[k].at, t)
  <2>0. frame[k].at \in Int /\ frame[left].at \in Int /\ frame[right].at \in Int
    BY <1>3, <1>5
  <2>1. CASE k < p
    <3>1. left \in 1 .. n /\ left = p - 1 /\ k <= left /\ frame[left].at < t /\ frame[k].at < t
      BY <1>1, <1>2, <1>5, <2>1
    <3>2. frame[k].at <= frame[left].at
      BY <1>4, <2>0, <3>1
    <3>3. QED
      BY <2>0, <3>1, <3>2 DEF Distance
  <2>2. CASE k >= p
    <3>1. right \in 1 .. n /\ right = p /\ ~(frame[right].at < t) /\ ~(frame[k].at < t)
      BY <1>1, <1>2, <1>5, <2>2
    <3>2. frame[right].at <= frame[k].at
      BY <1>4, <2>0, <2>2, <3>1
    <3>3. QED
      BY <2>0, <3>1, <3>2 DEF Distance
  <2>3. QED
    BY <1>1, <1>2, <2>1, <2>2
<1>8. Distance(frame[left].at, t) \in Int /\ Distance(frame[right].at, t) \in Int
      /\ \A k \in 1 .. n : Distance(frame[k].at, t) \in Int
  BY <1>3, <1>5 DEF Distance
<1>9. Nearest(frame, t) \in {left, right}
      /\ Distance(frame[Nearest(frame, t)].at, t) <= Distance(frame[left].at, t)
      /\ Distance(frame[Nearest(frame, t)].at, t) <= Distance(frame[right].at, t)
  BY <1>6, <1>8
<1>10. Nearest(frame, t) \in 1 .. n
  BY <1>5, <1>9
<1>11. Distance(frame[Nearest(frame, t)].at, t) \in Int
  BY <1>8, <1>9
<1>12. QED
  BY <1>1, <1>7, <1>8, <1>9, <1>10, <1>11

\* Nor than the one merge_asof answers.
LEMMA AsofNearestIsNearest ==
    ASSUME NEW frame, IsPrepared(frame), frame # <<>>, NEW t \in Int
    PROVE  /\ AsofNearest(frame, t) \in DOMAIN frame
           /\ \A k \in DOMAIN frame :
                 Distance(frame[AsofNearest(frame, t)].at, t) <= Distance(frame[k].at, t)
<1> DEFINE n == Len(frame)
           d == [k \in 1 .. n |-> Distance(frame[k].at, t)]
           best == {k \in 1 .. n : \A l \in 1 .. n : d[k] <= d[l]}
<1>1. n \in Nat \ {0} /\ DOMAIN frame = 1 .. n
  <2>1. PICK S : frame \in Seq(S)
    BY DEF IsPrepared
  <2>2. QED
    BY <2>1
<1>2. \A k \in 1 .. n : d[k] \in Nat /\ d[k] = Distance(frame[k].at, t)
  BY <1>1 DEF IsPrepared, Distance
<1> HIDE DEF d
<1>3. best # {}
  <2>1. {d[k] : k \in 1 .. n} \in SUBSET Nat /\ {d[k] : k \in 1 .. n} # {}
    BY <1>1, <1>2
  <2>2. PICK x \in {d[k] : k \in 1 .. n} : \A y \in {d[k] : k \in 1 .. n} : x <= y
    BY <2>1, LeastNat
  <2>3. QED
    BY <2>2
<1>4. PICK k \in best : \A l \in best : k <= l
  <2>1. best \in SUBSET Nat
    BY <1>1
  <2>2. QED
    BY <1>3, <2>1, LeastNat
<1>5. k \in 1 .. n /\ \A l \in 1 .. n : d[k] <= d[l]
  BY <1>4
<1>6. ASSUME NEW l \in 1 .. (k - 1) PROVE d[k] < d[l]
  <2>1. l \in 1 .. n /\ l < k
    BY <1>1, <1>5
  <2>2. l \notin best
    BY <1>1, <1>4, <1>5, <2>1
  <2>3. PICK m \in 1 .. n : ~(d[l] <= d[m])
    BY <2>1, <2>2
  <2>4. QED
    BY <1>2, <1>5, <2>1, <2>3
<1>7. \E i \in DOMAIN frame :
        /\ \A l \in DOMAIN frame : Distance(frame[i].at, t) <= Distance(frame[l].at, t)
        /\ \A l \in 1 .. (i - 1) : Distance(frame[i].at, t) < Distance(frame[l].at, t)
  <2>1. \A l \in 1 .. (k - 1) : l \in 1 .. n
    BY <1>1, <1>5
  <2>2. QED
    BY <1>1, <1>2, <1>5, <1>6, <2>1
<1>8. QED
  BY <1>7 DEF AsofNearest

\* A match of either mode: two indices, within the tolerance, B's quote the
\* nearest to A's, and in symmetric mode A's the nearest to B's.
LEMMA MatchIsNearest ==
    ASSUME NEW f, IsPrepared(f), f # <<>>, NEW g, IsPrepared(g), g # <<>>, NEW tolerance, NEW mode,
           NEW m \in Matches(mode, f, g, tolerance)
    PROVE  /\ m[1] \in DOMAIN f /\ m[2] \in DOMAIN g
           /\ Distance(f[m[1]].at, g[m[2]].at) <= tolerance
           /\ \A k \in DOMAIN g :
                 Distance(f[m[1]].at, g[m[2]].at) <= Distance(f[m[1]].at, g[k].at)
           /\ mode = "symmetric" => \A k \in DOMAIN f :
                 Distance(f[m[1]].at, g[m[2]].at) <= Distance(f[k].at, g[m[2]].at)
<1> DEFINE i == m[1]
           j == m[2]
<1>1. /\ i \in DOMAIN f /\ j \in DOMAIN g
      /\ Distance(f[i].at, g[j].at) <= tolerance
      /\ j = Nearest(g, f[i].at) \/ j = AsofNearest(g, f[i].at)
      /\ mode = "symmetric" => i = Nearest(f, g[j].at)
  BY DEF Matches, SymmetricMatches, AnchorMatches
<1> HIDE DEF i, j
<1>2. /\ \A k \in DOMAIN f : f[k].at \in Int
      /\ \A k \in DOMAIN g : g[k].at \in Int
  BY DEF IsPrepared
<1>3. \A s, u \in Int : Distance(s, u) = Distance(u, s)
  BY DEF Distance
<1>4. \A k \in DOMAIN g : Distance(g[j].at, f[i].at) <= Distance(g[k].at, f[i].at)
  BY <1>1, <1>2, NearestIsNearest, AsofNearestIsNearest
<1>5. \A k \in DOMAIN g : Distance(f[i].at, g[j].at) <= Distance(f[i].at, g[k].at)
  BY <1>1, <1>2, <1>3, <1>4
<1>6. mode = "symmetric" =>
        \A k \in DOMAIN f : Distance(f[i].at, g[j].at) <= Distance(f[k].at, g[j].at)
  BY <1>1, <1>2, NearestIsNearest
<1>7. QED
  BY <1>1, <1>5, <1>6 DEF i, j

\* One quote of A is in one match.
LEMMA OnePartner ==
    ASSUME NEW f, NEW g, NEW tolerance, NEW mode,
           NEW m \in Matches(mode, f, g, tolerance), NEW n \in Matches(mode, f, g, tolerance),
           m[1] = n[1]
    PROVE  m = n
<1>1. /\ m \in (DOMAIN f) \X (DOMAIN g) /\ n \in (DOMAIN f) \X (DOMAIN g)
      /\ m[2] = n[2]
  BY DEF Matches, SymmetricMatches, AnchorMatches
<1>2. m = <<m[1], m[2]>> /\ n = <<n[1], n[2]>>
  BY <1>1
<1>3. QED
  BY <1>1, <1>2

-----------------------------------------------------------------------------
(* Preparation                                                             *)

\* The last row of a timestamp exists.
LEMMA LatestIsThere ==
    ASSUME NEW frame \in Seq(Quote), NEW t \in Times(frame)
    PROVE  LatestAt(frame, t) \in Quote /\ LatestAt(frame, t).at = t
<1> DEFINE n == Len(frame)
           K == {k \in 1 .. n : frame[k].at = t}
<1>1. n \in Nat /\ DOMAIN frame = 1 .. n /\ \A k \in 1 .. n : frame[k] \in Quote
  BY LenProperties, ElementOfSeq
<1> HIDE DEF n
<1>2. K # {} /\ IsFiniteSet(K) /\ K \in SUBSET Int
  <2>1. K # {}
    BY <1>1 DEF Times
  <2>2. IsFiniteSet(1 .. n) /\ K \in SUBSET (1 .. n)
    BY <1>1, FS_Interval
  <2>3. IsFiniteSet(K)
    BY <2>2, FS_Subset
  <2>4. QED
    BY <1>1, <2>1, <2>3
<1>3. PICK k \in K : \A l \in K : k >= l
  BY <1>2, LeastAndGreatest
<1>4. \A l \in (k + 1) .. Len(frame) : frame[l].at # t
  BY <1>1, <1>3 DEF n
<1>5. \E i \in DOMAIN frame :
        frame[i].at = t /\ \A l \in (i + 1) .. Len(frame) : frame[l].at # t
  BY <1>1, <1>3, <1>4
<1>6. QED
  BY <1>1, <1>5 DEF LatestAt

\* Preparing a file sorts it and keeps one quote of each timestamp.
LEMMA ChronologicalIsPrepared ==
    ASSUME NEW frame \in Seq(Quote), frame # <<>>
    PROVE  /\ Chronological(frame) \in Seq(Quote)
           /\ IsPrepared(Chronological(frame))
           /\ Times(Chronological(frame)) = Times(frame)
           /\ Chronological(frame) # <<>>
<1> DEFINE times == Ascending(Times(frame))
           c == Chronological(frame)
           n == Len(times)
<1>1. IsFiniteSet(Times(frame)) /\ Times(frame) \in SUBSET Int /\ Times(frame) # {}
  <2> DEFINE at == [k \in 1 .. Len(frame) |-> frame[k].at]
  <2>1. Len(frame) \in Nat \ {0} /\ DOMAIN frame = 1 .. Len(frame)
        /\ \A k \in 1 .. Len(frame) : frame[k] \in Quote
    BY LenProperties, ElementOfSeq, EmptySeq
  <2>2. at \in Seq(Int) /\ Range(at) = Times(frame)
    <3>1. \A k \in 1 .. Len(frame) : frame[k].at \in Int
      BY <2>1 DEF Quote
    <3>2. QED
      BY <2>1, <3>1 DEF Range, Times
  <2>3. 1 \in 1 .. Len(frame)
    BY <2>1
  <2>4. Times(frame) # {}
    BY <2>1, <2>3 DEF Times
  <2>5. IsFiniteSet(Range(at)) /\ Range(at) \in SUBSET Int
    BY <2>2, RangeIsFinite
  <2>6. QED
    BY <2>2, <2>4, <2>5
<1>2. /\ times \in Seq(Times(frame))
      /\ \A x \in Times(frame) : \E k \in 1 .. n : times[k] = x
      /\ \A k, l \in 1 .. n : k < l => times[k] < times[l]
  BY <1>1, AscendingLists
<1> HIDE DEF times
<1>3. n \in Nat /\ DOMAIN times = 1 .. n /\ \A k \in 1 .. n : times[k] \in Times(frame)
  BY <1>2, LenProperties, ElementOfSeq
<1>4. c = [k \in 1 .. n |-> LatestAt(frame, times[k])]
  BY <1>3 DEF Chronological, times
<1>5. \A k \in 1 .. n : LatestAt(frame, times[k]) \in Quote /\ LatestAt(frame, times[k]).at = times[k]
  BY <1>3, LatestIsThere
<1>6. c \in Seq(Quote) /\ Len(c) = n /\ DOMAIN c = 1 .. n
      /\ \A k \in 1 .. n : c[k] = LatestAt(frame, times[k])
  BY <1>3, <1>4, <1>5
<1> HIDE DEF c, n
<1>7. \A k \in 1 .. n : c[k].at = times[k] /\ c[k].at \in Int
  BY <1>1, <1>3, <1>5, <1>6
<1>8. IsPrepared(c)
  BY <1>2, <1>6, <1>7 DEF IsPrepared, n
<1>9. Times(c) = Times(frame)
  <2>1. \A x \in Times(frame) : \E k \in 1 .. n : x = times[k]
    BY <1>2 DEF n
  <2>2. \A k \in 1 .. n : times[k] \in Times(frame)
    BY <1>3
  <2>3. Times(c) = {c[k].at : k \in 1 .. n}
    BY <1>6 DEF Times
  <2>4. Times(c) = {times[k] : k \in 1 .. n}
    BY <1>7, <2>3
  <2>5. QED
    BY <2>1, <2>2, <2>4
<1>10. c # <<>>
  <2>1. PICK x \in Times(frame) : TRUE
    BY <1>1
  <2>2. PICK k \in 1 .. n : times[k] = x
    BY <1>2, <2>1 DEF n
  <2>3. k \in DOMAIN c
    BY <1>6, <2>2
  <2>4. QED
    BY <2>3
<1>11. QED
  BY <1>6, <1>8, <1>9, <1>10 DEF c

-----------------------------------------------------------------------------
(* The aligned observations                                                *)

Pairs == Matches(request.mode, a, b, request.tolerance)

\* The match of the k-th observation.
PairAt(k) == CHOOSE m \in Pairs : m[1] = Ascending({p[1] : p \in Pairs})[k]

BothPrepared ==
    /\ a \in Seq(Quote) /\ IsPrepared(a) /\ a # <<>>
    /\ b \in Seq(Quote) /\ IsPrepared(b) /\ b # <<>>

\* Every match is observed once, in the order of A.
LEMMA AlignedLists ==
    ASSUME BothPrepared
    PROVE  /\ Len(Aligned) \in Nat /\ DOMAIN Aligned = 1 .. Len(Aligned)
           /\ \A k \in 1 .. Len(Aligned) :
                 PairAt(k) \in Pairs /\ Aligned[k] = Observation(PairAt(k))
           /\ \A m \in Pairs : \E k \in 1 .. Len(Aligned) : PairAt(k) = m
           /\ \A k, l \in 1 .. Len(Aligned) : k < l => PairAt(k)[1] < PairAt(l)[1]
<1> DEFINE I == {m[1] : m \in Pairs}
           order == Ascending(I)
           n == Len(order)
<1>1. \A m \in Pairs : m[1] \in DOMAIN a
  BY MatchIsNearest DEF BothPrepared, Pairs
<1>2. IsFiniteSet(I) /\ I \in SUBSET Int
  <2>1. DOMAIN a = 1 .. Len(a) /\ Len(a) \in Nat
    BY PreparedDomain DEF BothPrepared
  <2>2. I \in SUBSET (1 .. Len(a))
    BY <1>1, <2>1
  <2>3. IsFiniteSet(1 .. Len(a))
    BY <2>1, FS_Interval
  <2> HIDE DEF I
  <2>4. IsFiniteSet(I)
    BY <2>2, <2>3, FS_Subset
  <2>5. QED
    BY <2>1, <2>2, <2>4
<1> HIDE DEF I
<1>3. /\ order \in Seq(I)
      /\ \A x \in I : \E k \in 1 .. n : order[k] = x
      /\ \A k, l \in 1 .. n : k < l => order[k] < order[l]
  BY <1>2, AscendingLists
<1> HIDE DEF order
<1>4. n \in Nat /\ DOMAIN order = 1 .. n /\ \A k \in 1 .. n : order[k] \in I
  BY <1>3, LenProperties, ElementOfSeq
<1>5. ASSUME NEW k \in 1 .. n PROVE PairAt(k) \in Pairs /\ PairAt(k)[1] = order[k]
  <2>1. \E m \in Pairs : m[1] = order[k]
    BY <1>4 DEF I
  <2>2. PairAt(k) = CHOOSE m \in Pairs : m[1] = order[k]
    BY DEF PairAt, order, I
  <2>3. QED
    BY <2>1, <2>2
<1>6. Aligned = [k \in 1 .. n |-> Observation(PairAt(k))]
  BY <1>4 DEF Aligned, PairAt, Pairs, order, I
<1> HIDE DEF n
<1>7. Len(Aligned) = n /\ DOMAIN Aligned = 1 .. n
      /\ \A k \in 1 .. n : Aligned[k] = Observation(PairAt(k))
  BY <1>4, <1>6
<1>8. ASSUME NEW m \in Pairs PROVE \E k \in 1 .. n : PairAt(k) = m
  <2>1. m[1] \in I
    BY DEF I
  <2>2. PICK k \in 1 .. n : order[k] = m[1]
    BY <1>3, <2>1 DEF n
  <2>3. PairAt(k) \in Pairs /\ PairAt(k)[1] = m[1]
    BY <1>5, <2>2
  <2>4. PairAt(k) = m
    BY <2>3, OnePartner DEF Pairs
  <2>5. QED
    BY <2>4
<1>9. \A k, l \in 1 .. n : k < l => PairAt(k)[1] < PairAt(l)[1]
  BY <1>3, <1>5 DEF n
<1>10. QED
  BY <1>4, <1>5, <1>7, <1>8, <1>9

\* What is observed: times that strictly increase, in symmetric mode on both
\* sides, within the tolerance, and the nearest there are.
LEMMA AlignedFacts ==
    ASSUME BothPrepared
    PROVE  /\ \A k \in DOMAIN Aligned :
                 /\ Aligned[k].at \in Int /\ Aligned[k].bAt \in Int
                 /\ Aligned[k].quoteA \in Quote /\ Aligned[k].quoteB \in Quote
                 /\ Distance(Aligned[k].at, Aligned[k].bAt) <= request.tolerance
                 /\ \A t \in Times(b) :
                       Distance(Aligned[k].at, Aligned[k].bAt) <= Distance(Aligned[k].at, t)
                 /\ Symmetric => \A t \in Times(a) :
                       Distance(Aligned[k].at, Aligned[k].bAt) <= Distance(t, Aligned[k].bAt)
           /\ \A k, l \in DOMAIN Aligned : k < l =>
                 /\ Aligned[k].at < Aligned[l].at
                 /\ Symmetric => Aligned[k].bAt < Aligned[l].bAt
<1> DEFINE n == Len(Aligned)
<1>1. /\ DOMAIN Aligned = 1 .. n
      /\ \A k \in 1 .. n : PairAt(k) \in Pairs /\ Aligned[k] = Observation(PairAt(k))
      /\ \A k, l \in 1 .. n : k < l => PairAt(k)[1] < PairAt(l)[1]
  BY AlignedLists
<1> HIDE DEF n
<1>2. ASSUME NEW m \in Pairs
      PROVE  /\ m[1] \in DOMAIN a /\ m[2] \in DOMAIN b
             /\ Distance(a[m[1]].at, b[m[2]].at) <= request.tolerance
             /\ \A k \in DOMAIN b :
                   Distance(a[m[1]].at, b[m[2]].at) <= Distance(a[m[1]].at, b[k].at)
             /\ Symmetric => \A k \in DOMAIN a :
                   Distance(a[m[1]].at, b[m[2]].at) <= Distance(a[k].at, b[m[2]].at)
  BY MatchIsNearest DEF BothPrepared, Pairs, Symmetric
<1>3. /\ \A k \in DOMAIN a : a[k] \in Quote /\ a[k].at \in Int
      /\ \A k \in DOMAIN b : b[k] \in Quote /\ b[k].at \in Int
  BY ElementOfSeq, LenProperties DEF BothPrepared, IsPrepared
<1>4. ASSUME NEW k \in 1 .. n
      PROVE  /\ Aligned[k].at = a[PairAt(k)[1]].at /\ Aligned[k].bAt = b[PairAt(k)[2]].at
             /\ Aligned[k].quoteA = a[PairAt(k)[1]] /\ Aligned[k].quoteB = b[PairAt(k)[2]]
             /\ PairAt(k) \in Pairs
             /\ PairAt(k)[1] \in DOMAIN a /\ PairAt(k)[2] \in DOMAIN b
  <2>1. PairAt(k) \in Pairs /\ Aligned[k] = Observation(PairAt(k))
    BY <1>1
  <2>2. QED
    BY <1>2, <2>1 DEF Observation
<1>5. ASSUME NEW k \in 1 .. n
      PROVE  /\ Aligned[k].at \in Int /\ Aligned[k].bAt \in Int
             /\ Aligned[k].quoteA \in Quote /\ Aligned[k].quoteB \in Quote
             /\ Distance(Aligned[k].at, Aligned[k].bAt) <= request.tolerance
             /\ \A t \in Times(b) :
                   Distance(Aligned[k].at, Aligned[k].bAt) <= Distance(Aligned[k].at, t)
             /\ Symmetric => \A t \in Times(a) :
                   Distance(Aligned[k].at, Aligned[k].bAt) <= Distance(t, Aligned[k].bAt)
  BY <1>2, <1>3, <1>4 DEF Times
<1>6. ASSUME NEW k \in 1 .. n, NEW l \in 1 .. n, k < l
      PROVE  /\ Aligned[k].at < Aligned[l].at
             /\ Symmetric => Aligned[k].bAt < Aligned[l].bAt
  <2>1. PairAt(k)[1] < PairAt(l)[1] /\ PairAt(k)[1] \in DOMAIN a /\ PairAt(l)[1] \in DOMAIN a
    BY <1>1, <1>4, <1>6
  <2>2. Aligned[k].at < Aligned[l].at
    BY <1>4, <2>1 DEF BothPrepared, IsPrepared
  <2>3. ASSUME Symmetric PROVE Aligned[k].bAt < Aligned[l].bAt
    <3>1. PairAt(k) \in SymmetricMatches(a, b, request.tolerance)
          /\ PairAt(l) \in SymmetricMatches(a, b, request.tolerance)
      BY <1>4, <2>3 DEF Pairs, Matches, Symmetric
    <3>2. PairAt(k)[1] \in Int /\ PairAt(l)[1] \in Int
      BY <2>1, PreparedDomain DEF BothPrepared
    <3>3. PairAt(k)[2] < PairAt(l)[2]
      <4>1. ~(PairAt(l)[1] < PairAt(k)[1]) /\ PairAt(k) # PairAt(l)
        BY <2>1, <3>2
      <4>2. QED
        BY <3>1, <4>1, SymmetricIsOneToOne DEF BothPrepared
    <3>4. QED
      BY <1>4, <3>3 DEF BothPrepared, IsPrepared
  <2>4. QED
    BY <2>2, <2>3
<1>7. QED
  BY <1>1, <1>5, <1>6

-----------------------------------------------------------------------------
(* The inductive invariant                                                 *)

Compared == pc \in {"align", "InsufficientDataError", "assess", "group", "capture", "done"}

\* The prepared frames are what preparing the files gives.
FramesAgree ==
    /\ request \in Requests /\ rawA \in FramesA /\ rawB \in FramesB
    /\ pc \in {"prepare", "DataQualityError"} \/ Compared
    /\ Compared => /\ rawA # <<>> /\ rawB # <<>>
                   /\ a = Chronological(rawA) /\ b = Chronological(rawB)

\* The rows are observed once, and pricing leaves their times alone.
RowsAgree ==
    /\ rows # <<>> => /\ pc \in {"assess", "group", "capture", "done"}
                      /\ DOMAIN rows = DOMAIN Aligned
                      /\ \A k \in DOMAIN rows :
                            rows[k].at = Aligned[k].at /\ rows[k].bAt = Aligned[k].bAt
    /\ pc \in {"assess", "group", "capture"} => rows # <<>>
    /\ pc = "assess" => rows = Aligned

\* A row with its edge.
PricedRow ==
    [at : Int, bAt : Int, net : Int, direction : {"buy_a_sell_b", "buy_b_sell_a"},
     crossable : BOOLEAN]

\* Pricing gives every row an edge, a positive one if it is crossable.
RowsArePriced == IsFeed(rows) /\ \A k \in CrossableRows : rows[k].net > 0

\* The episodes are those of the priced rows, and the verdict is what their
\* statuses say.
EpisodesAgree ==
    /\ pc \in {"group", "capture"} => RowsArePriced
    /\ pc \notin {"capture", "done"} => episodes = <<>>
    /\ pc = "capture" => episodes = EpisodesOf(rows, Gap2)
    /\ pc = "done" /\ episodes # <<>> =>
          /\ RowsArePriced /\ episodes = EpisodesOf(rows, Gap2)
          /\ verdict = "crossable" =>
                \E e \in DOMAIN episodes : CaptureStatus(episodes[e], request.order) = "capturable"

IInv == FramesAgree /\ RowsAgree /\ EpisodesAgree

\* Once prepared, both frames are.
LEMMA ComparedIsPrepared ==
    ASSUME FramesAgree, Compared
    PROVE  BothPrepared /\ Times(a) = Times(rawA) /\ Times(b) = Times(rawB)
<1>1. rawA \in Seq(Quote) /\ rawB \in Seq(Quote) /\ rawA # <<>> /\ rawB # <<>>
      /\ a = Chronological(rawA) /\ b = Chronological(rawB)
  BY ComparisonConstants DEF FramesAgree
<1>2. QED
  BY <1>1, ChronologicalIsPrepared DEF BothPrepared

\* A frame that is not refused has a row.
LEMMA RefusedIfEmpty ==
    ASSUME NEW frame, NEW kind, NEW aggregation, ~Refused(frame, kind, aggregation)
    PROVE  frame # <<>>
  BY DEF Refused

\* Pricing an aligned observation.
LEMMA PricedIsPriced ==
    ASSUME NEW row, NEW open \in BOOLEAN, row.at \in Int, row.bAt \in Int,
           row.quoteA \in Quote, row.quoteB \in Quote, request \in Request
    PROVE  /\ Priced(row, open) \in PricedRow
           /\ Priced(row, open).at = row.at /\ Priced(row, open).bAt = row.bAt
           /\ Priced(row, open).crossable => Priced(row, open).net > 0
<1>1. BuyA(row) \in Int /\ BuyB(row) \in Int
  <2>1. /\ row.quoteA.bid \in Int /\ row.quoteA.ask \in Int
        /\ row.quoteB.bid \in Int /\ row.quoteB.ask \in Int /\ request.cost \in Int
    BY DEF Quote, Request
  <2>2. QED
    BY <2>1 DEF BuyA, BuyB
<1>2. Larger(BuyA(row), BuyB(row)) \in Int
  BY <1>1 DEF Larger
<1>3. (open /\ Larger(BuyA(row), BuyB(row)) > 0) \in BOOLEAN
  OBVIOUS
<1>4. QED
  BY <1>2, <1>3 DEF Priced, PricedRow

\* The invariant holds before anything is read.
LEMMA InitIInv == Init => IInv
  BY DEF Init, IInv, FramesAgree, RowsAgree, EpisodesAgree, Compared

\* Every step keeps it.
LEMMA StepIInv == IInv /\ [Next]_vars => IInv'
<1> SUFFICES ASSUME IInv, [Next]_vars PROVE IInv'
  OBVIOUS
<1> USE DEF IInv
<1>1. CASE Prepare
  BY <1>1, RefusedIfEmpty
     DEF Prepare, inputs, FramesAgree, RowsAgree, EpisodesAgree, Compared
<1>2. CASE PrepareRefuses
  BY <1>2 DEF PrepareRefuses, inputs, FramesAgree, RowsAgree, EpisodesAgree, Compared
<1>3. CASE Align
  <2>1. Aligned' = Aligned
    BY <1>3 DEF Align, inputs, Aligned, Observation, Matches
  <2>2. QED
    BY <1>3, <2>1 DEF Align, inputs, FramesAgree, RowsAgree, EpisodesAgree, Compared
<1>4. CASE NothingAligned
  BY <1>4 DEF NothingAligned, inputs, FramesAgree, RowsAgree, EpisodesAgree, Compared
<1>5. CASE SummariseBars
  <2>1. Aligned' = Aligned
    BY <1>5 DEF SummariseBars, inputs, Aligned, Observation, Matches
  <2>2. QED
    BY <1>5, <2>1 DEF SummariseBars, inputs, FramesAgree, RowsAgree, EpisodesAgree, Compared
<1>6. CASE Assess
  <2>1. Aligned' = Aligned
    BY <1>6 DEF Assess, inputs, Aligned, Observation, Matches
  <2>2. PICK gate \in {"open", "blocked_by_contract_specification", "blocked_by_execution_feasibility"} :
          rows' = [k \in DOMAIN rows |-> Priced(rows[k], gate = "open")]
    BY <1>6 DEF Assess
  <2>3. rows = Aligned /\ rows # <<>> /\ BothPrepared /\ request \in Request
    BY <1>6, ComparedIsPrepared, ComparisonConstants DEF Assess, FramesAgree, RowsAgree, Compared
  <2>4. /\ Len(rows) \in Nat /\ DOMAIN rows = 1 .. Len(rows)
        /\ \A k \in DOMAIN rows : /\ rows[k].at \in Int /\ rows[k].bAt \in Int
                                  /\ rows[k].quoteA \in Quote /\ rows[k].quoteB \in Quote
        /\ \A k, l \in DOMAIN rows : k < l => rows[k].at < rows[l].at
    BY <2>3, AlignedLists, AlignedFacts
  <2>5. \A k \in DOMAIN rows :
          /\ rows'[k] \in PricedRow
          /\ rows'[k].at = rows[k].at /\ rows'[k].bAt = rows[k].bAt
          /\ rows'[k].crossable => rows'[k].net > 0
    BY <2>2, <2>3, <2>4, PricedIsPriced
  <2>6. DOMAIN rows' = DOMAIN rows
    BY <2>2
  <2>7. rows' \in Seq(PricedRow)
    BY <2>2, <2>4, <2>5
  <2>8. RowsArePriced'
    <3>1. \A k \in DOMAIN rows' : rows'[k].at \in Int /\ rows'[k].net \in Int
      BY <2>5, <2>6 DEF PricedRow
    <3>2. QED
      BY <2>4, <2>5, <2>6, <2>7, <3>1 DEF RowsArePriced, IsFeed, Numeric, CrossableRows
  <2>9. rows' # <<>>
    <3>1. 1 \in DOMAIN rows
      BY <2>3, <2>4
    <3>2. QED
      BY <2>6, <3>1
  <2>10. QED
    BY <1>6, <2>1, <2>3, <2>5, <2>6, <2>8, <2>9
       DEF Assess, inputs, FramesAgree, RowsAgree, EpisodesAgree, Compared
<1>7. CASE Group
  <2>1. Aligned' = Aligned /\ Gap2' = Gap2
    BY <1>7 DEF Group, inputs, Aligned, Observation, Matches, Gap2
  <2>2. RowsArePriced'
    BY <1>7 DEF Group, EpisodesAgree, RowsArePriced, IsFeed, Numeric, CrossableRows
  <2>3. QED
    BY <1>7, <2>1, <2>2 DEF Group, inputs, FramesAgree, RowsAgree, EpisodesAgree, Compared
<1>8. CASE Capture
  <2>1. Aligned' = Aligned /\ Gap2' = Gap2
    BY <1>8 DEF Capture, inputs, Aligned, Observation, Matches, Gap2
  <2>2. RowsArePriced'
    BY <1>8 DEF Capture, EpisodesAgree, RowsArePriced, IsFeed, Numeric, CrossableRows
  <2>3. statuses' = [e \in DOMAIN episodes |-> CaptureStatus(episodes[e], request.order)]
        /\ episodes' = episodes /\ request' = request /\ pc' = "done"
    BY <1>8 DEF Capture, inputs
  <2>4. episodes # <<>> /\ verdict' = "crossable" =>
          \E e \in DOMAIN episodes : CaptureStatus(episodes[e], request.order) = "capturable"
    BY <1>8, <2>3 DEF Capture
  <2>5. QED
    BY <1>8, <2>1, <2>2, <2>3, <2>4
       DEF Capture, inputs, FramesAgree, RowsAgree, EpisodesAgree, Compared
<1>9. CASE UNCHANGED vars
  <2>1. Aligned' = Aligned /\ Gap2' = Gap2
    BY <1>9 DEF vars, Aligned, Observation, Matches, Gap2
  <2>2. RowsArePriced' <=> RowsArePriced
    BY <1>9 DEF vars, RowsArePriced, IsFeed, Numeric, CrossableRows
  <2>3. QED
    BY <1>9, <2>1, <2>2 DEF vars, FramesAgree, RowsAgree, EpisodesAgree, Compared
<1>10. QED
  BY <1>1, <1>2, <1>3, <1>4, <1>5, <1>6, <1>7, <1>8, <1>9 DEF Next

\* The inductive invariant holds in every reachable state.
THEOREM Invariant == Spec => []IInv
  BY InitIInv, StepIInv, PTL DEF Spec

-----------------------------------------------------------------------------
(* The alignment's properties                                              *)

\* Rows are there only once the frames are prepared.
LEMMA RowsAreCompared ==
    ASSUME IInv, NEW k \in DOMAIN rows
    PROVE  /\ BothPrepared /\ Times(a) = Times(rawA) /\ Times(b) = Times(rawB)
           /\ DOMAIN rows = DOMAIN Aligned
           /\ \A l \in DOMAIN rows : rows[l].at = Aligned[l].at /\ rows[l].bAt = Aligned[l].bAt
<1>1. rows # <<>>
  OBVIOUS
<1>2. Compared
  BY <1>1 DEF IInv, RowsAgree, Compared
<1>3. QED
  BY <1>1, <1>2, ComparedIsPrepared DEF IInv, RowsAgree

\* In symmetric mode no quote of either broker is used twice, and the matches
\* never cross in time, whatever the files hold and in whatever order.
THEOREM QuotesOnce == Spec => []EachQuoteOnce
<1>1. ASSUME IInv PROVE EachQuoteOnce
  <2>1. SUFFICES ASSUME Symmetric, NEW k \in DOMAIN rows, NEW l \in DOMAIN rows, k < l
                 PROVE  rows[k].at < rows[l].at /\ rows[k].bAt < rows[l].bAt
    BY DEF EachQuoteOnce
  <2>2. /\ BothPrepared /\ DOMAIN rows = DOMAIN Aligned
        /\ \A m \in DOMAIN rows : rows[m].at = Aligned[m].at /\ rows[m].bAt = Aligned[m].bAt
    BY <1>1, RowsAreCompared
  <2>3. Aligned[k].at < Aligned[l].at /\ Aligned[k].bAt < Aligned[l].bAt
    BY <2>1, <2>2, AlignedFacts
  <2>4. QED
    BY <2>2, <2>3
<1>2. QED
  BY <1>1, Invariant, PTL

\* A match is within the tolerance and pairs the nearest quotes of the two
\* files, in whatever order a terminal returned their rows.
THEOREM NearestArePaired == Spec => []MatchesAreNearest
<1>1. ASSUME IInv PROVE MatchesAreNearest
  <2>1. SUFFICES ASSUME NEW k \in DOMAIN rows
                 PROVE  /\ Distance(rows[k].at, rows[k].bAt) <= request.tolerance
                        /\ \A t \in Times(rawB) :
                              Distance(rows[k].at, rows[k].bAt) <= Distance(rows[k].at, t)
                        /\ Symmetric =>
                             \A t \in Times(rawA) :
                                Distance(rows[k].at, rows[k].bAt) <= Distance(t, rows[k].bAt)
    BY DEF MatchesAreNearest
  <2>2. /\ BothPrepared /\ Times(a) = Times(rawA) /\ Times(b) = Times(rawB)
        /\ DOMAIN rows = DOMAIN Aligned
        /\ rows[k].at = Aligned[k].at /\ rows[k].bAt = Aligned[k].bAt
    BY <1>1, RowsAreCompared
  <2>3. QED
    BY <2>2, AlignedFacts
<1>2. QED
  BY <1>1, Invariant, PTL

\* A symmetric comparison pairs the same quotes whichever broker is called A.
THEOREM NoBrokerIsFirst == Spec => []EitherBrokerFirst
<1>1. ASSUME IInv PROVE EitherBrokerFirst
  <2> DEFINE here == {<<rows[k].bAt, rows[k].at>> : k \in DOMAIN rows}
             there == {<<b[m[1]].at, a[m[2]].at>> : m \in Matches(request.mode, b, a, request.tolerance)}
  <2>1. SUFFICES ASSUME pc = "assess", Symmetric PROVE here = there
    BY DEF EitherBrokerFirst
  <2>2. BothPrepared /\ rows = Aligned
    BY <1>1, <2>1, ComparedIsPrepared DEF IInv, RowsAgree, Compared
  <2>3. /\ DOMAIN rows = 1 .. Len(Aligned)
        /\ \A k \in DOMAIN rows : PairAt(k) \in Pairs /\ rows[k] = Observation(PairAt(k))
        /\ \A m \in Pairs : \E k \in DOMAIN rows : PairAt(k) = m
    BY <2>2, AlignedLists
  <2>4. Pairs = SymmetricMatches(a, b, request.tolerance)
        /\ Matches(request.mode, b, a, request.tolerance) = SymmetricMatches(b, a, request.tolerance)
    BY <2>1 DEF Pairs, Matches, Symmetric
  <2>5. SymmetricMatches(b, a, request.tolerance) = {<<m[2], m[1]>> : m \in Pairs}
    BY <2>2, <2>4, SymmetricHasNoAnchor DEF BothPrepared
  <2>6. there = {<<b[m[2]].at, a[m[1]].at>> : m \in Pairs}
    <3>1. \A m \in Pairs : <<m[2], m[1]>> \in SymmetricMatches(b, a, request.tolerance)
      BY <2>5
    <3>2. \A x \in SymmetricMatches(b, a, request.tolerance) :
            \E m \in Pairs : x[1] = m[2] /\ x[2] = m[1]
      BY <2>5
    <3>3. ASSUME NEW x \in there PROVE x \in {<<b[m[2]].at, a[m[1]].at>> : m \in Pairs}
      <4>1. PICK y \in SymmetricMatches(b, a, request.tolerance) : x = <<b[y[1]].at, a[y[2]].at>>
        BY <2>4
      <4>2. QED
        BY <3>2, <4>1
    <3>4. ASSUME NEW m \in Pairs PROVE <<b[m[2]].at, a[m[1]].at>> \in there
      <4>1. <<m[2], m[1]>>[1] = m[2] /\ <<m[2], m[1]>>[2] = m[1]
        OBVIOUS
      <4>2. QED
        BY <2>4, <3>1, <4>1
    <3>5. QED
      BY <3>3, <3>4
  <2>7. here = {<<b[PairAt(k)[2]].at, a[PairAt(k)[1]].at>> : k \in DOMAIN rows}
    BY <2>3 DEF Observation
  <2>8. QED
    BY <2>3, <2>6, <2>7
<1>2. QED
  BY <1>1, Invariant, PTL

-----------------------------------------------------------------------------
(* The episodes' properties                                                *)

\* The number of episodes, where each begins and ends among the crossable rows,
\* and the place of the i-th crossable row among all of them.
Runs == Len(Ascending(Starts(Crossable(rows), Gap2)))
From(e) == FirstOf(Crossable(rows), Gap2, e)
To(e) == LastOf(Crossable(rows), Gap2, e)
Many == Len(Crossable(rows))
Place(i) == Ascending(Chosen(rows))[i]

\* The gap of a priced feed is a number.
LEMMA GapOfTheRows ==
    ASSUME request \in Request, IsFeed(rows)
    PROVE  Gap2 \in Int
  BY GapIsANumber DEF Gap2, Request, IsFeed

\* What the crossable rows and the episodes found among them are.
LEMMA RunsOfTheRows ==
    ASSUME IsFeed(rows), Gap2 \in Int, episodes = EpisodesOf(rows, Gap2)
    PROVE  /\ Many \in Nat /\ Runs \in Nat /\ DOMAIN episodes = 1 .. Runs
           /\ \A i \in 1 .. Many : Place(i) \in CrossableRows /\ rows[Place(i)].at \in Int
           /\ \A k \in CrossableRows : \E i \in 1 .. Many : Place(i) = k
           /\ \A i, j \in 1 .. Many :
                 i < j => Place(i) < Place(j) /\ rows[Place(i)].at < rows[Place(j)].at
           /\ \A e \in 1 .. Runs : From(e) \in 1 .. Many /\ To(e) \in 1 .. Many /\ From(e) <= To(e)
           /\ \A e, f \in 1 .. Runs : e < f => To(e) < From(f)
           /\ \A i \in 1 .. Many : \E e \in 1 .. Runs : From(e) <= i /\ i <= To(e)
<1>1. CrossableRows = Chosen(rows)
  BY DEF CrossableRows, Chosen
<1>2. Numeric(Crossable(rows))
  BY CrossableLists
<1>3. /\ Many \in Nat
      /\ \A i \in 1 .. Many : /\ Place(i) \in Chosen(rows) /\ Crossable(rows)[i] = rows[Place(i)]
                              /\ Crossable(rows)[i].at \in Int
      /\ \A k \in Chosen(rows) : \E i \in 1 .. Many : Place(i) = k
      /\ \A i, j \in 1 .. Many :
            i < j => Place(i) < Place(j) /\ Crossable(rows)[i].at < Crossable(rows)[j].at
  BY CrossableLists DEF Many, Place
<1>4. /\ Runs \in Nat
      /\ \A e \in 1 .. Runs : From(e) \in 1 .. Many /\ To(e) \in 1 .. Many /\ From(e) <= To(e)
      /\ \A e, f \in 1 .. Runs : e < f => To(e) < From(f)
      /\ \A i \in 1 .. Many : \E e \in 1 .. Runs : From(e) <= i /\ i <= To(e)
  BY <1>2, RunsPartition DEF Runs, From, To, Many
<1>5. DOMAIN episodes = 1 .. Runs
  BY EpisodesAreRuns DEF Runs
<1>6. QED
  BY <1>1, <1>3, <1>4, <1>5

\* An episode's bounds, size and peak, in terms of the rows.
LEMMA EpisodeOfTheRows ==
    ASSUME IsFeed(rows), Gap2 \in Int, episodes = EpisodesOf(rows, Gap2), NEW e \in 1 .. Runs
    PROVE  /\ episodes[e].start = rows[Place(From(e))].at
           /\ episodes[e].end = rows[Place(To(e))].at
           /\ episodes[e].observations = To(e) - From(e) + 1
           /\ \E i \in From(e) .. To(e) :
                 /\ episodes[e].peak = rows[Place(i)].net
                 /\ episodes[e].peakOffset = rows[Place(i)].at - rows[Place(From(e))].at
           /\ \A i \in From(e) .. To(e) : rows[Place(i)].net <= episodes[e].peak
<1>1. \A i \in 1 .. Many : Crossable(rows)[i] = rows[Place(i)]
  BY CrossableLists DEF Many, Place
<1>2. From(e) \in 1 .. Many /\ To(e) \in 1 .. Many /\ Many \in Nat
  BY RunsOfTheRows
<1>3. \A i \in From(e) .. To(e) : i \in 1 .. Many
  BY <1>2
<1>4. /\ episodes[e].start = Crossable(rows)[From(e)].at
      /\ episodes[e].end = Crossable(rows)[To(e)].at
      /\ episodes[e].observations = To(e) - From(e) + 1
      /\ \E i \in From(e) .. To(e) :
            /\ episodes[e].peak = Crossable(rows)[i].net
            /\ episodes[e].peakOffset = Crossable(rows)[i].at - Crossable(rows)[From(e)].at
      /\ \A i \in From(e) .. To(e) : Crossable(rows)[i].net <= episodes[e].peak
  BY EpisodesAreRuns DEF Runs, From, To
<1>5. QED
  BY <1>1, <1>2, <1>3, <1>4

\* A crossable row is in an episode exactly when it is in its run.
LEMMA InItsRun ==
    ASSUME IsFeed(rows), Gap2 \in Int, episodes = EpisodesOf(rows, Gap2),
           NEW e \in 1 .. Runs, NEW i \in 1 .. Many
    PROVE  In(Place(i), e) <=> From(e) <= i /\ i <= To(e)
<1>1. episodes[e].start = rows[Place(From(e))].at /\ episodes[e].end = rows[Place(To(e))].at
  BY EpisodeOfTheRows
<1>2. /\ Many \in Nat /\ From(e) \in 1 .. Many /\ To(e) \in 1 .. Many
      /\ \A j \in 1 .. Many : rows[Place(j)].at \in Int
      /\ \A j, k \in 1 .. Many : j < k => rows[Place(j)].at < rows[Place(k)].at
  BY RunsOfTheRows
<1>3. ASSUME NEW j \in 1 .. Many, NEW k \in 1 .. Many
      PROVE  rows[Place(j)].at <= rows[Place(k)].at <=> j <= k
  <2>1. /\ j < k => rows[Place(j)].at < rows[Place(k)].at
        /\ k < j => rows[Place(k)].at < rows[Place(j)].at
        /\ rows[Place(j)].at \in Int /\ rows[Place(k)].at \in Int
    BY <1>2
  <2>2. CASE j < k
    BY <2>1, <2>2
  <2>3. CASE k < j
    BY <2>1, <2>3
  <2>4. CASE j = k
    BY <2>1, <2>4
  <2>5. QED
    BY <2>2, <2>3, <2>4
<1>4. rows[Place(From(e))].at <= rows[Place(i)].at <=> From(e) <= i
  BY <1>2, <1>3
<1>5. rows[Place(i)].at <= rows[Place(To(e))].at <=> i <= To(e)
  BY <1>2, <1>3
<1>6. QED
  BY <1>1, <1>2, <1>4, <1>5 DEF In

\* The crossable rows of an episode are as many as its run is long.
LEMMA MembersOfAnEpisode ==
    ASSUME IsFeed(rows), Gap2 \in Int, episodes = EpisodesOf(rows, Gap2), NEW e \in 1 .. Runs
    PROVE  LET members == {k \in CrossableRows : In(k, e)}
           IN  /\ members = {Place(i) : i \in From(e) .. To(e)}
               /\ Cardinality(members) = To(e) - From(e) + 1
<1> DEFINE members == {k \in CrossableRows : In(k, e)}
           place == [i \in From(e) .. To(e) |-> Place(i)]
<1>1. /\ Many \in Nat /\ From(e) \in 1 .. Many /\ To(e) \in 1 .. Many /\ From(e) <= To(e)
      /\ \A i \in 1 .. Many : Place(i) \in CrossableRows
      /\ \A k \in CrossableRows : \E i \in 1 .. Many : Place(i) = k
      /\ \A i, j \in 1 .. Many : i < j => Place(i) < Place(j)
  BY RunsOfTheRows
<1>2. \A i \in From(e) .. To(e) : i \in 1 .. Many /\ From(e) <= i /\ i <= To(e)
  BY <1>1
<1>3. \A i \in From(e) .. To(e) : Place(i) \in members
  BY <1>1, <1>2, InItsRun
<1>4. ASSUME NEW k \in members PROVE \E i \in From(e) .. To(e) : Place(i) = k
  <2>1. PICK i \in 1 .. Many : Place(i) = k
    BY <1>1
  <2>2. From(e) <= i /\ i <= To(e)
    BY <2>1, InItsRun
  <2>3. i \in From(e) .. To(e)
    BY <1>1, <2>2
  <2>4. QED
    BY <2>1, <2>3
<1>5. \A i, j \in From(e) .. To(e) : Place(i) = Place(j) => i = j
  <2> SUFFICES ASSUME NEW i \in From(e) .. To(e), NEW j \in From(e) .. To(e), Place(i) = Place(j)
               PROVE  i = j
    OBVIOUS
  <2>1. i \in 1 .. Many /\ j \in 1 .. Many /\ i \in Int /\ j \in Int
    BY <1>1, <1>2
  <2>2. Place(i) \in Int /\ Place(j) \in Int
    BY <1>1, <2>1, NumericDomain DEF CrossableRows, IsFeed
  <2>3. QED
    BY <1>1, <2>1, <2>2
<1> HIDE DEF members
<1>6. place \in Bijection(From(e) .. To(e), members)
  BY <1>3, <1>4, <1>5 DEF Bijection, Injection, IsInjective, Surjection
<1>7. IsFiniteSet(From(e) .. To(e)) /\ Cardinality(From(e) .. To(e)) = To(e) - From(e) + 1
  BY <1>1, FS_Interval
<1>8. Cardinality(members) = To(e) - From(e) + 1
  BY <1>6, <1>7, FS_Bijection DEF ExistsBijection
<1>9. members = {Place(i) : i \in From(e) .. To(e)}
  BY <1>3, <1>4
<1>10. QED
  BY <1>8, <1>9 DEF members

\* Two crossable rows with none between them are neighbours.
LEMMA SuccessiveAreNeighbours ==
    ASSUME IsFeed(rows), Gap2 \in Int, episodes = EpisodesOf(rows, Gap2),
           NEW k \in CrossableRows, NEW l \in CrossableRows, Successive(k, l)
    PROVE  \E i \in 1 .. Many : i + 1 \in 1 .. Many /\ Place(i) = k /\ Place(i + 1) = l
<1>1. /\ Many \in Nat
      /\ \A i \in 1 .. Many : Place(i) \in CrossableRows
      /\ \A m \in CrossableRows : \E i \in 1 .. Many : Place(i) = m
      /\ \A i, j \in 1 .. Many : i < j => Place(i) < Place(j)
  BY RunsOfTheRows
<1>2. \A m \in CrossableRows : m \in Int
  BY NumericDomain DEF CrossableRows, IsFeed
<1>3. PICK i \in 1 .. Many : Place(i) = k
  BY <1>1
<1>4. PICK j \in 1 .. Many : Place(j) = l
  BY <1>1
<1>5. k < l /\ \A m \in CrossableRows : m <= k \/ m >= l
  BY DEF Successive
<1>6. i < j
  <2>1. j < i => l < k
    BY <1>1, <1>3, <1>4
  <2>2. i # j
    BY <1>2, <1>3, <1>4, <1>5
  <2>3. QED
    BY <1>1, <1>2, <1>5, <2>1, <2>2
<1>7. i + 1 \in 1 .. Many /\ i < i + 1
  BY <1>1, <1>6
<1>8. Place(i + 1) \in CrossableRows /\ k < Place(i + 1)
  BY <1>1, <1>3, <1>7
<1>9. i + 1 < j => Place(i + 1) < l
  BY <1>1, <1>4, <1>7
<1>10. ~(i + 1 < j)
  <2>1. k \in Int /\ l \in Int /\ Place(i + 1) \in Int
    BY <1>2, <1>8
  <2>2. Place(i + 1) <= k \/ Place(i + 1) >= l
    BY <1>5, <1>8
  <2>3. QED
    BY <1>8, <1>9, <2>1, <2>2
<1>11. j = i + 1
  BY <1>1, <1>6, <1>10
<1>12. QED
  BY <1>3, <1>4, <1>7, <1>11

\* Neighbours are in one run exactly when no silence wider than the gap
\* separates them.
LEMMA NeighboursShareARun ==
    ASSUME IsFeed(rows), Gap2 \in Int, episodes = EpisodesOf(rows, Gap2),
           NEW i \in 1 .. Many, i + 1 \in 1 .. Many
    PROVE  (\E e \in 1 .. Runs : From(e) <= i /\ i + 1 <= To(e))
             <=> 2 * (rows[Place(i + 1)].at - rows[Place(i)].at) <= Gap2
<1> DEFINE T == Starts(Crossable(rows), Gap2)
           p == Crossable(rows)
<1>1. Numeric(p) /\ \A j \in 1 .. Many : p[j] = rows[Place(j)]
  BY CrossableLists DEF Many, Place
<1>2. DOMAIN p = 1 .. Many /\ Many \in Nat
  BY <1>1, NumericDomain DEF Many
<1>3. /\ Runs \in Nat
      /\ \A e \in 1 .. Runs : From(e) \in 1 .. Many /\ To(e) \in 1 .. Many /\ From(e) \in T
      /\ \A j \in 1 .. Many : \E e \in 1 .. Runs : From(e) <= j /\ j <= To(e)
      /\ \A e, f \in 1 .. Runs : e < f => To(e) < From(f)
      /\ \A e \in 1 .. Runs, j \in 1 .. Many : From(e) < j /\ j <= To(e) => j \notin T
  BY <1>1, RunsPartition DEF Runs, From, To, Many
<1>4. rows[Place(i)].at \in Int /\ rows[Place(i + 1)].at \in Int
  BY RunsOfTheRows
<1>5. i + 1 \in T <=> 2 * (p[i + 1].at - p[i].at) > Gap2
  <2>1. i + 1 \in DOMAIN p /\ i + 1 # 1 /\ (i + 1) - 1 = i
    BY <1>2
  <2>2. QED
    BY <2>1 DEF Starts
<1>6. i + 1 \in T <=> ~(2 * (rows[Place(i + 1)].at - rows[Place(i)].at) <= Gap2)
  <2>1. p[i] = rows[Place(i)] /\ p[i + 1] = rows[Place(i + 1)]
    BY <1>1
  <2>2. QED
    BY <1>4, <1>5, <2>1
<1> HIDE DEF T
<1>7. ASSUME NEW e \in 1 .. Runs, From(e) <= i, i + 1 <= To(e) PROVE i + 1 \notin T
  BY <1>2, <1>3, <1>7
<1>8. ASSUME i + 1 \notin T PROVE \E e \in 1 .. Runs : From(e) <= i /\ i + 1 <= To(e)
  <2>1. PICK e \in 1 .. Runs : From(e) <= i + 1 /\ i + 1 <= To(e)
    BY <1>3
  <2>2. From(e) # i + 1
    BY <1>3, <1>8
  <2>3. From(e) <= i
    BY <1>2, <1>3, <2>1, <2>2
  <2>4. QED
    BY <2>1, <2>3
<1>9. QED
  BY <1>6, <1>7, <1>8

\* Episodes partition the crossable observations, two successive ones share
\* one exactly when no silence wider than the gap separates them, and the peak
\* is the best edge of the episode, where it was observed.
THEOREM EpisodesPartition == Spec => []EpisodesPartitionTheEdge
<1>1. ASSUME IInv PROVE EpisodesPartitionTheEdge
  <2> SUFFICES ASSUME pc = "capture" PROVE EpisodesPartitionTheEdge!2
    BY DEF EpisodesPartitionTheEdge
  <2>1. IsFeed(rows) /\ Gap2 \in Int /\ episodes = EpisodesOf(rows, Gap2)
    BY <1>1, GapOfTheRows, ComparisonConstants DEF IInv, FramesAgree, EpisodesAgree, RowsArePriced
  <2>2. /\ Many \in Nat /\ Runs \in Nat /\ DOMAIN episodes = 1 .. Runs
        /\ \A i \in 1 .. Many : Place(i) \in CrossableRows
        /\ \A k \in CrossableRows : \E i \in 1 .. Many : Place(i) = k
        /\ \A e \in 1 .. Runs : From(e) \in 1 .. Many /\ To(e) \in 1 .. Many
        /\ \A e, f \in 1 .. Runs : e < f => To(e) < From(f)
        /\ \A i \in 1 .. Many : \E e \in 1 .. Runs : From(e) <= i /\ i <= To(e)
    BY <2>1, RunsOfTheRows
  <2>3. ASSUME NEW k \in CrossableRows
        PROVE  \E e \in DOMAIN episodes : In(k, e) /\ \A f \in DOMAIN episodes : In(k, f) => f = e
    <3>1. PICK i \in 1 .. Many : Place(i) = k
      BY <2>2
    <3>2. PICK e \in 1 .. Runs : From(e) <= i /\ i <= To(e)
      BY <2>2
    <3>3. In(k, e)
      BY <2>1, <3>1, <3>2, InItsRun
    <3>4. ASSUME NEW f \in 1 .. Runs, In(k, f) PROVE f = e
      <4>1. From(f) <= i /\ i <= To(f)
        BY <2>1, <3>1, <3>4, InItsRun
      <4>2. (e < f => To(e) < From(f)) /\ (f < e => To(f) < From(e))
        BY <2>2
      <4>3. /\ From(e) \in 1 .. Many /\ To(e) \in 1 .. Many
            /\ From(f) \in 1 .. Many /\ To(f) \in 1 .. Many
        BY <2>2
      <4>4. Many \in Nat /\ Runs \in Nat
        BY <2>2
      <4> HIDE DEF From, To, Many, Runs
      <4>5. QED
        BY <3>2, <4>1, <4>2, <4>3, <4>4
    <3>5. QED
      BY <2>2, <3>3, <3>4
  <2>4. ASSUME NEW e \in DOMAIN episodes
        PROVE  LET members == {k \in CrossableRows : In(k, e)}
               IN  /\ episodes[e].observations = Cardinality(members)
                   /\ \A k \in members : rows[k].net <= episodes[e].peak
                   /\ \E k \in members : /\ rows[k].net = episodes[e].peak
                                         /\ rows[k].at = episodes[e].start + episodes[e].peakOffset
    <3> DEFINE members == {k \in CrossableRows : In(k, e)}
    <3>1. e \in 1 .. Runs
      BY <2>2
    <3>2. members = {Place(i) : i \in From(e) .. To(e)} /\ Cardinality(members) = To(e) - From(e) + 1
      BY <2>1, <3>1, MembersOfAnEpisode
    <3> HIDE DEF members
    <3>3. /\ episodes[e].start = rows[Place(From(e))].at
          /\ episodes[e].observations = To(e) - From(e) + 1
          /\ \A i \in From(e) .. To(e) : rows[Place(i)].net <= episodes[e].peak
      BY <2>1, <3>1, EpisodeOfTheRows
    <3>4. PICK i \in From(e) .. To(e) :
            /\ episodes[e].peak = rows[Place(i)].net
            /\ episodes[e].peakOffset = rows[Place(i)].at - rows[Place(From(e))].at
      BY <2>1, <3>1, EpisodeOfTheRows
    <3>5. rows[Place(i)].at = episodes[e].start + episodes[e].peakOffset
      <4>1. i \in 1 .. Many /\ From(e) \in 1 .. Many
        BY <2>2, <3>1
      <4>2. rows[Place(i)].at \in Int /\ rows[Place(From(e))].at \in Int
        BY <2>1, <4>1, RunsOfTheRows
      <4>3. QED
        BY <3>3, <3>4, <4>2
    <3>6. /\ episodes[e].observations = Cardinality(members)
          /\ \A k \in members : rows[k].net <= episodes[e].peak
          /\ \E k \in members : /\ rows[k].net = episodes[e].peak
                                /\ rows[k].at = episodes[e].start + episodes[e].peakOffset
      BY <3>2, <3>3, <3>4, <3>5
    <3>7. QED
      BY <3>6 DEF members
  <2>5. ASSUME NEW k \in CrossableRows, NEW l \in CrossableRows, Successive(k, l)
        PROVE  (\E e \in DOMAIN episodes : In(k, e) /\ In(l, e))
                  <=> 2 * (rows[l].at - rows[k].at) <= Gap2
    <3>1. PICK i \in 1 .. Many : i + 1 \in 1 .. Many /\ Place(i) = k /\ Place(i + 1) = l
      BY <2>1, <2>5, SuccessiveAreNeighbours
    <3>2. (\E e \in 1 .. Runs : From(e) <= i /\ i + 1 <= To(e))
            <=> 2 * (rows[l].at - rows[k].at) <= Gap2
      BY <2>1, <3>1, NeighboursShareARun
    <3>3. \A e \in 1 .. Runs : In(k, e) /\ In(l, e) <=> From(e) <= i /\ i + 1 <= To(e)
      <4> SUFFICES ASSUME NEW e \in 1 .. Runs
                   PROVE  In(k, e) /\ In(l, e) <=> From(e) <= i /\ i + 1 <= To(e)
        OBVIOUS
      <4>1. In(k, e) <=> From(e) <= i /\ i <= To(e)
        BY <2>1, <3>1, InItsRun
      <4>2. In(l, e) <=> From(e) <= i + 1 /\ i + 1 <= To(e)
        BY <2>1, <3>1, InItsRun
      <4>3. From(e) \in 1 .. Many /\ To(e) \in 1 .. Many
        BY <2>2
      <4>4. Many \in Nat
        BY <2>2
      <4>5. QED
        BY <4>1, <4>2, <4>3, <4>4
    <3>4. QED
      BY <2>2, <3>2, <3>3
  <2>6. QED
    BY <2>3, <2>4, <2>5
<1>2. QED
  BY <1>1, Invariant, PTL

\* An episode lasts from its first crossable row to its last, and the peak is
\* between them.
LEMMA PeakIsInside ==
    ASSUME RowsArePriced, Gap2 \in Int, episodes = EpisodesOf(rows, Gap2), NEW e \in 1 .. Runs
    PROVE  /\ Duration(episodes[e]) \in Nat
           /\ episodes[e].peakOffset \in 0 .. Duration(episodes[e])
           /\ episodes[e].peak \in Nat
<1>1. IsFeed(rows) /\ \A k \in Chosen(rows) : rows[k].net > 0
  BY DEF RowsArePriced, CrossableRows, Chosen
<1>2. e \in DOMAIN episodes
  BY <1>1, RunsOfTheRows
<1>3. IsCapture(episodes[e])
  BY <1>1, <1>2, EpisodesAreCaptures
<1>4. QED
  BY <1>3 DEF IsCapture

\* A discrepancy is called crossable without the latency caveat only when two
\* crossable observations, with no silence wider than the gap between them,
\* were further apart than the round trip.
THEOREM HeldLongEnough == Spec => []CrossableWasHeldLongEnough
<1>1. ASSUME IInv PROVE CrossableWasHeldLongEnough
  <2> SUFFICES ASSUME pc = "done", verdict = "crossable", episodes # <<>>
               PROVE  \E k, l \in CrossableRows :
                        /\ rows[l].at - rows[k].at > request.order.roundTrip
                        /\ \A m, n \in CrossableRows :
                              Successive(m, n) /\ k <= m /\ n <= l
                                => 2 * (rows[n].at - rows[m].at) <= Gap2
    BY DEF CrossableWasHeldLongEnough
  <2>1. /\ RowsArePriced /\ IsFeed(rows) /\ episodes = EpisodesOf(rows, Gap2)
        /\ Gap2 \in Int /\ request \in Request
    BY <1>1, GapOfTheRows, ComparisonConstants DEF IInv, FramesAgree, EpisodesAgree, RowsArePriced
  <2>2. PICK e \in DOMAIN episodes : CaptureStatus(episodes[e], request.order) = "capturable"
    BY <1>1 DEF IInv, EpisodesAgree
  <2>3. /\ Many \in Nat /\ e \in 1 .. Runs /\ From(e) \in 1 .. Many /\ To(e) \in 1 .. Many
        /\ \A i \in 1 .. Many : Place(i) \in CrossableRows /\ rows[Place(i)].at \in Int
        /\ \A i, j \in 1 .. Many : i < j => Place(i) < Place(j)
    BY <2>1, RunsOfTheRows
  <2>4. Duration(episodes[e]) = rows[Place(To(e))].at - rows[Place(From(e))].at
    BY <2>1, <2>3, EpisodeOfTheRows DEF Duration
  <2>5. Duration(episodes[e]) - request.order.roundTrip > 0
    <3>1. ~(Duration(episodes[e]) - request.order.roundTrip <= 0)
      BY <2>2 DEF CaptureStatus
    <3>2. Duration(episodes[e]) \in Int /\ request.order.roundTrip \in Int
      BY <2>1, <2>3, PeakIsInside DEF Request
    <3>3. QED
      BY <3>1, <3>2
  <2>6. rows[Place(To(e))].at - rows[Place(From(e))].at > request.order.roundTrip
    BY <2>1, <2>3, <2>4, <2>5 DEF Request
  <2>7. ASSUME NEW m \in CrossableRows, NEW n \in CrossableRows, Successive(m, n),
               Place(From(e)) <= m, n <= Place(To(e))
        PROVE  2 * (rows[n].at - rows[m].at) <= Gap2
    <3>1. PICK i \in 1 .. Many : i + 1 \in 1 .. Many /\ Place(i) = m /\ Place(i + 1) = n
      BY <2>1, <2>7, SuccessiveAreNeighbours
    <3>2. \A k \in CrossableRows : k \in Int
      BY <2>1, NumericDomain DEF CrossableRows, IsFeed
    <3>3. From(e) <= i
      <4>1. i < From(e) => m < Place(From(e))
        BY <2>3, <3>1
      <4>2. m \in Int /\ Place(From(e)) \in Int
        BY <2>3, <3>2
      <4>3. QED
        BY <2>3, <2>7, <4>1, <4>2
    <3>4. i + 1 <= To(e)
      <4>1. To(e) < i + 1 => Place(To(e)) < n
        BY <2>3, <3>1
      <4>2. n \in Int /\ Place(To(e)) \in Int
        BY <2>3, <3>2
      <4>3. QED
        BY <2>3, <2>7, <4>1, <4>2
    <3>5. QED
      BY <2>1, <2>3, <3>1, <3>3, <3>4, NeighboursShareARun
  <2>8. QED
    BY <2>3, <2>6, <2>7
<1>2. QED
  BY <1>1, Invariant, PTL

-----------------------------------------------------------------------------
(* The captured edge                                                       *)

\* The edge captured while the position is held is the area under the tent
\* divided by the time it is held, and it never exceeds the peak.
LEMMA CapturedIsTheMean ==
    ASSUME NEW p \in Nat, NEW d \in Nat, NEW o \in 0 .. d, NEW r \in Nat
    PROVE  LET rise == Larger(o, 1)
               fall == Larger(d - o, 1)
               height(t) == IF t <= o /\ o > 0 THEN p * t * fall ELSE p * (d - t) * rise
               area2 == IF r < o
                        THEN Trapezoid2(o - r, height(r), p * rise * fall)
                             + (IF o < d THEN Trapezoid2(d - o, p * rise * fall, 0) ELSE 0)
                        ELSE Trapezoid2(d - r, height(r), 0)
               captured == CapturedEdge(p, o, d, r)
           IN  /\ d > r => captured.num * 2 * rise * fall * (d - r) = captured.den * area2
               /\ captured.num <= p * captured.den
<1> DEFINE rise == Larger(o, 1)
           fall == Larger(d - o, 1)
           height(t) == IF t <= o /\ o > 0 THEN p * t * fall ELSE p * (d - t) * rise
           area2 == IF r < o
                    THEN Trapezoid2(o - r, height(r), p * rise * fall)
                         + (IF o < d THEN Trapezoid2(d - o, p * rise * fall, 0) ELSE 0)
                    ELSE Trapezoid2(d - r, height(r), 0)
           captured == CapturedEdge(p, o, d, r)
           rising == IF o > r THEN o * o - r * r ELSE 0
           falling == (d - Larger(r, o)) * (d - Larger(r, o))
<1>1. rise \in Nat \ {0} /\ fall \in Nat \ {0} /\ o \in Nat /\ o <= d
  BY DEF Larger
<1>2. CASE d <= r
  <2>1. captured.num = 0 /\ captured.den = 1
    BY <1>2 DEF CapturedEdge
  <2>2. QED
    BY <1>2, <2>1
<1>3. CASE d > r
  <2>1. /\ captured.num = p * (rising * fall + falling * rise)
        /\ captured.den = 2 * rise * fall * (d - r)
    BY <1>3 DEF CapturedEdge
  <2>2. area2 = p * (rising * fall + falling * rise)
    <3>1. CASE r < o
      <4>1. rise = o /\ rising = o * o - r * r /\ falling = (d - o) * (d - o)
        BY <1>1, <3>1 DEF Larger
      <4>2. height(r) = p * r * fall
        BY <1>1, <3>1
      <4>3. (IF o < d THEN Trapezoid2(d - o, p * rise * fall, 0) ELSE 0)
              = p * ((d - o) * (d - o) * o)
        <5>1. CASE o < d
          <6>1. fall = d - o
            BY <1>1, <5>1 DEF Larger
          <6>2. QED
            BY <1>1, <4>1, <5>1, <6>1 DEF Trapezoid2
        <5>2. CASE o = d
          BY <1>1, <5>2
        <5>3. QED
          BY <1>1, <5>1, <5>2
      <4>4. Trapezoid2(o - r, height(r), p * rise * fall)
              = (o - r) * (p * r * fall + p * o * fall)
        BY <4>1, <4>2 DEF Trapezoid2
      <4> HIDE DEF fall, rise, rising, falling, height
      <4>5. (o - r) * (p * r * fall + p * o * fall) = p * ((o * o - r * r) * fall)
        BY <1>1
      <4>6. area2 = p * ((o * o - r * r) * fall) + p * ((d - o) * (d - o) * o)
        BY <3>1, <4>3, <4>4, <4>5
      <4>7. QED
        BY <1>1, <4>1, <4>6
    <3>2. CASE r >= o
      <4>1. rising = 0 /\ falling = (d - r) * (d - r)
        BY <1>1, <3>2 DEF Larger
      <4>2. height(r) = p * (d - r) * rise
        <5>1. CASE r = o /\ o > 0
          <6>1. rise = o /\ fall = d - o
            BY <1>1, <1>3, <5>1 DEF Larger
          <6>2. height(r) = p * r * fall
            BY <5>1
          <6>3. QED
            BY <1>1, <5>1, <6>1, <6>2
        <5>2. CASE ~(r = o /\ o > 0)
          BY <1>1, <3>2, <5>2
        <5>3. QED
          BY <5>1, <5>2
      <4>3. area2 = (d - r) * (p * (d - r) * rise + 0)
        BY <1>1, <3>2, <4>2 DEF Trapezoid2
      <4> HIDE DEF fall, rise, rising, falling, height, area2
      <4>4. QED
        BY <1>1, <4>1, <4>3
    <3>3. QED
      BY <1>1, <3>1, <3>2
  <2>3. rising * fall + falling * rise <= 2 * rise * fall * (d - r)
    <3>1. CASE r < o
      <4>1. rise = o /\ rising = o * o - r * r /\ falling = (d - o) * (d - o)
        BY <1>1, <3>1 DEF Larger
      <4>2. falling * rise <= (2 * o * (d - o)) * fall
        <5>1. CASE o < d
          <6>1. fall = d - o
            BY <1>1, <5>1 DEF Larger
          <6>2. o * (d - o) \in Nat /\ o * (d - o) <= 2 * (o * (d - o))
            BY <1>1
          <6>3. (o * (d - o)) * (d - o) <= (2 * (o * (d - o))) * (d - o)
            BY <1>1, <5>1, <6>2, ProductsGrow
          <6>4. QED
            BY <1>1, <4>1, <6>1, <6>3
        <5>2. CASE o = d
          BY <1>1, <4>1, <5>2
        <5>3. QED
          BY <1>1, <5>1, <5>2
      <4>3. o * o - r * r <= (2 * o) * (o - r)
        <5>1. (o + r) * (o - r) <= (2 * o) * (o - r)
          BY <1>1, <3>1, ProductsGrow
        <5>2. (o + r) * (o - r) = o * o - r * r
          BY <1>1
        <5>3. QED
          BY <5>1, <5>2
      <4>4. (o * o - r * r) * fall <= ((2 * o) * (o - r)) * fall
        BY <1>1, <4>3, ProductsGrow
      <4> HIDE DEF fall, rise, rising, falling
      <4>5. ((2 * o) * (o - r)) * fall + (2 * o * (d - o)) * fall = 2 * o * fall * (d - r)
        BY <1>1
      <4>6. /\ rising * fall \in Int /\ falling * rise \in Int
            /\ ((2 * o) * (o - r)) * fall \in Int /\ (2 * o * (d - o)) * fall \in Int
        BY <1>1, <4>1
      <4>7. QED
        BY <4>1, <4>2, <4>4, <4>5, <4>6
    <3>2. CASE r >= o
      <4>1. rising = 0 /\ falling = (d - r) * (d - r)
        BY <1>1, <3>2 DEF Larger
      <4>2. d - r <= 2 * fall
        BY <1>1, <3>2 DEF Larger
      <4> HIDE DEF fall, rise, rising, falling
      <4>3. (d - r) * rise \in Nat
        BY <1>1, <1>3
      <4>4. (d - r) * ((d - r) * rise) <= (2 * fall) * ((d - r) * rise)
        BY <1>1, <1>3, <4>2, <4>3, ProductsGrow
      <4>5. QED
        BY <1>1, <4>1, <4>4
    <3>3. QED
      BY <1>1, <3>1, <3>2
  <2>4. rising \in Int /\ falling \in Int
    BY <1>1 DEF Larger
  <2> HIDE DEF rise, fall, rising, falling, area2, captured
  <2>5. p * (rising * fall + falling * rise) <= p * (2 * rise * fall * (d - r))
    <3>1. /\ rising * fall + falling * rise \in Int /\ 2 * rise * fall * (d - r) \in Int
      BY <1>1, <2>4
    <3>2. (rising * fall + falling * rise) * p <= (2 * rise * fall * (d - r)) * p
      BY <2>3, <3>1, ProductsGrow
    <3>3. QED
      BY <3>1, <3>2
  <2>6. captured.num * 2 * rise * fall * (d - r) = captured.den * area2
    BY <1>1, <2>1, <2>2, <2>4
  <2>7. QED
    BY <2>1, <2>5, <2>6 DEF rise, fall, area2, captured
<1>4. QED
  BY <1>1, <1>2, <1>3

\* The captured edge of every episode is the mean of its tent over the time the
\* position is held, and never exceeds the peak.
THEOREM TentMean == Spec => []CaptureIsTheMeanOfTheTent
<1>1. ASSUME IInv PROVE CaptureIsTheMeanOfTheTent
  <2>1. SUFFICES ASSUME pc = "done", NEW e \in DOMAIN episodes
                 PROVE  /\ Duration(episodes[e]) \in Nat
                        /\ episodes[e].peakOffset \in 0 .. Duration(episodes[e])
                        /\ episodes[e].peak \in Nat /\ request.order.roundTrip \in Nat
    BY CapturedIsTheMean DEF CaptureIsTheMeanOfTheTent
  <2>2. episodes # <<>>
    OBVIOUS
  <2>3. /\ RowsArePriced /\ IsFeed(rows) /\ episodes = EpisodesOf(rows, Gap2)
        /\ Gap2 \in Int /\ request \in Request
    BY <1>1, <2>1, <2>2, GapOfTheRows, ComparisonConstants
       DEF IInv, FramesAgree, EpisodesAgree, RowsArePriced
  <2>4. e \in 1 .. Runs
    BY <2>3, RunsOfTheRows
  <2>5. QED
    BY <2>3, <2>4, PeakIsInside DEF Request
<1>2. QED
  BY <1>1, Invariant, PTL

=============================================================================
