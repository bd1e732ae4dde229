---------------------------- MODULE EpisodesProofs ----------------------------
(***************************************************************************)
(* Lemmas about Episodes: the runs of crossable rows partition them, and   *)
(* an episode reports of its run what the run has.                         *)
(***************************************************************************)
EXTENDS Episodes, OrderedSetsProofs

\* Rows whose times and edges are numbers.
Numeric(run) ==
    /\ \E R : run \in Seq(R)
    /\ \A k \in DOMAIN run : run[k].at \in Int /\ run[k].net \in Int

\* Such rows, each later than the one before.
IsFeed(feed) ==
    /\ Numeric(feed)
    /\ \A k, l \in DOMAIN feed : k < l => feed[k].at < feed[l].at

\* The positions of rows.
LEMMA NumericDomain ==
    ASSUME NEW run, Numeric(run)
    PROVE  /\ Len(run) \in Nat /\ DOMAIN run = 1 .. Len(run)
           /\ \A k \in 1 .. Len(run) : run[k].at \in Int /\ run[k].net \in Int
<1>1. Len(run) \in Nat /\ DOMAIN run = 1 .. Len(run)
  BY LenProperties DEF Numeric
<1>2. QED
  BY <1>1 DEF Numeric

\* The median of a feed's spacings is a number, and so is the gap.
LEMMA GapIsANumber ==
    ASSUME NEW feed, Numeric(feed), NEW configured \in Nat \cup {Cadence}, NEW tolerance \in Nat
    PROVE  ResolvedGap2(feed, configured, tolerance) \in Int
<1>1. CASE configured # Cadence
  BY <1>1 DEF ResolvedGap2
<1>2. CASE configured = Cadence /\ Len(feed) < 3
  BY <1>2, EpisodeConstants DEF ResolvedGap2
<1>3. CASE configured = Cadence /\ ~(Len(feed) < 3)
  <2> DEFINE s == Spacings(feed)
             n == Len(s)
  <2>1. Len(feed) \in Nat /\ \A k \in 1 .. Len(feed) : feed[k].at \in Int
    BY NumericDomain
  <2>2. s \in Seq(Int) /\ n = Len(feed) - 1
    <3>1. s \in [1 .. (Len(feed) - 1) -> Int]
      BY <2>1 DEF Spacings
    <3>2. Len(feed) - 1 \in Nat
      BY <1>3, <2>1
    <3>3. QED
      BY <3>1, <3>2
  <2> HIDE DEF s
  <2>3. n \in Nat /\ (n + 1) \div 2 \in 1 .. n /\ n \div 2 + 1 \in 1 .. n
    BY <1>3, <2>1, <2>2
  <2>4. Median2(s) \in Int
    <3>1. Ranked(s, (n + 1) \div 2) \in Int /\ Ranked(s, n \div 2 + 1) \in Int
      BY <2>2, <2>3, RankedIsOne
    <3>2. QED
      BY <3>1 DEF Median2
  <2>5. QED
    BY <1>3, <2>4, EpisodeConstants DEF ResolvedGap2, Larger, s
<1>4. QED
  BY <1>1, <1>2, <1>3

\* Where the e-th run of crossable rows begins and ends.
FirstOf(positive, gap2, e) == Ascending(Starts(positive, gap2))[e]
LastOf(positive, gap2, e) ==
    IF e = Len(Ascending(Starts(positive, gap2))) THEN Len(positive)
    ELSE Ascending(Starts(positive, gap2))[e + 1] - 1

\* The runs cover the crossable rows, do not overlap, and a row inside a run
\* is none's start.
LEMMA RunsPartition ==
    ASSUME NEW positive, Numeric(positive), NEW gap2
    PROVE  LET n == Len(positive)
               runs == Len(Ascending(Starts(positive, gap2)))
               S(e) == FirstOf(positive, gap2, e)
               L(e) == LastOf(positive, gap2, e)
           IN  /\ n \in Nat /\ runs \in Nat
               /\ \A e \in 1 .. runs : S(e) \in 1 .. n /\ L(e) \in 1 .. n /\ S(e) <= L(e)
               /\ \A e \in 1 .. runs : S(e) \in Starts(positive, gap2)
               /\ \A e, f \in 1 .. runs : e < f => L(e) < S(f)
               /\ \A i \in 1 .. n : \E e \in 1 .. runs : S(e) <= i /\ i <= L(e)
               /\ \A e \in 1 .. runs, i \in 1 .. n :
                     S(e) < i /\ i <= L(e) => i \notin Starts(positive, gap2)
<1> DEFINE n == Len(positive)
           T == Starts(positive, gap2)
           A == Ascending(T)
           runs == Len(A)
           S(e) == FirstOf(positive, gap2, e)
           L(e) == LastOf(positive, gap2, e)
<1>1. n \in Nat /\ DOMAIN positive = 1 .. n
  BY NumericDomain
<1>2. T \subseteq 1 .. n /\ (n >= 1 => 1 \in T)
  BY <1>1 DEF Starts
<1> HIDE DEF T
<1>3. IsFiniteSet(T) /\ T \in SUBSET Int
  <2>1. IsFiniteSet(1 .. n)
    BY <1>1, FS_Interval
  <2>2. IsFiniteSet(T)
    BY <1>2, <2>1, FS_Subset
  <2>3. QED
    BY <1>2, <2>2
<1>4. /\ A \in Seq(T)
      /\ \A x \in T : \E k \in 1 .. runs : A[k] = x
      /\ \A k, l \in 1 .. runs : k < l => A[k] < A[l]
  BY <1>3, AscendingLists
<1> HIDE DEF A
<1>5. runs \in Nat /\ DOMAIN A = 1 .. runs /\ \A k \in 1 .. runs : A[k] \in T
  BY <1>4, LenProperties, ElementOfSeq
<1>6. \A e \in 1 .. runs : S(e) = A[e] /\ L(e) = IF e = runs THEN n ELSE A[e + 1] - 1
  BY DEF FirstOf, LastOf, A, T
<1> HIDE DEF runs, S, L, n
<1>7. \A e \in 1 .. runs : A[e] \in 1 .. n
  BY <1>2, <1>5
<1>8. \A e \in 1 .. runs : e # runs => e + 1 \in 1 .. runs /\ A[e] < A[e + 1]
  BY <1>4, <1>5
<1>9. ASSUME NEW e \in 1 .. runs
      PROVE  S(e) \in 1 .. n /\ L(e) \in 1 .. n /\ S(e) <= L(e) /\ S(e) \in T
  <2>1. CASE e = runs
    BY <1>1, <1>5, <1>6, <1>7, <2>1
  <2>2. CASE e # runs
    BY <1>1, <1>5, <1>6, <1>7, <1>8, <2>2
  <2>3. QED
    BY <2>1, <2>2
<1>10. ASSUME NEW e \in 1 .. runs, NEW f \in 1 .. runs, e < f PROVE L(e) < S(f)
  <2>1. e # runs /\ e + 1 \in 1 .. runs /\ e + 1 <= f
    BY <1>5, <1>10
  <2>2. A[e + 1] <= A[f]
    <3>1. CASE e + 1 = f
      BY <1>7, <3>1
    <3>2. CASE e + 1 < f
      BY <1>4, <1>7, <2>1, <3>2
    <3>3. QED
      BY <1>5, <2>1, <3>1, <3>2
  <2>3. QED
    BY <1>6, <1>7, <2>1, <2>2
<1>11. ASSUME NEW i \in 1 .. n PROVE \E e \in 1 .. runs : S(e) <= i /\ i <= L(e)
  <2> DEFINE K == {k \in 1 .. runs : A[k] <= i}
  <2>1. K # {}
    <3>1. PICK k \in 1 .. runs : A[k] = 1
      BY <1>1, <1>2, <1>4
    <3>2. QED
      BY <1>1, <3>1
  <2>2. IsFiniteSet(K) /\ K \in SUBSET Int
    <3>1. IsFiniteSet(1 .. runs) /\ K \in SUBSET (1 .. runs)
      BY <1>5, FS_Interval
    <3>2. IsFiniteSet(K)
      BY <3>1, FS_Subset
    <3>3. QED
      BY <1>5, <3>2
  <2> HIDE DEF K
  <2>3. PICK e \in K : \A k \in K : e >= k
    BY <2>1, <2>2, LeastAndGreatest
  <2>4. e \in 1 .. runs /\ A[e] <= i
    BY <2>3 DEF K
  <2>5. CASE e = runs
    BY <1>1, <1>6, <2>4, <2>5
  <2>6. CASE e # runs
    <3>1. e + 1 \in 1 .. runs /\ e + 1 \notin K
      BY <1>5, <1>8, <2>3, <2>4, <2>6
    <3>2. i < A[e + 1]
      BY <1>1, <1>7, <3>1 DEF K
    <3>3. QED
      BY <1>1, <1>6, <1>7, <2>4, <2>6, <3>1, <3>2
  <2>7. QED
    BY <2>5, <2>6
<1>12. ASSUME NEW e \in 1 .. runs, NEW i \in 1 .. n, S(e) < i, i <= L(e) PROVE i \notin T
  <2>1. SUFFICES ASSUME i \in T PROVE FALSE
    OBVIOUS
  <2>2. PICK f \in 1 .. runs : A[f] = i
    BY <1>4, <2>1
  <2>3. S(f) = i /\ S(f) \in Int /\ S(e) \in Int /\ L(e) \in Int /\ L(f) \in Int /\ S(f) <= L(f)
    BY <1>6, <1>9, <2>2
  <2>4. e < f => L(e) < S(f)
    BY <1>10
  <2>5. f < e => L(f) < S(e)
    BY <1>10
  <2>6. e = f => S(e) = i
    BY <2>3
  <2>7. e \in Int /\ f \in Int
    BY <1>5
  <2>8. QED
    BY <1>12, <2>3, <2>4, <2>5, <2>6, <2>7
<1>13. /\ n \in Nat /\ runs \in Nat
       /\ \A e \in 1 .. runs : S(e) \in 1 .. n /\ L(e) \in 1 .. n /\ S(e) <= L(e)
       /\ \A e \in 1 .. runs : S(e) \in T
       /\ \A e, f \in 1 .. runs : e < f => L(e) < S(f)
       /\ \A i \in 1 .. n : \E e \in 1 .. runs : S(e) <= i /\ i <= L(e)
       /\ \A e \in 1 .. runs, i \in 1 .. n : S(e) < i /\ i <= L(e) => i \notin T
  BY <1>1, <1>5, <1>9, <1>10, <1>11, <1>12
<1>14. QED
  BY <1>13 DEF n, runs, A, T, S, L

\* The peak of a run is the row with the largest edge.
LEMMA PeakIsLargest ==
    ASSUME NEW run, Numeric(run), run # <<>>
    PROVE  \E k \in 1 .. Len(run) :
              PeakOf(run) = run[k] /\ \A l \in 1 .. Len(run) : run[l].net <= run[k].net
<1> DEFINE n == Len(run)
           best == {k \in 1 .. n : \A l \in 1 .. n : run[l].net <= run[k].net}
           nets == [k \in 1 .. n |-> run[k].net]
<1>1. n \in Nat \ {0} /\ DOMAIN run = 1 .. n /\ \A k \in 1 .. n : run[k].net \in Int
  <2>1. n \in Nat \ {0}
    BY LenProperties, EmptySeq DEF Numeric
  <2>2. QED
    BY <2>1, NumericDomain
<1> HIDE DEF n
<1>2. best # {}
  <2>1. nets \in Seq(Int) /\ DOMAIN nets = 1 .. n /\ \A k \in 1 .. n : nets[k] = run[k].net
    BY <1>1
  <2> HIDE DEF nets
  <2>2. 1 \in 1 .. n
    BY <1>1
  <2>3. IsFiniteSet(Range(nets)) /\ Range(nets) \in SUBSET Int /\ Range(nets) # {}
    <3>1. Range(nets) # {}
      BY <2>1, <2>2 DEF Range
    <3>2. QED
      BY <2>1, <3>1, RangeIsFinite
  <2>4. PICK x \in Range(nets) : \A y \in Range(nets) : x >= y
    BY <2>3, LeastAndGreatest
  <2>5. PICK k \in 1 .. n : nets[k] = x
    BY <2>1, <2>4 DEF Range
  <2>6. \A l \in 1 .. n : nets[l] \in Range(nets)
    BY <2>1 DEF Range
  <2>7. QED
    BY <1>1, <2>1, <2>4, <2>5, <2>6
<1>3. PICK k \in best : \A l \in best : k <= l
  <2>1. best \in SUBSET Nat
    BY <1>1
  <2>2. QED
    BY <1>2, <2>1, LeastNat
<1>4. k \in 1 .. n /\ \A l \in 1 .. n : run[l].net <= run[k].net
  BY <1>3
<1>5. ASSUME NEW l \in 1 .. (k - 1) PROVE run[l].net < run[k].net
  <2>1. l \in 1 .. n /\ l < k
    BY <1>1, <1>4
  <2>2. l \notin best
    BY <1>1, <1>3, <1>4, <2>1
  <2>3. PICK m \in 1 .. n : ~(run[m].net <= run[l].net)
    BY <2>1, <2>2
  <2>4. QED
    BY <1>1, <1>4, <2>1, <2>3
<1> DEFINE p == CHOOSE i \in DOMAIN run :
                  /\ \A l \in DOMAIN run : run[l].net <= run[i].net
                  /\ \A l \in 1 .. (i - 1) : run[l].net < run[i].net
<1>6. p \in 1 .. n /\ \A l \in 1 .. n : run[l].net <= run[p].net
  <2>1. \E i \in DOMAIN run :
          /\ \A l \in DOMAIN run : run[l].net <= run[i].net
          /\ \A l \in 1 .. (i - 1) : run[l].net < run[i].net
    BY <1>1, <1>4, <1>5
  <2>2. QED
    BY <1>1, <2>1
<1>7. PeakOf(run) = run[p]
  BY DEF PeakOf
<1> HIDE DEF p
<1>8. QED
  BY <1>6, <1>7 DEF n

\* What an episode reports of its run.
LEMMA EpisodeOfRun ==
    ASSUME NEW positive, Numeric(positive), NEW s \in 1 .. Len(positive), NEW l \in s .. Len(positive)
    PROVE  LET episode == EpisodeOf(SubSeq(positive, s, l))
           IN  /\ episode.start = positive[s].at /\ episode.end = positive[l].at
               /\ episode.observations = l - s + 1
               /\ \E i \in s .. l : /\ episode.peak = positive[i].net
                                    /\ episode.peakOffset = positive[i].at - positive[s].at
               /\ \A i \in s .. l : positive[i].net <= episode.peak
<1> DEFINE run == SubSeq(positive, s, l)
<1>0. PICK R : positive \in Seq(R)
  BY DEF Numeric
<1>1. /\ Len(positive) \in Nat
      /\ \A i \in 1 .. Len(positive) : /\ positive[i] \in R
                                       /\ positive[i].at \in Int /\ positive[i].net \in Int
  BY <1>0, NumericDomain, ElementOfSeq
<1>2. s \in Int /\ l \in Int /\ s <= l /\ \A i \in s .. l : i \in 1 .. Len(positive)
  BY <1>1
<1>3. /\ run \in Seq(R) /\ Len(run) = l - s + 1
      /\ \A i \in 1 .. l - s + 1 : run[i] = positive[s + i - 1]
  <2>1. \A i \in s .. l : positive[i] \in R
    BY <1>1, <1>2
  <2>2. QED
    BY <1>2, <2>1, SubSeqProperties
<1> HIDE DEF run
<1>4. run # <<>> /\ Numeric(run)
  <2>1. run # <<>>
    BY <1>2, <1>3
  <2>2. DOMAIN run = 1 .. l - s + 1
    BY <1>3, LenProperties
  <2>3. \A i \in 1 .. l - s + 1 : s + i - 1 \in 1 .. Len(positive)
    BY <1>1, <1>2
  <2>4. QED
    BY <1>1, <1>3, <2>1, <2>2, <2>3 DEF Numeric
<1>5. PICK k \in 1 .. Len(run) :
        PeakOf(run) = run[k] /\ \A i \in 1 .. Len(run) : run[i].net <= run[k].net
  BY <1>3, <1>4, PeakIsLargest
<1>6. run[1] = positive[s] /\ run[Len(run)] = positive[l]
  BY <1>2, <1>3
<1>7. EpisodeOf(run) =
        [direction |-> run[k].direction, start |-> positive[s].at, end |-> positive[l].at,
         peakOffset |-> run[k].at - positive[s].at, observations |-> l - s + 1,
         peak |-> run[k].net]
  BY <1>3, <1>5, <1>6 DEF EpisodeOf
<1>8. s + k - 1 \in s .. l /\ run[k] = positive[s + k - 1]
  BY <1>2, <1>3, <1>5
<1>9. ASSUME NEW i \in s .. l PROVE positive[i].net <= run[k].net
  <2>1. i - s + 1 \in 1 .. Len(run) /\ run[i - s + 1] = positive[i]
    <3>1. i - s + 1 \in 1 .. l - s + 1 /\ s + (i - s + 1) - 1 = i
      BY <1>2
    <3>2. QED
      BY <1>3, <3>1
  <2>2. QED
    BY <1>5, <2>1
<1>10. QED
  BY <1>7, <1>8, <1>9 DEF run

Chosen(feed) == {k \in DOMAIN feed : feed[k].crossable}

\* The crossable rows of a feed, in order and strictly later each.
LEMMA CrossableLists ==
    ASSUME NEW feed, IsFeed(feed)
    PROVE  LET positive == Crossable(feed)
               index == Ascending(Chosen(feed))
               n == Len(positive)
           IN  /\ Numeric(positive) /\ n \in Nat /\ n = Cardinality(Chosen(feed))
               /\ \A i \in 1 .. n : index[i] \in Chosen(feed) /\ positive[i] = feed[index[i]]
               /\ \A k \in Chosen(feed) : \E i \in 1 .. n : index[i] = k
               /\ \A i, j \in 1 .. n : i < j =>
                     index[i] < index[j] /\ positive[i].at < positive[j].at
               /\ \A i \in 1 .. n : positive[i].at \in Int /\ positive[i].net \in Int
<1> DEFINE index == Ascending(Chosen(feed))
           n == Len(index)
           positive == Crossable(feed)
<1>1. DOMAIN feed = 1 .. Len(feed) /\ Chosen(feed) \in SUBSET (1 .. Len(feed))
  BY NumericDomain DEF IsFeed, Chosen
<1>2. PICK R : feed \in Seq(R)
  BY DEF IsFeed, Numeric
<1>3. positive = RowsAt(feed, Chosen(feed))
  BY DEF Crossable, Chosen
<1>4. /\ positive \in Seq(R) /\ Len(positive) = n /\ n \in Nat /\ n = Cardinality(Chosen(feed))
      /\ \A i \in 1 .. n : index[i] \in Chosen(feed) /\ positive[i] = feed[index[i]]
      /\ \A k \in Chosen(feed) : \E i \in 1 .. n : index[i] = k
      /\ \A i, j \in 1 .. n : i < j => index[i] < index[j]
  BY <1>1, <1>2, <1>3, RowsAtSelects
<1> HIDE DEF index, positive, n
<1>5. \A i, j \in 1 .. n : i < j => positive[i].at < positive[j].at
  <2>1. \A k \in Chosen(feed) : k \in DOMAIN feed
    BY DEF Chosen
  <2>2. QED
    BY <1>4, <2>1 DEF IsFeed
<1>6. \A i \in 1 .. n : positive[i].at \in Int /\ positive[i].net \in Int
  BY <1>4 DEF Chosen, IsFeed, Numeric
<1>7. Numeric(positive)
  <2>1. DOMAIN positive = 1 .. n
    BY <1>4, LenProperties
  <2>2. QED
    BY <1>4, <1>6, <2>1 DEF Numeric
<1>8. QED
  BY <1>4, <1>5, <1>6, <1>7 DEF positive, index

\* The episodes of a feed, one for each run of its crossable rows.
LEMMA EpisodesAreRuns ==
    ASSUME NEW feed, IsFeed(feed), NEW gap2
    PROVE  LET positive == Crossable(feed)
               runs == Len(Ascending(Starts(positive, gap2)))
               S(e) == FirstOf(positive, gap2, e)
               L(e) == LastOf(positive, gap2, e)
               found == EpisodesOf(feed, gap2)
           IN  /\ DOMAIN found = 1 .. runs
               /\ \A e \in 1 .. runs :
                     /\ found[e].start = positive[S(e)].at /\ found[e].end = positive[L(e)].at
                     /\ found[e].observations = L(e) - S(e) + 1
                     /\ \E i \in S(e) .. L(e) :
                           /\ found[e].peak = positive[i].net
                           /\ found[e].peakOffset = positive[i].at - positive[S(e)].at
                     /\ \A i \in S(e) .. L(e) : positive[i].net <= found[e].peak
<1> DEFINE positive == Crossable(feed)
           T == Starts(positive, gap2)
           A == Ascending(T)
           runs == Len(A)
           S(e) == FirstOf(positive, gap2, e)
           L(e) == LastOf(positive, gap2, e)
           found == EpisodesOf(feed, gap2)
<1>1. Numeric(positive)
  BY CrossableLists
<1> HIDE DEF positive
<1>2. /\ Len(positive) \in Nat /\ runs \in Nat
      /\ \A e \in 1 .. runs : S(e) \in 1 .. Len(positive) /\ L(e) \in 1 .. Len(positive)
                              /\ S(e) <= L(e)
  BY <1>1, RunsPartition
<1>3. DOMAIN A = 1 .. runs
  <2>1. DOMAIN positive = 1 .. Len(positive)
    BY <1>1, NumericDomain
  <2>2. T \in SUBSET (1 .. Len(positive)) /\ IsFiniteSet(1 .. Len(positive))
    BY <1>2, <2>1, FS_Interval DEF Starts
  <2> HIDE DEF T
  <2>3. IsFiniteSet(T) /\ T \in SUBSET Int
    <3>1. IsFiniteSet(T)
      BY <2>2, FS_Subset
    <3>2. QED
      BY <2>2, <3>1
  <2>4. A \in Seq(T)
    BY <2>3, AscendingLists
  <2> HIDE DEF A
  <2>5. QED
    BY <2>4, LenProperties
<1>4. found = [e \in 1 .. runs |-> EpisodeOf(SubSeq(positive, S(e), L(e)))]
  <2>1. found = [e \in DOMAIN A |-> EpisodeOf(SubSeq(positive, A[e],
                    IF e = Len(A) THEN Len(positive) ELSE A[e + 1] - 1))]
    BY DEF EpisodesOf, positive
  <2>2. QED
    BY <1>3, <2>1 DEF FirstOf, LastOf
<1> HIDE DEF found, S, L, runs
<1>5. ASSUME NEW e \in 1 .. runs
      PROVE  /\ found[e].start = positive[S(e)].at /\ found[e].end = positive[L(e)].at
             /\ found[e].observations = L(e) - S(e) + 1
             /\ \E i \in S(e) .. L(e) :
                   /\ found[e].peak = positive[i].net
                   /\ found[e].peakOffset = positive[i].at - positive[S(e)].at
             /\ \A i \in S(e) .. L(e) : positive[i].net <= found[e].peak
  <2>1. S(e) \in 1 .. Len(positive) /\ L(e) \in S(e) .. Len(positive)
    BY <1>2
  <2>2. found[e] = EpisodeOf(SubSeq(positive, S(e), L(e)))
    BY <1>4
  <2>3. PICK s \in 1 .. Len(positive) : s = S(e)
    BY <2>1
  <2>4. PICK l \in s .. Len(positive) : l = L(e)
    BY <2>1, <2>3
  <2>5. LET episode == EpisodeOf(SubSeq(positive, s, l))
        IN  /\ episode.start = positive[s].at /\ episode.end = positive[l].at
            /\ episode.observations = l - s + 1
            /\ \E i \in s .. l : /\ episode.peak = positive[i].net
                                 /\ episode.peakOffset = positive[i].at - positive[s].at
            /\ \A i \in s .. l : positive[i].net <= episode.peak
    BY <1>1, EpisodeOfRun
  <2>6. QED
    BY <2>2, <2>3, <2>4, <2>5
<1>6. DOMAIN found = 1 .. runs
  BY <1>4
<1>7. QED
  BY <1>5, <1>6 DEF found, S, L, runs, A, T, positive

\* The episodes are a sequence.
LEMMA EpisodesAreASequence ==
    ASSUME NEW feed, IsFeed(feed), NEW gap2
    PROVE  LET found == EpisodesOf(feed, gap2)
           IN  /\ Len(found) \in Nat /\ DOMAIN found = 1 .. Len(found)
               /\ found = [e \in DOMAIN found |-> found[e]]
<1> DEFINE positive == Crossable(feed)
           starts == Ascending(Starts(positive, gap2))
           runs == Len(starts)
           found == EpisodesOf(feed, gap2)
           last(e) == IF e = Len(starts) THEN Len(positive) ELSE starts[e + 1] - 1
<1>1. DOMAIN found = 1 .. runs
  BY EpisodesAreRuns
<1>2. runs \in Nat
  BY CrossableLists, RunsPartition
<1>3. found = [e \in DOMAIN starts |-> EpisodeOf(SubSeq(positive, starts[e], last(e)))]
  BY DEF EpisodesOf
<1>4. found = [e \in DOMAIN found |-> found[e]]
  BY <1>3
<1> HIDE DEF found, runs
<1>5. found \in Seq({found[e] : e \in 1 .. runs})
  BY <1>1, <1>2, <1>4
<1>6. Len(found) \in Nat /\ DOMAIN found = 1 .. Len(found)
  BY <1>5, LenProperties
<1>7. QED
  BY <1>4, <1>6 DEF found

\* What a report of captures keeps of an episode: numbers, an edge, and a peak
\* that lies inside it.
IsCapture(c) ==
    /\ c.start \in Int /\ c.end \in Int /\ c.peak \in Nat \ {0}
    /\ Duration(c) \in Nat /\ c.peakOffset \in 0 .. Duration(c)

\* The episodes of a feed whose crossable rows have an edge are such.
LEMMA EpisodesAreCaptures ==
    ASSUME NEW feed, IsFeed(feed), \A k \in Chosen(feed) : feed[k].net > 0, NEW gap2
    PROVE  \A e \in DOMAIN EpisodesOf(feed, gap2) : IsCapture(EpisodesOf(feed, gap2)[e])
<1> DEFINE positive == Crossable(feed)
           n == Len(positive)
           runs == Len(Ascending(Starts(positive, gap2)))
           found == EpisodesOf(feed, gap2)
<1>1. /\ Numeric(positive) /\ n \in Nat
      /\ \A i \in 1 .. n : positive[i].at \in Int /\ positive[i].net \in Int /\ positive[i].net > 0
      /\ \A i, j \in 1 .. n : i < j => positive[i].at < positive[j].at
  BY CrossableLists
<1>2. /\ DOMAIN found = 1 .. runs
      /\ \A e \in 1 .. runs :
            LET s == FirstOf(positive, gap2, e)
                l == LastOf(positive, gap2, e)
            IN  /\ found[e].start = positive[s].at /\ found[e].end = positive[l].at
                /\ \E i \in s .. l : /\ found[e].peak = positive[i].net
                                     /\ found[e].peakOffset = positive[i].at - positive[s].at
  BY EpisodesAreRuns
<1> HIDE DEF positive, found
<1>3. \A e \in 1 .. runs : /\ FirstOf(positive, gap2, e) \in 1 .. n
                           /\ LastOf(positive, gap2, e) \in 1 .. n
  BY <1>1, RunsPartition
<1> HIDE DEF n, runs
<1>4. ASSUME NEW e \in 1 .. runs PROVE IsCapture(found[e])
  <2>1. PICK s \in 1 .. n, l \in 1 .. n :
          /\ found[e].start = positive[s].at /\ found[e].end = positive[l].at
          /\ \E i \in s .. l : /\ found[e].peak = positive[i].net
                               /\ found[e].peakOffset = positive[i].at - positive[s].at
    BY <1>2, <1>3
  <2>2. PICK i \in s .. l : /\ found[e].peak = positive[i].net
                            /\ found[e].peakOffset = positive[i].at - positive[s].at
    BY <2>1
  <2>3. i \in 1 .. n /\ s <= i /\ i <= l
    BY <1>1
  <2> DEFINE a == positive[s].at
             b == positive[i].at
             c == positive[l].at
  <2>4. a \in Int /\ b \in Int /\ c \in Int
    BY <1>1, <2>3
  <2>5. (s < i => a < b) /\ (s = i => a = b) /\ (i < l => b < c) /\ (i = l => b = c)
    BY <1>1, <2>3
  <2>6. found[e].start = a /\ found[e].end = c /\ found[e].peakOffset = b - a
    BY <2>1, <2>2
  <2> HIDE DEF a, b, c
  <2>7. a <= b /\ b <= c
    BY <1>1, <2>3, <2>4, <2>5
  <2>8. found[e].peak \in Nat \ {0}
    BY <1>1, <2>2, <2>3
  <2>9. QED
    BY <2>4, <2>6, <2>7, <2>8 DEF IsCapture, Duration
<1>5. QED
  BY <1>2, <1>4 DEF found

\* A peak is the edge of a crossable row, and no crossable row has a larger one
\* than the peak of its episode.
LEMMA PeaksAreNets ==
    ASSUME NEW feed, IsFeed(feed), NEW gap2
    PROVE  LET found == EpisodesOf(feed, gap2)
           IN  /\ \A e \in DOMAIN found : \E k \in Chosen(feed) : found[e].peak = feed[k].net
               /\ \A k \in Chosen(feed) : \E e \in DOMAIN found : feed[k].net <= found[e].peak
<1> DEFINE positive == Crossable(feed)
           index == Ascending(Chosen(feed))
           n == Len(positive)
           runs == Len(Ascending(Starts(positive, gap2)))
           found == EpisodesOf(feed, gap2)
           S(e) == FirstOf(positive, gap2, e)
           L(e) == LastOf(positive, gap2, e)
<1>1. /\ Numeric(positive) /\ n \in Nat
      /\ \A i \in 1 .. n : index[i] \in Chosen(feed) /\ positive[i] = feed[index[i]]
      /\ \A k \in Chosen(feed) : \E i \in 1 .. n : index[i] = k
  BY CrossableLists
<1>2. /\ DOMAIN found = 1 .. runs
      /\ \A e \in 1 .. runs : /\ \E i \in S(e) .. L(e) : found[e].peak = positive[i].net
                              /\ \A i \in S(e) .. L(e) : positive[i].net <= found[e].peak
  BY EpisodesAreRuns
<1> HIDE DEF positive, index, found
<1>3. /\ \A e \in 1 .. runs : S(e) \in 1 .. n /\ L(e) \in 1 .. n
      /\ \A i \in 1 .. n : \E e \in 1 .. runs : S(e) <= i /\ i <= L(e)
  BY <1>1, RunsPartition
<1> HIDE DEF n, runs, S, L
<1>4. ASSUME NEW e \in 1 .. runs PROVE \E k \in Chosen(feed) : found[e].peak = feed[k].net
  <2>1. PICK i \in S(e) .. L(e) : found[e].peak = positive[i].net
    BY <1>2
  <2>2. i \in 1 .. n
    BY <1>1, <1>3
  <2>3. QED
    BY <1>1, <2>1, <2>2
<1>5. ASSUME NEW k \in Chosen(feed) PROVE \E e \in 1 .. runs : feed[k].net <= found[e].peak
  <2>1. PICK i \in 1 .. n : index[i] = k
    BY <1>1
  <2>2. PICK e \in 1 .. runs : S(e) <= i /\ i <= L(e)
    BY <1>3
  <2>3. i \in S(e) .. L(e)
    BY <1>1, <1>3, <2>2
  <2>4. positive[i].net <= found[e].peak
    BY <1>2, <2>3
  <2>5. QED
    BY <1>1, <2>1, <2>4
<1>6. QED
  BY <1>2, <1>4, <1>5 DEF found

\* The observations of the episodes are, together, the crossable rows.
LEMMA ObservationsAddUp ==
    ASSUME NEW feed, IsFeed(feed), NEW gap2, NEW total,
           Adds(total, [e \in DOMAIN EpisodesOf(feed, gap2) |-> EpisodesOf(feed, gap2)[e].observations],
                DOMAIN EpisodesOf(feed, gap2))
    PROVE  total[DOMAIN EpisodesOf(feed, gap2)] = Cardinality(Chosen(feed))
<1> DEFINE positive == Crossable(feed)
           n == Len(positive)
           A == Ascending(Starts(positive, gap2))
           runs == Len(A)
           found == EpisodesOf(feed, gap2)
           S(e) == FirstOf(positive, gap2, e)
           L(e) == LastOf(positive, gap2, e)
           w == [e \in DOMAIN found |-> found[e].observations]
<1>1. Numeric(positive) /\ n \in Nat /\ n = Cardinality(Chosen(feed))
  BY CrossableLists
<1>2. DOMAIN found = 1 .. runs /\ \A e \in 1 .. runs : found[e].observations = L(e) - S(e) + 1
  BY EpisodesAreRuns
<1>3. Adds(total, w, 1 .. runs)
  BY <1>2
<1>4. \A e \in 1 .. runs : w[e] = L(e) - S(e) + 1
  BY <1>2
<1> HIDE DEF positive, found, w
<1>5. /\ runs \in Nat
      /\ \A e \in 1 .. runs : S(e) \in 1 .. n /\ L(e) \in 1 .. n /\ S(e) <= L(e)
      /\ \A e, f \in 1 .. runs : e < f => L(e) < S(f)
      /\ \A i \in 1 .. n : \E e \in 1 .. runs : S(e) <= i /\ i <= L(e)
  BY <1>1, RunsPartition
<1>6. \A e \in 1 .. runs : e # runs => L(e) = S(e + 1) - 1
  BY DEF FirstOf, LastOf
<1>7. runs \in 1 .. runs => L(runs) = n
  BY DEF LastOf
<1> HIDE DEF n, runs, S, L
<1>8. runs >= 1 => S(1) = 1
  <2> SUFFICES ASSUME runs >= 1 PROVE S(1) = 1
    OBVIOUS
  <2>1. 1 \in 1 .. runs /\ S(1) \in 1 .. n /\ L(1) \in 1 .. n /\ S(1) <= L(1)
    BY <1>5
  <2>2. 1 \in 1 .. n
    BY <1>1, <2>1
  <2>3. PICK e \in 1 .. runs : S(e) <= 1 /\ 1 <= L(e)
    BY <1>5, <2>2
  <2>4. 1 < e => L(1) < S(e)
    BY <1>5, <2>1
  <2>5. S(e) \in 1 .. n
    BY <1>5
  <2>6. e = 1
    BY <1>1, <1>5, <2>1, <2>3, <2>4, <2>5
  <2>7. QED
    BY <2>3, <2>5, <2>6
<1> DEFINE T == {k \in Nat : k <= runs => total[1 .. k] = IF k = 0 THEN 0 ELSE L(k)}
<1>9. 0 \in T
  <2>1. 1 .. 0 = {}
    OBVIOUS
  <2>2. QED
    BY <1>3, <2>1 DEF Adds
<1>10. ASSUME NEW k \in Nat, k \in T PROVE k + 1 \in T
  <2> SUFFICES ASSUME k + 1 <= runs PROVE total[1 .. (k + 1)] = L(k + 1)
    OBVIOUS
  <2>1. 1 .. (k + 1) \in SUBSET (1 .. runs) /\ k + 1 \in 1 .. (k + 1)
    BY <1>5
  <2>2. (1 .. (k + 1)) \ {k + 1} = 1 .. k
    OBVIOUS
  <2>3. total[1 .. (k + 1)] = total[1 .. k] + w[k + 1]
    <3>1. \A s \in SUBSET (1 .. runs) : \A x \in s : total[s] = total[s \ {x}] + w[x]
      BY <1>3 DEF Adds
    <3>2. total[1 .. (k + 1)] = total[(1 .. (k + 1)) \ {k + 1}] + w[k + 1]
      BY ONLY <2>1, <3>1
    <3>3. QED
      BY ONLY <2>2, <3>2
  <2>4. w[k + 1] = L(k + 1) - S(k + 1) + 1 /\ S(k + 1) \in Int /\ L(k + 1) \in Int
    BY <1>4, <1>5, <2>1
  <2>5. CASE k = 0
    <3>1. S(k + 1) = 1
      BY <1>5, <1>8, <2>1, <2>5
    <3>2. total[1 .. k] = 0
      BY <1>5, <1>10, <2>5
    <3>3. QED
      BY <2>3, <2>4, <3>1, <3>2
  <2>6. CASE k # 0
    <3>1. k \in 1 .. runs /\ k # runs
      BY <1>5, <2>6
    <3>2. total[1 .. k] = S(k + 1) - 1
      BY <1>6, <1>10, <2>6, <3>1
    <3>3. QED
      BY <2>3, <2>4, <3>2
  <2>7. QED
    BY <2>5, <2>6
<1>11. total[1 .. runs] = IF runs = 0 THEN 0 ELSE L(runs)
  <2> HIDE DEF T
  <2>1. Nat \subseteq T
    BY <1>9, <1>10, Induction
  <2>2. QED
    BY <1>5, <2>1 DEF T
<1>12. runs = 0 => n = 0
  BY <1>1, <1>5
<1>13. total[1 .. runs] = n
  BY <1>5, <1>7, <1>11, <1>12
<1>14. QED
  BY <1>1, <1>2, <1>13 DEF found

=============================================================================
