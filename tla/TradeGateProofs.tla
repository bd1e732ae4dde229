--------------------------- MODULE TradeGateProofs ---------------------------
(***************************************************************************)
(* Proofs about TradeGate: whatever the contracts, prices and assumptions, *)
(* a comparison that is let through has two legs that value it alike, an   *)
(* executable one has two legs that are filled and capital behind them,    *)
(* the summary counts one set of rows, and a sweep says how far the        *)
(* assumption is from breaking.                                            *)
(***************************************************************************)
EXTENDS TradeGate, EpisodesProofs

\* What __post_init__ lets through.
Sound(c) ==
    /\ c.size \in Nat \ {0} /\ c.step \in Nat \ {0} /\ c.min \in Nat \ {0}
    /\ c.tickSize \in Nat \ {0} /\ c.tickValue \in Nat \ {0}
    /\ c.max \in Int /\ c.margin \in Nat

-----------------------------------------------------------------------------
(* Arithmetic                                                              *)

\* Multiplying keeps an order.
LEMMA TimesIsMonotone ==
    ASSUME NEW m \in Nat, NEW x \in Int, NEW y \in Int, x <= y
    PROVE  m * x <= m * y /\ m * x \in Int /\ m * y \in Int
  OBVIOUS

\* And a product of positive numbers is positive.
LEMMA TimesIsPositive ==
    ASSUME NEW m \in Nat \ {0}, NEW n \in Nat \ {0}
    PROVE  m * n \in Nat \ {0}
  OBVIOUS

\* Closeness does not depend on the order.
LEMMA WithinIsSymmetric ==
    ASSUME NEW m \in Int, NEW n \in Int, NEW parts \in Int
    PROVE  Within(m, n, parts) <=> Within(n, m, parts)
<1>1. Magnitude(m - n) = Magnitude(n - m) /\ Greater(m, n) = Greater(n, m)
  BY DEF Magnitude, Greater
<1>2. QED
  BY <1>1 DEF Within

\* Two numbers within a hundredth of each other stay within a twentieth at any
\* scale.
LEMMA WithinAtEveryScale ==
    ASSUME NEW p \in Nat, NEW q \in Nat, NEW m \in Nat, p <= q,
           Within(p, q, ValueTolerance)
    PROVE  Within(m * p, m * q, LegTolerance) /\ Within(m * q, m * p, LegTolerance)
<1>1. 100 * (q - p) <= q
  BY DEF Within, ValueTolerance, Magnitude, Greater
<1>2. 20 * (q - p) <= q
  BY <1>1
<1>3. m * (20 * (q - p)) <= m * q
  BY <1>2, TimesIsMonotone
<1>4. m * (20 * (q - p)) = 20 * (m * q - m * p)
  OBVIOUS
<1>5. m * p <= m * q /\ m * p \in Int /\ m * q \in Int
  BY TimesIsMonotone
<1> DEFINE x == m * p
           y == m * q
<1>6. x <= y /\ x \in Int /\ y \in Int /\ 20 * (y - x) <= y
  BY <1>3, <1>4, <1>5
<1> HIDE DEF x, y
<1>7. Within(x, y, 20) /\ Within(y, x, 20)
  BY <1>6 DEF Within, Magnitude, Greater
<1>8. QED
  BY <1>7 DEF x, y, LegTolerance

\* The magnitude of a difference times what it is worth.
LEMMA MagnitudeScales ==
    ASSUME NEW edge \in Int, NEW worth \in Nat
    PROVE  Magnitude(edge * worth) = Magnitude(edge) * worth /\ Magnitude(edge) \in Nat
<1>1. CASE edge < 0
  <2>1. worth * edge <= worth * 0
    BY <1>1, TimesIsMonotone
  <2>2. edge * worth <= 0 /\ edge * worth \in Int /\ -(edge * worth) = (-edge) * worth
    BY <2>1
  <2>3. QED
    BY <1>1, <2>2 DEF Magnitude
<1>2. CASE edge >= 0
  <2>1. edge * worth \in Nat
    BY <1>2
  <2>2. QED
    BY <1>2, <2>1 DEF Magnitude
<1>3. QED
  BY <1>1, <1>2

-----------------------------------------------------------------------------
(* Contracts                                                               *)

\* What a sound contract earns is positive.
LEMMA WorthIsPositive ==
    ASSUME NEW a, Sound(a), NEW b, Sound(b)
    PROVE  WorthA(a, b) \in Nat \ {0} /\ WorthB(a, b) \in Nat \ {0}
<1>1. a.tickValue * b.tickSize \in Nat \ {0} /\ b.tickValue * a.tickSize \in Nat \ {0}
  BY TimesIsPositive DEF Sound
<1>2. QED
  BY <1>1, TimesIsPositive DEF Sound, WorthA, WorthB

\* The verdict on two contracts does not depend on which is called A.
LEMMA CompatibilityIsSymmetric ==
    ASSUME NEW a, a = Unset \/ Sound(a), NEW b, b = Unset \/ Sound(b)
    PROVE  Compatibility(b, a) = Compatibility(a, b)
<1>1. CASE Unset \in {a, b}
  BY <1>1 DEF Compatibility
<1>2. CASE Unset \notin {a, b}
  <2>1. Sound(a) /\ Sound(b)
    BY <1>2
  <2>2. Irreconcilable(b, a) <=> Irreconcilable(a, b)
    BY DEF Irreconcilable
  <2>3. ValuesTheSameInstrument(b, a) <=> ValuesTheSameInstrument(a, b)
    <3>1. WorthA(b, a) = WorthB(a, b) /\ WorthB(b, a) = WorthA(a, b)
      BY DEF WorthA, WorthB
    <3>2. WorthA(a, b) \in Int /\ WorthB(a, b) \in Int
      BY <2>1, WorthIsPositive
    <3>3. QED
      BY <3>1, <3>2, WithinIsSymmetric DEF ValuesTheSameInstrument, ValueTolerance
  <2>4. QED
    BY <1>2, <2>2, <2>3 DEF Compatibility
<1>3. QED
  BY <1>1, <1>2

\* The one-percent check on the contracts implies the five-percent check on the
\* legs, for any difference.
LEMMA NormalizedLegsAgree ==
    ASSUME NEW a, a = Unset \/ Sound(a), NEW b, b = Unset \/ Sound(b), NEW edge \in Int,
           Normalizes(Compatibility(a, b))
    PROVE  LegsAgree(edge, a, b)
<1>1. Unset \notin {a, b} /\ ValuesTheSameInstrument(a, b)
  BY DEF Normalizes, Compatibility
<1>2. Sound(a) /\ Sound(b)
  BY <1>1
<1> DEFINE p == WorthA(a, b)
           q == WorthB(a, b)
           m == Magnitude(edge)
<1>3. p \in Nat /\ q \in Nat /\ m \in Nat
  BY <1>2, WorthIsPositive, MagnitudeScales
<1>4. Magnitude(ProfitA(edge, a, b)) = m * p /\ Magnitude(ProfitB(edge, a, b)) = m * q
  BY <1>3, MagnitudeScales DEF ProfitA, ProfitB
<1>5. Within(p, q, ValueTolerance) /\ Within(q, p, ValueTolerance)
  BY <1>1, <1>3, WithinIsSymmetric DEF ValuesTheSameInstrument, ValueTolerance
<1> HIDE DEF p, q, m
<1>6. Within(m * p, m * q, LegTolerance)
  <2>1. CASE p <= q
    BY <1>3, <1>5, <2>1, WithinAtEveryScale
  <2>2. CASE q <= p
    BY <1>3, <1>5, <2>2, WithinAtEveryScale
  <2>3. QED
    BY <1>3, <2>1, <2>2
<1>7. QED
  BY <1>4, <1>6 DEF LegsAgree

-----------------------------------------------------------------------------
(* Fills and margins                                                       *)

\* A volume that covers a multiple of itself exactly is positive.
LEMMA MatchingVolumeIsExact ==
    ASSUME NEW volume \in Nat \ {0}, NEW a, Sound(a), NEW b, Sound(b),
           (volume * a.size) % b.size = 0
    PROVE  /\ VolumeB(volume, a, b) \in Nat \ {0}
           /\ VolumeB(volume, a, b) * b.size = volume * a.size
<1> DEFINE held == volume * a.size
           n == VolumeB(volume, a, b)
<1>1. held \in Nat \ {0} /\ b.size \in Nat \ {0}
  BY TimesIsPositive DEF Sound
<1>2. n = held \div b.size /\ held % b.size = 0
  BY DEF VolumeB
<1> HIDE DEF held, n
<1>3. n \in Int /\ n * b.size = held
  BY <1>1, <1>2
<1>4. n > 0
  <2>1. ASSUME n <= 0 PROVE FALSE
    <3>1. b.size * n <= b.size * 0
      BY <1>1, <1>3, <2>1, TimesIsMonotone
    <3>2. QED
      BY <1>1, <1>3, <3>1
  <2>2. QED
    BY <1>3, <2>1
<1>5. QED
  BY <1>3, <1>4 DEF held, n

\* A step at most halves a volume it does not round away.
LEMMA RoundingKeepsMoreThanHalf ==
    ASSUME NEW v \in Int, NEW s \in Nat \ {0}, RoundDown(v, s) > 0
    PROVE  /\ RoundDown(v, s) \in Nat \ {0}
           /\ RoundDown(v, s) <= v
           /\ v < 2 * RoundDown(v, s)
<1> DEFINE q == v \div s
           filled == q * s
<1>1. q \in Int /\ filled <= v /\ v < filled + s /\ filled \in Int
  OBVIOUS
<1>2. filled > 0
  BY DEF RoundDown
<1>3. q >= 1
  <2>1. ASSUME q <= 0 PROVE FALSE
    <3>1. s * q <= s * 0
      BY <1>1, <2>1, TimesIsMonotone
    <3>2. QED
      BY <1>1, <1>2, <3>1
  <2>2. QED
    BY <1>1, <2>1
<1>4. s <= filled
  <2>1. s * 1 <= s * q
    BY <1>1, <1>3, TimesIsMonotone
  <2>2. QED
    BY <1>1, <2>1
<1> HIDE DEF q
<1>5. QED
  BY <1>1, <1>2, <1>4 DEF RoundDown, q

\* A fillable size is filled to more than half.
LEMMA FillableIsFilled ==
    ASSUME NEW c, Sound(c), NEW v \in Int, Fill(c, v).status = "fillable", c # Unset
    PROVE  /\ Fill(c, v).filled \in Nat \ {0}
           /\ Fill(c, v).filled <= v
           /\ v < 2 * Fill(c, v).filled
<1>1. RoundDown(v, c.step) >= c.min /\ Fill(c, v).filled = RoundDown(v, c.step)
  BY DEF Fill, Refused, RoundDown, Sound
<1>2. RoundDown(v, c.step) \in Int /\ c.step \in Nat \ {0} /\ c.min \in Nat \ {0}
  BY DEF RoundDown, Sound
<1>3. RoundDown(v, c.step) > 0
  BY <1>1, <1>2
<1>4. QED
  BY <1>1, <1>2, <1>3, RoundingKeepsMoreThanHalf

\* A margin that is known is positive.
LEMMA KnownMarginIsPositive ==
    ASSUME NEW c, c = Unset \/ Sound(c), NEW volume \in Nat \ {0}, NEW price \in Nat \ {0},
           NEW leverage, leverage = Unset \/ leverage \in Nat \ {0},
           Known(Margin(c, volume, price, leverage))
    PROVE  c # Unset /\ Margin(c, volume, price, leverage).margin \in Nat \ {0}
<1>1. c # Unset
  BY DEF Known, Margin, Unavailable
<1>2. Sound(c)
  BY <1>1
<1>3. CASE c.margin > 0
  <2>1. c.margin * volume \in Nat \ {0}
    BY <1>2, <1>3, TimesIsPositive DEF Sound
  <2>2. QED
    BY <1>1, <1>3, <2>1 DEF Margin
<1>4. CASE ~(c.margin > 0)
  <2>1. leverage # Unset
    BY <1>1, <1>4 DEF Known, Margin, Unavailable
  <2>2. leverage \in Nat \ {0}
    BY <2>1
  <2> DEFINE notional == volume * c.size * price
  <2>3. notional \in Nat \ {0}
    BY <1>2, TimesIsPositive DEF Sound
  <2>4. Margin(c, volume, price, leverage).margin = (notional + leverage - 1) \div leverage
    BY <1>1, <1>4, <2>1 DEF Margin
  <2> HIDE DEF notional
  <2>5. (notional + leverage - 1) \div leverage \in Nat \ {0}
    <3> DEFINE d == (notional + leverage - 1) \div leverage
    <3>1. d \in Int /\ notional + leverage - 1 < leverage * d + leverage
      BY <2>2, <2>3
    <3>2. ASSUME d <= 0 PROVE FALSE
      <4>1. leverage * d <= leverage * 0
        BY <2>2, <3>1, <3>2, TimesIsMonotone
      <4>2. QED
        BY <2>2, <2>3, <3>1, <4>1
    <3>3. QED
      BY <3>1, <3>2
  <2>6. QED
    BY <1>1, <2>4, <2>5
<1>5. QED
  BY <1>1, <1>3, <1>4

-----------------------------------------------------------------------------
(* The inductive invariant                                                 *)

A == contracts[1]
B == contracts[2]

\* Contracts that were loaded are sound, belong to a request that was accepted,
\* and have volumes that match exactly.
Loaded ==
    /\ request \in Requests
    /\ A = Unset \/ Sound(A)
    /\ B = Unset \/ Sound(B)
    /\ Unset \notin {A, B} =>
          /\ request.volume \in Nat \ {0}
          /\ request.leverage = Unset \/ request.leverage \in Nat \ {0}
          /\ request.minimumFill.num \in Nat /\ request.minimumFill.den \in Int
          /\ (request.volume * A.size) % B.size = 0

\* The rows keep their times and quotes, and have an edge once they are priced.
Rowed ==
    /\ DOMAIN rows = DOMAIN request.rows
    /\ \A k \in DOMAIN rows : /\ rows[k].a = request.rows[k].a /\ rows[k].b = request.rows[k].b
                             /\ rows[k].at = request.rows[k].at
    /\ pc \in {"compare", "execute"} =>
          \A k \in DOMAIN rows :
              rows[k].net \in Int /\ {"at", "a", "b", "net", "crossable"} \subseteq DOMAIN rows[k]

\* Nothing is judged before it is compared, and what is judged follows from the
\* contracts.
Judged ==
    /\ pc \in {"baseline", "contracts", "price", "compare"} => status = Unset
    /\ status # Unset =>
          /\ status = Compatibility(A, B)
          /\ Normalizes(status) => legsAgree

\* What an assessment promises once it is made.
Assessed ==
    /\ execution.executable /\ Unset \notin {A, B} => LegsAreFilled(execution)
    /\ execution.capitalVerified => execution.total \in Nat \ {0}

\* The summary is made after the assessment and says what it left open.
Reported ==
    /\ pc \in {"group", "capture", "classify"} => Assessed
    /\ pc \in {"baseline", "contracts", "price", "compare", "execute"} => summary = Unset
    /\ summary # Unset =>
          /\ Assessed
          /\ Open /\ ~execution.capitalVerified => "capital_unverified" \in summary.caveats

IInv == Loaded /\ Rowed /\ Judged /\ Reported

-----------------------------------------------------------------------------
(* What the steps compute                                                  *)

\* The contract of a file that names one is among its entries.
LEMMA ContractIsAnEntry ==
    ASSUME NEW file, file # Unset, file.list \/ 1 \in DOMAIN file.entries,
           NEW symbol, ~Ambiguous(file, symbol)
    PROVE  \E k \in DOMAIN file.entries : Contract(file, symbol) = file.entries[k]
<1>1. Cardinality(Candidates(file, symbol)) = 1
  BY DEF Ambiguous
<1>2. Candidates(file, symbol) # {}
  BY <1>1, FS_EmptySet
<1>3. Candidates(file, symbol) \subseteq DOMAIN file.entries
  BY DEF Candidates
<1>4. QED
  BY <1>2, <1>3 DEF Contract

\* The widest row is a row.
LEMMA WidestIsARow ==
    ASSUME request \in Requests, Rowed, \A k \in DOMAIN rows : rows[k].net \in Int
    PROVE  Widest \in DOMAIN rows
<1> DEFINE n == Len(request.rows)
           Wider == {p \in (1 .. n) \X (1 .. n) :
                       \/ rows[p[1]].net < rows[p[2]].net
                       \/ rows[p[1]].net = rows[p[2]].net /\ p[2] < p[1]}
<1>1. n \in Nat \ {0} /\ DOMAIN rows = 1 .. n
  BY RowsArePriced DEF Rowed
<1> HIDE DEF n
<1>2. IsFiniteSet(1 .. n) /\ 1 .. n # {}
  <2>1. 1 \in 1 .. n /\ n \in Int /\ 1 \in Int
    BY <1>1
  <2>2. QED
    BY <2>1, FS_Interval
<1>3. \A k, l \in 1 .. n :
        <<k, l>> \in Wider
          <=> rows[k].net < rows[l].net \/ (rows[k].net = rows[l].net /\ l < k)
  OBVIOUS
<1> HIDE DEF Wider
<1>4. PICK k \in 1 .. n : \A l \in 1 .. n : <<k, l>> \notin Wider
  <2>1. \A x \in 1 .. n : <<x, x>> \notin Wider
    BY <1>1, <1>3
  <2>2. \A x, y, z \in 1 .. n : <<x, y>> \in Wider /\ <<y, z>> \in Wider => <<x, z>> \in Wider
    BY <1>1, <1>3
  <2>3. QED
    BY <1>2, <2>1, <2>2, FiniteHasMaximal
<1>5. /\ \A l \in DOMAIN rows : rows[l].net <= rows[k].net
      /\ \A l \in 1 .. (k - 1) : rows[l].net < rows[k].net
  <2>1. \A l \in 1 .. n : rows[l].net \in Int
    BY <1>1
  <2>2. \A l \in 1 .. n : ~(rows[k].net < rows[l].net) /\ ~(rows[k].net = rows[l].net /\ l < k)
    BY <1>3, <1>4
  <2>3. \A l \in 1 .. n : rows[l].net <= rows[k].net /\ (l < k => rows[l].net < rows[k].net)
    BY <2>1, <2>2
  <2>4. \A l \in 1 .. (k - 1) : l \in 1 .. n /\ l < k
    BY <1>1
  <2>5. QED
    BY <1>1, <2>3, <2>4
<1>6. QED
  BY <1>1, <1>5 DEF Widest

\* Opening and shutting the rows changes neither their quotes nor their edges.
LEMMA GatedKeepsRows ==
    ASSUME NEW open, Gated(open),
           \A k \in DOMAIN rows :
               rows[k].net \in Int /\ {"at", "a", "b", "net", "crossable"} \subseteq DOMAIN rows[k]
    PROVE  /\ DOMAIN rows' = DOMAIN rows
           /\ \A k \in DOMAIN rows :
                 /\ rows'[k].a = rows[k].a /\ rows'[k].b = rows[k].b
                 /\ rows'[k].at = rows[k].at /\ rows'[k].net = rows[k].net
                 /\ rows'[k].crossable = (open /\ rows[k].net > 0)
                 /\ DOMAIN rows'[k] = DOMAIN rows[k]
  BY DEF Gated

\* What a pair holds when both sizes can be filled.
LEMMA ExecutableLegsAreFilled ==
    ASSUME Loaded, Unset \notin {A, B}, NEW prices, NEW e,
           e = Assessment(A, B, request.volume, MatchingVolume, prices,
                          request.leverage, request.minimumFill),
           e.executable
    PROVE  LegsAreFilled(e)
<1> DEFINE v == request.volume
           w == MatchingVolume
           f == Fill(A, v).filled
           g == Fill(B, w).filled
           num == request.minimumFill.num
           den == request.minimumFill.den
<1>1. A # Unset /\ B # Unset /\ Sound(A) /\ Sound(B) /\ v \in Nat \ {0}
      /\ num \in Nat /\ den \in Int
  BY DEF Loaded
<1>2. w \in Nat \ {0} /\ w * B.size = v * A.size
  BY <1>1, MatchingVolumeIsExact DEF MatchingVolume, Loaded, A, B
<1>3. e.fillA = Fill(A, v) /\ e.fillB = Fill(B, w)
  BY DEF Assessment
<1>4. /\ Fill(A, v).status \in {"fillable", "unknown_contract"}
      /\ Fill(B, w).status \in {"fillable", "unknown_contract"}
      /\ ~(/\ "unknown_contract" \notin {Fill(A, v).status, Fill(B, w).status}
           /\ \/ FillsLessThan(Fill(A, v), v, request.minimumFill)
              \/ FillsLessThan(Fill(B, w), w, request.minimumFill))
  BY DEF Assessment
<1>5. Fill(A, v).status = "fillable" /\ Fill(B, w).status = "fillable"
  BY <1>1, <1>4 DEF Fill, Refused
<1>6. /\ f \in Nat \ {0} /\ f <= v /\ v < 2 * f
      /\ g \in Nat \ {0} /\ g <= w /\ w < 2 * g
  BY <1>1, <1>2, <1>5, FillableIsFilled
<1>7. ~(f * den < num * v) /\ ~(g * den < num * w)
  BY <1>4, <1>5 DEF FillsLessThan
<1> DEFINE x == A.size
           y == B.size
           whole == v * x
<1>8. Held(e, 1) = f * x /\ Held(e, 2) = g * y
  BY <1>3 DEF Held, A, B
<1>9. x \in Nat \ {0} /\ y \in Nat \ {0} /\ whole \in Nat \ {0} /\ w * y = whole
  BY <1>1, <1>2, TimesIsPositive DEF Sound
<1> HIDE DEF v, w, f, g, num, den, x, y
<1>10. ASSUME NEW n \in Nat \ {0}, NEW h \in Nat \ {0}, NEW size \in Nat \ {0},
              h <= n, n < 2 * h, ~(h * den < num * n)
       PROVE  /\ h * size \in Nat
              /\ h * size <= n * size /\ n * size < 2 * (h * size)
              /\ num * (n * size) <= (h * size) * den
  <2>1. size * h <= size * n /\ h * size \in Nat
    BY <1>10, TimesIsMonotone
  <2>2. size * (n + 1) <= size * (2 * h)
    BY <1>10, TimesIsMonotone
  <2>3. h * den \in Int /\ num * n \in Int /\ num * n <= h * den
    BY <1>1, <1>10
  <2>4. size * (num * n) <= size * (h * den)
    BY <2>3, TimesIsMonotone
  <2>5. size * (num * n) = num * (n * size) /\ size * (h * den) = (h * size) * den
    BY <1>1
  <2>6. size * (n + 1) = n * size + size /\ size * (2 * h) = 2 * (h * size)
    OBVIOUS
  <2>7. size * h = h * size /\ size * n = n * size
    OBVIOUS
  <2> DEFINE u == n * size
             t == h * size
  <2>8. u \in Int /\ t \in Int /\ u + size <= 2 * t /\ t <= u
    BY <2>1, <2>2, <2>6, <2>7
  <2> HIDE DEF u, t
  <2>9. u < 2 * t
    BY <2>8
  <2>10. QED
    BY <2>1, <2>4, <2>5, <2>7, <2>9 DEF u, t
<1> DEFINE p == f * x
           q == g * y
<1>11. /\ p \in Nat /\ p <= whole /\ whole < 2 * p /\ num * whole <= p * den
       /\ q \in Nat /\ q <= whole /\ whole < 2 * q /\ num * whole <= q * den
  BY <1>1, <1>2, <1>6, <1>7, <1>9, <1>10 DEF v, w
<1> HIDE DEF p, q, whole
<1>12. ASSUME NEW h \in {p, q}, NEW k \in {p, q} PROVE h * den >= num * k /\ 2 * h > k
  <2>1. num * k <= num * whole /\ num * whole <= h * den
    BY <1>1, <1>9, <1>11, <1>12, TimesIsMonotone DEF num
  <2>2. num * k \in Int /\ num * whole \in Int /\ h * den \in Int
    BY <1>1, <1>9, <1>11
  <2>3. 2 * h > k
    BY <1>9, <1>11
  <2>4. QED
    BY <2>1, <2>2, <2>3
<1>13. \A i \in {1, 2} : Held(e, i) \in {p, q}
  BY <1>8 DEF p, q
<1>14. QED
  BY <1>12, <1>13 DEF LegsAreFilled, num, den

\* Capital that is known is not free.
LEMMA VerifiedCapitalIsPositive ==
    ASSUME Loaded, NEW prices, prices[1] \in Nat \ {0}, prices[2] \in Nat \ {0}, NEW e,
           e = Assessment(A, B, request.volume, MatchingVolume, prices,
                          request.leverage, request.minimumFill),
           e.capitalVerified
    PROVE  e.total \in Nat \ {0}
<1> DEFINE first == Margin(A, request.volume, prices[1], request.leverage)
           second == Margin(B, MatchingVolume, prices[2], request.leverage)
<1>1. Known(first) /\ Known(second) /\ e.total = TotalMargin(first, second)
  BY DEF Assessment
<1>2. A # Unset /\ B # Unset
  BY <1>1 DEF Known, Margin, Unavailable
<1>3. Sound(A) /\ Sound(B) /\ request.volume \in Nat \ {0}
      /\ (request.leverage = Unset \/ request.leverage \in Nat \ {0})
  BY <1>2 DEF Loaded
<1>4. MatchingVolume \in Nat \ {0}
  BY <1>2, <1>3, MatchingVolumeIsExact DEF MatchingVolume, Loaded, A, B
<1>5. first.margin \in Nat \ {0} /\ second.margin \in Nat \ {0}
  BY <1>1, <1>3, <1>4, KnownMarginIsPositive
<1> HIDE DEF first, second
<1>6. QED
  BY <1>1, <1>5, UnsetIsNoNumber DEF TotalMargin

-----------------------------------------------------------------------------
(* Every step keeps the invariant                                          *)

\* Nothing is loaded, priced or judged at first.
LEMMA InitIInv == Init => IInv
<1> SUFFICES ASSUME Init PROVE IInv
  OBVIOUS
<1>1. A = Unset /\ B = Unset
  BY DEF Init, A, B
<1>2. QED
  BY <1>1 DEF Init, IInv, Loaded, Rowed, Judged, Reported

\* A step that leaves the contracts, the rows and the verdicts alone, and does
\* not go back, keeps the invariant.
LEMMA QuietStep ==
    ASSUME IInv, UNCHANGED <<request, contracts, rows, judged, execution, summary>>,
           pc' \notin {"compare", "execute"},
           pc' \in {"group", "capture", "classify"} => pc \in {"group", "capture"},
           pc' \in {"baseline", "contracts", "price", "compare"}
               => pc \in {"baseline", "contracts", "price", "compare"}
    PROVE  IInv'
<1>1. Loaded' /\ Rowed'
  BY DEF IInv, Loaded, Rowed, A, B
<1>2. Judged'
  BY DEF IInv, Judged, judged, A, B
<1>3. Assessed' <=> Assessed
  BY DEF Assessed, LegsAreFilled, Held, A, B
<1>4. Open' <=> Open
  BY DEF Open, judged
<1>5. Reported'
  BY <1>3, <1>4 DEF IInv, Reported
<1>6. QED
  BY <1>1, <1>2, <1>5 DEF IInv

\* An exception ends the call and changes nothing else.
LEMMA RaiseIInv ==
    ASSUME IInv, NEW exception \in {"DataQualityError", "ValueError", "InsufficientDataError"},
           Raise(exception)
    PROVE  IInv'
  BY QuietStep DEF Raise, reported

\* Two contracts that were loaded for an accepted request.
LEMMA LoadContractsIInv == IInv /\ LoadContracts => IInv'
<1> SUFFICES ASSUME IInv, LoadContracts PROVE IInv'
  OBVIOUS
<1> DEFINE a == Contract(request.fileA, request.symbolA)
           b == Contract(request.fileB, request.symbolB)
<1>1. CASE Raise("ValueError")
  BY <1>1, RaiseIInv
<1>2. CASE ~Raise("ValueError")
  <2>1. /\ ~Ambiguous(request.fileA, request.symbolA)
        /\ ~Ambiguous(request.fileB, request.symbolB)
        /\ \A c \in {a, b} \ {Unset} : ~Malformed(c)
        /\ ~RequestRefused(a, b)
        /\ contracts' = <<a, b>> /\ pc = "contracts" /\ pc' = "price"
        /\ UNCHANGED <<request, order, rows, judged, execution, episodes, reported>>
    BY <1>2 DEF LoadContracts
  <2>2. A' = a /\ B' = b
    BY <2>1 DEF A, B
  <2>3. request \in Requests
    BY DEF IInv, Loaded
  <2>4. ASSUME NEW file \in {request.fileA, request.fileB}, file # Unset, NEW symbol,
               ~Ambiguous(file, symbol)
        PROVE  \E k \in DOMAIN file.entries :
                  Contract(file, symbol) = file.entries[k] /\ IsNumeric(file.entries[k])
    <3>1. /\ file.list \/ 1 \in DOMAIN file.entries
          /\ \A k \in DOMAIN file.entries : IsNumeric(file.entries[k])
      BY <2>3, <2>4, FilesAreNumeric
    <3>2. QED
      BY <2>4, <3>1, ContractIsAnEntry
  <2>5. (a # Unset => request.fileA # Unset) /\ (b # Unset => request.fileB # Unset)
    BY DEF Contract
  <2>6. (a = Unset \/ Sound(a)) /\ (b = Unset \/ Sound(b))
    <3>1. ASSUME NEW c \in {a, b}, c # Unset PROVE IsNumeric(c)
      BY <2>1, <2>4, <2>5, <3>1
    <3>2. ASSUME NEW c \in {a, b}, c # Unset PROVE Sound(c)
      BY <2>1, <3>1, <3>2 DEF IsNumeric, Malformed, Sound
    <3>3. QED
      BY <3>2
  <2>7. ASSUME Unset \notin {a, b}
        PROVE  /\ request.volume \in Nat \ {0}
               /\ request.leverage = Unset \/ request.leverage \in Nat \ {0}
               /\ request.minimumFill.num \in Nat /\ request.minimumFill.den \in Int
               /\ (request.volume * a.size) % b.size = 0
    <3>1. PICK k \in DOMAIN request.fileA.entries : a = request.fileA.entries[k]
      BY <2>1, <2>4, <2>5, <2>7
    <3>2. PICK l \in DOMAIN request.fileB.entries : b = request.fileB.entries[l]
      BY <2>1, <2>4, <2>5, <2>7
    <3>3. b.size > 0
      BY <2>6, <2>7 DEF Sound
    <3>4. (request.volume * a.size) % b.size = 0
      BY <2>3, <2>5, <2>7, <3>1, <3>2, <3>3, VolumesDivide
    <3>5. /\ request.volume \in Int /\ request.leverage \in Int \cup {Unset}
          /\ request.minimumFill.num \in Int /\ request.minimumFill.den \in Int
      BY <2>3, SizesAreNumeric
    <3>6. /\ ~(request.volume <= 0)
          /\ ~(request.leverage # Unset /\ request.leverage <= 0)
          /\ request.minimumFill.num \in 0 .. request.minimumFill.den
      BY <2>1 DEF RequestRefused, IsNoFraction
    <3>7. QED
      BY <3>4, <3>5, <3>6
  <2>8. Loaded'
    BY <2>1, <2>2, <2>3, <2>6, <2>7 DEF Loaded
  <2>9. Rowed'
    BY <2>1 DEF IInv, Rowed
  <2>10. status' = Unset /\ summary' = Unset
    BY <2>1 DEF IInv, Judged, Reported, judged, reported
  <2>11. QED
    BY <2>1, <2>8, <2>9, <2>10 DEF IInv, Judged, Reported
<1>3. QED
  BY <1>1, <1>2

\* Prices give every row an edge.
LEMMA PriceIInv == IInv /\ Price => IInv'
<1> SUFFICES ASSUME IInv, Price PROVE IInv'
  OBVIOUS
<1>1. request \in Requests /\ pc = "price" /\ pc' = "compare"
      /\ UNCHANGED <<request, order, contracts, judged, execution, episodes, reported>>
  BY DEF IInv, Loaded, Price
<1>2. \A k \in DOMAIN rows : NetA(rows[k]) \in Int /\ NetB(rows[k]) \in Int
  <2> TAKE k \in DOMAIN rows
  <2>1. rows[k].a = request.rows[k].a /\ rows[k].b = request.rows[k].b
        /\ k \in DOMAIN request.rows
    BY DEF IInv, Rowed
  <2>2. /\ rows[k].a.bid \in Int /\ rows[k].a.ask \in Int
        /\ rows[k].b.bid \in Int /\ rows[k].b.ask \in Int /\ request.cost \in Int
    BY <1>1, <2>1, RowsArePriced, SizesAreNumeric
  <2>3. QED
    BY <2>2 DEF NetA, NetB
<1>3. /\ DOMAIN rows' = DOMAIN rows
      /\ \A k \in DOMAIN rows :
            /\ rows'[k].a = rows[k].a /\ rows'[k].b = rows[k].b /\ rows'[k].at = rows[k].at
            /\ rows'[k].net = Larger(NetA(rows[k]), NetB(rows[k]))
            /\ {"at", "a", "b", "net", "crossable"} \subseteq DOMAIN rows'[k]
  BY DEF Price
<1>4. \A k \in DOMAIN rows : rows'[k].net \in Int
  BY <1>2, <1>3 DEF Larger
<1>5. Rowed'
  BY <1>1, <1>3, <1>4 DEF IInv, Rowed
<1>6. Loaded'
  BY <1>1 DEF IInv, Loaded, A, B
<1>7. status' = Unset /\ summary' = Unset
  BY <1>1 DEF IInv, Judged, Reported, judged, reported
<1>8. QED
  BY <1>1, <1>5, <1>6, <1>7 DEF IInv, Judged, Reported

\* Contracts are compared: a pair let through has legs that agree on every row.
LEMMA CompareContractsIInv == IInv /\ CompareContracts => IInv'
<1> SUFFICES ASSUME IInv, CompareContracts PROVE IInv'
  OBVIOUS
<1> DEFINE verdict == Compatibility(A, B)
<1>1. /\ pc = "compare" /\ pc' = "execute"
      /\ UNCHANGED <<request, order, contracts, execution, episodes, reported>>
      /\ status' = verdict
      /\ Normalizes(verdict) => legsAgree' = (\A k \in DOMAIN rows : LegsAgree(rows[k].net, A, B))
      /\ Gated(~Blocks(verdict))
  BY DEF CompareContracts, A, B
<1>2. \A k \in DOMAIN rows :
          rows[k].net \in Int /\ {"at", "a", "b", "net", "crossable"} \subseteq DOMAIN rows[k]
  BY <1>1 DEF IInv, Rowed
<1>3. /\ DOMAIN rows' = DOMAIN rows
      /\ \A k \in DOMAIN rows :
            /\ rows'[k].a = rows[k].a /\ rows'[k].b = rows[k].b
            /\ rows'[k].at = rows[k].at /\ rows'[k].net = rows[k].net
            /\ DOMAIN rows'[k] = DOMAIN rows[k]
  BY <1>1, <1>2, GatedKeepsRows
<1>4. Rowed'
  BY <1>1, <1>2, <1>3 DEF IInv, Rowed
<1>5. Loaded' /\ A' = A /\ B' = B
  BY <1>1 DEF IInv, Loaded, A, B
<1>6. Normalizes(verdict) => \A k \in DOMAIN rows : LegsAgree(rows[k].net, A, B)
  BY <1>2, NormalizedLegsAgree DEF IInv, Loaded
<1>7. Judged'
  BY <1>1, <1>5, <1>6 DEF Judged
<1>8. summary' = Unset
  BY <1>1 DEF IInv, Reported, reported
<1>9. QED
  BY <1>1, <1>4, <1>5, <1>7, <1>8 DEF IInv, Reported

\* Execution is assessed: an executable pair is filled, known capital is paid.
LEMMA AssessExecutionIInv == IInv /\ AssessExecution => IInv'
<1> SUFFICES ASSUME IInv, AssessExecution PROVE IInv'
  OBVIOUS
<1> DEFINE prices == <<Mid(rows[Widest].a), Mid(rows[Widest].b)>>
<1>1. /\ pc = "execute" /\ pc' = "group"
      /\ execution' = Assessment(A, B, request.volume, MatchingVolume, prices,
                                 request.leverage, request.minimumFill)
      /\ Gated(~Blocks(status) /\ execution'.executable)
      /\ UNCHANGED <<request, order, contracts, judged, episodes, reported>>
  BY DEF AssessExecution, A, B
<1>2. \A k \in DOMAIN rows :
          rows[k].net \in Int /\ {"at", "a", "b", "net", "crossable"} \subseteq DOMAIN rows[k]
  BY <1>1 DEF IInv, Rowed
<1>3. /\ DOMAIN rows' = DOMAIN rows
      /\ \A k \in DOMAIN rows : /\ rows'[k].a = rows[k].a /\ rows'[k].b = rows[k].b
                               /\ rows'[k].at = rows[k].at
  BY <1>1, <1>2, GatedKeepsRows
<1>4. Loaded' /\ Rowed' /\ A' = A /\ B' = B
  BY <1>1, <1>3 DEF IInv, Loaded, Rowed, A, B
<1>5. prices[1] \in Nat \ {0} /\ prices[2] \in Nat \ {0}
  <2>1. Widest \in DOMAIN rows
    BY <1>2, WidestIsARow DEF IInv, Loaded
  <2>2. /\ rows[Widest].a = request.rows[Widest].a /\ rows[Widest].b = request.rows[Widest].b
        /\ Widest \in DOMAIN request.rows /\ request \in Requests
    BY <2>1 DEF IInv, Loaded, Rowed
  <2>3. /\ rows[Widest].a.bid \in Nat \ {0} /\ rows[Widest].a.ask \in Nat \ {0}
        /\ rows[Widest].b.bid \in Nat \ {0} /\ rows[Widest].b.ask \in Nat \ {0}
    BY <2>2, RowsArePriced
  <2>4. \A m, n \in Nat \ {0} : (m + n) \div 2 \in Nat \ {0}
    OBVIOUS
  <2>5. QED
    BY <2>3, <2>4 DEF Mid
<1> HIDE DEF prices
<1>6. execution'.executable /\ Unset \notin {A, B} => LegsAreFilled(execution')
  BY <1>1, ExecutableLegsAreFilled DEF IInv
<1>7. execution'.capitalVerified => execution'.total \in Nat \ {0}
  BY <1>1, <1>5, VerifiedCapitalIsPositive DEF IInv
<1>8. LegsAreFilled(execution') => LegsAreFilled(execution)'
  BY <1>1 DEF LegsAreFilled, Held
<1>9. Assessed'
  BY <1>4, <1>6, <1>7, <1>8 DEF Assessed
<1>10. Judged'
  BY <1>1, <1>4 DEF IInv, Judged, judged
<1>11. summary' = Unset
  BY <1>1 DEF IInv, Reported, reported
<1>12. QED
  BY <1>1, <1>4, <1>9, <1>10, <1>11 DEF IInv, Reported

\* The caveats of a summary name capital that is not verified.
LEMMA ClassifyIInv == IInv /\ Classify => IInv'
<1> SUFFICES ASSUME IInv, Classify PROVE IInv'
  OBVIOUS
<1>1. /\ pc = "classify" /\ pc' = "sweep" /\ summary'.caveats = Caveats
      /\ UNCHANGED <<request, order, contracts, rows, judged, execution, episodes,
                     latency, sensitivity>>
  BY DEF Classify
<1>2. Loaded' /\ Rowed' /\ Judged'
  BY <1>1 DEF IInv, Loaded, Rowed, Judged, judged, A, B
<1>3. Assessed' /\ (Open' <=> Open)
  BY <1>1 DEF IInv, Reported, Assessed, LegsAreFilled, Held, A, B, Open, judged
<1>4. Open /\ ~execution.capitalVerified => "capital_unverified" \in Caveats
  BY DEF Caveats
<1>5. Reported'
  BY <1>1, <1>3, <1>4 DEF Reported
<1>6. QED
  BY <1>2, <1>5 DEF IInv

\* Every step keeps the invariant.
LEMMA StepIInv == IInv /\ [Next]_vars => IInv'
<1> SUFFICES ASSUME IInv, [Next]_vars PROVE IInv'
  OBVIOUS
<1>1. CASE BaselineRefused
  BY <1>1, RaiseIInv DEF BaselineRefused
<1>2. CASE Baseline
  BY <1>2, QuietStep DEF Baseline, reported
<1>3. CASE LoadContracts
  BY <1>3, LoadContractsIInv
<1>4. CASE Price
  BY <1>4, PriceIInv
<1>5. CASE CompareContracts
  BY <1>5, CompareContractsIInv
<1>6. CASE AssessExecution
  BY <1>6, AssessExecutionIInv
<1>7. CASE Group
  BY <1>7, QuietStep DEF Group, reported
<1>8. CASE Capture
  BY <1>8, QuietStep DEF Capture
<1>9. CASE Classify
  BY <1>9, ClassifyIInv
<1>10. CASE SweepLatency
  <2>1. CASE Raise("ValueError")
    BY <2>1, RaiseIInv
  <2>2. CASE ~Raise("ValueError")
    <3>1. /\ UNCHANGED <<request, contracts, rows, judged, execution, summary>>
          /\ pc' = "done"
      BY <1>10, <2>2 DEF SweepLatency
    <3>2. QED
      BY <3>1, QuietStep
  <2>3. QED
    BY <2>1, <2>2
<1>11. CASE SweepSaved
  <2>1. CASE Raise("ValueError") \/ Raise("InsufficientDataError")
    BY <2>1, RaiseIInv
  <2>2. CASE ~(Raise("ValueError") \/ Raise("InsufficientDataError"))
    <3>1. /\ UNCHANGED <<request, contracts, rows, judged, execution, summary>>
          /\ pc' = "swept"
      BY <1>11, <2>2 DEF SweepSaved
    <3>2. QED
      BY <3>1, QuietStep
  <2>3. QED
    BY <2>1, <2>2
<1>12. CASE UNCHANGED vars
  BY <1>12 DEF vars, IInv, Loaded, Rowed, Judged, Reported, Assessed, LegsAreFilled, Held,
               A, B, Open, judged, reported
<1>13. QED
  BY <1>1, <1>2, <1>3, <1>4, <1>5, <1>6, <1>7, <1>8, <1>9, <1>10, <1>11, <1>12 DEF Next

-----------------------------------------------------------------------------

\* The contracts are sound, the rows are priced and the verdicts follow from
\* them at every stage.
THEOREM Invariant == Spec => []IInv
<1>1. Init => IInv
  BY InitIInv
<1>2. IInv /\ [Next]_vars => IInv'
  BY StepIInv
<1>3. QED
  BY <1>1, <1>2, PTL DEF Spec

\* A comparison the contracts let through is valued alike by its two legs, and
\* the verdict does not depend on which broker is called A.
THEOREM LegsAgreeWhenComparable == Spec => []ComparableLegsAgree
<1>1. IInv => ComparableLegsAgree
  BY CompatibilityIsSymmetric DEF IInv, Loaded, Judged, ComparableLegsAgree, A, B
<1>2. QED
  BY <1>1, Invariant, PTL

\* An executable pair is filled on both legs, and a verdict without the caveat
\* has capital behind it.
THEOREM FilledAndFunded == Spec => []ExecutableIsFilledAndFunded
<1>1. IInv => ExecutableIsFilledAndFunded
  <2> SUFFICES ASSUME IInv, summary # Unset, Open
               PROVE  /\ Unset \notin {A, B} => LegsAreFilled(execution)
                      /\ "capital_unverified" \notin summary.caveats =>
                            execution.total # Unset /\ execution.total > 0
    BY DEF ExecutableIsFilledAndFunded, A, B
  <2>1. Assessed /\ execution.executable
        /\ (~execution.capitalVerified => "capital_unverified" \in summary.caveats)
    BY DEF IInv, Reported, Open
  <2>2. QED
    BY <2>1, UnsetIsNoNumber DEF Assessed
<1>2. QED
  BY <1>1, Invariant, PTL

-----------------------------------------------------------------------------
(* The latency that was measured                                           *)

\* Samples that were kept are samples of the log.
LEMMA KeptAreSamples ==
    ASSUME NEW log, Len(log) \in Nat, DOMAIN log = 1 .. Len(log),
           \A k \in DOMAIN log : log[k].roundTrip \in Int, NEW query
    PROVE  /\ Kept(log, query) \in Seq({log[k] : k \in DOMAIN log})
           /\ Len(Kept(log, query)) \in Nat
           /\ DOMAIN Kept(log, query) = 1 .. Len(Kept(log, query))
           /\ \A k \in DOMAIN Kept(log, query) : Kept(log, query)[k].roundTrip \in Int
<1> DEFINE I == {k \in DOMAIN log : /\ query.symbol \in {log[k].symbol, query.any}
                                    /\ query.broker \in {log[k].broker, query.any}}
           index == Ascending(I)
<1>1. IsFiniteSet(I) /\ I \in SUBSET Int
  <2>1. IsFiniteSet(1 .. Len(log)) /\ I \in SUBSET (1 .. Len(log))
    BY FS_Interval
  <2>2. QED
    BY <2>1, FS_Subset
<1>2. \A k \in I : k \in DOMAIN log
  OBVIOUS
<1>3. Kept(log, query) = [k \in DOMAIN index |-> log[index[k]]]
  BY DEF Kept, RowsAt
<1> HIDE DEF I
<1>4. index \in Seq(I)
  BY <1>1, AscendingLists
<1> HIDE DEF index
<1>5. Len(index) \in Nat /\ DOMAIN index = 1 .. Len(index) /\ \A k \in 1 .. Len(index) : index[k] \in I
  BY <1>4, ElementOfSeq, LenProperties
<1>6. Kept(log, query) \in Seq({log[k] : k \in DOMAIN log})
  BY <1>2, <1>3, <1>5
<1>7. Len(Kept(log, query)) \in Nat /\ DOMAIN Kept(log, query) = 1 .. Len(Kept(log, query))
  BY <1>6, LenProperties
<1>8. \A k \in DOMAIN Kept(log, query) : Kept(log, query)[k].roundTrip \in Int
  BY <1>2, <1>3, <1>5
<1>9. QED
  BY <1>6, <1>7, <1>8

\* A quantile of numbers is a number.
LEMMA QuantileIsANumber ==
    ASSUME NEW times \in Seq(Int), times # <<>>, NEW percent \in 0 .. 100
    PROVE  Quantile(times, percent) \in Int
<1> DEFINE n == Len(times)
           position == percent * (n - 1)
           i == position \div 100 + 1
           j == (position + 99) \div 100 + 1
<1>1. n \in Nat \ {0}
  BY LenProperties, EmptySeq
<1> HIDE DEF n
<1>2. position \in Nat /\ position <= 100 * (n - 1)
  <2>1. (n - 1) * percent <= (n - 1) * 100 /\ (n - 1) * percent \in Int
    BY <1>1, TimesIsMonotone
  <2>2. (n - 1) * 0 <= (n - 1) * percent
    BY <1>1, TimesIsMonotone
  <2>3. position = (n - 1) * percent
    BY <1>1
  <2>4. QED
    BY <1>1, <2>1, <2>2, <2>3
<1> HIDE DEF position
<1>3. i \in 1 .. n /\ j \in 1 .. n
  BY <1>1, <1>2
<1> HIDE DEF i, j
<1>4. Ranked(times, i) \in Int /\ Ranked(times, j) \in Int
  BY <1>3, RankedIsOne DEF n
<1>5. Quantile(times, percent)
        = Ranked(times, i) + ((position % 100) * (Ranked(times, j) - Ranked(times, i))) \div 100
  BY DEF Quantile, position, i, j, n
<1>6. (position % 100) * (Ranked(times, j) - Ranked(times, i)) \in Int
  BY <1>2, <1>4
<1>7. QED
  BY <1>4, <1>5, <1>6

\* The mean's sum is a number.
SumOf(times) == FoldSeq(LAMBDA t, sum : t + sum, 0, times)

LEMMA SumIsANumber ==
    ASSUME NEW times \in Seq(Int)
    PROVE  SumOf(times) \in Int
<1> DEFINE D == DOMAIN times
           total == CHOOSE f : f = [s \in SUBSET D |->
                       IF s = {} THEN 0 ELSE times[CHOOSE x \in s : TRUE]
                                               + f[s \ {CHOOSE x \in s : TRUE}]]
<1>1. SumOf(times) = total[D]
  BY DEF SumOf, FoldSeq, FoldFunction, FoldFunctionOnSet, MapThenFoldSet
<1>2. times \in [D -> Int] /\ IsFiniteSet(D)
  <2>1. Len(times) \in Nat /\ D = 1 .. Len(times)
    BY LenProperties
  <2>2. IsFiniteSet(D)
    BY <2>1, FS_Interval
  <2>3. times \in [D -> Int]
    BY <2>1
  <2>4. QED
    BY <2>2, <2>3
<1> HIDE DEF D
<1>3. Adds(total, times, D)
  BY <1>2, ChoiceAdds
<1> HIDE DEF total
<1>4. total[D] \in Int
  BY <1>3 DEF Adds
<1>5. QED
  BY <1>1, <1>4

\* What a log measures, per leg, is a number.
LEMMA PerLegIsANumber ==
    ASSUME request \in Requests, request.log # Unset, ~LogRefused(request.log, request.query)
    PROVE  PerLeg(request.log, request.query, Legs) \in Int
<1> DEFINE kept == Kept(request.log, request.query)
           times == [k \in DOMAIN kept |-> kept[k].roundTrip]
           name == request.query.statistic
<1>1. /\ Len(kept) \in Nat /\ DOMAIN kept = 1 .. Len(kept)
      /\ kept \in Seq({request.log[k] : k \in DOMAIN request.log})
      /\ \A k \in DOMAIN kept : kept[k].roundTrip \in Int
  BY KeptAreSamples, LatenciesAreNumeric
<1>2. kept # <<>> /\ name \in {"mean", "median", "p95", "maximum", "minimum"}
  BY LatenciesAreNumeric DEF LogRefused
<1>3. times \in Seq(Int) /\ Len(times) = Len(kept) /\ Len(kept) # 0
  <2>1. times \in Seq(Int) /\ Len(times) = Len(kept)
    BY <1>1
  <2>2. Len(kept) = 0 => kept = <<>>
    BY <1>1, EmptySeq
  <2>3. QED
    BY <1>2, <2>1, <2>2
<1>4. /\ name = "mean" => Statistic(kept, name) = SumOf(times) \div Len(times)
      /\ name = "median" => Statistic(kept, name) = Quantile(times, 50)
      /\ name = "p95" => Statistic(kept, name) = Quantile(times, 95)
      /\ name = "maximum" => Statistic(kept, name) = Ranked(times, Len(times))
      /\ name = "minimum" => Statistic(kept, name) = Ranked(times, 1)
  BY DEF Statistic, SumOf
<1>5. PerLeg(request.log, request.query, Legs) = Statistic(kept, name) \div 2
  BY DEF PerLeg, Legs
<1> HIDE DEF times, kept, name
<1>6. times # <<>> /\ Len(times) \in Nat \ {0}
  BY <1>1, <1>3
<1>7. Statistic(kept, name) \in Int
  <2>1. CASE name = "mean"
    <3>1. SumOf(times) \in Int
      BY <1>3, SumIsANumber
    <3>2. QED
      BY <1>4, <1>6, <2>1, <3>1
  <2>2. CASE name \in {"median", "p95"}
    <3>1. Quantile(times, 50) \in Int /\ Quantile(times, 95) \in Int
      BY <1>3, <1>6, QuantileIsANumber
    <3>2. QED
      BY <1>4, <2>2, <3>1
  <2>4. CASE name \in {"maximum", "minimum"}
    <3>1. Ranked(times, Len(times)) \in Int /\ Ranked(times, 1) \in Int
      BY <1>3, <1>6, RankedIsOne
    <3>2. QED
      BY <1>4, <2>4, <3>1
  <2>5. QED
    BY <1>2, <2>1, <2>2, <2>4
<1>8. QED
  BY <1>5, <1>7

-----------------------------------------------------------------------------
(* The population of the summary                                           *)

\* What episodes have observed, together.
Observed(found) == FoldSeq(LAMBDA e, sum : e.observations + sum, 0, found)

\* It is a total of what each of them has.
LEMMA ObservedIsATotal ==
    ASSUME NEW found, IsFiniteSet(DOMAIN found),
           \A e \in DOMAIN found : found[e].observations \in Int
    PROVE  \E f : /\ Adds(f, [e \in DOMAIN found |-> found[e].observations], DOMAIN found)
                  /\ Observed(found) = f[DOMAIN found]
<1> DEFINE D == DOMAIN found
           c == [s \in SUBSET D |-> CHOOSE x \in s : TRUE]
           w == [e \in D |-> found[e].observations]
           IsSum(f) == f = [s \in SUBSET D |-> IF s = {} THEN 0
                                               ELSE found[CHOOSE x \in s : TRUE].observations
                                                      + f[s \ {CHOOSE x \in s : TRUE}]]
           total == CHOOSE f : IsSum(f)
<1>1. Observed(found) = total[D]
  BY DEF Observed, FoldSeq, FoldFunction, FoldFunctionOnSet, MapThenFoldSet
<1>2. w \in [D -> Int] /\ \A e \in D : w[e] = found[e].observations
  OBVIOUS
<1>3. \A s \in SUBSET D : c[s] = CHOOSE x \in s : TRUE
  OBVIOUS
<1>4. Chooses(c, D)
  BY <1>3 DEF Chooses
<1> HIDE DEF w, c
<1>5. ASSUME NEW f PROVE IsSum(f) <=> IsTotal(f, w, c, D)
  <2> DEFINE left(s) == IF s = {} THEN 0 ELSE found[CHOOSE x \in s : TRUE].observations
                                                + f[s \ {CHOOSE x \in s : TRUE}]
             right(s) == IF s = {} THEN 0 ELSE w[c[s]] + f[s \ {c[s]}]
  <2>1. \A s \in SUBSET D : left(s) = right(s)
    <3> SUFFICES ASSUME NEW s \in SUBSET D, s # {} PROVE left(s) = right(s)
      OBVIOUS
    <3>1. w[c[s]] = found[c[s]].observations
      BY <1>2, <1>4 DEF Chooses
    <3>2. c[s] = CHOOSE x \in s : TRUE
      BY <1>3
    <3>3. left(s) = found[c[s]].observations + f[s \ {c[s]}]
      BY <3>2
    <3>4. QED
      BY <3>1, <3>3
  <2>2. IsSum(f) <=> f = [s \in SUBSET D |-> left(s)]
    OBVIOUS
  <2>3. IsTotal(f, w, c, D) <=> f = [s \in SUBSET D |-> right(s)]
    BY DEF IsTotal
  <2> HIDE DEF left, right, IsSum
  <2>4. [s \in SUBSET D |-> left(s)] = [s \in SUBSET D |-> right(s)]
    BY <2>1
  <2>5. QED
    BY <2>2, <2>3, <2>4
<1> HIDE DEF IsSum
<1>6. IsTotal(total, w, c, D)
  <2>1. \E f : IsTotal(f, w, c, D)
    BY <1>2, <1>4, TotalSum
  <2>2. QED
    BY <1>5, <2>1
<1> HIDE DEF total
<1>7. Adds(total, w, D)
  BY <1>2, <1>4, <1>6, TotalAdds
<1>8. QED
  BY <1>1, <1>7 DEF w

\* The highest of numbers.
LEMMA HighestIsHighest ==
    ASSUME NEW S \in SUBSET Int, IsFiniteSet(S), S # {}
    PROVE  Highest(S) \in S /\ \A x \in S : x <= Highest(S)
<1>1. PICK y \in S : \A x \in S : y >= x
  BY LeastAndGreatest
<1>2. y \in S /\ \A x \in S : x <= y
  BY <1>1
<1>3. QED
  BY <1>2 DEF Highest

\* The gap of the rows.
Gap2 == ResolvedGap2(rows, Cadence, request.tolerance)

\* The episodes observe the crossable rows, and the largest of their peaks is
\* the best crossable edge.
LEMMA EpisodesDescribeTheRows ==
    ASSUME IsFeed(rows), episodes = EpisodesOf(rows, Gap2)
    PROVE  LET peaks == {episodes[e].peak : e \in DOMAIN episodes}
           IN  /\ Observed(episodes) = Cardinality(CrossableAt)
               /\ peaks = {} <=> CrossableAt = {}
               /\ episodes = <<>> <=> CrossableAt = {}
               /\ CrossableAt # {} => Highest(NetsOf(CrossableAt)) = Highest(peaks)
<1> DEFINE peaks == {episodes[e].peak : e \in DOMAIN episodes}
           nets == NetsOf(CrossableAt)
<1>1. CrossableAt = Chosen(rows)
  BY DEF CrossableAt, Chosen
<1>2. /\ \A e \in DOMAIN episodes : \E k \in CrossableAt : episodes[e].peak = rows[k].net
      /\ \A k \in CrossableAt : \E e \in DOMAIN episodes : rows[k].net <= episodes[e].peak
  BY <1>1, PeaksAreNets
<1>3. DOMAIN rows = 1 .. Len(rows) /\ Len(rows) \in Nat
      /\ \A k \in DOMAIN rows : rows[k].net \in Int
  BY NumericDomain DEF IsFeed
<1>4. IsFiniteSet(CrossableAt)
  <2>1. CrossableAt \in SUBSET (1 .. Len(rows)) /\ IsFiniteSet(1 .. Len(rows))
    BY <1>3, FS_Interval DEF CrossableAt
  <2>2. QED
    BY <2>1, FS_Subset
<1>5. IsFiniteSet(nets) /\ nets \in SUBSET Int /\ peaks \in SUBSET nets
  <2>1. IsFiniteSet(nets)
    <3> DEFINE f == [k \in CrossableAt |-> rows[k].net]
    <3>1. f \in Surjection(CrossableAt, nets)
      BY DEF NetsOf, Surjection
    <3> HIDE DEF f, nets
    <3>2. QED
      BY <1>4, <3>1, FS_Surjection
  <2>2. QED
    BY <1>2, <1>3, <2>1 DEF NetsOf, CrossableAt
<1>6. IsFiniteSet(peaks) /\ peaks \in SUBSET Int
  BY <1>5, FS_Subset
<1>7. peaks = {} <=> CrossableAt = {}
  BY <1>2
<1>8. ASSUME CrossableAt # {} PROVE Highest(nets) = Highest(peaks)
  <2>1. peaks # {} /\ nets # {}
    BY <1>7, <1>8 DEF NetsOf
  <2> HIDE DEF peaks
  <2>2. /\ Highest(peaks) \in peaks /\ \A x \in peaks : x <= Highest(peaks)
        /\ Highest(nets) \in nets /\ \A x \in nets : x <= Highest(nets)
    BY <1>5, <1>6, <2>1, HighestIsHighest
  <2>3. Highest(peaks) \in Int /\ Highest(nets) \in Int /\ Highest(peaks) <= Highest(nets)
    BY <1>5, <1>6, <2>2
  <2>4. PICK k \in CrossableAt : Highest(nets) = rows[k].net
    BY <2>2 DEF NetsOf
  <2>5. PICK e \in DOMAIN episodes : rows[k].net <= episodes[e].peak
    BY <1>2
  <2>6. episodes[e].peak \in peaks
    BY DEF peaks
  <2>7. episodes[e].peak \in Int /\ episodes[e].peak <= Highest(peaks)
    BY <1>6, <2>2, <2>6
  <2>8. QED
    BY <2>3, <2>4, <2>5, <2>7
<1>9. /\ DOMAIN episodes = 1 .. Len(Ascending(Starts(Crossable(rows), Gap2)))
      /\ \A e \in DOMAIN episodes : episodes[e].observations \in Int
  <2> DEFINE positive == Crossable(rows)
             runs == Len(Ascending(Starts(positive, Gap2)))
  <2>1. /\ DOMAIN episodes = 1 .. runs
        /\ \A e \in 1 .. runs : episodes[e].observations
                                  = LastOf(positive, Gap2, e) - FirstOf(positive, Gap2, e) + 1
    BY EpisodesAreRuns
  <2>2. Numeric(positive)
    BY CrossableLists
  <2> HIDE DEF positive
  <2>3. /\ Len(positive) \in Nat
        /\ \A e \in 1 .. runs : /\ FirstOf(positive, Gap2, e) \in 1 .. Len(positive)
                                /\ LastOf(positive, Gap2, e) \in 1 .. Len(positive)
    BY <2>2, RunsPartition
  <2>4. \A e \in 1 .. runs : episodes[e].observations \in Int
    BY <2>1, <2>3
  <2>5. QED
    BY <2>1, <2>4 DEF positive
<1>10. Len(Ascending(Starts(Crossable(rows), Gap2))) \in Nat
  <2>1. Numeric(Crossable(rows))
    BY CrossableLists
  <2>2. QED
    BY <2>1, RunsPartition
<1>11. episodes = <<>> <=> CrossableAt = {}
  <2>1. episodes = <<>> => peaks = {}
    OBVIOUS
  <2>2. peaks = {} => DOMAIN episodes = {}
    OBVIOUS
  <2>3. DOMAIN episodes = {} => episodes = <<>>
    BY DEF EpisodesOf
  <2>4. QED
    BY <1>7, <2>1, <2>2, <2>3
<1>12. Observed(episodes) = Cardinality(CrossableAt)
  <2>1. IsFiniteSet(DOMAIN episodes)
    BY <1>9, <1>10, FS_Interval
  <2>2. PICK f : /\ Adds(f, [e \in DOMAIN episodes |-> episodes[e].observations], DOMAIN episodes)
                 /\ Observed(episodes) = f[DOMAIN episodes]
    BY <1>9, <2>1, ObservedIsATotal
  <2>3. QED
    BY <1>1, <2>2, ObservationsAddUp
<1>13. QED
  BY <1>7, <1>8, <1>11, <1>12

-----------------------------------------------------------------------------
(* The order and the sweep                                                 *)

\* The order is the one asked for, at the latency that was settled.
Ordered ==
    /\ order = [latency |-> order.latency, allowance |-> request.allowance,
                minimum |-> request.minimum]
    /\ order.latency \in Int

\* It was accepted with the contracts.
Accepted ==
    /\ ~(order.latency <= 0) /\ ~(order.allowance < 0)
    /\ ~IsNoFraction(order.minimum)

\* What was swept, over which episodes, and that it could be.
Sweeping ==
    /\ pc \in {"baseline", "contracts", "price", "compare", "execute", "group", "capture",
               "classify", "sweep"} => sensitivity = Unset
    /\ pc \notin {"baseline", "DataQualityError", "ValueError"} => Ordered
    /\ pc \notin {"baseline", "contracts", "DataQualityError", "ValueError"} =>
          Accepted
    /\ sensitivity # Unset =>
          /\ Ordered /\ Accepted
          /\ pc # "swept" =>
                /\ latency # Unset /\ EpisodesFromReport(latency.captures) # <<>>
                /\ sensitivity = Sweep(EpisodesFromReport(latency.captures), order, "latency", Grid)
                /\ ~GridRefused("latency", Grid)
          /\ pc = "swept" =>
                /\ EpisodesFromReport(request.saved) # <<>>
                /\ sensitivity = Sweep(EpisodesFromReport(request.saved), order, "allowance",
                                       request.allowances)
                /\ ~GridRefused("allowance", request.allowances)

\* Nothing is ordered or swept at first.
LEMMA InitSweeping == Init => Sweeping
  BY DEF Init, Sweeping

\* A step on the way to the sweep keeps the order.
LEMMA OnTheWay ==
    ASSUME Sweeping, UNCHANGED <<request, order, sensitivity>>,
           pc \in {"price", "compare", "execute", "group", "capture"},
           pc' \in {"compare", "execute", "group", "capture", "classify"}
    PROVE  Sweeping'
  BY DEF Sweeping, Ordered, Accepted

\* An exception ends the call with what was swept before it.
LEMMA RaiseSweeping ==
    ASSUME Sweeping, NEW exception \in {"DataQualityError", "ValueError", "InsufficientDataError"},
           Raise(exception), exception = "InsufficientDataError" => pc = "done", pc # "swept"
    PROVE  Sweeping'
<1>1. /\ UNCHANGED <<request, order, latency, summary, sensitivity>> /\ pc' = exception
  BY DEF Raise, reported
<1>2. Grid' = Grid /\ (Ordered' <=> Ordered) /\ (Accepted' <=> Accepted)
  BY <1>1 DEF Grid, Ordered, Accepted
<1>3. QED
  BY <1>1, <1>2 DEF Sweeping

\* Every step keeps it.
LEMMA StepSweeping == IInv /\ Sweeping /\ [Next]_vars => Sweeping'
<1> SUFFICES ASSUME IInv, Sweeping, [Next]_vars PROVE Sweeping'
  OBVIOUS
<1>1. CASE BaselineRefused
  BY <1>1, RaiseSweeping DEF BaselineRefused
<1>2. CASE Baseline
  <2>1. /\ pc' = "contracts" /\ sensitivity = Unset /\ sensitivity' = Unset /\ request' = request
        /\ \E known \in Int : order' = [latency |-> known, allowance |-> request.allowance,
                                      minimum |-> request.minimum]
    <3> DEFINE known == IF request.log # Unset THEN PerLeg(request.log, request.query, Legs)
                        ELSE IF request.latency # Unset THEN request.latency
                        ELSE ConfiguredLatency
    <3>1. order' = [latency |-> known, allowance |-> request.allowance,
                    minimum |-> request.minimum]
      BY <1>2 DEF Baseline
    <3>2. known \in Int
      <4>1. request \in Requests /\ (request.log # Unset => ~LogRefused(request.log, request.query))
        BY <1>2 DEF Baseline, IInv, Loaded
      <4>2. CASE request.log # Unset
        BY <4>1, <4>2, PerLegIsANumber
      <4>3. CASE request.log = Unset
        BY <4>1, <4>3, LatenciesAreNumeric
      <4>4. QED
        BY <4>2, <4>3
    <3> HIDE DEF known
    <3>3. QED
      BY <1>2, <3>1, <3>2 DEF Baseline, Sweeping, reported
  <2>2. Ordered'
    BY <2>1 DEF Ordered
  <2>3. QED
    BY <2>1, <2>2 DEF Sweeping
<1>3. CASE LoadContracts
  <2>1. CASE Raise("ValueError")
    BY <1>3, <2>1, RaiseSweeping DEF LoadContracts
  <2>2. CASE ~Raise("ValueError")
    <3>1. /\ pc = "contracts" /\ pc' = "price" /\ UNCHANGED <<request, order, sensitivity>>
          /\ Accepted
      BY <1>3, <2>2 DEF LoadContracts, reported, RequestRefused, Accepted
    <3>2. QED
      BY <3>1 DEF Sweeping, Ordered, Accepted
  <2>3. QED
    BY <2>1, <2>2
<1>4. CASE Price
  BY <1>4, OnTheWay DEF Price, reported
<1>5. CASE CompareContracts
  BY <1>5, OnTheWay DEF CompareContracts, reported
<1>6. CASE AssessExecution
  BY <1>6, OnTheWay DEF AssessExecution, reported
<1>7. CASE Group
  BY <1>7, OnTheWay DEF Group, reported
<1>8. CASE Capture
  BY <1>8, OnTheWay DEF Capture
<1>9. CASE Classify
  <2>1. /\ pc = "classify" /\ pc' = "sweep" /\ UNCHANGED <<request, order, sensitivity>>
    BY <1>9 DEF Classify
  <2>2. QED
    BY <2>1 DEF Sweeping, Ordered, Accepted
<1>10. CASE SweepLatency
  <2>1. CASE Raise("ValueError")
    BY <1>10, <2>1, RaiseSweeping DEF SweepLatency
  <2>2. CASE ~Raise("ValueError")
    <3> DEFINE measured == IF latency = Unset THEN <<>> ELSE EpisodesFromReport(latency.captures)
    <3>1. /\ pc = "sweep" /\ pc' = "done" /\ UNCHANGED <<request, order, latency, summary>>
          /\ ~(measured # <<>> /\ GridRefused("latency", Grid))
          /\ sensitivity' = IF measured = <<>> THEN Unset ELSE Sweep(measured, order, "latency", Grid)
      BY <1>10, <2>2 DEF SweepLatency
    <3>2. Grid' = Grid /\ (Ordered' <=> Ordered) /\ (Accepted' <=> Accepted)
      BY <3>1 DEF Grid, Ordered, Accepted
    <3>3. sensitivity' # Unset => /\ latency # Unset /\ measured = EpisodesFromReport(latency.captures)
                                  /\ measured # <<>> /\ ~GridRefused("latency", Grid)
                                  /\ sensitivity' = Sweep(measured, order, "latency", Grid)
      BY <3>1
    <3> HIDE DEF measured
    <3>4. QED
      BY <3>1, <3>2, <3>3 DEF Sweeping
  <2>3. QED
    BY <2>1, <2>2
<1>11. CASE SweepSaved
  <2>1. CASE Raise("ValueError") \/ Raise("InsufficientDataError")
    BY <1>11, <2>1, RaiseSweeping DEF SweepSaved
  <2>2. CASE ~(Raise("ValueError") \/ Raise("InsufficientDataError"))
    <3>1. /\ pc = "done" /\ pc' = "swept" /\ UNCHANGED <<request, order, latency, summary>>
          /\ EpisodesFromReport(request.saved) # <<>>
          /\ ~GridRefused("allowance", request.allowances)
          /\ sensitivity' = Sweep(EpisodesFromReport(request.saved), order, "allowance",
                                  request.allowances)
      BY <1>11, <2>2 DEF SweepSaved
    <3>2. QED
      BY <3>1 DEF Sweeping, Ordered, Accepted
  <2>3. QED
    BY <2>1, <2>2
<1>12. CASE UNCHANGED vars
  <2>1. Grid' = Grid /\ (Ordered' <=> Ordered) /\ (Accepted' <=> Accepted)
    BY <1>12 DEF vars, Grid, Ordered, Accepted
  <2>2. QED
    BY <1>12, <2>1 DEF vars, Sweeping, judged, reported
<1>13. QED
  BY <1>1, <1>2, <1>3, <1>4, <1>5, <1>6, <1>7, <1>8, <1>9, <1>10, <1>11, <1>12 DEF Next

\* What is swept is what was captured or saved, over a grid that was accepted.
THEOREM SweptAsAsked == Spec => []Sweeping
<1>1. Init => Sweeping
  BY InitSweeping
<1>2. IInv /\ Sweeping /\ [Next]_vars => Sweeping'
  BY StepSweeping
<1>3. QED
  BY <1>1, <1>2, Invariant, PTL DEF Spec

\* The stages after the summary, those after the gates are settled, and those
\* after the episodes are found and before a saved report replaces them.
Summarised == pc \in {"sweep", "done", "swept"} \/ summary # Unset \/ sensitivity # Unset
Settled == pc \in {"group", "capture", "classify"} \/ Summarised
Grouped == (pc \in {"capture", "classify"} \/ Summarised) /\ pc # "swept"

\* The crossable rows are those with an edge, if the gates are open; the
\* episodes, the captures and the summary are of those rows.
Populated ==
    /\ pc \in {"compare", "execute"} \/ Settled => IsFeed(rows)
    /\ Settled => \A k \in DOMAIN rows : rows[k].crossable = (Open /\ rows[k].net > 0)
    /\ Grouped => episodes = EpisodesOf(rows, Gap2)
    /\ pc # "swept" /\ (pc = "classify" \/ Summarised) =>
          latency = IF episodes = <<>> THEN Unset
                    ELSE [captures |-> episodes, survives |-> Survives(episodes, order)]
    /\ blocked > 0 => Blocks(status)
    /\ pc \in {"group", "capture", "classify"} => summary = Unset
    /\ summary # Unset =>
          /\ summary.crossable = Cardinality(CrossableAt)
          /\ summary.maximum = IF CrossableAt = {} THEN Unset ELSE Highest(NetsOf(CrossableAt))
          /\ pc # "swept" => summary.opportunities = Len(episodes)

\* Nothing is blocked, gated or reported at first.
LEMMA InitPopulated == Init => Populated
<1> SUFFICES ASSUME Init PROVE Populated
  OBVIOUS
<1>1. ~(blocked > 0)
  BY DEF Init
<1>2. QED
  BY <1>1 DEF Init, Populated, Settled, Grouped, Summarised

\* A step that keeps the rows, their gates and what is reported of them, and
\* does not go back, keeps the population.
LEMMA QuietPopulation ==
    ASSUME Populated,
           UNCHANGED <<request, order, rows, judged, execution, latency, summary>>,
           pc' \notin {"compare", "execute", "group", "capture", "classify"},
           Summarised' => Summarised,
           pc' # "swept" => episodes' = episodes /\ pc # "swept"
    PROVE  Populated'
<1>1. (Open' <=> Open) /\ CrossableAt' = CrossableAt /\ Gap2' = Gap2
      /\ blocked' = blocked /\ status' = status
  BY DEF Open, CrossableAt, Gap2, judged
<1>2. IsFeed(rows)' <=> IsFeed(rows)
  BY DEF IsFeed, Numeric
<1>3. NetsOf(CrossableAt)' = NetsOf(CrossableAt)
  BY <1>1 DEF NetsOf
<1>4. QED
  BY <1>1, <1>2, <1>3 DEF Populated, Settled, Grouped

\* Gating a feed leaves it one.
LEMMA GatedKeepsTheFeed ==
    ASSUME NEW open, Gated(open), IsFeed(rows),
           \A k \in DOMAIN rows :
               rows[k].net \in Int /\ {"at", "a", "b", "net", "crossable"} \subseteq DOMAIN rows[k]
    PROVE  /\ IsFeed(rows') /\ DOMAIN rows' = DOMAIN rows
           /\ \A k \in DOMAIN rows : /\ rows'[k].net = rows[k].net
                                     /\ rows'[k].crossable = (open /\ rows[k].net > 0)
<1>1. /\ DOMAIN rows' = DOMAIN rows
      /\ \A k \in DOMAIN rows : /\ rows'[k].at = rows[k].at /\ rows'[k].net = rows[k].net
                                /\ rows'[k].crossable = (open /\ rows[k].net > 0)
  BY GatedKeepsRows
<1>2. Len(rows) \in Nat /\ DOMAIN rows = 1 .. Len(rows)
  BY NumericDomain DEF IsFeed
<1>3. rows' \in Seq({rows'[k] : k \in DOMAIN rows})
  BY <1>2 DEF Gated
<1>4. Numeric(rows')
  BY <1>1, <1>3 DEF IsFeed, Numeric
<1>5. QED
  BY <1>1, <1>4 DEF IsFeed

\* Priced rows are a feed.
LEMMA PricedRowsAreAFeed ==
    ASSUME IInv, Price
    PROVE  IsFeed(rows')
<1>1. request \in Requests /\ pc' = "compare" /\ Rowed'
  BY PriceIInv DEF IInv, Loaded, Price
<1>2. /\ DOMAIN rows' = DOMAIN rows
      /\ \A k \in DOMAIN rows : rows'[k].at = rows[k].at /\ rows'[k].net \in Int
  BY <1>1 DEF Rowed, Price
<1>3. /\ DOMAIN rows = 1 .. Len(request.rows) /\ Len(request.rows) \in Nat
      /\ \A k \in DOMAIN rows : rows[k].at \in Int
      /\ \A k, l \in DOMAIN rows : k < l => rows[k].at < rows[l].at
  BY <1>1, RowsArePriced DEF IInv, Rowed
<1>4. rows' \in Seq({rows'[k] : k \in DOMAIN rows})
  <2>1. rows' = [k \in DOMAIN rows |-> rows'[k]]
    BY DEF Price
  <2>2. QED
    BY <1>3, <2>1
<1>5. Numeric(rows')
  BY <1>2, <1>3, <1>4 DEF Numeric
<1>6. QED
  BY <1>2, <1>3, <1>5 DEF IsFeed

\* Every step keeps the population.
LEMMA StepPopulated == IInv /\ Sweeping /\ Populated /\ [Next]_vars => Populated'
<1> SUFFICES ASSUME IInv, Sweeping, Populated, [Next]_vars PROVE Populated'
  OBVIOUS
<1>0. pc \in {"baseline", "contracts", "price", "compare", "execute"} => summary = Unset /\ sensitivity = Unset
  BY DEF IInv, Reported, Sweeping
<1>1. ASSUME NEW exception \in {"DataQualityError", "ValueError", "InsufficientDataError"},
             Raise(exception), pc # "swept"
      PROVE  Populated'
  BY <1>1, QuietPopulation DEF Raise, reported, Summarised
<1>2. CASE BaselineRefused
  BY <1>1, <1>2 DEF BaselineRefused
<1>3. CASE Baseline
  <2>1. /\ pc = "baseline" /\ pc' = "contracts" /\ summary = Unset /\ summary' = Unset
        /\ sensitivity = Unset /\ sensitivity' = Unset
        /\ blocked' = blocked /\ status' = status
    BY <1>0, <1>3 DEF Baseline, reported, judged
  <2>2. QED
    BY <2>1 DEF Populated, Settled, Grouped, Summarised
<1>4. CASE LoadContracts
  <2>1. CASE Raise("ValueError")
    BY <1>1, <1>4, <2>1 DEF LoadContracts
  <2>2. CASE ~Raise("ValueError")
    <3>1. /\ pc = "contracts" /\ pc' = "price" /\ summary = Unset /\ summary' = Unset
          /\ sensitivity = Unset /\ sensitivity' = Unset
          /\ blocked' = blocked /\ status' = status
      BY <1>0, <1>4, <2>2 DEF LoadContracts, reported, judged
    <3>2. QED
      BY <3>1 DEF Populated, Settled, Grouped, Summarised
  <2>3. QED
    BY <2>1, <2>2
<1>5. CASE Price
  <2>1. /\ pc = "price" /\ pc' = "compare" /\ summary = Unset /\ summary' = Unset
        /\ sensitivity = Unset /\ sensitivity' = Unset
        /\ blocked' = blocked /\ status' = status
    BY <1>0, <1>5 DEF Price, reported, judged
  <2>2. IsFeed(rows)'
    <3>1. IsFeed(rows')
      BY <1>5, PricedRowsAreAFeed
    <3>2. QED
      BY <3>1 DEF IsFeed, Numeric
  <2>3. QED
    BY <2>1, <2>2 DEF Populated, Settled, Grouped, Summarised
<1>6. CASE CompareContracts
  <2>1. /\ pc = "compare" /\ pc' = "execute" /\ summary = Unset /\ summary' = Unset
        /\ sensitivity = Unset /\ sensitivity' = Unset
        /\ Gated(~Blocks(status'))
        /\ blocked' = IF Blocks(status') THEN Cardinality(Positive) ELSE 0
    BY <1>0, <1>6 DEF CompareContracts, reported
  <2>2. IsFeed(rows)'
    <3>1. IsFeed(rows')
      BY <2>1, GatedKeepsTheFeed DEF IInv, Rowed, Populated
    <3>2. QED
      BY <3>1 DEF IsFeed, Numeric
  <2>3. QED
    BY <2>1, <2>2 DEF Populated, Settled, Grouped, Summarised
<1>7. CASE AssessExecution
  <2>1. /\ pc = "execute" /\ pc' = "group" /\ summary = Unset /\ summary' = Unset
        /\ sensitivity = Unset /\ sensitivity' = Unset
        /\ Gated(~Blocks(status) /\ execution'.executable)
        /\ status' = status /\ blocked' = blocked
    BY <1>0, <1>7 DEF AssessExecution, reported, judged
  <2>2. Open' <=> ~Blocks(status) /\ execution'.executable
    BY <2>1 DEF Open
  <2>3. /\ IsFeed(rows') /\ DOMAIN rows' = DOMAIN rows
        /\ \A k \in DOMAIN rows :
              rows'[k].net = rows[k].net
              /\ rows'[k].crossable = ((~Blocks(status) /\ execution'.executable) /\ rows[k].net > 0)
    BY <2>1, GatedKeepsTheFeed DEF IInv, Rowed, Populated
  <2>4. IsFeed(rows)'
    BY <2>3 DEF IsFeed, Numeric
  <2>5. \A k \in DOMAIN rows' : rows'[k].crossable = (Open' /\ rows'[k].net > 0)
    BY <2>2, <2>3
  <2>6. QED
    BY <2>1, <2>4, <2>5 DEF Populated, Settled, Grouped, Summarised
<1>8. CASE Group
  <2>1. /\ pc = "group" /\ pc' = "capture" /\ summary = Unset /\ episodes' = EpisodesOf(rows, Gap2)
        /\ UNCHANGED <<request, order, rows, judged, execution, latency, summary>>
        /\ sensitivity = Unset /\ sensitivity' = Unset
    BY <1>8 DEF Group, reported, Gap2, Populated, Sweeping
  <2>2. (Open' <=> Open) /\ Gap2' = Gap2 /\ rows' = rows /\ blocked' = blocked /\ status' = status
    BY <2>1 DEF Open, Gap2, judged
  <2>3. QED
    BY <2>1, <2>2 DEF Populated, Settled, Grouped, Summarised, IsFeed, Numeric
<1>9. CASE Capture
  <2>1. /\ pc = "capture" /\ pc' = "classify" /\ summary = Unset
        /\ latency' = IF episodes = <<>> THEN Unset
                      ELSE [captures |-> episodes, survives |-> Survives(episodes, order)]
        /\ UNCHANGED <<request, order, rows, judged, execution, episodes, summary>>
        /\ sensitivity = Unset /\ sensitivity' = Unset
    BY <1>9 DEF Capture, Populated, Sweeping
  <2>2. /\ (Open' <=> Open) /\ Gap2' = Gap2 /\ rows' = rows /\ blocked' = blocked /\ status' = status
        /\ CrossableAt' = CrossableAt /\ order' = order /\ episodes' = episodes
    BY <2>1 DEF Open, Gap2, judged, CrossableAt
  <2>3. QED
    BY <2>1, <2>2 DEF Populated, Settled, Grouped, Summarised, IsFeed, Numeric, NetsOf
<1>10. CASE Classify
  <2>1. /\ pc = "classify" /\ pc' = "sweep"
        /\ summary'.crossable = Cardinality(CrossableAt)
        /\ summary'.maximum = IF CrossableAt = {} THEN Unset ELSE Highest(NetsOf(CrossableAt))
        /\ summary'.opportunities = Len(episodes)
        /\ UNCHANGED <<request, order, rows, judged, execution, episodes, latency>>
    BY <1>10 DEF Classify, Population
  <2>2. /\ (Open' <=> Open) /\ Gap2' = Gap2 /\ rows' = rows /\ blocked' = blocked /\ status' = status
        /\ CrossableAt' = CrossableAt /\ order' = order /\ episodes' = episodes
        /\ NetsOf(CrossableAt)' = NetsOf(CrossableAt)
    BY <2>1 DEF Open, Gap2, judged, CrossableAt, NetsOf
  <2>3. QED
    BY <2>1, <2>2 DEF Populated, Settled, Grouped, Summarised, IsFeed, Numeric
<1>11. CASE SweepLatency
  <2>1. CASE Raise("ValueError")
    BY <1>1, <1>11, <2>1 DEF SweepLatency
  <2>2. CASE ~Raise("ValueError")
    <3>1. /\ UNCHANGED <<request, order, rows, judged, execution, episodes, latency, summary>>
          /\ pc = "sweep" /\ pc' = "done"
      BY <1>11, <2>2 DEF SweepLatency
    <3>2. QED
      BY <3>1, QuietPopulation DEF Summarised
  <2>3. QED
    BY <2>1, <2>2
<1>12. CASE SweepSaved
  <2>1. CASE Raise("ValueError") \/ Raise("InsufficientDataError")
    BY <1>1, <1>12, <2>1 DEF SweepSaved
  <2>2. CASE ~(Raise("ValueError") \/ Raise("InsufficientDataError"))
    <3>1. /\ UNCHANGED <<request, order, rows, judged, execution, latency, summary>>
          /\ pc = "done" /\ pc' = "swept"
      BY <1>12, <2>2 DEF SweepSaved
    <3>2. QED
      BY <3>1, QuietPopulation DEF Summarised
  <2>3. QED
    BY <2>1, <2>2
<1>13. CASE UNCHANGED vars
  BY <1>13 DEF vars, Populated, Settled, Grouped, Summarised, IsFeed, Numeric, NetsOf, CrossableAt, Open,
               Gap2, judged, reported
<1>14. QED
  BY <1>2, <1>3, <1>4, <1>5, <1>6, <1>7, <1>8, <1>9, <1>10, <1>11, <1>12, <1>13 DEF Next

\* The gates, the episodes and the summary are of one set of rows at every stage.
THEOREM OnePopulation == Spec => []Populated
<1>1. Init => Populated
  BY InitPopulated
<1>2. IInv /\ Sweeping /\ Populated /\ [Next]_vars => Populated'
  BY StepPopulated
<1>3. QED
  BY <1>1, <1>2, Invariant, SweptAsAsked, PTL DEF Spec

\* The summary's figures describe one population: the crossable rows are those
\* of the episodes, the best edge is the largest peak, and gates that are shut
\* leave nothing to count or to sweep.
THEOREM SummaryDescribesOnePopulation == Spec => []SummaryIsOfOnePopulation
<1>1. IInv /\ Populated /\ Sweeping => SummaryIsOfOnePopulation
  <2> SUFFICES ASSUME IInv, Populated, Sweeping, summary # Unset, pc # "swept"
               PROVE  LET peaks == {episodes[e].peak : e \in DOMAIN episodes}
                      IN  /\ summary.crossable = Observed(episodes)
                          /\ summary.opportunities = Len(episodes)
                          /\ summary.maximum = IF peaks = {} THEN Unset ELSE Highest(peaks)
                          /\ (~Open \/ Positive = {}) =>
                                summary.crossable = 0 /\ sensitivity = Unset
                          /\ blocked > 0 => summary.crossable = 0
    BY DEF SummaryIsOfOnePopulation, Observed
  <2> DEFINE peaks == {episodes[e].peak : e \in DOMAIN episodes}
  <2>1. IsFeed(rows) /\ episodes = EpisodesOf(rows, Gap2)
    BY DEF Populated, Settled, Grouped, Summarised
  <2>2. /\ Observed(episodes) = Cardinality(CrossableAt)
        /\ peaks = {} <=> CrossableAt = {}
        /\ episodes = <<>> <=> CrossableAt = {}
        /\ CrossableAt # {} => Highest(NetsOf(CrossableAt)) = Highest(peaks)
    BY <2>1, EpisodesDescribeTheRows
  <2> HIDE DEF peaks
  <2>3. /\ summary.crossable = Observed(episodes) /\ summary.opportunities = Len(episodes)
        /\ summary.maximum = IF peaks = {} THEN Unset ELSE Highest(peaks)
    BY <2>2 DEF Populated
  <2>4. ASSUME ~Open \/ Positive = {} PROVE summary.crossable = 0 /\ sensitivity = Unset
    <3>1. CrossableAt = {}
      BY <2>4 DEF Populated, Settled, Summarised, CrossableAt, Positive
    <3>2. episodes = <<>> /\ latency = Unset
      BY <2>2, <3>1 DEF Populated, Summarised
    <3>3. QED
      BY <2>2, <2>3, <3>1, <3>2, FS_EmptySet DEF Sweeping
  <2>5. blocked > 0 => ~Open
    BY DEF Populated, Open
  <2>6. QED
    BY <2>3, <2>4, <2>5 DEF peaks
<1>2. QED
  BY <1>1, Invariant, OnePopulation, SweptAsAsked, PTL

-----------------------------------------------------------------------------
(* What the sweep says                                                     *)

\* An order that was accepted, and captures that can be assessed under it.
IsOrder(o) ==
    /\ o = [latency |-> o.latency, allowance |-> o.allowance, minimum |-> o.minimum]
    /\ o.latency \in Nat \ {0} /\ o.allowance \in Nat
    /\ o.minimum.num \in Nat /\ o.minimum.den \in Nat

AreCaptures(found) ==
    /\ Len(found) \in Nat /\ DOMAIN found = 1 .. Len(found)
    /\ \A e \in DOMAIN found : IsCapture(found[e])

\* The tent over a window that is held for some time has a positive mean.
LEMMA CapturedIsPositive ==
    ASSUME NEW p \in Nat \ {0}, NEW d \in Nat, NEW o \in 0 .. d, NEW r \in Nat, r < d
    PROVE  /\ CapturedEdge(p, o, d, r).num \in Nat \ {0}
           /\ CapturedEdge(p, o, d, r).den \in Nat \ {0}
<1> DEFINE lower   == Larger(r, o)
           rising  == IF o > r THEN o * o - r * r ELSE 0
           falling == (d - lower) * (d - lower)
           rise    == Larger(o, 1)
           fall    == Larger(d - o, 1)
<1>1. CapturedEdge(p, o, d, r) = [num |-> p * (rising * fall + falling * rise),
                                  den |-> 2 * rise * fall * (d - r)]
  BY DEF CapturedEdge
<1>2. rise \in Nat \ {0} /\ fall \in Nat \ {0} /\ d - r \in Nat \ {0}
  BY DEF Larger
<1>3. rising \in Nat /\ (o > r => rising \in Nat \ {0})
  <2>1. ASSUME o > r PROVE o * o - r * r \in Nat \ {0}
    <3>1. (o - r) * (o + r) \in Nat \ {0}
      BY <2>1, TimesIsPositive
    <3>2. (o - r) * (o + r) = o * o - r * r
      OBVIOUS
    <3>3. QED
      BY <3>1, <3>2
  <2>2. QED
    BY <2>1
<1>4. falling \in Nat /\ (~(o > r) => falling \in Nat \ {0})
  <2>1. lower \in Int /\ d - lower \in Nat /\ (~(o > r) => d - lower \in Nat \ {0})
    BY DEF Larger
  <2> HIDE DEF lower
  <2>2. d - lower = 0 \/ falling \in Nat \ {0}
    BY <2>1, TimesIsPositive
  <2>3. QED
    BY <2>1, <2>2
<1> HIDE DEF lower, rising, falling, rise, fall
<1>5. rising * fall \in Nat /\ falling * rise \in Nat
  BY <1>2, <1>3, <1>4
<1>6. rising * fall + falling * rise \in Nat \ {0}
  <2>1. CASE o > r
    <3>1. rising * fall \in Nat \ {0}
      BY <2>1, <1>2, <1>3, TimesIsPositive
    <3>2. QED
      BY <3>1, <1>5
  <2>2. CASE ~(o > r)
    <3>1. falling * rise \in Nat \ {0}
      BY <2>2, <1>2, <1>4, TimesIsPositive
    <3>2. QED
      BY <3>1, <1>5
  <2>3. QED
    BY <2>1, <2>2
<1>7. p * (rising * fall + falling * rise) \in Nat \ {0}
  BY <1>6, TimesIsPositive
<1>8. 2 * rise \in Nat \ {0}
  BY <1>2
<1>9. (2 * rise) * fall \in Nat \ {0}
  BY <1>2, <1>8, TimesIsPositive
<1>10. 2 * rise * fall * (d - r) \in Nat \ {0}
  BY <1>2, <1>9, TimesIsPositive
<1>11. QED
  BY <1>1, <1>7, <1>10

\* When an episode is captured: the position is held, the mean edge exceeds the
\* allowance, and it is held long enough.
LEMMA CapturableMeans ==
    ASSUME NEW c, IsCapture(c), NEW o, IsOrder(o)
    PROVE  LET d == Duration(c)
               r == Legs * o.latency
               edge == CapturedEdge(c.peak, c.peakOffset, d, r)
           IN  /\ d \in Nat /\ r \in Nat
               /\ r < d => edge.num \in Nat \ {0} /\ edge.den \in Nat \ {0}
               /\ StatusUnder(c, o) = "capturable" <=>
                     /\ r < d /\ edge.num > o.allowance * edge.den
                     /\ (d - r) * o.minimum.den >= o.minimum.num * d
<1> DEFINE d == Duration(c)
           r == Legs * o.latency
           edge == CapturedEdge(c.peak, c.peakOffset, d, r)
<1>1. d \in Nat /\ r \in Nat
  BY DEF IsCapture, IsOrder, Legs
<1>2. r < d => edge.num \in Nat \ {0} /\ edge.den \in Nat \ {0}
  BY <1>1, CapturedIsPositive DEF IsCapture
<1>3. StatusUnder(c, o) =
         IF d - r <= 0 \/ edge.num <= o.allowance * edge.den THEN "not_capturable"
         ELSE IF (d - r) * o.minimum.den < o.minimum.num * d THEN "marginal"
         ELSE "capturable"
  BY DEF StatusUnder, CaptureStatus
<1> HIDE DEF d, r, edge
<1>4. r < d => o.allowance * edge.den \in Int
  BY <1>2 DEF IsOrder
<1>5. /\ (d - r) * o.minimum.den \in Int /\ o.minimum.num * d \in Int
  BY <1>1 DEF IsOrder
<1> DEFINE left == (d - r) * o.minimum.den
           right == o.minimum.num * d
           free == o.allowance * edge.den
<1>6. /\ r < d => free \in Int
      /\ left \in Int /\ right \in Int
      /\ StatusUnder(c, o) = IF d - r <= 0 \/ edge.num <= free THEN "not_capturable"
                             ELSE IF left < right THEN "marginal" ELSE "capturable"
  BY <1>3, <1>4, <1>5
<1> HIDE DEF left, right, free
<1>7. StatusUnder(c, o) = "capturable" <=> r < d /\ edge.num > free /\ left >= right
  <2>1. CASE r < d
    BY <1>1, <1>2, <1>6, <2>1
  <2>2. CASE ~(r < d)
    BY <1>1, <1>6, <2>2
  <2>3. QED
    BY <2>1, <2>2
<1>8. QED
  BY <1>1, <1>2, <1>7 DEF d, r, edge, left, right, free

\* At its configured value the sweep assesses the order itself, and at another
\* value that may be swept, another order.
LEMMA AnotherOrder ==
    ASSUME NEW o, IsOrder(o)
    PROVE  /\ \A axis \in {"latency", "allowance"} : At(o, axis, BaselineOf(o, axis)) = o
           /\ \A v \in Nat \ {0} :
                 /\ IsOrder(At(o, "latency", v)) /\ At(o, "latency", v).latency = v
                 /\ At(o, "latency", v).allowance = o.allowance
                 /\ At(o, "latency", v).minimum = o.minimum
           /\ \A v \in Nat :
                 /\ IsOrder(At(o, "allowance", v)) /\ At(o, "allowance", v).allowance = v
                 /\ At(o, "allowance", v).latency = o.latency
                 /\ At(o, "allowance", v).minimum = o.minimum
<1> DEFINE Built(l, a) == [latency |-> l, allowance |-> a, minimum |-> o.minimum]
<1>1. o = Built(o.latency, o.allowance)
  BY DEF IsOrder
<1>2. /\ \A v : [Built(o.latency, o.allowance) EXCEPT !.latency = v] = Built(v, o.allowance)
      /\ \A v : [Built(o.latency, o.allowance) EXCEPT !.allowance = v] = Built(o.latency, v)
  OBVIOUS
<1> HIDE DEF Built
<1>3. /\ \A v : At(o, "latency", v) = Built(v, o.allowance)
      /\ \A v : At(o, "allowance", v) = Built(o.latency, v)
  <2>1. /\ \A v : At(o, "latency", v) = [o EXCEPT !.latency = v]
        /\ \A v : At(o, "allowance", v) = [o EXCEPT !.allowance = v]
    BY DEF At
  <2>2. QED
    BY <1>1, <1>2, <2>1
<1>4. \A l, a : Built(l, a).latency = l /\ Built(l, a).allowance = a /\ Built(l, a).minimum = o.minimum
  BY DEF Built
<1>5. \A l \in Nat \ {0}, a \in Nat : IsOrder(Built(l, a))
  BY DEF IsOrder, Built
<1>6. o.latency \in Nat \ {0} /\ o.allowance \in Nat
  BY DEF IsOrder
<1>7. BaselineOf(o, "latency") = o.latency /\ BaselineOf(o, "allowance") = o.allowance
  BY DEF BaselineOf
<1>8. \A axis \in {"latency", "allowance"} : At(o, axis, BaselineOf(o, axis)) = o
  BY <1>1, <1>3, <1>7
<1>9. QED
  BY <1>3, <1>4, <1>5, <1>6, <1>8

\* Without an allowance, what a slower round trip captures a faster one does.
LEMMA FasterCaptures ==
    ASSUME NEW c, IsCapture(c), NEW o, IsOrder(o), NEW q, IsOrder(q),
           o.allowance = 0, q.allowance = 0, q.minimum = o.minimum, q.latency <= o.latency,
           StatusUnder(c, o) = "capturable"
    PROVE  StatusUnder(c, q) = "capturable"
<1> DEFINE d == Duration(c)
           r == Legs * o.latency
           s == Legs * q.latency
           edge == CapturedEdge(c.peak, c.peakOffset, d, s)
           least == o.minimum.num * d
<1>1. /\ d \in Nat /\ r \in Nat /\ r < d /\ (d - r) * o.minimum.den >= least
  BY CapturableMeans
<1>2. /\ s \in Nat /\ (s < d => edge.num \in Nat \ {0} /\ edge.den \in Nat \ {0})
      /\ StatusUnder(c, q) = "capturable" <=>
            /\ s < d /\ edge.num > q.allowance * edge.den /\ (d - s) * q.minimum.den >= least
  BY CapturableMeans
<1>3. s <= r
  BY DEF IsOrder, Legs
<1>4. o.minimum.den \in Nat /\ least \in Int
  BY <1>1 DEF IsOrder
<1> HIDE DEF d, r, s, edge, least
<1>5. o.minimum.den * (d - r) <= o.minimum.den * (d - s) /\ d - s \in Int /\ d - r \in Int
  BY <1>1, <1>2, <1>3, <1>4, TimesIsMonotone
<1>6. (d - s) * o.minimum.den >= least
  BY <1>1, <1>4, <1>5
<1>7. s < d /\ edge.num > 0 * edge.den
  BY <1>1, <1>2, <1>3
<1>8. QED
  BY <1>2, <1>6, <1>7

\* What a larger allowance leaves of an episode a smaller one does.
LEMMA SmallerAllowanceCaptures ==
    ASSUME NEW c, IsCapture(c), NEW o, IsOrder(o), NEW q, IsOrder(q),
           q.latency = o.latency, q.minimum = o.minimum, q.allowance <= o.allowance,
           StatusUnder(c, o) = "capturable"
    PROVE  StatusUnder(c, q) = "capturable"
<1> DEFINE d == Duration(c)
           r == Legs * o.latency
           edge == CapturedEdge(c.peak, c.peakOffset, d, r)
           least == o.minimum.num * d
           held == (d - r) * o.minimum.den
<1>1. /\ r < d => edge.num \in Nat \ {0} /\ edge.den \in Nat \ {0}
      /\ r < d /\ edge.num > o.allowance * edge.den /\ held >= least
  BY CapturableMeans
<1>2. StatusUnder(c, q) = "capturable" <=>
            /\ r < d /\ edge.num > q.allowance * edge.den /\ held >= least
  BY CapturableMeans
<1>3. o.allowance \in Nat /\ q.allowance \in Nat
  BY DEF IsOrder
<1> HIDE DEF d, r, edge, least, held
<1>4. edge.den * q.allowance <= edge.den * o.allowance
  BY <1>1, <1>3, TimesIsMonotone
<1>5. edge.num > q.allowance * edge.den
  BY <1>1, <1>3, <1>4
<1>6. QED
  BY <1>1, <1>2, <1>5

\* A verdict survives where some episode is capturable; the episodes counted are
\* no more than there are.
LEMMA SurvivesMeans ==
    ASSUME NEW found, AreCaptures(found), NEW o
    PROVE  /\ Count(found, o, "capturable") \in Nat
           /\ Survives(found, o) <=> \E e \in DOMAIN found : StatusUnder(found[e], o) = "capturable"
<1> DEFINE S == {e \in DOMAIN found : StatusUnder(found[e], o) = "capturable"}
<1>1. IsFiniteSet(DOMAIN found)
  BY FS_Interval DEF AreCaptures
<1>2. IsFiniteSet(S)
  BY <1>1, FS_Subset
<1>3. Cardinality(S) \in Nat /\ (Cardinality(S) = 0 <=> S = {})
  BY <1>2, FS_CardinalityType, FS_EmptySet
<1>4. Count(found, o, "capturable") = Cardinality(S)
  BY DEF Count
<1>5. Survives(found, o) <=> Cardinality(S) > 0
  BY <1>4 DEF Survives
<1>6. S # {} <=> \E e \in DOMAIN found : StatusUnder(found[e], o) = "capturable"
  OBVIOUS
<1> HIDE DEF S
<1>7. QED
  BY <1>3, <1>4, <1>5, <1>6

\* What survives one value of a sweep survives every smaller one, of the
\* latency if there is no allowance, and of the allowance always.
LEMMA SmallerValuesSurvive ==
    ASSUME NEW found, AreCaptures(found), NEW o, IsOrder(o), NEW axis \in {"latency", "allowance"},
           axis = "allowance" \/ o.allowance = 0,
           NEW u \in Nat, NEW v \in Nat, axis = "latency" => u # 0 /\ v # 0, u <= v,
           Survives(found, At(o, axis, v))
    PROVE  Survives(found, At(o, axis, u))
<1>1. PICK e \in DOMAIN found : StatusUnder(found[e], At(o, axis, v)) = "capturable"
  BY SurvivesMeans
<1>2. IsCapture(found[e])
  BY DEF AreCaptures
<1>3. StatusUnder(found[e], At(o, axis, u)) = "capturable"
  <2>1. CASE axis = "latency"
    <3>1. u \in Nat \ {0} /\ v \in Nat \ {0} /\ o.allowance = 0
      BY <2>1
    <3>2. /\ IsOrder(At(o, "latency", u)) /\ At(o, "latency", u).latency = u
          /\ At(o, "latency", u).allowance = 0 /\ At(o, "latency", u).minimum = o.minimum
      BY <3>1, AnotherOrder
    <3>3. /\ IsOrder(At(o, "latency", v)) /\ At(o, "latency", v).latency = v
          /\ At(o, "latency", v).allowance = 0 /\ At(o, "latency", v).minimum = o.minimum
      BY <3>1, AnotherOrder
    <3>4. QED
      BY <1>1, <1>2, <2>1, <3>2, <3>3, FasterCaptures
  <2>2. CASE axis = "allowance"
    <3>1. /\ IsOrder(At(o, "allowance", u)) /\ IsOrder(At(o, "allowance", v))
          /\ At(o, "allowance", u).allowance = u /\ At(o, "allowance", v).allowance = v
          /\ At(o, "allowance", u).latency = At(o, "allowance", v).latency
          /\ At(o, "allowance", u).minimum = At(o, "allowance", v).minimum
      BY <2>2, AnotherOrder
    <3>2. QED
      BY <1>1, <1>2, <2>2, <3>1, SmallerAllowanceCaptures
  <2>3. QED
    BY <2>1, <2>2
<1>4. QED
  BY <1>3, SurvivesMeans

\* What a sweep reports of an order that was accepted.
LEMMA SweepMeans ==
    ASSUME NEW found, AreCaptures(found), found # <<>>, NEW o, IsOrder(o),
           NEW axis \in {"latency", "allowance"},
           NEW grid \in SUBSET Int, IsFiniteSet(grid), ~GridRefused(axis, grid)
    PROVE  LET swept == Sweep(found, o, axis, grid)
           IN  /\ swept.axis = axis
               /\ BaselineOf(o, axis) \in grid => (swept.baselineSurvives <=> Survives(found, o))
               /\ axis = "allowance" \/ o.allowance = 0 =>
                     \A u \in swept.surviving, v \in grid \ swept.surviving : u < v
               /\ swept.fragility \in {"stable", "sensitive", "knife_edge", "always_holds"} =>
                     swept.baselineSurvives
               /\ axis = "latency" /\ swept.fragility \in {"stable", "sensitive"} =>
                     (swept.fragility = "stable" <=> \E v \in swept.surviving : v > o.latency)
<1> DEFINE kept == {v \in grid : Survives(found, At(o, axis, v))}
           base == BaselineOf(o, axis)
           label == Fragility(found, o, axis, grid)
           swept == Sweep(found, o, axis, grid)
<1>1. /\ swept.axis = axis /\ swept.surviving = kept /\ swept.fragility = label
      /\ swept.baselineSurvives = (base \in kept)
  BY DEF Sweep
<1>2. base \in kept <=> base \in grid /\ Survives(found, o)
  <2>1. At(o, axis, base) = o
    BY AnotherOrder
  <2>2. QED
    BY <2>1
<1>3. \A v \in grid : v \in Nat /\ (axis = "latency" => v # 0)
  <2>1. \A v \in grid : v \in Int /\ ~(IF axis = "latency" THEN v <= 0 ELSE v < 0)
    BY DEF GridRefused
  <2>2. QED
    BY <2>1
<1>4. ASSUME axis = "allowance" \/ o.allowance = 0, NEW u \in kept, NEW v \in grid \ kept
      PROVE  u < v
  <2>1. u \in grid /\ Survives(found, At(o, axis, u)) /\ v \in grid
        /\ ~Survives(found, At(o, axis, v))
    OBVIOUS
  <2>2. /\ u \in Nat /\ v \in Nat /\ (axis = "latency" => u # 0 /\ v # 0)
    BY <1>3, <2>1
  <2> HIDE DEF kept
  <2>3. ~(v <= u)
    BY <1>4, <2>1, <2>2, SmallerValuesSurvive
  <2>4. QED
    BY <2>2, <2>3
<1>5. label \in {"stable", "sensitive", "knife_edge", "always_holds"} =>
         kept # {} /\ ~Immaterial(found, o, axis, grid)
  BY DEF Fragility
<1>6. ASSUME ~Immaterial(found, o, axis, grid) PROVE base \in kept
  <2>1. base \in grid /\ ~(4 * Count(found, o, "capturable") < Len(found))
    BY <1>6 DEF Immaterial, FewAreCapturable
  <2>2. Len(found) \in Nat \ {0}
    <3>1. Len(found) \in Nat /\ DOMAIN found = 1 .. Len(found)
      BY DEF AreCaptures
    <3>2. QED
      BY <3>1
  <2>3. Count(found, o, "capturable") \in Nat
    BY SurvivesMeans
  <2>4. Survives(found, o)
    BY <2>1, <2>2, <2>3 DEF Survives
  <2>5. QED
    BY <1>2, <2>1, <2>4
<1>7. ASSUME axis = "latency", label \in {"stable", "sensitive"}
      PROVE  label = "stable" <=> \E v \in kept : v > o.latency
  <2>1. kept # {}
    BY <1>5, <1>7
  <2>2. label = LatencyLabel(grid, kept, o.latency)
    BY <1>7 DEF Fragility
  <2>3. label = "stable" <=> ~(Highest(kept) <= o.latency)
    BY <1>7, <2>2 DEF LatencyLabel
  <2>4. kept \in SUBSET Int /\ IsFiniteSet(kept)
    BY FS_Subset
  <2>5. Highest(kept) \in kept /\ \A v \in kept : v <= Highest(kept)
    BY <2>1, <2>4, HighestIsHighest
  <2>6. o.latency \in Int
    BY DEF IsOrder
  <2> DEFINE top == Highest(kept)
  <2> HIDE DEF kept, label, top
  <2>7. top \in Int /\ \A v \in kept : v \in Int
    BY <2>4, <2>5 DEF top
  <2>8. label = "stable" <=> top > o.latency
    BY <2>3, <2>6, <2>7 DEF top
  <2>9. top > o.latency <=> \E v \in kept : v > o.latency
    BY <2>5, <2>6, <2>7 DEF top
  <2>10. QED
    BY <2>8, <2>9
<1> HIDE DEF kept, base, label, swept
<1>8. QED
  BY <1>1, <1>2, <1>4, <1>5, <1>6, <1>7 DEF swept, base

\* A report of captures is read back whole, and of what was saved only captures
\* are.
LEMMA CapturesAreReadBack ==
    ASSUME NEW found, AreCaptures(found), found = [e \in DOMAIN found |-> found[e]]
    PROVE  EpisodesFromReport(found) = found
<1>1. Len(found) \in Nat /\ DOMAIN found = 1 .. Len(found)
  BY DEF AreCaptures
<1>2. {k \in DOMAIN found : /\ found[k].peakOffset \in Nat
                            /\ found[k].peak > 0
                            /\ found[k].peakOffset <= Duration(found[k])} = 1 .. Len(found)
  BY <1>1 DEF AreCaptures, IsCapture
<1>3. Ascending(1 .. Len(found)) = [k \in 1 .. Len(found) |-> k]
  BY <1>1, AscendingOfAnInterval
<1>4. EpisodesFromReport(found) = RowsAt(found, 1 .. Len(found))
  BY <1>2 DEF EpisodesFromReport
<1>5. EpisodesFromReport(found) = [k \in 1 .. Len(found) |-> found[k]]
  BY <1>3, <1>4 DEF RowsAt
<1>6. QED
  BY <1>1, <1>5

LEMMA SavedAreCaptures ==
    ASSUME NEW saved, Len(saved) \in Nat, DOMAIN saved = 1 .. Len(saved),
           \A k \in DOMAIN saved : /\ saved[k].start \in Int /\ saved[k].end \in Int
                                   /\ saved[k].peak \in Int
    PROVE  AreCaptures(EpisodesFromReport(saved))
<1> DEFINE I == {k \in DOMAIN saved : /\ saved[k].peakOffset \in Nat
                                      /\ saved[k].peak > 0
                                      /\ saved[k].peakOffset <= Duration(saved[k])}
           index == Ascending(I)
<1>1. IsFiniteSet(I) /\ I \in SUBSET Int
  <2>1. IsFiniteSet(1 .. Len(saved)) /\ I \in SUBSET (1 .. Len(saved))
    BY FS_Interval
  <2>2. QED
    BY <2>1, FS_Subset
<1>2. \A k \in I : k \in DOMAIN saved /\ IsCapture(saved[k])
  <2> SUFFICES ASSUME NEW k \in I PROVE k \in DOMAIN saved /\ IsCapture(saved[k])
    OBVIOUS
  <2>1. /\ k \in DOMAIN saved /\ saved[k].peakOffset \in Nat /\ saved[k].peak > 0
        /\ saved[k].peakOffset <= saved[k].end - saved[k].start
        /\ saved[k].start \in Int /\ saved[k].end \in Int /\ saved[k].peak \in Int
    BY DEF Duration
  <2>2. QED
    BY <2>1 DEF IsCapture, Duration
<1>3. EpisodesFromReport(saved) = [k \in DOMAIN index |-> saved[index[k]]]
  BY DEF EpisodesFromReport, RowsAt
<1> HIDE DEF I
<1>4. index \in Seq(I)
  BY <1>1, AscendingLists
<1> HIDE DEF index
<1>5. Len(index) \in Nat /\ DOMAIN index = 1 .. Len(index) /\ \A k \in 1 .. Len(index) : index[k] \in I
  BY <1>4, ElementOfSeq, LenProperties
<1>6. EpisodesFromReport(saved) \in Seq({saved[k] : k \in DOMAIN saved})
  BY <1>2, <1>3, <1>5
<1>7. /\ Len(EpisodesFromReport(saved)) \in Nat
      /\ DOMAIN EpisodesFromReport(saved) = 1 .. Len(EpisodesFromReport(saved))
  BY <1>6, LenProperties
<1>8. \A k \in DOMAIN EpisodesFromReport(saved) : IsCapture(EpisodesFromReport(saved)[k])
  BY <1>2, <1>3, <1>5
<1>9. QED
  BY <1>7, <1>8 DEF AreCaptures

\* What was accepted is an order.
LEMMA AcceptedIsAnOrder ==
    ASSUME IInv, Ordered, Accepted
    PROVE  IsOrder(order)
<1>1. request \in Requests
  BY DEF IInv, Loaded
<1>2. /\ order.latency \in Int /\ order.allowance \in Int
      /\ order.minimum.num \in Int /\ order.minimum.den \in Int
      /\ order = [latency |-> order.latency, allowance |-> order.allowance,
                  minimum |-> order.minimum]
  <2>1. order.allowance = request.allowance /\ order.minimum = request.minimum
    BY DEF Ordered
  <2>2. QED
    BY <1>1, <2>1, SizesAreNumeric DEF Ordered
<1>3. order.minimum.num \in 0 .. order.minimum.den
  BY DEF Accepted, IsNoFraction
<1>4. QED
  BY <1>2, <1>3 DEF Accepted, IsOrder

\* Wherever the sweep passes through the configured value it says what the
\* assessment said, a smaller allowance and, without one, a faster round trip
\* survive whenever a larger does, a reported distance is one from a verdict that
\* survives, and a stable one is stable beyond the configured latency.
THEOREM SweepIsOfTheDistance == Spec => []SweepTellsTheDistance
<1>1. IInv /\ Populated /\ Sweeping => SweepTellsTheDistance
  <2> SUFFICES ASSUME IInv, Populated, Sweeping, sensitivity # Unset PROVE SweepTellsTheDistance
    BY DEF SweepTellsTheDistance
  <2>1. IsOrder(order)
    BY AcceptedIsAnOrder DEF Sweeping
  <2>2. request \in Requests
    BY DEF IInv, Loaded
  <2>3. CASE pc # "swept"
    <3> DEFINE found == EpisodesFromReport(latency.captures)
    <3>1. /\ latency # Unset /\ found # <<>> /\ ~GridRefused("latency", Grid)
          /\ sensitivity = Sweep(found, order, "latency", Grid)
      BY <2>3 DEF Sweeping
    <3>2. /\ latency = [captures |-> episodes, survives |-> Survives(episodes, order)]
          /\ episodes = EpisodesOf(rows, Gap2) /\ IsFeed(rows)
          /\ \A k \in DOMAIN rows : rows[k].crossable = (Open /\ rows[k].net > 0)
      BY <2>3, <3>1 DEF Populated, Summarised, Grouped, Settled
    <3>3. AreCaptures(episodes) /\ episodes = [e \in DOMAIN episodes |-> episodes[e]]
      <4>1. \A k \in Chosen(rows) : rows[k].net > 0
        BY <3>2 DEF Chosen
      <4>2. \A e \in DOMAIN episodes : IsCapture(episodes[e])
        BY <3>2, <4>1, EpisodesAreCaptures
      <4>3. Len(episodes) \in Nat /\ DOMAIN episodes = 1 .. Len(episodes)
            /\ episodes = [e \in DOMAIN episodes |-> episodes[e]]
        BY <3>2, EpisodesAreASequence
      <4>4. QED
        BY <4>2, <4>3 DEF AreCaptures
    <3>4. found = episodes
      BY <3>2, <3>3, CapturesAreReadBack
    <3>5. latency.survives <=> Survives(found, order)
      BY <3>2, <3>4
    <3>6. Grid \in SUBSET Int /\ IsFiniteSet(Grid)
      BY <2>2, SweepsAreNumeric DEF Grid
    <3>7. AreCaptures(found) /\ BaselineOf(order, "latency") = order.latency
      BY <3>3, <3>4 DEF BaselineOf
    <3> HIDE DEF found
    <3>8. LET swept == Sweep(found, order, "latency", Grid)
          IN  /\ swept.axis = "latency"
              /\ order.latency \in Grid => (swept.baselineSurvives <=> Survives(found, order))
              /\ order.allowance = 0 =>
                    \A u \in swept.surviving, v \in Grid \ swept.surviving : u < v
              /\ swept.fragility \in {"stable", "sensitive", "knife_edge", "always_holds"} =>
                    swept.baselineSurvives
              /\ swept.fragility \in {"stable", "sensitive"} =>
                    (swept.fragility = "stable" <=> \E v \in swept.surviving : v > order.latency)
      BY <2>1, <3>1, <3>6, <3>7, SweepMeans
    <3>9. QED
      BY <3>1, <3>5, <3>8 DEF SweepTellsTheDistance, FailingOn
  <2>4. CASE pc = "swept"
    <3> DEFINE found == EpisodesFromReport(request.saved)
    <3>1. /\ found # <<>> /\ ~GridRefused("allowance", request.allowances)
          /\ sensitivity = Sweep(found, order, "allowance", request.allowances)
      BY <2>4 DEF Sweeping
    <3>2. AreCaptures(found)
      BY <2>2, SweepsAreNumeric, SavedAreCaptures
    <3>3. request.allowances \in SUBSET Int /\ IsFiniteSet(request.allowances)
      BY <2>2, SweepsAreNumeric
    <3> HIDE DEF found
    <3>4. LET swept == Sweep(found, order, "allowance", request.allowances)
          IN  /\ swept.axis = "allowance"
              /\ \A u \in swept.surviving, v \in request.allowances \ swept.surviving : u < v
              /\ swept.fragility \in {"stable", "sensitive", "knife_edge", "always_holds"} =>
                    swept.baselineSurvives
      BY <2>1, <3>1, <3>2, <3>3, SweepMeans
    <3>5. QED
      BY <3>1, <3>4 DEF SweepTellsTheDistance, FailingOn
  <2>5. QED
    BY <2>3, <2>4
<1>2. QED
  BY <1>1, Invariant, OnePopulation, SweptAsAsked, PTL

=============================================================================
