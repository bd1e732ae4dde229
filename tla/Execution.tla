------------------------------ MODULE Execution ------------------------------
(***************************************************************************)
(* costs/execution.py: what a cross-broker position commits, whether both  *)
(* brokers can fill it, and what holding it overnight costs.               *)
(***************************************************************************)
EXTENDS Contracts, FiniteSets

-----------------------------------------------------------------------------
(* MarginModel                                                             *)

Unavailable == [source |-> "unavailable", margin |-> Unset]

\* Zero reported by the broker means it did not report a margin, not that none
\* is needed.  A derived margin is rounded up to a whole unit.
Margin(c, volume, price, leverage) ==
    IF c = Unset THEN Unavailable
    ELSE IF c.margin > 0
         THEN [source |-> "broker_reported", margin |-> c.margin * volume]
    ELSE IF leverage = Unset THEN Unavailable
    ELSE [source |-> "leverage_derived",
          margin |-> (volume * c.size * price + leverage - 1) \div leverage]

Known(margin) == margin.margin # Unset /\ margin.source # "unavailable"

\* The capital of both legs is known or there is no total.
TotalMargin(first, second) ==
    IF Unset \in {first.margin, second.margin} THEN Unset ELSE first.margin + second.margin

-----------------------------------------------------------------------------
(* FillSimulator                                                           *)

RoundDown(volume, step) == (volume \div step) * step

Refused == [status |-> "below_minimum", filled |-> 0]

\* Mutant of Fill: a size above the cap is silently cut down to it.
FillUpToTheCap(c, requested) ==
    IF c = Unset THEN [status |-> "unknown_contract", filled |-> 0]
    ELSE LET size == IF requested > c.max THEN c.max ELSE requested
         IN  IF RoundDown(size, c.step) < c.min THEN Refused
             ELSE [status |-> "fillable", filled |-> RoundDown(size, c.step)]

\* estimate: a size is rounded down to a step, refused below the minimum, and
\* capped at the maximum unless the cap itself rounds below the minimum.
Fill(c, requested) ==
    IF c = Unset THEN [status |-> "unknown_contract", filled |-> 0]
    ELSE IF RoundDown(requested, c.step) < c.min THEN Refused
    ELSE IF requested <= c.max
         THEN [status |-> "fillable", filled |-> RoundDown(requested, c.step)]
    ELSE IF RoundDown(c.max, c.step) < c.min THEN Refused
    ELSE [status |-> "above_maximum", filled |-> RoundDown(c.max, c.step)]

\* fill_ratio < minimum, a fraction [num, den].
FillsLessThan(fill, requested, minimum) == fill.filled * minimum.den < minimum.num * requested

-----------------------------------------------------------------------------
(* ExecutionAssessor.assess                                                *)

\* A size known to fail at either broker blocks; missing information does not.
Assessment(a, b, volumeA, volumeB, prices, leverage, minimum) ==
    LET fillA == Fill(a, volumeA)
        fillB == Fill(b, volumeB)
        marginA == Margin(a, volumeA, prices[1], leverage)
        marginB == Margin(b, volumeB, prices[2], leverage)
        short == /\ "unknown_contract" \notin {fillA.status, fillB.status}
                 /\ \/ FillsLessThan(fillA, volumeA, minimum)
                    \/ FillsLessThan(fillB, volumeB, minimum)
    IN  [executable |-> /\ {fillA.status, fillB.status} \subseteq {"fillable", "unknown_contract"}
                        /\ ~short,
         capitalVerified |-> Known(marginA) /\ Known(marginB),
         total |-> TotalMargin(marginA, marginB),
         fillA |-> fillA, fillB |-> fillB]

-----------------------------------------------------------------------------
(* FundingModel; dates are counted in days, day 0 being a Monday           *)

\* _triple_rollovers: the nights of a hold that are charged three times.
TripleNights(start, nights, weekday) ==
    {k \in 0 .. (nights - 1) : (start + k) % 7 = weekday}

\* The nights a hold is charged for; cost multiplies them by the notional and
\* the daily rate, when both are known.
ChargedNights(start, end, weekday) ==
    IF end <= start THEN 0
    ELSE (end - start) + 2 * Cardinality(TripleNights(start, end - start, weekday))

=============================================================================
