----------------------------- MODULE Measurement -----------------------------
(***************************************************************************)
(* costs/measurement.py: the round trip read from an execution log.  A     *)
(* sample is [roundTrip, symbol, broker]; times are whole numbers, and a   *)
(* statistic that falls between two of them is rounded down.               *)
(***************************************************************************)
EXTENDS OrderedSets

\* load_measured_latency: the filters that were given keep the samples they name.
Kept(samples, query) ==
    RowsAt(samples, {k \in DOMAIN samples :
                        /\ query.symbol \in {samples[k].symbol, query.any}
                        /\ query.broker \in {samples[k].broker, query.any}})

\* _sample refuses a round trip that is not positive before any filter applies.
LogRefused(samples, query) ==
    \/ \E k \in DOMAIN samples : samples[k].roundTrip <= 0
    \/ Kept(samples, query) = <<>>

\* numpy.quantile: linear between the two nearest ranks.
Quantile(times, percent) ==
    LET position == percent * (Len(times) - 1)
        below == Ranked(times, position \div 100 + 1)
        above == Ranked(times, (position + 99) \div 100 + 1)
    IN  below + ((position % 100) * (above - below)) \div 100

\* _summarise.
Statistic(samples, name) ==
    LET times == [k \in DOMAIN samples |-> samples[k].roundTrip]
    IN  CASE name = "mean" -> FoldSeq(LAMBDA t, sum : t + sum, 0, times) \div Len(times)
          [] name = "median" -> Quantile(times, 50)
          [] name = "p95" -> Quantile(times, 95)
          [] name = "maximum" -> Ranked(times, Len(times))
          [] name = "minimum" -> Ranked(times, 1)

\* per_leg of what the filtered log measured.
PerLeg(samples, query, legs) == Statistic(Kept(samples, query), query.statistic) \div legs

=============================================================================
