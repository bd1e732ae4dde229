----------------------- MODULE MCCrossBrokerComparison -----------------------
(* Instances of CrossBrokerComparison for TLC.                             *)
EXTENDS CrossBrokerComparison

CONSTANT LastTime

Millisecond == 0 .. LastTime

Quotes(prices) == {[at |-> t, bid |-> p[1], ask |-> p[2]] : t \in Millisecond, p \in prices}

\* Below, at and above the price of B, by different amounts.
QuotesOfA == Quotes({<<1, 2>>, <<4, 5>>, <<6, 7>>})
QuotesOfB == Quotes({<<4, 5>>})

\* Any rows in any order, timestamps repeated or not.
MCFramesA == UNION {[1 .. n -> QuotesOfA] : n \in 0 .. 3}

\* B's rows in order, and one file each of a repeated timestamp, an impossible
\* price, an impossible price that a later row supersedes and rows out of order.
MCFramesB ==
    {SetToSortSeq(quotes, LAMBDA q, r : q.at < r.at) : quotes \in SUBSET QuotesOfB}
    \cup {<<[at |-> 0, bid |-> 4, ask |-> 5], [at |-> 0, bid |-> 7, ask |-> 8]>>,
          <<[at |-> 1, bid |-> 5, ask |-> 4]>>,
          <<[at |-> 1, bid |-> 5, ask |-> 4], [at |-> 1, bid |-> 4, ask |-> 5]>>,
          <<[at |-> 3, bid |-> 4, ask |-> 5], [at |-> 0, bid |-> 7, ask |-> 8]>>}

Order(roundTrip, allowance) ==
    [roundTrip |-> roundTrip, allowance |-> allowance, minimum |-> [num |-> 1, den |-> 2]]

Ask(kind, mode, aggregation, tolerance, cost, gap, order) ==
    [kind |-> kind, mode |-> mode, aggregation |-> aggregation, tolerance |-> tolerance,
     cost |-> cost, gap |-> gap, order |-> order]

MCRequests ==
    {Ask("tick", "symmetric", "last", 1, 0, Cadence, Order(1, 0)),
     Ask("tick", "symmetric", "none", 0, 0, 1, Order(1, 0)),
     Ask("tick", "symmetric", "last", 2, 1, 2, Order(2, 0)),
     Ask("tick", "anchor_a", "last", 1, 0, 2, Order(2, 1)),
     Ask("tick", "anchor_a", "last", 1, 1, Cadence, Order(1, 0)),
     Ask("bar", "anchor_a", "last", 1, 0, Cadence, Order(1, 0))}
=============================================================================
