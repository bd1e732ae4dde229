---------------------------- MODULE TickAlignment ----------------------------
(***************************************************************************)
(* How the quotes of two brokers are paired by event time                  *)
(* (market_data/cross_broker.py: _prepare and the two alignment modes).    *)
(*                                                                         *)
(* A quote is a record with a timestamp `at`; a frame is a sequence of     *)
(* quotes in the order the terminal returned them.  A prepared frame has   *)
(* strictly increasing timestamps.  A match pairs an index of each frame.  *)
(***************************************************************************)
EXTENDS OrderedSets

Times(frame) == {frame[k].at : k \in DOMAIN frame}

DuplicateCount(frame) == Len(frame) - Cardinality(Times(frame))

Distance(s, t) == IF s < t THEN t - s ELSE s - t

-----------------------------------------------------------------------------
(* _prepare                                                                *)

\* The last row the terminal returned for t.
LatestAt(frame, t) ==
    frame[CHOOSE k \in DOMAIN frame :
            frame[k].at = t /\ \A l \in (k + 1) .. Len(frame) : frame[l].at # t]

\* Mutant of Chronological: the rows stay in the order they were returned in.
AsReturned(frame) == frame

\* A stable sort by timestamp, then drop_duplicates(keep="last").
Chronological(frame) ==
    LET times == Ascending(Times(frame))
    IN  [k \in DOMAIN times |-> LatestAt(frame, times[k])]

ImpossiblePrice(quote, kind) ==
    quote.bid <= 0 \/ (kind = "tick" /\ quote.ask < quote.bid)

\* The frame is refused: no rows, a timestamp twice where no aggregation is
\* defined for it, or an impossible price in a row that was not superseded (of
\* a bar, `bid` stands for the close).
Refused(frame, kind, aggregation) ==
    \/ frame = <<>>
    \/ DuplicateCount(frame) > 0 /\ (kind = "bar" \/ aggregation = "none")
    \/ \E t \in Times(frame) : ImpossiblePrice(LatestAt(frame, t), kind)

-----------------------------------------------------------------------------
(* Alignment                                                               *)

Clip(k, n) == IF k < 1 THEN 1 ELSE IF k > n THEN n ELSE k

\* numpy's searchsorted(side="left"): where t would be inserted.
InsertionPoint(frame, t) == 1 + Cardinality({k \in DOMAIN frame : frame[k].at < t})

\* _nearest_indices: of the neighbours on both sides the nearer one, the later
\* one of two that are equally near.
Nearest(frame, t) ==
    LET right == Clip(InsertionPoint(frame, t), Len(frame))
        left  == Clip(InsertionPoint(frame, t) - 1, Len(frame))
    IN  IF Distance(frame[left].at, t) < Distance(frame[right].at, t) THEN left ELSE right

\* pandas' merge_asof(direction="nearest"): of two quotes equally near the
\* earlier one.
AsofNearest(frame, t) ==
    CHOOSE k \in DOMAIN frame :
        /\ \A l \in DOMAIN frame : Distance(frame[k].at, t) <= Distance(frame[l].at, t)
        /\ \A l \in 1 .. (k - 1) : Distance(frame[k].at, t) < Distance(frame[l].at, t)

\* Mutant of SymmetricMatches: b's own nearest neighbour is not consulted.
OneSidedMatches(a, b, tolerance) ==
    {m \in (DOMAIN a) \X (DOMAIN b) :
        /\ m[2] = Nearest(b, a[m[1]].at)
        /\ Distance(a[m[1]].at, b[m[2]].at) <= tolerance}

\* Mutant of SymmetricMatches: ties are broken one way from A and the other
\* way from B.
MatchesWithMixedTies(a, b, tolerance) ==
    {m \in (DOMAIN a) \X (DOMAIN b) :
        /\ m[2] = Nearest(b, a[m[1]].at)
        /\ Distance(a[m[1]].at, b[m[2]].at) <= tolerance
        /\ m[1] = AsofNearest(a, b[m[2]].at)}

\* _symmetric_align: each quote of a match is the other's nearest.
SymmetricMatches(a, b, tolerance) ==
    {m \in (DOMAIN a) \X (DOMAIN b) :
        /\ m[2] = Nearest(b, a[m[1]].at)
        /\ Distance(a[m[1]].at, b[m[2]].at) <= tolerance
        /\ m[1] = Nearest(a, b[m[2]].at)}

\* anchor_a: every quote of A with its nearest quote of B, if near enough.
AnchorMatches(a, b, tolerance) ==
    {m \in (DOMAIN a) \X (DOMAIN b) :
        /\ m[2] = AsofNearest(b, a[m[1]].at)
        /\ Distance(a[m[1]].at, b[m[2]].at) <= tolerance}

Matches(mode, a, b, tolerance) ==
    IF mode = "symmetric" THEN SymmetricMatches(a, b, tolerance)
                          ELSE AnchorMatches(a, b, tolerance)

=============================================================================
