---------------------------- MODULE MCOrderBook ----------------------------
(* Instances of OrderBook for TLC. *)
EXTENDS OrderBook

CONSTANT MaxListed    \* bound: levels of a snapshot

MCPrices == 1 .. MaxPrice

\* Snapshots of at most MaxListed levels a side that are not crossed.
MCSnapshots ==
    LET few == {P \in SUBSET MCPrices : Cardinality(P) =< MaxListed}
        side(P) == [p \in MCPrices |-> IF p \in P THEN 1 ELSE 0]
    IN  {[sd \in Sides |-> side(PP[sd])] :
            PP \in {QQ \in [Sides -> few] :
                        \A b \in QQ["Bid"], a \in QQ["Ask"] : b < a}}

\* The loop of move_to_new_base_price, level by level from the lowest index.
MoveLoop(sd, s, base) ==
    LET step(i, new) == IF s.levels[i] > 0
                        THEN SetLevel(sd, new, PriceAt(s.base, i), s.levels[i]) ELSE new
        f[n \in 0 .. Depth] == IF n = 0 THEN EmptySide(sd, base) ELSE step(n - 1, f[n - 1])
    IN  f[Depth]

\* Every state of a side, whatever prices were set: its levels at a base price.
MCSides ==
    [sd : Sides, levels : [Indices -> {0, 2}], base : MCPrices]

\* Moving a side as a whole is what its loop over set_level does, top index and
\* bitmap included, for every side and every new base price; and a side as a
\* whole is what setting its levels one by one makes of an empty side.
ASSUME MoveIsLoop ==
    \A x \in MCSides :
        LET s == Filled(x.sd, x.base, x.levels) IN
        /\ MoveLoop(x.sd, s, x.base) = s
        /\ \A base \in MCPrices : MoveSide(x.sd, s, base) = MoveLoop(x.sd, s, base)

\* The loop of get_order_book_snapshot, index by index from the best level.
PublishLoop(sd, s) ==
    LET n == IF ~HasTop(s) THEN 0 ELSE IF sd = "Bid" THEN s.top + 1 ELSE Depth - s.top
        index(k) == IF sd = "Bid" THEN s.top - (k - 1) ELSE s.top + (k - 1)
        add(i, out) == IF s.levels[i] > 0 /\ Len(out) < PublishLevels
                       THEN Append(out, <<PriceAt(s.base, i), s.levels[i]>>) ELSE out
        f[k \in 0 .. n] == IF k = 0 THEN <<>> ELSE add(index(k), f[k - 1])
    IN  f[n]

\* What is published of a side, level by level of its rank, is what the loop adds.
ASSUME PublishIsLoop ==
    \A x \in MCSides :
        LET s == Filled(x.sd, x.base, x.levels)
        IN  PublishedSide(x.sd, s) = PublishLoop(x.sd, s)
=============================================================================
