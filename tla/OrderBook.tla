------------------------------ MODULE OrderBook ------------------------------
(***************************************************************************)
(* server_app/order_book: the local order book of one instrument and the   *)
(* OrderBookManager that feeds it and publishes its best levels.           *)
(*                                                                         *)
(* A side keeps the quantities of Depth consecutive prices around a base   *)
(* price, a bitmap of the non-empty ones and the index of the best one.    *)
(* When the best bid or ask comes close to the end of the range, both      *)
(* sides are moved to a new base price, the best bid.                      *)
(*                                                                         *)
(* Prices are whole ticks, quantities whole lots; all of it runs on the    *)
(* one thread of the ORDER_BOOK event base.                                *)
(***************************************************************************)
EXTENDS Integers, Sequences, FiniteSets

CONSTANTS Depth,            \* m_depth: prices a side has room for
          WORD_BITS,        \* bits of a word of the bitmap
          RebaseDelta,      \* m_rebase_delta, in ticks
          PublishLevels,    \* m_publish_levels
          MaxPrice,         \* bound: the highest price, in ticks
          Prices,           \* the prices that messages name
          Quantities,       \* the quantities that updates carry; 0 removes
          Snapshots,        \* the snapshots of the exchange
          MaxMessages       \* bound: snapshots and updates

Sides == {"Bid", "Ask"}

\* A position in the middle must not ask for another move: the default
\* rebase_delta is a tenth of the depth.
ASSUME SizesAssumption ==
    /\ Depth \in Nat \ {0} /\ WORD_BITS \in Nat \ {0}
    /\ RebaseDelta \in Nat
    /\ RebaseDelta < Depth \div 2 /\ Depth \div 2 < Depth - 1 - RebaseDelta

ASSUME InputsAssumption ==
    /\ MaxPrice \in Nat /\ Prices \subseteq 0 .. MaxPrice /\ Quantities \subseteq Nat
    /\ Snapshots \subseteq [Sides -> [Prices -> Nat]]
    /\ PublishLevels \in Nat /\ MaxMessages \in Nat

VARIABLES
    book,       \* [Sides -> side], a side being [base, levels, words, top]
    created,    \* the manager has an OrderBook for the instrument
    in_batch,   \* the updates of a message are being applied
    published,  \* the last output_snapshot: [Sides -> Seq(<<price, quantity>>)]
    messages,   \* bounded counter
    feed,       \* history: the last quantity told of every price
    kept        \* history: the prices told of since they were last in range

vars == <<book, created, in_batch, published, messages, feed, kept>>

-----------------------------------------------------------------------------
(* OrderBookSide *)

Indices == 0 .. Depth - 1
Center == Depth \div 2
INVALID_INDEX == -1
Words == 0 .. (Depth + WORD_BITS - 1) \div WORD_BITS - 1
Bits == 0 .. WORD_BITS - 1

IndexAt(base, price) == Center + (price - base)
PriceAt(base, index) == base + (index - Center)

\* The prices in range.
Window(base) == {PriceAt(base, i) : i \in Indices}

Better(sd, i, j) == IF sd = "Bid" THEN i > j ELSE i < j

\* The best element of a set of indices, words, bits or prices.
Best(sd, S) == CHOOSE i \in S : \A j \in S : i = j \/ Better(sd, i, j)

InWord(sd, words, w) == w * WORD_BITS + Best(sd, words[w])

\* rebuild_top_from_bitmap: the best bit of the best word that has one.
RebuildTop(sd, words) ==
    LET ws == {w \in Words : words[w] # {} /\ InWord(sd, words, w) < Depth}
    IN  IF ws = {} THEN INVALID_INDEX ELSE InWord(sd, words, Best(sd, ws))

\* set_non_empty and clear_non_empty.
SetBit(words, i) == [words EXCEPT ![i \div WORD_BITS] = @ \cup {i % WORD_BITS}]
ClearBit(words, i) == [words EXCEPT ![i \div WORD_BITS] = @ \ {i % WORD_BITS}]

\* Mutant: the best level is not looked for when it is removed.
SetLevel_KeepsTop(sd, s, price, quantity) ==
    LET i == IndexAt(s.base, price)
        words == IF quantity > 0 THEN SetBit(s.words, i) ELSE ClearBit(s.words, i)
        top == IF quantity > 0 /\ (s.top = INVALID_INDEX \/ Better(sd, i, s.top))
               THEN i ELSE s.top
    IN  IF i \notin Indices THEN s
        ELSE [base |-> s.base, levels |-> [s.levels EXCEPT ![i] = quantity],
              words |-> words, top |-> top]

\* set_level; remove_level is set_level with quantity 0.
SetLevel(sd, s, price, quantity) ==
    LET i == IndexAt(s.base, price)
        words == IF quantity > 0 THEN SetBit(s.words, i) ELSE ClearBit(s.words, i)
        top == IF quantity > 0
               THEN IF s.top = INVALID_INDEX \/ Better(sd, i, s.top) THEN i ELSE s.top
               ELSE IF i = s.top THEN RebuildTop(sd, words) ELSE s.top
    IN  IF i \notin Indices THEN s
        ELSE [base |-> s.base, levels |-> [s.levels EXCEPT ![i] = quantity],
              words |-> words, top |-> top]

GetQuantity(s, price) ==
    LET i == IndexAt(s.base, price) IN IF i \in Indices THEN s.levels[i] ELSE 0

\* What a loop of set_level over distinct prices makes of an empty side, when
\* levels gives the quantity for every index.
Filled(sd, base, levels) ==
    LET words == [w \in Words |->
                     {b \in Bits : w * WORD_BITS + b \in Indices
                                   /\ levels[w * WORD_BITS + b] > 0}]
    IN  [base |-> base, levels |-> levels, words |-> words,
         top |-> RebuildTop(sd, words)]

\* The constructor, and reset_base_price.
EmptySide(sd, base) == Filled(sd, base, [i \in Indices |-> 0])

\* move_to_new_base_price: what falls out of the new range is dropped.
MoveSide(sd, s, base) ==
    Filled(sd, base, [i \in Indices |-> GetQuantity(s, PriceAt(base, i))])

-----------------------------------------------------------------------------
(* OrderBook *)

HasTop(s) == s.top # INVALID_INDEX
TopPrice(s) == PriceAt(s.base, s.top)
HasSpread(bk) == HasTop(bk["Bid"]) /\ HasTop(bk["Ask"])

\* near_boundary: the best level is RebaseDelta or less from an end.
InTriggerZone(s) ==
    \/ TopPrice(s) =< PriceAt(s.base, 0) + RebaseDelta
    \/ TopPrice(s) >= PriceAt(s.base, Depth - 1) - RebaseDelta

\* Mutant: only the asks are looked at.
ShouldRebase_AskOnly(bk) == HasSpread(bk) /\ InTriggerZone(bk["Ask"])

ShouldRebase(bk) ==
    HasSpread(bk) /\ \E sd \in Sides : InTriggerZone(bk[sd])

MaybeRebase(bk) ==
    IF ShouldRebase(bk)
    THEN [sd \in Sides |-> MoveSide(sd, bk[sd], TopPrice(bk["Bid"]))]
    ELSE bk

\* The non-empty levels from the best one outwards.
FromTop(sd, s) ==
    {i \in Indices : /\ HasTop(s) /\ s.levels[i] > 0
                     /\ i = s.top \/ Better(sd, s.top, i)}

\* How many of a set of levels come before i, and the level with k - 1 before it.
Place(sd, S, i) == Cardinality({j \in S : Better(sd, j, i)})
Ranked(sd, S, k) == CHOOSE i \in S : Place(sd, S, i) = k - 1

\* get_order_book_snapshot: from the best level outwards, at most PublishLevels.
PublishedSide(sd, s) ==
    LET found == FromTop(sd, s)
        count == IF Cardinality(found) < PublishLevels THEN Cardinality(found)
                 ELSE PublishLevels
    IN  [k \in 1 .. count |-> LET i == Ranked(sd, found, k)
                              IN  <<PriceAt(s.base, i), s.levels[i]>>]

\* Mutant: the asks are published towards lower prices too.
Published_Downwards(bk) == [sd \in Sides |-> PublishedSide("Bid", bk[sd])]

Published(bk) == [sd \in Sides |-> PublishedSide(sd, bk[sd])]

-----------------------------------------------------------------------------
(* OrderBookManager *)

\* get_snapshot_reference_price: the exchange lists the best level first.
ReferencePrice(snapshot) ==
    LET listed(sd) == {p \in Prices : snapshot[sd][p] > 0}
    IN  IF listed("Bid") # {} THEN Best("Bid", listed("Bid"))
        ELSE IF listed("Ask") # {} THEN Best("Ask", listed("Ask")) ELSE 0

Init ==
    /\ book = [sd \in Sides |-> EmptySide(sd, 0)]
    /\ created = FALSE /\ in_batch = FALSE
    /\ published = [sd \in Sides |-> <<>>]
    /\ messages = 0
    /\ feed = [sd \in Sides |-> [p \in Prices |-> 0]]
    /\ kept = [sd \in Sides |-> {}]

\* The book the manager uses: get_or_create_order_book.
Current(base) == IF created THEN book ELSE [sd \in Sides |-> EmptySide(sd, base)]

\* Mutant: a snapshot adds its levels to those of the book.
WithSnapshot_Adds(bk, snapshot) ==
    [sd \in Sides |->
        Filled(sd, bk[sd].base,
               [i \in Indices |-> LET p == PriceAt(bk[sd].base, i)
                                  IN  IF p \in Prices /\ snapshot[sd][p] > 0
                                      THEN snapshot[sd][p] ELSE bk[sd].levels[i]])]

\* apply_update(snapshot) before maybe_rebase: the base price stays.
WithSnapshot(bk, snapshot) ==
    [sd \in Sides |->
        Filled(sd, bk[sd].base,
               [i \in Indices |-> LET p == PriceAt(bk[sd].base, i)
                                  IN  IF p \in Prices THEN snapshot[sd][p] ELSE 0])]

\* run_update_order_book_data(snapshot).
RunSnapshot(snapshot) ==
    LET b == MaybeRebase(WithSnapshot(Current(ReferencePrice(snapshot)), snapshot))
        before == Current(ReferencePrice(snapshot))
    IN  /\ ~in_batch /\ messages < MaxMessages
        /\ book' = b
        /\ published' = Published(b)
        /\ created' = TRUE
        /\ messages' = messages + 1
        /\ feed' = snapshot
        /\ kept' = [sd \in Sides |-> Window(before[sd].base) \cap Window(b[sd].base) \cap Prices]
        /\ UNCHANGED in_batch

\* run_update_order_book_data(updates): one turn of the loop over the updates,
\* and after the last one the book is published.
RunUpdate(sd, price, quantity, last) ==
    LET set == [Current(price) EXCEPT ![sd] = SetLevel(sd, @, price, quantity)]
        b == MaybeRebase(set)
        told == [kept EXCEPT ![sd] = @ \cup ({price} \cap Window(set[sd].base))]
    IN  /\ messages < MaxMessages
        /\ book' = b
        /\ created' = TRUE
        /\ in_batch' = ~last
        /\ IF last THEN published' = Published(b) ELSE UNCHANGED published
        /\ messages' = messages + 1
        /\ feed' = [feed EXCEPT ![sd][price] = quantity]
        /\ kept' = [s \in Sides |-> told[s] \cap Window(b[s].base)]

Next ==
    \/ \E snapshot \in Snapshots : RunSnapshot(snapshot)
    \/ \E sd \in Sides, price \in Prices, quantity \in Quantities, last \in BOOLEAN :
           RunUpdate(sd, price, quantity, last)

Spec == Init /\ [][Next]_vars

-----------------------------------------------------------------------------
(* Properties *)

SideType == [base : Int, levels : [Indices -> Nat],
             words : [Words -> SUBSET Bits], top : Indices \cup {INVALID_INDEX}]

\* Both sides are arrays of Depth quantities with a bitmap that covers them.
TypeOK ==
    /\ book \in [Sides -> SideType]
    /\ created \in BOOLEAN /\ in_batch \in BOOLEAN
    /\ messages \in 0 .. MaxMessages
    /\ feed \in [Sides -> [Prices -> Nat]]
    /\ kept \in [Sides -> SUBSET Prices]

\* The bitmap that set_non_empty and clear_non_empty maintain marks exactly the
\* non-empty levels, also in its last word, and both sides share one base price.
BitmapAgrees ==
    /\ \A sd \in Sides, w \in Words, b \in Bits :
           b \in book[sd].words[w] <=>
               w * WORD_BITS + b \in Indices /\ book[sd].levels[w * WORD_BITS + b] > 0
    /\ book["Bid"].base = book["Ask"].base

\* m_top_index, kept up to date one level at a time and rebuilt from the bitmap
\* when the best level goes, is always the best non-empty level.
TopIsBest ==
    \A sd \in Sides :
        LET full == {i \in Indices : book[sd].levels[i] > 0} IN
        IF HasTop(book[sd])
        THEN book[sd].top \in full
             /\ \A i \in full : i = book[sd].top \/ Better(sd, book[sd].top, i)
        ELSE full = {}

\* Through snapshots, updates and moves of the base price, the book has for
\* every price told of since it came into range the quantity last told, and
\* nothing anywhere else.
BookIsFeed ==
    /\ \A sd \in Sides, p \in Prices :
           GetQuantity(book[sd], p) = IF p \in kept[sd] THEN feed[sd][p] ELSE 0
    /\ \A sd \in Sides : kept[sd] \subseteq Window(book[sd].base)

\* While the book has both sides, its best bid is further than RebaseDelta from
\* both ends: a move of the market by one tick stays in range.
BidInsideZone ==
    HasSpread(book) => RebaseDelta < book["Bid"].top
                       /\ book["Bid"].top < Depth - 1 - RebaseDelta

\* What the callbacks see between two messages is best-first and true: every
\* published level has the quantity last told, and no level the book knows of
\* lies between two published ones or above the first.
PublishedTrue ==
    created /\ ~in_batch =>
    \A sd \in Sides :
        LET pub == published[sd] IN
        /\ \A k \in 1 .. Len(pub) : feed[sd][pub[k][1]] = pub[k][2] /\ pub[k][2] > 0
        /\ \A p \in kept[sd] :
               feed[sd][p] > 0
                   => \/ \E k \in 1 .. Len(pub) : pub[k][1] = p
                      \/ Len(pub) = PublishLevels
                         /\ \A k \in 1 .. Len(pub) : Better(sd, pub[k][1], p)
        /\ \A k \in 2 .. Len(pub) : Better(sd, pub[k - 1][1], pub[k][1])

\* A move of the base price preserves the book, as the tests of the rebase are
\* named: no quantity but the one being set is changed by the update.
RebasePreservesBook ==
    [][\A sd \in Sides, price \in Prices, quantity \in Quantities, last \in BOOLEAN :
          created /\ RunUpdate(sd, price, quantity, last)
              => \A s \in Sides, p \in Prices :
                     <<s, p>> # <<sd, price>>
                         => GetQuantity(book'[s], p) = GetQuantity(book[s], p)]_vars
=============================================================================
