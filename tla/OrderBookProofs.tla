--------------------------- MODULE OrderBookProofs ---------------------------
(***************************************************************************)
(* The order book keeps its bitmap, its best level and its quantities      *)
(* right for every depth, word size, range of prices and feed.             *)
(***************************************************************************)
EXTENDS OrderBook, FiniteSetTheorems, WellFoundedInduction, TLAPS

-----------------------------------------------------------------------------
(* The best element of a set of indices. *)

\* Every non-empty set of naturals has a least element.
LEMMA LeastNat ==
    ASSUME NEW T \in SUBSET Nat, T # {}
    PROVE  \E x \in T : \A y \in T : x =< y
<1> DEFINE R == {ss \in Nat \X Nat : ss[1] < ss[2]}
<1>1. IsWellFoundedOn(R, Nat)
  BY NatLessThanWellFounded DEF OpToRel
<1>2. \E x \in T : \A y \in T : ~(<<y, x>> \in R)
  <2>1. T \subseteq Nat
    OBVIOUS
  <2> HIDE DEF R
  <2> QED BY <1>1, <2>1, WFMin, Zenon
<1>3. \A x, y \in Nat : ~(<<y, x>> \in R) => x =< y
  OBVIOUS
<1>4. PICK x \in T : \A y \in T : ~(<<y, x>> \in R)
  BY <1>2
<1>5. \A y \in T : x =< y
  BY <1>3, <1>4, T \subseteq Nat
<1> QED BY <1>5

\* A non-empty bounded set has a greatest element.
LEMMA GreatestNat ==
    ASSUME NEW n \in Nat, NEW T \in SUBSET (0 .. n), T # {}
    PROVE  \E x \in T : \A y \in T : y =< x
<1> DEFINE U == {n - y : y \in T}
<1>1. U \in SUBSET Nat /\ U # {}
  <2>1. \A y \in T : y \in 0 .. n
    OBVIOUS
  <2>2. \A y \in 0 .. n : n - y \in Nat
    OBVIOUS
  <2>3. PICK y \in T : TRUE
    OBVIOUS
  <2>4. n - y \in U
    BY <2>3
  <2> QED BY <2>1, <2>2, <2>4
<1>2. PICK u \in U : \A v \in U : u =< v
  <2> HIDE DEF U
  <2> QED BY <1>1, LeastNat
<1>3. PICK x \in T : u = n - x
  BY <1>2
<1>4. \A y \in T : y =< x
  <2> TAKE y \in T
  <2>1. n - y \in U
    OBVIOUS
  <2>2. u =< n - y
    BY <1>2, <2>1
  <2> QED BY <1>3, <2>2
<1> QED BY <1>4

\* Best returns the best element.
LEMMA BestElement ==
    ASSUME NEW n \in Nat, NEW S \in SUBSET (0 .. n), S # {}, NEW sd \in Sides
    PROVE  /\ Best(sd, S) \in S
           /\ \A j \in S : Best(sd, S) = j \/ Better(sd, Best(sd, S), j)
<1>1. \E i \in S : \A j \in S : i = j \/ Better(sd, i, j)
  <2>1. CASE sd = "Bid"
    <3>1. PICK x \in S : \A y \in S : y =< x
      BY GreatestNat
    <3>2. \A y \in S : x = y \/ x > y
      BY <3>1
    <3> QED BY <2>1, <3>2 DEF Better
  <2>2. CASE sd = "Ask"
    <3>1. S \in SUBSET Nat
      OBVIOUS
    <3>2. PICK x \in S : \A y \in S : x =< y
      BY <3>1, LeastNat
    <3>3. \A y \in S : x = y \/ x < y
      BY <3>1, <3>2
    <3> QED BY <2>2, <3>3 DEF Better
  <2> QED BY <2>1, <2>2 DEF Sides
<1> QED BY <1>1 DEF Best

-----------------------------------------------------------------------------
(* Words and bits. *)

LEMMA DivMod ==
    ASSUME NEW i \in Nat
    PROVE  /\ i \div WORD_BITS \in Nat /\ i % WORD_BITS \in Bits
           /\ i = (i \div WORD_BITS) * WORD_BITS + (i % WORD_BITS)
BY SizesAssumption DEF Bits

\* The word and the bit of an index are determined by it.
LEMMA WordBitUnique ==
    ASSUME NEW v \in Nat, NEW w \in Nat, NEW a \in Bits, NEW b \in Bits,
           v * WORD_BITS + a = w * WORD_BITS + b
    PROVE  v = w /\ a = b
<1> DEFINE N == WORD_BITS
<1>1. N \in Nat \ {0} /\ a \in 0 .. N - 1 /\ b \in 0 .. N - 1
  BY SizesAssumption DEF Bits
<1>2. v < w => v * N + N =< w * N
  <2>1. \A k \in Nat : (v + 1 + k) * N >= v * N + N
    BY <1>1
  <2> QED BY <2>1, <1>1
<1>3. w < v => w * N + N =< v * N
  BY <1>1
<1> QED BY <1>1, <1>2, <1>3

LEMMA WordOfIndex ==
    ASSUME NEW i \in Indices
    PROVE  i \div WORD_BITS \in Words
BY SizesAssumption, DivMod DEF Indices, Words

\* Indices are ordered by word first.
LEMMA WordOrder ==
    ASSUME NEW v \in Nat, NEW w \in Nat, NEW a \in Bits, NEW b \in Bits, v < w
    PROVE  v * WORD_BITS + a < w * WORD_BITS + b
<1> DEFINE N == WORD_BITS
<1>1. N \in Nat \ {0} /\ a \in 0 .. N - 1 /\ b \in 0 .. N - 1
  BY SizesAssumption DEF Bits
<1>2. v * N + N =< w * N
  BY <1>1
<1>3. v * N \in Nat /\ w * N \in Nat
  BY <1>1
<1> QED BY <1>1, <1>2, <1>3

-----------------------------------------------------------------------------
(* A side of the book. *)

Agrees(words, levels) ==
    \A w \in Words, b \in Bits :
        b \in words[w] <=> w * WORD_BITS + b \in Indices /\ levels[w * WORD_BITS + b] > 0

IsBest(sd, top, levels) ==
    /\ top \in Indices \cup {INVALID_INDEX}
    /\ top = INVALID_INDEX => \A i \in Indices : levels[i] = 0
    /\ top # INVALID_INDEX =>
           /\ levels[top] > 0
           /\ \A i \in Indices : levels[i] > 0 => i = top \/ Better(sd, top, i)

SideOK(sd, s) ==
    /\ s \in SideType
    /\ Agrees(s.words, s.levels)
    /\ IsBest(sd, s.top, s.levels)

\* rebuild_top_from_bitmap finds the best level when the bitmap is right.
LEMMA RebuildBest ==
    ASSUME NEW sd \in Sides, NEW words \in [Words -> SUBSET Bits],
           NEW levels \in [Indices -> Nat], Agrees(words, levels)
    PROVE  IsBest(sd, RebuildTop(sd, words), levels)
<1> DEFINE full == {w \in Words : words[w] # {} /\ InWord(sd, words, w) < Depth}
<1>0. Words \subseteq Nat /\ WORD_BITS \in Nat \ {0} /\ Indices \subseteq Nat
      /\ Depth \in Nat
  BY SizesAssumption DEF Words, Indices
<1>1. ASSUME NEW w \in Words, words[w] # {}
      PROVE  /\ Best(sd, words[w]) \in words[w]
             /\ \A j \in words[w] : Best(sd, words[w]) = j
                                    \/ Better(sd, Best(sd, words[w]), j)
  <2>1. words[w] \in SUBSET (0 .. WORD_BITS - 1) /\ WORD_BITS - 1 \in Nat
    BY SizesAssumption DEF Bits
  <2> QED BY <1>1, <2>1, BestElement
<1>2. ASSUME NEW w \in Words, words[w] # {}
      PROVE  /\ w \in full /\ InWord(sd, words, w) \in Indices
             /\ levels[InWord(sd, words, w)] > 0
  <2>1. Best(sd, words[w]) \in words[w] /\ Best(sd, words[w]) \in Bits
    BY <1>1, <1>2
  <2>2. InWord(sd, words, w) \in Indices /\ levels[InWord(sd, words, w)] > 0
    BY <2>1 DEF Agrees, InWord
  <2>3. InWord(sd, words, w) < Depth
    BY <2>2, SizesAssumption DEF Indices
  <2> QED BY <1>2, <2>2, <2>3
<1>3. ASSUME NEW i \in Indices, levels[i] > 0
      PROVE  /\ i \div WORD_BITS \in full
             /\ i % WORD_BITS \in words[i \div WORD_BITS]
             /\ i = (i \div WORD_BITS) * WORD_BITS + (i % WORD_BITS)
  <2>1. i \in Nat
    BY <1>0
  <2>2. /\ i \div WORD_BITS \in Words /\ i % WORD_BITS \in Bits
        /\ i = (i \div WORD_BITS) * WORD_BITS + (i % WORD_BITS)
    BY <2>1, DivMod, WordOfIndex
  <2>3. i % WORD_BITS \in words[i \div WORD_BITS]
    BY <1>3, <2>2 DEF Agrees
  <2> QED BY <1>2, <2>2, <2>3
<1>4. CASE full = {}
  <2>1. RebuildTop(sd, words) = INVALID_INDEX
    BY <1>4 DEF RebuildTop
  <2>2. \A i \in Indices : levels[i] = 0
    BY <1>3, <1>4
  <2> QED BY <2>1, <2>2 DEF IsBest
<1>5. CASE full # {}
  <2> DEFINE v == Best(sd, full)
             top == InWord(sd, words, v)
  <2>1. v \in full /\ \A w \in full : v = w \/ Better(sd, v, w)
    <3> DEFINE n == (Depth + WORD_BITS - 1) \div WORD_BITS - 1
    <3>1. full \in SUBSET (0 .. n)
      BY DEF Words
    <3>2. n \in Nat
      BY <1>5, <1>0, SizesAssumption DEF Words
    <3> HIDE DEF full, n
    <3> QED BY <1>5, <3>1, <3>2, BestElement
  <2>2. RebuildTop(sd, words) = top
    BY <1>5 DEF RebuildTop
  <2>3. top \in Indices /\ levels[top] > 0
    BY <1>2, <2>1
  <2>4. ASSUME NEW i \in Indices, levels[i] > 0
        PROVE  i = top \/ Better(sd, top, i)
    <3> DEFINE w == i \div WORD_BITS
               b == i % WORD_BITS
               a == Best(sd, words[v])
    <3>1. w \in full /\ b \in words[w] /\ i = w * WORD_BITS + b
      BY <1>3, <2>4
    <3>2. a \in words[v] /\ top = v * WORD_BITS + a
          /\ \A j \in words[v] : a = j \/ Better(sd, a, j)
      BY <1>1, <2>1 DEF InWord
    <3>3. w \in Words /\ v \in Words /\ words[w] \subseteq Bits /\ words[v] \subseteq Bits
      BY <2>1, <3>1
    <3>5. v = w \/ Better(sd, v, w)
      BY <2>1, <3>1
    <3> HIDE DEF v, w, a, b, top, full
    <3>4. w \in Nat /\ v \in Nat /\ b \in Bits /\ a \in Bits /\ Bits \subseteq Nat
      <4>1. Bits \subseteq Nat
        BY SizesAssumption DEF Bits
      <4> QED BY <1>0, <3>1, <3>2, <3>3, <4>1
    <3>6. CASE v = w
      <4>1. a = b \/ Better(sd, a, b)
        BY <3>1, <3>2, <3>6
      <4>2. v * WORD_BITS \in Nat
        BY <3>4, <1>0
      <4> QED BY <3>1, <3>2, <3>4, <3>6, <4>1, <4>2 DEF Better
    <3>7. CASE v # w /\ sd = "Bid"
      BY <3>1, <3>2, <3>4, <3>5, <3>7, WordOrder DEF Better
    <3>8. CASE v # w /\ sd = "Ask"
      BY <3>1, <3>2, <3>4, <3>5, <3>8, WordOrder DEF Better
    <3> QED BY <3>6, <3>7, <3>8 DEF Sides
  <2>5. top # INVALID_INDEX
    BY <2>3, <1>0 DEF INVALID_INDEX
  <2> HIDE DEF top
  <2> QED BY <2>2, <2>3, <2>4, <2>5 DEF IsBest
<1> QED BY <1>4, <1>5

\* A side filled from an array of quantities is right.
LEMMA FilledOK ==
    ASSUME NEW sd \in Sides, NEW base \in Int, NEW levels \in [Indices -> Nat]
    PROVE  /\ SideOK(sd, Filled(sd, base, levels))
           /\ Filled(sd, base, levels).base = base
           /\ Filled(sd, base, levels).levels = levels
<1> DEFINE words == [w \in Words |->
                        {b \in Bits : w * WORD_BITS + b \in Indices
                                      /\ levels[w * WORD_BITS + b] > 0}]
           s == Filled(sd, base, levels)
<1>1. words \in [Words -> SUBSET Bits]
  OBVIOUS
<1>2. Agrees(words, levels)
  BY DEF Agrees
<1>3. s = [base |-> base, levels |-> levels, words |-> words,
           top |-> RebuildTop(sd, words)]
  BY DEF Filled
<1> HIDE DEF words, s
<1>4. IsBest(sd, RebuildTop(sd, words), levels)
  BY <1>1, <1>2, RebuildBest
<1>5. RebuildTop(sd, words) \in Indices \cup {INVALID_INDEX}
  BY <1>4 DEF IsBest
<1>6. s \in SideType
  BY <1>1, <1>3, <1>5 DEF SideType
<1>7. SideOK(sd, s) /\ s.base = base /\ s.levels = levels
  BY <1>2, <1>3, <1>4, <1>6 DEF SideOK
<1> QED BY <1>7 DEF s

LEMMA IndicesInt ==
    /\ Indices \subseteq Nat /\ \A i \in Indices : i \in Int
    /\ Center \in Nat /\ Center \in Int /\ RebaseDelta \in Int /\ Depth \in Int
    /\ INVALID_INDEX \notin Indices
BY SizesAssumption DEF Indices, Center, INVALID_INDEX

\* set_level keeps the side right and changes one quantity, if it is in range.
LEMMA SetLevelOK ==
    ASSUME NEW sd \in Sides, NEW s, SideOK(sd, s),
           NEW price \in Int, NEW quantity \in Nat
    PROVE  /\ SideOK(sd, SetLevel(sd, s, price, quantity))
           /\ SetLevel(sd, s, price, quantity).base = s.base
           /\ IndexAt(s.base, price) \notin Indices => SetLevel(sd, s, price, quantity) = s
           /\ IndexAt(s.base, price) \in Indices =>
                  SetLevel(sd, s, price, quantity).levels
                      = [s.levels EXCEPT ![IndexAt(s.base, price)] = quantity]
<1> DEFINE i == IndexAt(s.base, price)
           words == IF quantity > 0 THEN SetBit(s.words, i) ELSE ClearBit(s.words, i)
           top == IF quantity > 0
                  THEN IF s.top = INVALID_INDEX \/ Better(sd, i, s.top) THEN i ELSE s.top
                  ELSE IF i = s.top THEN RebuildTop(sd, words) ELSE s.top
           levels == [s.levels EXCEPT ![i] = quantity]
           t == SetLevel(sd, s, price, quantity)
<1>1. CASE i \notin Indices
  BY <1>1 DEF SetLevel
<1>2. CASE i \in Indices
  <2>1. t = [base |-> s.base, levels |-> levels, words |-> words, top |-> top]
    BY <1>2 DEF SetLevel
  <2>2. /\ s.base \in Int /\ s.levels \in [Indices -> Nat]
        /\ s.words \in [Words -> SUBSET Bits] /\ s.top \in Indices \cup {INVALID_INDEX}
        /\ Agrees(s.words, s.levels) /\ IsBest(sd, s.top, s.levels)
    BY DEF SideOK, SideType
  <2> DEFINE v == i \div WORD_BITS
             a == i % WORD_BITS
  <2>3. i \in Nat /\ v \in Words /\ v \in Nat /\ a \in Bits /\ i = v * WORD_BITS + a
    BY <1>2, IndicesInt, DivMod, WordOfIndex
  <2>4. words = IF quantity > 0 THEN [s.words EXCEPT ![v] = @ \cup {a}]
                ELSE [s.words EXCEPT ![v] = @ \ {a}]
    BY DEF SetBit, ClearBit
  <2> HIDE DEF t, words, i, v, a
  <2>5. levels \in [Indices -> Nat] /\ words \in [Words -> SUBSET Bits]
    BY <1>2, <2>2, <2>3, <2>4
  <2>6. Agrees(words, levels)
    <3> SUFFICES ASSUME NEW w \in Words, NEW b \in Bits
                 PROVE  b \in words[w] <=> w * WORD_BITS + b \in Indices
                                           /\ levels[w * WORD_BITS + b] > 0
      BY DEF Agrees
    <3>1. w \in Nat
      BY SizesAssumption DEF Words
    <3>2. b \in s.words[w] <=> w * WORD_BITS + b \in Indices
                               /\ s.levels[w * WORD_BITS + b] > 0
      BY <2>2 DEF Agrees
    <3>3. CASE w = v /\ b = a
      <4>1. b \in words[w] <=> quantity > 0
        BY <2>2, <2>4, <3>3
      <4>2. w * WORD_BITS + b = i
        BY <2>3, <3>3
      <4>3. levels[i] = quantity
        BY <1>2, <2>2
      <4> QED BY <1>2, <4>1, <4>2, <4>3
    <3>4. CASE ~(w = v /\ b = a)
      <4>1. b \in words[w] <=> b \in s.words[w]
        BY <2>2, <2>4, <3>4
      <4>2. w * WORD_BITS + b # i
        BY <2>3, <3>1, <3>4, WordBitUnique
      <4>3. w * WORD_BITS + b \in Indices
                => levels[w * WORD_BITS + b] = s.levels[w * WORD_BITS + b]
        BY <2>2, <4>2
      <4> QED BY <3>2, <4>1, <4>3
    <3> QED BY <3>3, <3>4
  <2>7. IsBest(sd, top, levels)
    <3>1. CASE quantity > 0 /\ (s.top = INVALID_INDEX \/ Better(sd, i, s.top))
      <4>1. top = i /\ i # INVALID_INDEX
        BY <1>2, <3>1, IndicesInt
      <4>2. levels[i] = quantity
        BY <1>2, <2>2
      <4>3. ASSUME NEW j \in Indices, levels[j] > 0, j # i
            PROVE  Better(sd, i, j)
        <5>1. s.levels[j] > 0 /\ s.levels[j] # 0
          BY <2>2, <4>3
        <5>2. s.top \in Indices /\ (j = s.top \/ Better(sd, s.top, j)) /\ Better(sd, i, s.top)
          BY <2>2, <3>1, <5>1 DEF IsBest
        <5>3. i \in Nat /\ j \in Nat /\ s.top \in Nat
          BY <2>3, <5>2, IndicesInt
        <5> QED BY <5>2, <5>3 DEF Better
      <4> QED BY <1>2, <3>1, <4>1, <4>2, <4>3 DEF IsBest
    <3>4. CASE quantity > 0 /\ s.top # INVALID_INDEX /\ ~Better(sd, i, s.top)
      <4>1. top = s.top /\ s.top \in Indices
        BY <2>2, <3>4
      <4>2. levels[s.top] > 0
        BY <1>2, <2>2, <3>4, <4>1 DEF IsBest
      <4>3. ASSUME NEW j \in Indices, levels[j] > 0, j # s.top
            PROVE  Better(sd, s.top, j)
        <5>1. CASE j = i
          <6>1. i \in Nat /\ s.top \in Nat /\ i # s.top
            BY <2>3, <4>1, <4>3, <5>1, IndicesInt
          <6> QED BY <3>4, <5>1, <6>1 DEF Better
        <5>2. CASE j # i
          <6>1. s.levels[j] > 0
            BY <2>2, <4>3, <5>2
          <6> QED BY <2>2, <3>4, <4>3, <6>1 DEF IsBest
        <5> QED BY <5>1, <5>2
      <4> QED BY <3>4, <4>1, <4>2, <4>3 DEF IsBest
    <3>2. CASE ~(quantity > 0) /\ i = s.top
      <4>1. top = RebuildTop(sd, words)
        BY <3>2
      <4> HIDE DEF top, levels
      <4> QED BY <2>5, <2>6, <4>1, RebuildBest
    <3>3. CASE ~(quantity > 0) /\ i # s.top
      <4>1. top = s.top
        BY <3>3
      <4>2. quantity = 0
        BY <3>3
      <4> QED BY <1>2, <2>2, <3>3, <4>1, <4>2, IndicesInt DEF IsBest
    <3> QED BY <3>1, <3>2, <3>3, <3>4
  <2> HIDE DEF top, levels
  <2>8. top \in Indices \cup {INVALID_INDEX}
    BY <2>7 DEF IsBest
  <2>9. t \in SideType
    BY <2>1, <2>2, <2>5, <2>8 DEF SideType
  <2>10. SideOK(sd, t) /\ t.base = s.base /\ t.levels = levels
    BY <2>1, <2>6, <2>7, <2>9 DEF SideOK
  <2> QED BY <1>2, <2>10 DEF t, levels, i
<1> QED BY <1>1, <1>2

-----------------------------------------------------------------------------
(* Prices, moves of the base price. *)

LEMMA WindowIndex ==
    ASSUME NEW base \in Int, NEW p \in Int
    PROVE  /\ p \in Window(base) <=> IndexAt(base, p) \in Indices
           /\ PriceAt(base, IndexAt(base, p)) = p
           /\ IndexAt(base, p) \in Int
<1>1. PriceAt(base, IndexAt(base, p)) = p /\ IndexAt(base, p) \in Int
  BY IndicesInt DEF PriceAt, IndexAt
<1>2. ASSUME NEW i \in Indices
      PROVE  IndexAt(base, PriceAt(base, i)) = i
  BY IndicesInt DEF PriceAt, IndexAt
<1> QED BY <1>1, <1>2 DEF Window

LEMMA PriceIndex ==
    ASSUME NEW base \in Int, NEW i \in Indices
    PROVE  IndexAt(base, PriceAt(base, i)) = i /\ PriceAt(base, i) \in Int
BY IndicesInt DEF PriceAt, IndexAt

LEMMA QuantityNat ==
    ASSUME NEW s \in SideType, NEW p
    PROVE  GetQuantity(s, p) \in Nat
BY DEF GetQuantity, SideType

\* What get_quantity answers on a side filled from an array.
LEMMA FilledQuantity ==
    ASSUME NEW sd \in Sides, NEW base \in Int, NEW levels \in [Indices -> Nat], NEW p \in Int
    PROVE  GetQuantity(Filled(sd, base, levels), p)
               = IF p \in Window(base) THEN levels[IndexAt(base, p)] ELSE 0
<1>1. Filled(sd, base, levels).base = base /\ Filled(sd, base, levels).levels = levels
  BY FilledOK
<1>2. p \in Window(base) <=> IndexAt(base, p) \in Indices
  BY WindowIndex
<1> QED BY <1>1, <1>2 DEF GetQuantity

\* A side moved to a new base price is right and keeps what is in its range.
LEMMA MoveOK ==
    ASSUME NEW sd \in Sides, NEW s, SideOK(sd, s), NEW base \in Int
    PROVE  /\ SideOK(sd, MoveSide(sd, s, base))
           /\ MoveSide(sd, s, base).base = base
           /\ \A p \in Int : GetQuantity(MoveSide(sd, s, base), p)
                                = IF p \in Window(base) THEN GetQuantity(s, p) ELSE 0
<1> DEFINE levels == [i \in Indices |-> GetQuantity(s, PriceAt(base, i))]
<1>1. levels \in [Indices -> Nat]
  BY QuantityNat DEF SideOK
<1>2. MoveSide(sd, s, base) = Filled(sd, base, levels)
  BY DEF MoveSide
<1>3. ASSUME NEW p \in Int, p \in Window(base)
      PROVE  levels[IndexAt(base, p)] = GetQuantity(s, p)
  BY <1>3, WindowIndex
<1> HIDE DEF levels
<1> QED BY <1>1, <1>2, <1>3, FilledOK, FilledQuantity

\* A side with a best level has it at that price.
LEMMA TopQuantity ==
    ASSUME NEW sd \in Sides, NEW s, SideOK(sd, s), HasTop(s)
    PROVE  /\ s.base \in Int /\ s.top \in Indices /\ TopPrice(s) \in Int
           /\ GetQuantity(s, TopPrice(s)) > 0
           /\ \A p \in Int : GetQuantity(s, p) > 0 =>
                  p = TopPrice(s) \/ Better(sd, TopPrice(s), p)
<1>1. s.base \in Int /\ s.top \in Indices /\ s.levels[s.top] > 0
      /\ s.levels \in [Indices -> Nat]
      /\ \A i \in Indices : s.levels[i] > 0 => i = s.top \/ Better(sd, s.top, i)
  BY DEF SideOK, SideType, IsBest, HasTop
<1>2. IndexAt(s.base, TopPrice(s)) = s.top /\ TopPrice(s) \in Int
  BY <1>1, PriceIndex DEF TopPrice
<1>3. GetQuantity(s, TopPrice(s)) > 0
  BY <1>1, <1>2 DEF GetQuantity
<1>4. ASSUME NEW p \in Int, GetQuantity(s, p) > 0
      PROVE  p = TopPrice(s) \/ Better(sd, TopPrice(s), p)
  <2> DEFINE i == IndexAt(s.base, p)
  <2>1. i \in Indices /\ s.levels[i] > 0
    BY <1>4 DEF GetQuantity
  <2>2. i = s.top \/ Better(sd, s.top, i)
    BY <1>1, <2>1
  <2>3. i = Center + (p - s.base) /\ TopPrice(s) = s.base + (s.top - Center)
    BY DEF IndexAt, TopPrice, PriceAt
  <2>4. i \in Int /\ s.top \in Int /\ Center \in Int
    <3> HIDE DEF i
    <3> QED BY <1>1, <2>1, IndicesInt
  <2> HIDE DEF i
  <2> QED BY <1>1, <2>2, <2>3, <2>4 DEF Better
<1> QED BY <1>1, <1>2, <1>3, <1>4

BookOK(bk) ==
    /\ bk = [sd \in Sides |-> bk[sd]]
    /\ \A sd \in Sides : SideOK(sd, bk[sd])
    /\ bk["Bid"].base = bk["Ask"].base

Zone(bk) == HasSpread(bk) => RebaseDelta < bk["Bid"].top
                             /\ bk["Bid"].top < Depth - 1 - RebaseDelta

\* maybe_rebase keeps the book right, leaves the best bid away from the ends
\* and drops only what is out of the new range.
LEMMA RebaseOK ==
    ASSUME NEW bk, BookOK(bk)
    PROVE  /\ BookOK(MaybeRebase(bk))
           /\ Zone(MaybeRebase(bk))
           /\ \A sd \in Sides, p \in Int :
                  GetQuantity(MaybeRebase(bk)[sd], p)
                      = IF p \in Window(MaybeRebase(bk)[sd].base)
                        THEN GetQuantity(bk[sd], p) ELSE 0
<1> DEFINE b == MaybeRebase(bk)
<1>0. "Bid" \in Sides /\ "Ask" \in Sides /\ \A sd \in Sides : SideOK(sd, bk[sd])
  BY DEF Sides, BookOK
<1>1. CASE ~ShouldRebase(bk)
  <2>1. b = bk
    BY <1>1 DEF MaybeRebase
  <2>2. ASSUME HasSpread(bk)
        PROVE  RebaseDelta < bk["Bid"].top /\ bk["Bid"].top < Depth - 1 - RebaseDelta
    <3>1. HasTop(bk["Bid"]) /\ ~InTriggerZone(bk["Bid"])
      BY <1>0, <1>1, <2>2 DEF ShouldRebase, HasSpread
    <3> DEFINE base == bk["Bid"].base
               top == bk["Bid"].top
    <3>2. base \in Int /\ top \in Indices
      BY <1>0, <3>1, TopQuantity
    <3>3. /\ ~(TopPrice(bk["Bid"]) =< PriceAt(base, 0) + RebaseDelta)
          /\ ~(TopPrice(bk["Bid"]) >= PriceAt(base, Depth - 1) - RebaseDelta)
      BY <3>1 DEF InTriggerZone
    <3>4. /\ TopPrice(bk["Bid"]) = base + (top - Center)
          /\ PriceAt(base, 0) = base + (0 - Center)
          /\ PriceAt(base, Depth - 1) = base + ((Depth - 1) - Center)
      BY DEF TopPrice, PriceAt
    <3> HIDE DEF base, top
    <3>6. top \in Int /\ Center \in Int /\ RebaseDelta \in Int /\ Depth \in Int
      BY <3>2, IndicesInt
    <3>5. RebaseDelta < top /\ top < Depth - 1 - RebaseDelta
      BY <3>2, <3>3, <3>4, <3>6
    <3> QED BY <3>5 DEF top
  <2>3. ASSUME NEW sd \in Sides, NEW p \in Int, p \notin Window(bk[sd].base)
        PROVE  GetQuantity(bk[sd], p) = 0
    <3>1. bk[sd].base \in Int
      BY <1>0 DEF SideOK, SideType
    <3> QED BY <2>3, <3>1, WindowIndex DEF GetQuantity
  <2> QED BY <2>1, <2>2, <2>3 DEF Zone
<1>2. CASE ShouldRebase(bk)
  <2> DEFINE new == TopPrice(bk["Bid"])
  <2>1. b = [sd \in Sides |-> MoveSide(sd, bk[sd], new)]
    BY <1>2 DEF MaybeRebase
  <2>2. HasTop(bk["Bid"])
    BY <1>2 DEF ShouldRebase, HasSpread
  <2>3. /\ new \in Int /\ GetQuantity(bk["Bid"], new) > 0
        /\ \A p \in Int : GetQuantity(bk["Bid"], p) > 0 => p = new \/ new > p
    BY <1>0, <2>2, TopQuantity DEF Better
  <2> HIDE DEF b, new
  <2>4. \A sd \in Sides :
            /\ b[sd] = MoveSide(sd, bk[sd], new)
            /\ SideOK(sd, b[sd]) /\ b[sd].base = new
            /\ \A p \in Int : GetQuantity(b[sd], p)
                                 = IF p \in Window(new) THEN GetQuantity(bk[sd], p) ELSE 0
    <3> SUFFICES ASSUME NEW sd \in Sides
                 PROVE  /\ b[sd] = MoveSide(sd, bk[sd], new)
                        /\ SideOK(sd, b[sd]) /\ b[sd].base = new
                        /\ \A p \in Int : GetQuantity(b[sd], p)
                               = IF p \in Window(new) THEN GetQuantity(bk[sd], p) ELSE 0
      OBVIOUS
    <3>1. b[sd] = MoveSide(sd, bk[sd], new)
      BY <2>1
    <3>2. SideOK(sd, bk[sd])
      BY <1>0
    <3> QED BY <2>3, <3>1, <3>2, MoveOK
  <2>5. BookOK(b)
    BY <1>0, <2>1, <2>4 DEF BookOK
  <2>6. Zone(b)
    <3> SUFFICES ASSUME HasSpread(b)
                 PROVE  RebaseDelta < b["Bid"].top /\ b["Bid"].top < Depth - 1 - RebaseDelta
      BY DEF Zone
    <3> DEFINE t == b["Bid"]
    <3>1. SideOK("Bid", t) /\ t.base = new /\ HasTop(t)
      BY <1>0, <2>4 DEF HasSpread
    <3> HIDE DEF t
    <3>2. /\ t.top \in Indices /\ TopPrice(t) \in Int /\ GetQuantity(t, TopPrice(t)) > 0
          /\ \A p \in Int : GetQuantity(t, p) > 0 => p = TopPrice(t) \/ TopPrice(t) > p
      BY <1>0, <3>1, TopQuantity DEF Better
    <3>3. Center \in Indices /\ Center \in Nat
      BY SizesAssumption DEF Center, Indices
    <3>4. new \in Window(new)
      <4>1. PriceAt(new, Center) = new
        BY <2>3, <3>3 DEF PriceAt
      <4> QED BY <3>3, <4>1 DEF Window
    <3>5. GetQuantity(t, new) > 0
      BY <1>0, <2>3, <2>4, <3>4 DEF t
    <3>6. GetQuantity(bk["Bid"], TopPrice(t)) > 0
      BY <1>0, <2>4, <3>2 DEF t
    <3>7. TopPrice(t) = new
      BY <2>3, <3>2, <3>5, <3>6
    <3>8. t.top = Center
      <4>1. new + (t.top - Center) = new
        BY <3>1, <3>7 DEF TopPrice, PriceAt
      <4>2. t.top \in Int /\ Center \in Int
        BY <3>2, IndicesInt
      <4> QED BY <2>3, <4>1, <4>2
    <3> QED BY <3>8, SizesAssumption DEF Center, t
  <2> QED BY <2>4, <2>5, <2>6 DEF b
<1> QED BY <1>1, <1>2

-----------------------------------------------------------------------------
(* The invariant. *)

\* Before the first message nothing has been told.
NothingTold == ~created => kept = [sd \in Sides |-> {}]

IInv ==
    /\ TypeOK /\ BitmapAgrees /\ TopIsBest
    /\ BookIsFeed /\ BidInsideZone /\ NothingTold

\* BookOK is what the first three conjuncts say of the book.
LEMMA BookOKIsInvariant ==
    /\ TypeOK /\ BitmapAgrees /\ TopIsBest => BookOK(book)
    /\ BookOK(book) => book \in [Sides -> SideType] /\ BitmapAgrees /\ TopIsBest
<1>1. ASSUME TypeOK, BitmapAgrees, TopIsBest
      PROVE  BookOK(book)
  <2>1. book \in [Sides -> SideType]
    BY <1>1 DEF TypeOK
  <2>2. ASSUME NEW sd \in Sides
        PROVE  SideOK(sd, book[sd])
    <3>1. book[sd] \in SideType
      BY <2>1
    <3>2. book[sd].levels \in [Indices -> Nat]
          /\ book[sd].top \in Indices \cup {INVALID_INDEX}
      BY <3>1 DEF SideType
    <3>3. Agrees(book[sd].words, book[sd].levels)
      BY <1>1 DEF BitmapAgrees, Agrees
    <3>4. IsBest(sd, book[sd].top, book[sd].levels)
      BY <1>1, <3>2 DEF TopIsBest, IsBest, HasTop
    <3> QED BY <3>1, <3>3, <3>4 DEF SideOK
  <2>3. book["Bid"].base = book["Ask"].base
    BY <1>1 DEF BitmapAgrees
  <2> QED BY <2>1, <2>2, <2>3 DEF BookOK
<1>2. ASSUME BookOK(book)
      PROVE  book \in [Sides -> SideType] /\ BitmapAgrees /\ TopIsBest
  <2>1. book \in [Sides -> SideType]
    BY <1>2 DEF BookOK, SideOK
  <2>2. BitmapAgrees
    BY <1>2 DEF BookOK, SideOK, Agrees, BitmapAgrees
  <2>3. TopIsBest
    <3> SUFFICES ASSUME NEW sd \in Sides
                 PROVE  LET full == {i \in Indices : book[sd].levels[i] > 0} IN
                        IF HasTop(book[sd])
                        THEN book[sd].top \in full
                             /\ \A i \in full : i = book[sd].top
                                                \/ Better(sd, book[sd].top, i)
                        ELSE full = {}
      BY DEF TopIsBest
    <3>1. IsBest(sd, book[sd].top, book[sd].levels)
      BY <1>2 DEF BookOK, SideOK
    <3> QED BY <3>1 DEF IsBest, HasTop
  <2> QED BY <2>1, <2>2, <2>3
<1> QED BY <1>1, <1>2

LEMMA EmptyBookOK ==
    ASSUME NEW base \in Int
    PROVE  /\ BookOK([sd \in Sides |-> EmptySide(sd, base)])
           /\ \A sd \in Sides : EmptySide(sd, base).base = base
           /\ \A sd \in Sides, p \in Int : GetQuantity(EmptySide(sd, base), p) = 0
           /\ \A sd \in Sides : EmptySide(sd, base).top = INVALID_INDEX
<1> DEFINE levels == [i \in Indices |-> 0]
           bk == [sd \in Sides |-> EmptySide(sd, base)]
<1>1. levels \in [Indices -> Nat]
  OBVIOUS
<1>2. \A sd \in Sides : EmptySide(sd, base) = Filled(sd, base, levels)
  BY DEF EmptySide
<1>3. \A sd \in Sides : levels[0] = 0 /\ 0 \in Indices
  BY SizesAssumption DEF Indices
<1>4. \A i \in Indices : levels[i] = 0
  OBVIOUS
<1> HIDE DEF levels
<1>5. \A sd \in Sides : /\ SideOK(sd, EmptySide(sd, base))
                        /\ EmptySide(sd, base).base = base
                        /\ EmptySide(sd, base).levels = levels
  BY <1>1, <1>2, FilledOK
<1>6. \A sd \in Sides, p \in Int : GetQuantity(EmptySide(sd, base), p) = 0
  BY <1>4, <1>5 DEF GetQuantity
<1>7. \A sd \in Sides : EmptySide(sd, base).top = INVALID_INDEX
  BY <1>4, <1>5 DEF SideOK, IsBest
<1>8. BookOK(bk)
  <2>1. \A sd \in Sides : bk[sd] = EmptySide(sd, base)
    OBVIOUS
  <2>2. "Bid" \in Sides /\ "Ask" \in Sides /\ bk = [sd \in Sides |-> bk[sd]]
    BY DEF Sides
  <2> HIDE DEF bk
  <2> QED BY <1>5, <2>1, <2>2 DEF BookOK
<1> QED BY <1>5, <1>6, <1>7, <1>8

LEMMA PricesInt == Prices \subseteq Int /\ \A p \in Prices : p \in Int
BY InputsAssumption

\* get_snapshot_reference_price is a price, or 0.
LEMMA ReferenceInt ==
    ASSUME NEW snapshot
    PROVE  ReferencePrice(snapshot) \in Int
<1> DEFINE listed(sd) == {p \in Prices : snapshot[sd][p] > 0}
<1>1. ASSUME NEW sd \in Sides, listed(sd) # {}
      PROVE  Best(sd, listed(sd)) \in Int
  <2>1. MaxPrice \in Nat /\ listed(sd) \in SUBSET (0 .. MaxPrice)
    BY InputsAssumption
  <2>2. Best(sd, listed(sd)) \in listed(sd)
    <3> HIDE DEF listed
    <3> QED BY <1>1, <2>1, BestElement
  <2> QED BY <2>2, PricesInt
<1>2. "Bid" \in Sides /\ "Ask" \in Sides
  BY DEF Sides
<1>3. ReferencePrice(snapshot) =
          IF listed("Bid") # {} THEN Best("Bid", listed("Bid"))
          ELSE IF listed("Ask") # {} THEN Best("Ask", listed("Ask")) ELSE 0
  BY DEF ReferencePrice
<1> HIDE DEF listed
<1> QED BY <1>1, <1>2, <1>3

\* The book the manager works on is right, and as told of.
LEMMA CurrentOK ==
    ASSUME IInv, NEW base \in Int
    PROVE  /\ BookOK(Current(base))
           /\ \A sd \in Sides, p \in Prices :
                  GetQuantity(Current(base)[sd], p) = IF p \in kept[sd] THEN feed[sd][p] ELSE 0
           /\ \A sd \in Sides : kept[sd] \subseteq Window(Current(base)[sd].base)
           /\ \A sd \in Sides : Current(base)[sd].base \in Int
<1>1. CASE created
  <2>1. Current(base) = book
    BY <1>1 DEF Current
  <2>2. BookOK(book)
    BY BookOKIsInvariant DEF IInv
  <2>3. \A sd \in Sides : book[sd].base \in Int
    BY <2>2 DEF BookOK, SideOK, SideType
  <2> QED BY <2>1, <2>2, <2>3 DEF IInv, BookIsFeed
<1>2. CASE ~created
  <2>1. Current(base) = [sd \in Sides |-> EmptySide(sd, base)]
    BY <1>2 DEF Current
  <2>2. \A sd \in Sides : Current(base)[sd] = EmptySide(sd, base)
    BY <2>1
  <2>3. \A sd \in Sides : kept[sd] = {}
    BY <1>2 DEF IInv, NothingTold
  <2> QED BY <2>1, <2>2, <2>3, EmptyBookOK, PricesInt
<1> QED BY <1>1, <1>2

\* The initial book is empty.
LEMMA InitIInv == Init => IInv
<1> SUFFICES ASSUME Init PROVE IInv
  OBVIOUS
<1>1. book = [sd \in Sides |-> EmptySide(sd, 0)] /\ kept = [sd \in Sides |-> {}]
      /\ feed = [sd \in Sides |-> [p \in Prices |-> 0]]
      /\ created = FALSE /\ in_batch = FALSE /\ messages = 0
  BY DEF Init
<1>2. \A sd \in Sides : book[sd] = EmptySide(sd, 0)
  BY <1>1
<1>3. BookOK(book)
  BY <1>1, EmptyBookOK
<1>4. TypeOK /\ BitmapAgrees /\ TopIsBest
  <2>1. book \in [Sides -> SideType] /\ BitmapAgrees /\ TopIsBest
    BY <1>3, BookOKIsInvariant
  <2>2. messages \in 0 .. MaxMessages
    BY <1>1, InputsAssumption
  <2>3. feed \in [Sides -> [Prices -> Nat]] /\ kept \in [Sides -> SUBSET Prices]
    BY <1>1
  <2>4. created \in BOOLEAN /\ in_batch \in BOOLEAN
    BY <1>1
  <2> QED BY <2>1, <2>2, <2>3, <2>4 DEF TypeOK
<1>5. BookIsFeed
  BY <1>1, <1>2, EmptyBookOK, PricesInt DEF BookIsFeed
<1>6. BidInsideZone
  <2>1. "Bid" \in Sides
    BY DEF Sides
  <2>2. book["Bid"].top = INVALID_INDEX
    <3>1. 0 \in Int
      OBVIOUS
    <3>2. \A sd \in Sides : EmptySide(sd, 0).top = INVALID_INDEX
      BY <3>1, EmptyBookOK, Zenon
    <3> QED BY <1>2, <2>1, <3>2
  <2> QED BY <2>2 DEF BidInsideZone, HasSpread, HasTop
<1> QED BY <1>1, <1>4, <1>5, <1>6 DEF IInv, NothingTold

\* What a step does to the book, once its levels are set: bk is the book before
\* maybe_rebase, ks the prices told of.
LEMMA RebasedStep ==
    ASSUME NEW bk, BookOK(bk), NEW ks \in [Sides -> SUBSET Prices],
           \A sd \in Sides, p \in Prices :
               GetQuantity(bk[sd], p) = IF p \in ks[sd] THEN feed'[sd][p] ELSE 0,
           book' = MaybeRebase(bk),
           kept' = [sd \in Sides |-> ks[sd] \cap Window(book'[sd].base)]
    PROVE  /\ BookOK(book)' /\ BidInsideZone' /\ BookIsFeed'
           /\ kept' \in [Sides -> SUBSET Prices]
<1>1. BookOK(book')
  BY RebaseOK
<1>2. Zone(book')
  BY RebaseOK
<1>3. BidInsideZone'
  BY <1>2 DEF Zone, BidInsideZone, HasSpread, HasTop
<1>4. kept' \in [Sides -> SUBSET Prices]
  OBVIOUS
<1>5. ASSUME NEW sd \in Sides, NEW p \in Prices
      PROVE  GetQuantity(book'[sd], p) = IF p \in kept'[sd] THEN feed'[sd][p] ELSE 0
  <2>1. GetQuantity(book'[sd], p) = IF p \in Window(book'[sd].base)
                                    THEN GetQuantity(bk[sd], p) ELSE 0
    BY RebaseOK, PricesInt
  <2>2. p \in kept'[sd] <=> p \in ks[sd] /\ p \in Window(book'[sd].base)
    OBVIOUS
  <2> QED BY <2>1, <2>2
<1>6. \A sd \in Sides : kept'[sd] \subseteq Window(book'[sd].base)
  OBVIOUS
<1>7. BookIsFeed'
  BY <1>5, <1>6 DEF BookIsFeed, GetQuantity
<1> QED BY <1>1, <1>3, <1>4, <1>7 DEF BookOK, SideOK

\* A snapshot.
LEMMA SnapshotStep ==
    ASSUME IInv, NEW snapshot \in Snapshots, RunSnapshot(snapshot)
    PROVE  IInv'
<1> DEFINE before == Current(ReferencePrice(snapshot))
           bk == WithSnapshot(before, snapshot)
           ks == [sd \in Sides |-> Window(before[sd].base) \cap Prices]
           levels(sd) == [i \in Indices |->
                             LET p == PriceAt(before[sd].base, i)
                             IN  IF p \in Prices THEN snapshot[sd][p] ELSE 0]
<1>0. snapshot \in [Sides -> [Prices -> Nat]]
  BY InputsAssumption
<1>1. \A sd \in Sides : before[sd].base \in Int
  BY ReferenceInt, CurrentOK
<1>2. before["Bid"].base = before["Ask"].base
  BY ReferenceInt, CurrentOK DEF BookOK
<1>3. bk = [sd \in Sides |-> Filled(sd, before[sd].base, levels(sd))]
  BY DEF WithSnapshot
<1>4. \A sd \in Sides : levels(sd) \in [Indices -> Nat]
  BY <1>0
<1>5. ASSUME NEW sd \in Sides, NEW p \in Prices, p \in Window(before[sd].base)
      PROVE  levels(sd)[IndexAt(before[sd].base, p)] = snapshot[sd][p]
  BY <1>1, <1>5, WindowIndex, PricesInt
<1>6. book' = MaybeRebase(bk) /\ feed' = snapshot /\ created' = TRUE
      /\ in_batch' = in_batch /\ messages' = messages + 1 /\ messages < MaxMessages
      /\ kept' = [sd \in Sides |-> Window(before[sd].base) \cap Window(book'[sd].base)
                                      \cap Prices]
  BY DEF RunSnapshot
<1> HIDE DEF before, bk, levels
<1>7. \A sd \in Sides : /\ SideOK(sd, bk[sd]) /\ bk[sd].base = before[sd].base
                        /\ bk[sd] = Filled(sd, before[sd].base, levels(sd))
  BY <1>1, <1>3, <1>4, FilledOK
<1>8. BookOK(bk)
  <2>1. bk = [sd \in Sides |-> bk[sd]] /\ "Bid" \in Sides /\ "Ask" \in Sides
    BY <1>3 DEF Sides
  <2> QED BY <1>2, <1>7, <2>1 DEF BookOK
<1>9. ASSUME NEW sd \in Sides, NEW p \in Prices
      PROVE  GetQuantity(bk[sd], p) = IF p \in ks[sd] THEN feed'[sd][p] ELSE 0
  <2>1. GetQuantity(bk[sd], p) = IF p \in Window(before[sd].base)
                                 THEN levels(sd)[IndexAt(before[sd].base, p)] ELSE 0
    BY <1>1, <1>4, <1>7, FilledQuantity, PricesInt
  <2> QED BY <1>5, <1>6, <2>1
<1>10. ks \in [Sides -> SUBSET Prices]
       /\ kept' = [sd \in Sides |-> ks[sd] \cap Window(book'[sd].base)]
  BY <1>6
<1> HIDE DEF ks
<1>11. /\ BookOK(book)' /\ BidInsideZone' /\ BookIsFeed'
       /\ kept' \in [Sides -> SUBSET Prices]
  BY <1>6, <1>8, <1>9, <1>10, RebasedStep
<1>12. (book \in [Sides -> SideType] /\ BitmapAgrees /\ TopIsBest)'
  BY <1>11, BookOKIsInvariant, PTL
<1>13. messages' \in 0 .. MaxMessages /\ in_batch' \in BOOLEAN
  BY <1>6, InputsAssumption DEF IInv, TypeOK
<1>14. TypeOK'
  BY <1>0, <1>6, <1>11, <1>12, <1>13 DEF TypeOK
<1> QED BY <1>6, <1>11, <1>12, <1>14 DEF IInv, NothingTold

\* An update.
LEMMA UpdateStep ==
    ASSUME IInv, NEW sd \in Sides, NEW price \in Prices, NEW quantity \in Quantities,
           NEW last \in BOOLEAN, RunUpdate(sd, price, quantity, last)
    PROVE  IInv'
<1> DEFINE cur == Current(price)
           bk == [cur EXCEPT ![sd] = SetLevel(sd, @, price, quantity)]
           ks == [kept EXCEPT ![sd] = @ \cup ({price} \cap Window(bk[sd].base))]
<1>0. price \in Int /\ quantity \in Nat
  BY PricesInt, InputsAssumption
<1>1. /\ BookOK(cur)
      /\ \A s \in Sides, p \in Prices :
             GetQuantity(cur[s], p) = IF p \in kept[s] THEN feed[s][p] ELSE 0
      /\ \A s \in Sides : cur[s].base \in Int
  BY <1>0, CurrentOK
<1>2. /\ book' = MaybeRebase(bk) /\ created' = TRUE /\ in_batch' = ~last
      /\ messages' = messages + 1 /\ messages < MaxMessages
      /\ feed' = [feed EXCEPT ![sd][price] = quantity]
      /\ kept' = [s \in Sides |-> ks[s] \cap Window(book'[s].base)]
  BY DEF RunUpdate
<1>3. /\ feed \in [Sides -> [Prices -> Nat]] /\ kept \in [Sides -> SUBSET Prices]
      /\ messages \in 0 .. MaxMessages
  BY DEF IInv, TypeOK
<1> HIDE DEF cur
<1>4. /\ SideOK(sd, SetLevel(sd, cur[sd], price, quantity))
      /\ SetLevel(sd, cur[sd], price, quantity).base = cur[sd].base
      /\ IndexAt(cur[sd].base, price) \notin Indices
             => SetLevel(sd, cur[sd], price, quantity) = cur[sd]
      /\ IndexAt(cur[sd].base, price) \in Indices
             => SetLevel(sd, cur[sd], price, quantity).levels
                    = [cur[sd].levels EXCEPT ![IndexAt(cur[sd].base, price)] = quantity]
  BY <1>0, <1>1, SetLevelOK DEF BookOK
<1>5. /\ bk = [s \in Sides |-> bk[s]]
      /\ bk[sd] = SetLevel(sd, cur[sd], price, quantity)
      /\ \A s \in Sides : s # sd => bk[s] = cur[s]
      /\ \A s \in Sides : bk[s].base = cur[s].base
  BY <1>1, <1>4 DEF BookOK
<1> HIDE DEF bk
<1>6. BookOK(bk)
  <2>1. \A s \in Sides : SideOK(s, bk[s])
    BY <1>1, <1>4, <1>5 DEF BookOK
  <2>2. bk["Bid"].base = bk["Ask"].base
    BY <1>1, <1>5 DEF BookOK, Sides
  <2> QED BY <1>5, <2>1, <2>2 DEF BookOK
<1>7. ks \in [Sides -> SUBSET Prices] /\ feed' \in [Sides -> [Prices -> Nat]]
  BY <1>0, <1>2, <1>3
<1>8. ASSUME NEW s \in Sides, NEW p \in Prices
      PROVE  GetQuantity(bk[s], p) = IF p \in ks[s] THEN feed'[s][p] ELSE 0
  <2>1. CASE s # sd
    <3>1. bk[s] = cur[s] /\ ks[s] = kept[s] /\ feed'[s] = feed[s]
      BY <1>2, <1>3, <1>5, <2>1
    <3> QED BY <1>1, <3>1
  <2>2. CASE s = sd /\ p # price
    <3>1. feed'[s][p] = feed[s][p] /\ (p \in ks[s] <=> p \in kept[s])
      BY <1>2, <1>3, <2>2
    <3>2. IndexAt(cur[sd].base, p) # IndexAt(cur[sd].base, price)
      <4>1. cur[sd].base \in Int /\ p \in Int /\ price \in Int /\ Center \in Int /\ p # price
        BY <1>0, <1>1, <2>2, PricesInt, IndicesInt
      <4> QED BY <4>1 DEF IndexAt
    <3>3. cur[sd].levels \in [Indices -> Nat]
      BY <1>1 DEF BookOK, SideOK, SideType
    <3>4. GetQuantity(bk[s], p) = GetQuantity(cur[s], p)
      BY <1>4, <1>5, <2>2, <3>2, <3>3 DEF GetQuantity
    <3> QED BY <1>1, <3>1, <3>4
  <2>3. CASE s = sd /\ p = price
    <3>1. feed'[s][p] = quantity
      BY <1>2, <1>3, <2>3
    <3>2. cur[sd].levels \in [Indices -> Nat]
      BY <1>1 DEF BookOK, SideOK, SideType
    <3>3. price \in Window(bk[sd].base) <=> IndexAt(cur[sd].base, price) \in Indices
      BY <1>0, <1>1, <1>5, WindowIndex
    <3>4. CASE IndexAt(cur[sd].base, price) \in Indices
      <4>1. GetQuantity(bk[s], p) = quantity
        BY <1>4, <1>5, <2>3, <3>2, <3>4 DEF GetQuantity
      <4>2. p \in ks[s]
        BY <1>3, <2>3, <3>3, <3>4
      <4> QED BY <3>1, <4>1, <4>2
    <3>5. CASE IndexAt(cur[sd].base, price) \notin Indices
      <4>1. GetQuantity(bk[s], p) = 0
        BY <1>5, <2>3, <3>5 DEF GetQuantity
      <4>2. ks[s] = kept[s]
        BY <1>3, <2>3, <3>3, <3>5
      <4>3. p \notin kept[s]
        <5>1. kept[sd] \subseteq Window(cur[sd].base)
          BY <1>0, CurrentOK DEF cur
        <5> QED BY <1>5, <2>3, <3>3, <3>5, <5>1
      <4> QED BY <4>1, <4>2, <4>3
    <3> QED BY <3>4, <3>5
  <2> QED BY <2>1, <2>2, <2>3
<1> HIDE DEF ks
<1>9. /\ BookOK(book)' /\ BidInsideZone' /\ BookIsFeed'
      /\ kept' \in [Sides -> SUBSET Prices]
  BY <1>2, <1>6, <1>7, <1>8, RebasedStep
<1>10. (book \in [Sides -> SideType] /\ BitmapAgrees /\ TopIsBest)'
  BY <1>9, BookOKIsInvariant, PTL
<1>11. messages' \in 0 .. MaxMessages
  BY <1>2, <1>3, InputsAssumption
<1>12. TypeOK'
  BY <1>2, <1>7, <1>9, <1>10, <1>11 DEF TypeOK
<1> QED BY <1>2, <1>9, <1>10, <1>12 DEF IInv, NothingTold

\* The invariant of the book holds in every reachable state, for every depth,
\* word size, rebase delta and feed.
THEOREM Invariance == Spec => []IInv
<1>1. IInv /\ [Next]_vars => IInv'
  <2> SUFFICES ASSUME IInv, [Next]_vars PROVE IInv'
    OBVIOUS
  <2>1. CASE \E snapshot \in Snapshots : RunSnapshot(snapshot)
    BY <2>1, SnapshotStep
  <2>2. CASE \E sd \in Sides, price \in Prices, quantity \in Quantities, last \in BOOLEAN :
                 RunUpdate(sd, price, quantity, last)
    BY <2>2, UpdateStep
  <2>3. CASE UNCHANGED vars
    BY <2>3 DEF vars, IInv, TypeOK, BitmapAgrees, TopIsBest, BookIsFeed, BidInsideZone,
                NothingTold, HasTop, HasSpread, GetQuantity
  <2> QED BY <2>1, <2>2, <2>3 DEF Next
<1> QED BY <1>1, InitIInv, PTL DEF Spec

\* Both sides are arrays of Depth quantities with a bitmap that covers them.
THEOREM TypeCorrect == Spec => []TypeOK
BY Invariance, PTL DEF IInv

\* The bitmap of set_level, clear and move_to_new_base_price marks exactly the
\* non-empty levels.
THEOREM BitmapCorrect == Spec => []BitmapAgrees
BY Invariance, PTL DEF IInv

\* best_bid_price and best_ask_price are the best of the levels.
THEOREM BestLevel == Spec => []TopIsBest
BY Invariance, PTL DEF IInv

\* The quantities are those last told, for every price told of since it came
\* into range, and 0 for every other price.
THEOREM FeedApplied == Spec => []BookIsFeed
BY Invariance, PTL DEF IInv

\* maybe_rebase keeps the best bid away from the ends of the range.
THEOREM BidCentered == Spec => []BidInsideZone
BY Invariance, PTL DEF IInv

-----------------------------------------------------------------------------
(* What is published. *)

\* Better orders the indices of a side.
LEMMA BetterOrder ==
    ASSUME NEW sd
    PROVE  /\ \A i \in Int : ~Better(sd, i, i)
           /\ \A i, j \in Int : i = j \/ Better(sd, i, j) \/ Better(sd, j, i)
           /\ \A i, j \in Int : Better(sd, i, j) => ~Better(sd, j, i)
           /\ \A i, j, k \in Int : Better(sd, i, j) /\ Better(sd, j, k) => Better(sd, i, k)
BY DEF Better

\* Ranked lists a set of indices from the best to the worst.
LEMMA RankedIs ==
    ASSUME NEW sd, NEW S \in SUBSET Indices
    PROVE  /\ Cardinality(S) \in Nat
           /\ \A i \in S : Place(sd, S, i) + 1 \in 1 .. Cardinality(S)
           /\ \A i, j \in S : Better(sd, i, j) => Place(sd, S, i) < Place(sd, S, j)
           /\ \A k \in 1 .. Cardinality(S) :
                  Ranked(sd, S, k) \in S /\ Place(sd, S, Ranked(sd, S, k)) = k - 1
<1> DEFINE n == Cardinality(S)
           before(i) == {j \in S : Better(sd, j, i)}
           place(i) == Place(sd, S, i)
<1>1. IsFiniteSet(S) /\ n \in Nat
  <2>1. IsFiniteSet(Indices)
    BY SizesAssumption, FS_Interval DEF Indices
  <2> QED
    BY <2>1, FS_Subset, FS_CardinalityType
<1>2. \A i \in S : i \in Int
  BY IndicesInt
<1>3. \A i \in S : IsFiniteSet(before(i)) /\ place(i) = Cardinality(before(i)) /\ place(i) \in Nat
  <2> SUFFICES ASSUME NEW i \in S
               PROVE  IsFiniteSet(before(i)) /\ place(i) = Cardinality(before(i)) /\ place(i) \in Nat
    OBVIOUS
  <2>1. before(i) \in SUBSET S /\ place(i) = Cardinality(before(i))
    BY DEF Place
  <2> HIDE DEF before
  <2> QED
    BY <1>1, <2>1, FS_Subset, FS_CardinalityType
<1>4. \A i \in S : place(i) + 1 \in 1 .. n
  <2> SUFFICES ASSUME NEW i \in S PROVE place(i) + 1 \in 1 .. n
    OBVIOUS
  <2>1. before(i) \in SUBSET (S \ {i})
    BY <1>2, BetterOrder
  <2>2. IsFiniteSet(S \ {i}) /\ Cardinality(S \ {i}) = n - 1
    BY <1>1, FS_RemoveElement
  <2>3. Cardinality(before(i)) =< n - 1
    <3> HIDE DEF before, n
    <3> QED
      BY <2>1, <2>2, FS_Subset
  <2> HIDE DEF before, place, n
  <2> QED
    BY <1>1, <1>3, <2>3
<1>5. \A i, j \in S : Better(sd, i, j) => place(i) < place(j)
  <2> SUFFICES ASSUME NEW i \in S, NEW j \in S, Better(sd, i, j) PROVE place(i) < place(j)
    OBVIOUS
  <2>1. i \notin before(i) /\ before(i) \cup {i} \in SUBSET before(j)
    BY <1>2, BetterOrder
  <2>2. IsFiniteSet(before(i) \cup {i}) /\ Cardinality(before(i) \cup {i}) = Cardinality(before(i)) + 1
    <3> HIDE DEF before
    <3> QED
      BY <1>3, <2>1, FS_AddElement
  <2>3. Cardinality(before(i) \cup {i}) =< Cardinality(before(j))
    <3> HIDE DEF before
    <3> QED
      BY <1>3, <2>1, FS_Subset
  <2> HIDE DEF before, place
  <2> QED
    BY <1>3, <2>2, <2>3
<1>6. ASSUME NEW i \in S, NEW j \in S, place(i) = place(j)
      PROVE  i = j
  <2>1. i = j \/ Better(sd, i, j) \/ Better(sd, j, i)
    BY <1>2 DEF Better
  <2>2. place(i) \in Int /\ place(j) \in Int
    <3> HIDE DEF place, before
    <3> QED
      BY <1>3
  <2>3. ~Better(sd, i, j) /\ ~Better(sd, j, i)
    <3>1. /\ Better(sd, i, j) => place(i) < place(j)
          /\ Better(sd, j, i) => place(j) < place(i)
      BY <1>5
    <3> HIDE DEF place
    <3> QED
      BY <1>6, <2>2, <3>1
  <2> QED
    BY <2>1, <2>3
<1> DEFINE f == [i \in S |-> place(i) + 1]
<1>7. f \in Injection(S, 1 .. n)
  <2>1. f \in [S -> 1 .. n]
    <3> HIDE DEF place, n
    <3> QED
      BY <1>4
  <2>2. ASSUME NEW i \in S, NEW j \in S, f[i] = f[j]
        PROVE  i = j
    <3>1. place(i) \in Int /\ place(j) \in Int
      <4> HIDE DEF place, before
      <4> QED
        BY <1>3
    <3>2. place(i) + 1 = place(j) + 1
      <4> HIDE DEF place
      <4> QED
        BY <2>2
    <3>3. place(i) = place(j)
      <4> HIDE DEF place
      <4> QED
        BY <3>1, <3>2
    <3> QED
      BY <1>6, <3>3
  <2> HIDE DEF f, n, place
  <2> QED
    BY <2>1, <2>2 DEF Injection, IsInjective
<1>8. IsFiniteSet(1 .. n) /\ Cardinality(1 .. n) = n
  <2> HIDE DEF n
  <2>1. 1 \in Int /\ n \in Int
    BY <1>1
  <2>2. IsFiniteSet(1 .. n) /\ Cardinality(1 .. n) = IF 1 > n THEN 0 ELSE n - 1 + 1
    BY <2>1, FS_Interval
  <2> QED
    BY <1>1, <2>2
<1>9. f \in Surjection(S, 1 .. n)
  <2> HIDE DEF f
  <2> QED
    BY <1>7, <1>8, FS_Injection
<1>10. \A k \in 1 .. n : \E i \in S : place(i) = k - 1
  <2>1. \A k \in 1 .. n : \E i \in S : f[i] = k
    <3> HIDE DEF f, n
    <3> QED
      BY <1>9 DEF Surjection
  <2> SUFFICES ASSUME NEW k \in 1 .. n
               PROVE  \E i \in S : place(i) = k - 1
    OBVIOUS
  <2>2. PICK i \in S : f[i] = k
    BY <2>1
  <2>3. place(i) \in Int
    <3> HIDE DEF place, before
    <3> QED
      BY <1>3
  <2>4. place(i) + 1 = k
    <3> HIDE DEF place, n
    <3> QED
      BY <2>2
  <2>5. place(i) = k - 1
    <3> HIDE DEF place, n
    <3> QED
      BY <2>3, <2>4
  <2> QED
    BY <2>5
<1>11. \A k \in 1 .. n : Ranked(sd, S, k) \in S /\ place(Ranked(sd, S, k)) = k - 1
  BY <1>10 DEF Ranked
<1> QED
  BY <1>1, <1>4, <1>5, <1>11

\* What it is for levels to be published: each is a non-empty one of the side,
\* from the best to the worst, and one that is missing is worse than all of them.
Listing(sd, s, pub) ==
    /\ Len(pub) \in Nat /\ Len(pub) =< PublishLevels
    /\ \A k \in 1 .. Len(pub) :
           \E i \in Indices : /\ s.levels[i] > 0
                              /\ pub[k] = <<PriceAt(s.base, i), s.levels[i]>>
    /\ \A i \in Indices : s.levels[i] > 0 =>
           \/ \E k \in 1 .. Len(pub) : pub[k][1] = PriceAt(s.base, i)
           \/ /\ Len(pub) = PublishLevels
              /\ \A k \in 1 .. Len(pub) : Better(sd, pub[k][1], PriceAt(s.base, i))
    /\ \A k \in 2 .. Len(pub) : Better(sd, pub[k - 1][1], pub[k][1])

\* get_order_book_snapshot lists the levels of a right side.
LEMMA PublishedLevels ==
    ASSUME NEW sd \in Sides, NEW s, SideOK(sd, s)
    PROVE  Listing(sd, s, PublishedSide(sd, s))
<1> DEFINE S == FromTop(sd, s)
           n == Cardinality(S)
           count == IF n < PublishLevels THEN n ELSE PublishLevels
           at(k) == Ranked(sd, S, k)
           place(i) == Place(sd, S, i)
<1>1. PICK pub : pub = PublishedSide(sd, s)
  OBVIOUS
<1>2. S \in SUBSET Indices /\ \A i \in Indices : s.levels[i] > 0 <=> i \in S
  BY DEF FromTop, SideOK, IsBest, HasTop
<1>3. s.base \in Int /\ s.levels \in [Indices -> Nat]
  BY DEF SideOK, SideType
<1>4. pub = [k \in 1 .. count |-> <<PriceAt(s.base, at(k)), s.levels[at(k)]>>]
  BY <1>1 DEF PublishedSide
<1> HIDE DEF S
<1>5. /\ n \in Nat
      /\ \A i \in S : place(i) + 1 \in 1 .. n
      /\ \A i, j \in S : Better(sd, i, j) => place(i) < place(j)
      /\ \A k \in 1 .. n : at(k) \in S /\ place(at(k)) = k - 1
  BY <1>2, RankedIs
<1> HIDE DEF n, at, place
<1>6. count \in Nat /\ count =< n /\ count =< PublishLevels /\ PublishLevels \in Nat
      /\ (count < n => count = PublishLevels)
  BY <1>5, InputsAssumption
<1> HIDE DEF count
<1>7. Len(pub) = count /\ \A k \in 1 .. count : pub[k] = <<PriceAt(s.base, at(k)), s.levels[at(k)]>>
  BY <1>4, <1>6
<1>8. \A k \in 1 .. count : k \in 1 .. n /\ at(k) \in S /\ at(k) \in Indices /\ place(at(k)) = k - 1
  BY <1>2, <1>5, <1>6
<1>9. \A k \in 1 .. count : /\ pub[k][1] = PriceAt(s.base, at(k))
                            /\ s.levels[at(k)] > 0
  BY <1>2, <1>7, <1>8
<1>10. \A i, j \in Indices : Better(sd, i, j) => Better(sd, PriceAt(s.base, i), PriceAt(s.base, j))
  BY <1>3, IndicesInt DEF Better, PriceAt
<1>11. \A i \in S : place(i) \in Int /\ i \in Int
  <2>1. \A i \in S : place(i) \in Nat
    BY <1>2, RankedIs, FS_CardinalityType DEF place, Place
  <2> QED
    BY <1>2, <2>1, IndicesInt
<1>12. \A i, j \in S : place(i) < place(j) => Better(sd, i, j)
  BY <1>5, <1>11, BetterOrder
<1>13. ASSUME NEW i \in Indices, s.levels[i] > 0
       PROVE  \/ \E k \in 1 .. count : pub[k][1] = PriceAt(s.base, i)
              \/ /\ count = PublishLevels
                 /\ \A k \in 1 .. count : Better(sd, pub[k][1], PriceAt(s.base, i))
  <2>1. i \in S /\ place(i) + 1 \in 1 .. n /\ place(i) \in Int
    BY <1>2, <1>5, <1>11, <1>13
  <2>2. CASE place(i) + 1 =< count
    <3>1. place(i) + 1 \in 1 .. count
      BY <1>5, <1>6, <2>1, <2>2
    <3>2. at(place(i) + 1) \in S /\ place(at(place(i) + 1)) = place(i)
      BY <1>8, <2>1, <3>1
    <3>3. at(place(i) + 1) = i
      BY <1>5, <1>11, <2>1, <3>2, BetterOrder
    <3> QED
      BY <1>9, <3>1, <3>3
  <2>3. CASE place(i) + 1 > count
    <3>1. count = PublishLevels
      BY <1>5, <1>6, <2>1, <2>3
    <3>2. ASSUME NEW k \in 1 .. count
          PROVE  Better(sd, pub[k][1], PriceAt(s.base, i))
      <4>1. at(k) \in S /\ at(k) \in Indices /\ place(at(k)) = k - 1
        BY <1>8
      <4>2. place(at(k)) < place(i)
        BY <1>6, <2>1, <2>3, <4>1
      <4> QED
        BY <1>9, <1>10, <1>12, <2>1, <4>1, <4>2
    <3> QED
      BY <3>1, <3>2
  <2> QED
    BY <1>6, <2>1, <2>2, <2>3
<1>14. ASSUME NEW k \in 2 .. count
       PROVE  Better(sd, pub[k - 1][1], pub[k][1])
  <2>1. k \in 1 .. count /\ k - 1 \in 1 .. count
    BY <1>6
  <2>2. place(at(k)) = k - 1 /\ place(at(k - 1)) = (k - 1) - 1
    BY <1>8, <2>1
  <2>3. place(at(k - 1)) < place(at(k))
    BY <2>1, <2>2
  <2> QED
    BY <1>8, <1>9, <1>10, <1>12, <2>1, <2>3
<1>15. Listing(sd, s, pub)
  BY <1>6, <1>7, <1>8, <1>9, <1>13, <1>14 DEF Listing
<1> QED
  BY <1>1, <1>15

\* No quantity is at a price that no message names.
OnlyPrices(bk) == \A sd \in Sides : \A p \in Int : p \notin Prices => GetQuantity(bk[sd], p) = 0

\* The last thing published is the book, between two messages.
PublishedNow == created /\ ~in_batch => published = Published(book)

PInv == IInv /\ OnlyPrices(book) /\ PublishedNow

LEMMA CurrentPrices ==
    ASSUME OnlyPrices(book), NEW base \in Int
    PROVE  OnlyPrices(Current(base))
<1>1. CASE created
  BY <1>1 DEF Current
<1>2. CASE ~created
  <2>1. \A sd \in Sides : Current(base)[sd] = EmptySide(sd, base)
    BY <1>2 DEF Current
  <2>2. \A sd \in Sides : \A p \in Int : GetQuantity(EmptySide(sd, base), p) = 0
    BY EmptyBookOK
  <2> QED
    BY <2>1, <2>2, Zenon DEF OnlyPrices
<1> QED
  BY <1>1, <1>2

LEMMA RebasePrices ==
    ASSUME NEW bk, BookOK(bk), OnlyPrices(bk)
    PROVE  OnlyPrices(MaybeRebase(bk))
BY RebaseOK DEF OnlyPrices

LEMMA SnapshotPrices ==
    ASSUME IInv, OnlyPrices(book), NEW snapshot \in Snapshots, RunSnapshot(snapshot)
    PROVE  OnlyPrices(book)'
<1> DEFINE before == Current(ReferencePrice(snapshot))
           bk == WithSnapshot(before, snapshot)
           levels(sd) == [i \in Indices |->
                             LET p == PriceAt(before[sd].base, i)
                             IN  IF p \in Prices THEN snapshot[sd][p] ELSE 0]
<1>1. snapshot \in [Sides -> [Prices -> Nat]]
  BY InputsAssumption
<1>2. \A sd \in Sides : before[sd].base \in Int
  BY ReferenceInt, CurrentOK
<1>3. before["Bid"].base = before["Ask"].base
  BY ReferenceInt, CurrentOK DEF BookOK
<1>4. bk = [sd \in Sides |-> Filled(sd, before[sd].base, levels(sd))]
  BY DEF WithSnapshot
<1>5. \A sd \in Sides : levels(sd) \in [Indices -> Nat]
  BY <1>1
<1>6. ASSUME NEW sd \in Sides, NEW p \in Int, p \notin Prices, p \in Window(before[sd].base)
      PROVE  levels(sd)[IndexAt(before[sd].base, p)] = 0
  BY <1>2, <1>6, WindowIndex
<1>7. book' = MaybeRebase(bk)
  BY DEF RunSnapshot
<1> HIDE DEF before, bk, levels
<1>8. \A sd \in Sides : /\ SideOK(sd, bk[sd]) /\ bk[sd].base = before[sd].base
                        /\ bk[sd] = Filled(sd, before[sd].base, levels(sd))
  BY <1>2, <1>4, <1>5, FilledOK
<1>9. BookOK(bk)
  <2>1. bk = [sd \in Sides |-> bk[sd]] /\ "Bid" \in Sides /\ "Ask" \in Sides
    BY <1>4 DEF Sides
  <2> QED
    BY <1>3, <1>8, <2>1 DEF BookOK
<1>10. OnlyPrices(bk)
  BY <1>2, <1>5, <1>6, <1>8, FilledQuantity DEF OnlyPrices
<1>11. OnlyPrices(MaybeRebase(bk))
  BY <1>9, <1>10, RebasePrices
<1> QED
  BY <1>7, <1>11 DEF OnlyPrices, GetQuantity

LEMMA UpdatePrices ==
    ASSUME IInv, OnlyPrices(book), NEW sd \in Sides, NEW price \in Prices,
           NEW quantity \in Quantities, NEW last, RunUpdate(sd, price, quantity, last)
    PROVE  OnlyPrices(book)'
<1> DEFINE cur == Current(price)
           bk == [cur EXCEPT ![sd] = SetLevel(sd, @, price, quantity)]
<1>1. price \in Int /\ quantity \in Nat
  BY PricesInt, InputsAssumption
<1>2. BookOK(cur) /\ OnlyPrices(cur) /\ \A s \in Sides : cur[s].base \in Int
  BY <1>1, CurrentOK, CurrentPrices
<1>3. book' = MaybeRebase(bk)
  BY DEF RunUpdate
<1> HIDE DEF cur
<1>4. /\ SideOK(sd, SetLevel(sd, cur[sd], price, quantity))
      /\ SetLevel(sd, cur[sd], price, quantity).base = cur[sd].base
      /\ IndexAt(cur[sd].base, price) \notin Indices
             => SetLevel(sd, cur[sd], price, quantity) = cur[sd]
      /\ IndexAt(cur[sd].base, price) \in Indices
             => SetLevel(sd, cur[sd], price, quantity).levels
                    = [cur[sd].levels EXCEPT ![IndexAt(cur[sd].base, price)] = quantity]
  BY <1>1, <1>2, SetLevelOK DEF BookOK
<1>5. /\ bk = [s \in Sides |-> bk[s]]
      /\ bk[sd] = SetLevel(sd, cur[sd], price, quantity)
      /\ \A s \in Sides : s # sd => bk[s] = cur[s]
      /\ \A s \in Sides : bk[s].base = cur[s].base
  BY <1>2, <1>4 DEF BookOK
<1> HIDE DEF bk
<1>6. BookOK(bk)
  <2>1. \A s \in Sides : SideOK(s, bk[s])
    BY <1>2, <1>4, <1>5 DEF BookOK
  <2>2. bk["Bid"].base = bk["Ask"].base
    BY <1>2, <1>5 DEF BookOK, Sides
  <2> QED
    BY <1>5, <2>1, <2>2 DEF BookOK
<1>7. ASSUME NEW s \in Sides, NEW p \in Int, p \notin Prices
      PROVE  GetQuantity(bk[s], p) = 0
  <2>1. GetQuantity(cur[s], p) = 0
    BY <1>2, <1>7 DEF OnlyPrices
  <2>2. CASE s # sd
    BY <1>5, <2>1, <2>2
  <2>3. CASE s = sd
    <3>1. IndexAt(cur[sd].base, p) # IndexAt(cur[sd].base, price)
      <4>1. cur[sd].base \in Int /\ p \in Int /\ price \in Int /\ Center \in Int /\ p # price
        BY <1>1, <1>2, <1>7, IndicesInt
      <4> QED
        BY <4>1 DEF IndexAt
    <3>2. cur[sd].levels \in [Indices -> Nat]
      BY <1>2 DEF BookOK, SideOK, SideType
    <3>3. GetQuantity(bk[s], p) = GetQuantity(cur[s], p)
      BY <1>4, <1>5, <2>3, <3>1, <3>2 DEF GetQuantity
    <3> QED
      BY <2>1, <3>3
  <2> QED
    BY <2>2, <2>3
<1>8. OnlyPrices(MaybeRebase(bk))
  BY <1>6, <1>7, RebasePrices DEF OnlyPrices
<1> QED
  BY <1>3, <1>8 DEF OnlyPrices, GetQuantity

\* What the callbacks are given between two messages is the book: its levels
\* with the quantities last told, best first, and none left out but the worst.
THEOREM PublicationTrue == Spec => []PublishedTrue
<1>1. Init => PInv
  <2> SUFFICES ASSUME Init PROVE PInv
    OBVIOUS
  <2>1. \A sd \in Sides : book[sd] = EmptySide(sd, 0)
    BY DEF Init
  <2>2. OnlyPrices(book)
    <3>1. 0 \in Int
      OBVIOUS
    <3>2. \A sd \in Sides : \A p \in Int : GetQuantity(EmptySide(sd, 0), p) = 0
      BY <3>1, EmptyBookOK
    <3> QED
      BY <2>1, <3>2, Zenon DEF OnlyPrices
  <2>3. PublishedNow
    BY DEF Init, PublishedNow
  <2> QED
    BY <2>2, <2>3, InitIInv DEF PInv
<1>2. ASSUME PInv, IInv', [Next]_vars PROVE PInv'
  <2>1. IInv /\ OnlyPrices(book) /\ PublishedNow
    BY <1>2 DEF PInv
  <2>2. ASSUME NEW snapshot \in Snapshots, RunSnapshot(snapshot) PROVE PInv'
    <3>1. OnlyPrices(book)'
      BY <2>1, <2>2, SnapshotPrices
    <3>2. published' = Published(book')
      BY <2>2 DEF RunSnapshot
    <3> QED
      BY <1>2, <3>1, <3>2 DEF PInv, PublishedNow, Published
  <2>3. ASSUME NEW sd \in Sides, NEW price \in Prices, NEW quantity \in Quantities,
               NEW last \in BOOLEAN, RunUpdate(sd, price, quantity, last)
        PROVE  PInv'
    <3>1. OnlyPrices(book)'
      BY <2>1, <2>3, UpdatePrices
    <3>2. in_batch' = ~last /\ (last => published' = Published(book'))
      BY <2>3 DEF RunUpdate
    <3> QED
      BY <1>2, <3>1, <3>2 DEF PInv, PublishedNow, Published
  <2>4. CASE UNCHANGED vars
    BY <1>2, <2>1, <2>4 DEF PInv, PublishedNow, OnlyPrices, vars, Published, GetQuantity
  <2> QED
    BY <1>2, <2>2, <2>3, <2>4 DEF Next
<1>3. PInv => PublishedTrue
  <2> SUFFICES ASSUME PInv, created, ~in_batch, NEW sd \in Sides
               PROVE  LET pub == published[sd] IN
                      /\ \A k \in 1 .. Len(pub) : feed[sd][pub[k][1]] = pub[k][2] /\ pub[k][2] > 0
                      /\ \A p \in kept[sd] :
                             feed[sd][p] > 0
                                 => \/ \E k \in 1 .. Len(pub) : pub[k][1] = p
                                    \/ Len(pub) = PublishLevels
                                       /\ \A k \in 1 .. Len(pub) : Better(sd, pub[k][1], p)
                      /\ \A k \in 2 .. Len(pub) : Better(sd, pub[k - 1][1], pub[k][1])
    BY DEF PublishedTrue
  <2> DEFINE s == book[sd]
  <2>1. BookOK(book) /\ TypeOK /\ BookIsFeed /\ OnlyPrices(book) /\ PublishedNow
    BY BookOKIsInvariant DEF PInv, IInv
  <2>2. SideOK(sd, s) /\ s.base \in Int /\ s.levels \in [Indices -> Nat]
    BY <2>1 DEF BookOK, SideOK, SideType
  <2>3. PICK pub : pub = published[sd]
    OBVIOUS
  <2>4. pub = PublishedSide(sd, s)
    BY <2>1, <2>3 DEF PublishedNow, Published
  <2>5. /\ \A k \in 1 .. Len(pub) :
               \E i \in Indices : /\ s.levels[i] > 0
                                  /\ pub[k] = <<PriceAt(s.base, i), s.levels[i]>>
        /\ \A i \in Indices : s.levels[i] > 0 =>
               \/ \E k \in 1 .. Len(pub) : pub[k][1] = PriceAt(s.base, i)
               \/ /\ Len(pub) = PublishLevels
                  /\ \A k \in 1 .. Len(pub) : Better(sd, pub[k][1], PriceAt(s.base, i))
        /\ \A k \in 2 .. Len(pub) : Better(sd, pub[k - 1][1], pub[k][1])
    <3>1. Listing(sd, s, PublishedSide(sd, s))
      BY <2>2, PublishedLevels
    <3>2. Listing(sd, s, pub)
      BY <2>4, <3>1, Zenon
    <3> QED
      BY <3>2 DEF Listing
  <2>6. ASSUME NEW i \in Indices, s.levels[i] > 0
        PROVE  feed[sd][PriceAt(s.base, i)] = s.levels[i]
    <3>1. IndexAt(s.base, PriceAt(s.base, i)) = i /\ PriceAt(s.base, i) \in Int
      BY <2>2, PriceIndex
    <3>2. GetQuantity(s, PriceAt(s.base, i)) = s.levels[i]
      BY <3>1 DEF GetQuantity
    <3>3. PriceAt(s.base, i) \in Prices
      BY <2>1, <2>2, <2>6, <3>1, <3>2 DEF OnlyPrices
    <3> QED
      BY <2>1, <2>2, <2>6, <3>2, <3>3 DEF BookIsFeed
  <2>7. ASSUME NEW p \in kept[sd], feed[sd][p] > 0
        PROVE  \E i \in Indices : s.levels[i] > 0 /\ PriceAt(s.base, i) = p
    <3>1. p \in Prices /\ p \in Int
      BY <2>1, PricesInt DEF TypeOK
    <3>2. GetQuantity(s, p) > 0
      BY <2>1, <2>7, <3>1 DEF BookIsFeed
    <3>3. IndexAt(s.base, p) \in Indices /\ s.levels[IndexAt(s.base, p)] > 0
      BY <3>2 DEF GetQuantity
    <3> QED
      BY <2>2, <3>1, <3>3, WindowIndex
  <2>8. \A k \in 1 .. Len(pub) : feed[sd][pub[k][1]] = pub[k][2] /\ pub[k][2] > 0
    BY <2>5, <2>6
  <2>9. \A p \in kept[sd] :
            feed[sd][p] > 0
                => \/ \E k \in 1 .. Len(pub) : pub[k][1] = p
                   \/ Len(pub) = PublishLevels
                      /\ \A k \in 1 .. Len(pub) : Better(sd, pub[k][1], p)
    BY <2>5, <2>7
  <2> QED
    BY <2>3, <2>5, <2>8, <2>9
<1> QED
  BY <1>1, <1>2, <1>3, Invariance, PTL DEF Spec
=============================================================================
