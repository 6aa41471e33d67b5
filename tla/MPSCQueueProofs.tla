-------------------------- MODULE MPSCQueueProofs --------------------------
(***************************************************************************)
(* Proofs about MPSCQueue for every set of producers, every Size > 1 and   *)
(* every bound on the calls, and about EpollBase, the event base that      *)
(* sleeps when its ring is empty.                                          *)
(***************************************************************************)
EXTENDS MPSCQueue, EpollBase, SequenceTheorems, FiniteSetTheorems, TLAPS

-----------------------------------------------------------------------------
(* Arithmetic of positions modulo the number of slots. *)

\* Division with remainder, as the solver knows it.
LEMMA DivMod ==
    ASSUME NEW n \in Nat, n > 0, NEW a \in Nat
    PROVE  /\ a = (n * (a \div n)) + (a % n)
           /\ a \div n \in Nat
           /\ a % n \in 0 .. n - 1
BY SMT

\* A positive multiple of n is at least n.
LEMMA MultipleAtLeast ==
    ASSUME NEW n \in Nat, n > 0, NEW k \in Int, k >= 1
    PROVE  n * k >= n
BY SMT

\* The remainder of a division is unique.
LEMMA RemainderUnique ==
    ASSUME NEW n \in Nat, n > 0, NEW a \in Nat, NEW k \in Int,
           NEW r \in 0 .. n - 1, a = (n * k) + r
    PROVE  a % n = r
<1> DEFINE d == (a \div n) - k
<1>1. /\ a = (n * (a \div n)) + (a % n)
      /\ a \div n \in Nat
      /\ a % n \in 0 .. n - 1
  BY DivMod
<1>2. d \in Int /\ r - (a % n) = n * d
  BY <1>1, SMT
<1> HIDE DEF d
<1>3. ~(d >= 1)
  <2>1. SUFFICES ASSUME d >= 1 PROVE FALSE
    OBVIOUS
  <2>2. n * d >= n
    BY <2>1, <1>2, MultipleAtLeast
  <2> QED
    BY <2>2, <1>1, <1>2, SMT
<1>4. ~(d =< -1)
  <2>1. SUFFICES ASSUME d =< -1 PROVE FALSE
    OBVIOUS
  <2>2. n * (-d) >= n
    BY <2>1, <1>2, MultipleAtLeast
  <2>3. n * (-d) = -(n * d)
    BY <1>2, SMT
  <2> QED
    BY <2>2, <2>3, <1>1, <1>2, SMT
<1>5. d = 0
  BY <1>2, <1>3, <1>4, SMT
<1> QED
  BY <1>1, <1>2, <1>5, SMT

\* Every position has a slot.
LEMMA SlotInRange == \A q \in Nat : SlotOf(q) \in Slots
BY DivMod, SizeAssumption DEF SlotOf, Slots

\* Positions less than Size apart have different slots.
LEMMA SlotInjective ==
    ASSUME NEW a \in Nat, NEW b \in Nat, a < b, b < a + Size
    PROVE  SlotOf(a) # SlotOf(b)
<1>1. SUFFICES ASSUME a % Size = b % Size PROVE FALSE
  BY DEF SlotOf
<1> DEFINE d == (b \div Size) - (a \div Size)
<1>2. /\ a = (Size * (a \div Size)) + (a % Size)
      /\ a \div Size \in Nat
      /\ a % Size \in 0 .. Size - 1
  BY DivMod, SizeAssumption
<1>3. /\ b = (Size * (b \div Size)) + (b % Size)
      /\ b \div Size \in Nat
  BY DivMod, SizeAssumption
<1>4. d \in Int /\ b - a = Size * d
  BY <1>1, <1>2, <1>3, SizeAssumption, SMT
<1> HIDE DEF d
<1>5. d >= 1
  BY <1>4, SizeAssumption, SMT
<1>6. Size * d >= Size
  BY <1>4, <1>5, MultipleAtLeast, SizeAssumption
<1> QED
  BY <1>4, <1>6, SizeAssumption, SMT

\* A round later the same slot comes up again.
LEMMA SlotPeriodic == \A q \in Nat : SlotOf(q + Size) = SlotOf(q)
<1> SUFFICES ASSUME NEW q \in Nat PROVE (q + Size) % Size = q % Size
  BY DEF SlotOf
<1>1. /\ q = (Size * (q \div Size)) + (q % Size)
      /\ q \div Size \in Nat
      /\ q % Size \in 0 .. Size - 1
  BY DivMod, SizeAssumption
<1> DEFINE a == q + Size
           k == (q \div Size) + 1
           r == q % Size
<1>2. a = (Size * k) + r /\ a \in Nat /\ k \in Int /\ r \in 0 .. Size - 1
  BY <1>1, SizeAssumption, SMT
<1>3. Size \in Nat /\ Size > 0
  BY SizeAssumption
<1> HIDE DEF a, k, r
<1>4. a % Size = r
  BY <1>2, <1>3, RemainderUnique
<1> QED
  BY <1>4 DEF a, r

\* Every slot has a position in every window of Size positions.
LEMMA SlotSurjective ==
    ASSUME NEW f \in Nat, NEW i \in Slots
    PROVE  \E q \in f .. f + Size - 1 : SlotOf(q) = i
<1> DEFINE k == f \div Size
           r == f % Size
<1>1. f = (Size * k) + r /\ k \in Nat /\ r \in 0 .. Size - 1
  BY DivMod, SizeAssumption
<1>2. i \in 0 .. Size - 1
  BY DEF Slots
<1> HIDE DEF k, r
<1>0. Size \in Nat /\ Size > 0
  BY SizeAssumption
<1>3. CASE i >= r
  <2> DEFINE q == f + i - r
  <2>1. q = (Size * k) + i /\ q \in f .. f + Size - 1 /\ q \in Nat
    BY <1>1, <1>2, <1>3, SizeAssumption, SMT
  <2>2. k \in Int
    BY <1>1
  <2> HIDE DEF q
  <2>3. q % Size = i
    BY <1>0, <1>2, <2>1, <2>2, RemainderUnique
  <2> QED
    BY <2>1, <2>3 DEF SlotOf
<1>4. CASE i < r
  <2> DEFINE q == f + Size + i - r
  <2>1. q = (Size * (k + 1)) + i /\ q \in f .. f + Size - 1 /\ q \in Nat
    BY <1>1, <1>2, <1>4, SizeAssumption, SMT
  <2> DEFINE m == k + 1
  <2>2. m \in Int /\ q = (Size * m) + i
    BY <1>1, <2>1
  <2> HIDE DEF q, m
  <2>3. q % Size = i
    BY <1>0, <1>2, <2>1, <2>2, RemainderUnique
  <2> QED
    BY <2>1, <2>3 DEF SlotOf
<1> QED
  BY <1>1, <1>2, <1>3, <1>4, SMT

-----------------------------------------------------------------------------
(* The type invariant. *)

\* The argument of a call under way is an item.
LEMMA ItemOfType ==
    ASSUME TypeOK, NEW p \in Producers, pc[p] # "idle"
    PROVE  ItemOf(p) \in Items
<1>1. attempts[p] \in 0 .. MaxPush /\ attempts[p] > 0
  BY DEF TypeOK
<1>2. attempts[p] \in 1 .. MaxPush
  BY <1>1, MaxPushAssumption
<1> QED
  BY <1>2 DEF ItemOf, Items

\* Every access of push and pop leaves each variable in its type.
LEMMA TypeStep == TypeOK /\ [Next]_vars => TypeOK'
<1> SUFFICES ASSUME TypeOK, [Next]_vars PROVE TypeOK'
  OBVIOUS
<1> USE DEF TypeOK
<1>1. ASSUME NEW p \in Producers, PushCall(p) PROVE TypeOK'
  <2>1. attempts[p] + 1 \in 0 .. MaxPush /\ attempts[p] + 1 > 0
    BY <1>1, MaxPushAssumption DEF PushCall
  <2>2. attempts' \in [Producers -> 0 .. MaxPush]
    BY <1>1, <2>1 DEF PushCall
  <2>3. \A q \in Producers : pc'[q] # "idle" => attempts'[q] > 0
    BY <1>1, <2>1 DEF PushCall
  <2> QED
    BY <1>1, <2>2, <2>3 DEF PushCall, cvars
<1>2. ASSUME NEW p \in Producers, LoadHead(p) PROVE TypeOK'
  BY <1>2 DEF LoadHead, cvars
<1>3. ASSUME NEW p \in Producers, LoadSequence(p) PROVE TypeOK'
  <2>1. ItemOf(p) \in Items
    BY <1>3, ItemOfType DEF LoadSequence
  <2>2. refused' \in SUBSET Items
    BY <2>1, <1>3 DEF LoadSequence
  <2>3. /\ pc' \in [Producers -> {"idle", "head", "sequence", "cas", "value",
                                  "publish", "count"}]
        /\ \A q \in Producers : pc'[q] # "idle" => attempts'[q] > 0
    BY <1>3 DEF LoadSequence
  <2> QED
    BY <2>2, <2>3, <1>3 DEF LoadSequence, cvars
<1>4. ASSUME NEW p \in Producers, ClaimPosition(p) PROVE TypeOK'
  <2>1. ItemOf(p) \in Items
    BY <1>4, ItemOfType DEF ClaimPosition
  <2>2. Append(claimed, ItemOf(p)) \in Seq(Items)
    BY <2>1
  <2>3. CASE head = pos[p]
    <3>0. claimed' = Append(claimed, ItemOf(p)) /\ head' = head + 1
      BY <2>3, <1>4 DEF ClaimPosition
    <3>1. /\ claimed' \in Seq(Items) /\ head' \in Nat
          /\ UNCHANGED <<sequence, value, size, refused, attempts, pos, tail,
                         cpc, item, delivered>>
      <4>1. claimed' \in Seq(Items)
        BY <2>2, <3>0
      <4>2. head' \in Nat
        BY <3>0
      <4> QED
        BY <4>1, <4>2, <2>3, <1>4 DEF ClaimPosition, cvars
    <3>2. /\ pc' \in [Producers -> {"idle", "head", "sequence", "cas", "value",
                                    "publish", "count"}]
          /\ \A q \in Producers : pc'[q] # "idle" => attempts'[q] > 0
      <4>1. pc[p] = "cas" /\ pc' = [pc EXCEPT ![p] = "value"]
        BY <2>3, <1>4 DEF ClaimPosition
      <4> QED
        BY <3>1, <4>1
    <3> QED
      BY <3>1, <3>2
  <2>4. CASE head # pos[p]
    BY <2>4, <1>4 DEF ClaimPosition, cvars
  <2> QED
    BY <2>3, <2>4
<1>5. ASSUME NEW p \in Producers, StoreValue(p) PROVE TypeOK'
  <2>1. ItemOf(p) \in Items
    BY <1>5, ItemOfType DEF StoreValue
  <2>2. value' \in [Slots -> Items \cup {Null}]
    BY <2>1, <1>5 DEF StoreValue
  <2> QED
    BY <2>2, <1>5 DEF StoreValue, cvars
<1>6. ASSUME NEW p \in Producers, Publish(p) PROVE TypeOK'
  <2>0. pos[p] + 1 \in Nat
    OBVIOUS
  <2>1. sequence' \in [Slots -> Nat]
    BY <1>6, <2>0 DEF Publish
  <2> QED
    BY <2>1, <1>6 DEF Publish, cvars
<1>7. ASSUME NEW p \in Producers, CountUp(p) PROVE TypeOK'
  BY <1>7 DEF CountUp, cvars
<1>8. CASE PopFound
  BY <1>8 DEF PopFound, pvars
<1>9. CASE PopNothing
  BY <1>9 DEF PopNothing, vars, pvars, cvars
<1>10. CASE TakeValue
  <2>1. SlotOf(tail) \in Slots
    BY SlotInRange
  <2>2. value' \in [Slots -> Items \cup {Null}] /\ item' \in Items \cup {Null}
    BY <2>1, <1>10 DEF TakeValue
  <2> QED
    BY <2>2, <1>10 DEF TakeValue, pvars
<1>11. CASE FreeSlot
  <2>1. tail + Size \in Nat
    BY SizeAssumption
  <2>2. sequence' \in [Slots -> Nat]
    BY <2>1, <1>11 DEF FreeSlot
  <2> QED
    BY <2>2, <1>11 DEF FreeSlot, pvars
<1>12. CASE Advance
  BY <1>12 DEF Advance, pvars
<1>13. CASE UNCHANGED vars
  BY <1>13 DEF vars, pvars, cvars
<1> QED
  BY <1>1, <1>2, <1>3, <1>4, <1>5, <1>6, <1>7, <1>8, <1>9, <1>10, <1>11,
     <1>12, <1>13
  DEF Next, Pop, PushStep

\* Type correctness of the ring: in particular sequence numbers, positions and
\* items stay in their ranges whatever the interleaving of pushes and pops.
THEOREM TypeCorrect == Spec => []TypeOK
<1>1. Init => TypeOK
  BY SizeAssumption, MaxPushAssumption DEF Init, TypeOK, Slots
<1> QED
  BY <1>1, TypeStep, PTL DEF Spec

-----------------------------------------------------------------------------
(* The inductive invariant. *)

\* The ranges the steps below compute with.
LEMMA Ranges ==
    ASSUME TypeOK
    PROVE  /\ head \in Nat /\ tail \in Nat /\ Freed \in Nat
           /\ Size \in Nat /\ Size > 1
           /\ \A p \in Producers : pos[p] \in Nat
           /\ \A q \in Nat : SlotOf(q) \in Slots
BY SlotInRange, SizeAssumption DEF TypeOK, Freed

\* A step that touches neither the ring nor the producers that are writing
\* keeps the invariant, provided it keeps the candidates' part.
LEMMA QuietStep ==
    ASSUME IInv, TypeOK', CandidateInv',
           UNCHANGED <<sequence, value, head, tail, cpc, item, claimed, delivered>>,
           Writing' = Writing,
           \A w \in Writing : /\ pos'[w] = pos[w] /\ pc'[w] = pc[w]
                              /\ attempts'[w] = attempts[w]
    PROVE  IInv'
<1>1. Freed' = Freed
  BY DEF Freed
<1>2. WindowInv'
  BY <1>1 DEF IInv, WindowInv
<1>3. SlotInv'
  BY <1>1 DEF IInv, SlotInv
<1>4. WriterInv'
  <2>1. \A w \in Writing : ItemOf(w)' = ItemOf(w)
    BY DEF ItemOf
  <2>2. ASSUME NEW w \in Writing
        PROVE  /\ Freed =< pos[w] /\ pos[w] < head
               /\ sequence[SlotOf(pos[w])] = pos[w]
               /\ claimed[pos[w] + 1] = ItemOf(w)
               /\ pc[w] = "publish" => value[SlotOf(pos[w])] = ItemOf(w)
    BY DEF IInv, WriterInv
  <2>3. \A w, x \in Writing : w # x => pos'[w] # pos'[x]
    BY DEF IInv, WriterInv
  <2> QED
    BY <1>1, <2>1, <2>2, <2>3 DEF WriterInv, SlotOf
<1>5. ConsumerInv'
  BY DEF IInv, ConsumerInv
<1>6. DeliveredInOrder'
  BY DEF IInv, DeliveredInOrder
<1> QED
  BY <1>2, <1>3, <1>4, <1>5, <1>6 DEF IInv

\* A published or free slot becomes a writer's by the compare-exchange.
LEMMA ClaimStep ==
    ASSUME IInv, TypeOK', NEW p \in Producers, ClaimPosition(p), head = pos[p]
    PROVE  IInv'
<1>1. /\ head' = head + 1 /\ pc[p] = "cas"
      /\ claimed' = Append(claimed, ItemOf(p))
      /\ pc' = [pc EXCEPT ![p] = "value"]
      /\ UNCHANGED <<sequence, value, pos, attempts, tail, cpc, item, delivered>>
  BY DEF ClaimPosition, cvars
<1>2. /\ head \in Nat /\ tail \in Nat /\ Freed \in Nat
      /\ Size \in Nat /\ Size > 1
      /\ \A q \in Producers : pos[q] \in Nat
  BY Ranges DEF IInv
<1>3. Freed' = Freed
  BY <1>1 DEF Freed
<1>4. Writing' = Writing \cup {p} /\ p \notin Writing
  BY <1>1 DEF Writing, IInv, TypeOK
<1>5. /\ Len(claimed) = head /\ claimed \in Seq(Items) /\ ItemOf(p) \in Items
      /\ Len(delivered) = Freed /\ Freed =< head
  BY <1>1, ItemOfType DEF IInv, WindowInv, TypeOK
<1>6. /\ Len(claimed') = head + 1
      /\ \A q \in Nat : q < head => claimed'[q + 1] = claimed[q + 1]
      /\ claimed'[head + 1] = ItemOf(p)
  BY <1>1, <1>2, <1>5
<1>7. head < Freed + Size
  BY <1>1 DEF IInv, CandidateInv
<1>8. WindowInv'
  BY <1>1, <1>2, <1>3, <1>5, <1>6, <1>7 DEF IInv, WindowInv
<1>9. sequence[SlotOf(head)] = head
  BY <1>2, <1>5, <1>7 DEF IInv, SlotInv
<1>10. SlotInv'
  <2>1. SUFFICES ASSUME NEW q \in Freed .. Freed + Size - 1
                 PROVE  IF q >= head + 1 THEN sequence[SlotOf(q)] = q
                        ELSE \/ /\ sequence[SlotOf(q)] = q + 1
                                /\ \/ value[SlotOf(q)] = claimed'[q + 1]
                                   \/ cpc = "free" /\ q = tail
                             \/ /\ sequence[SlotOf(q)] = q
                                /\ \E w \in Writing' : pos[w] = q
    BY <1>1, <1>3 DEF SlotInv
  <2>2. CASE q >= head + 1
    BY <2>2, <1>2 DEF IInv, SlotInv
  <2>3. CASE q = head
    BY <2>3, <1>2, <1>4, <1>9
  <2>4. CASE q < head
    <3>1. \/ /\ sequence[SlotOf(q)] = q + 1
             /\ value[SlotOf(q)] = claimed[q + 1] \/ (cpc = "free" /\ q = tail)
          \/ /\ sequence[SlotOf(q)] = q
             /\ \E w \in Writing : pos[w] = q
      BY <2>4, <1>2 DEF IInv, SlotInv
    <3>2. claimed'[q + 1] = claimed[q + 1]
      BY <2>4, <1>2, <1>6
    <3> QED
      BY <2>4, <3>1, <3>2, <1>2, <1>4
  <2> QED
    BY <1>2, <2>2, <2>3, <2>4
<1>11. WriterInv'
  <2>1. \A w \in Writing : pos[w] < head /\ w \in Producers
    BY DEF IInv, WriterInv, Writing
  <2>2. ASSUME NEW w \in Writing'
        PROVE  /\ Freed =< pos[w] /\ pos[w] < head + 1
               /\ sequence[SlotOf(pos[w])] = pos[w]
               /\ claimed'[pos[w] + 1] = ItemOf(w)
               /\ pc'[w] = "publish" => value[SlotOf(pos[w])] = ItemOf(w)
    <3>1. CASE w = p
      <4>1. pc'[w] = "value"
        BY <3>1, <1>1 DEF IInv, TypeOK
      <4> QED
        BY <3>1, <4>1, <1>2, <1>5, <1>6, <1>9
    <3>2. CASE w \in Writing /\ w # p
      <4>1. pc'[w] = pc[w]
        BY <3>2, <1>1, <2>1 DEF IInv, TypeOK
      <4>2. pos[w] \in Nat /\ pos[w] < head
        BY <3>2, <1>2, <2>1
      <4>3. claimed'[pos[w] + 1] = claimed[pos[w] + 1]
        BY <4>2, <1>6
      <4> QED
        BY <3>2, <4>1, <4>2, <4>3, <1>2 DEF IInv, WriterInv
    <3> QED
      BY <3>1, <3>2, <1>4
  <2>3. \A v, w \in Writing' : v # w => pos[v] # pos[w]
    BY <1>2, <1>4, <2>1 DEF IInv, WriterInv
  <2> QED
    BY <2>2, <2>3, <1>1, <1>3 DEF WriterInv, ItemOf
<1>12. CandidateInv'
  <2>1. \A w \in Producers : pos[w] \in Nat /\ pos[w] =< head
    BY <1>2 DEF IInv, CandidateInv
  <2> QED
    BY <2>1, <1>1, <1>2 DEF CandidateInv
<1>13. ConsumerInv'
  <2>1. cpc = "free" => tail < head
    BY DEF IInv, WindowInv
  <2> QED
    BY <2>1, <1>1, <1>2, <1>6 DEF IInv, ConsumerInv
<1>14. DeliveredInOrder'
  <2>1. ASSUME NEW i \in 1 .. Len(delivered) PROVE delivered[i] = claimed'[i]
    <3>1. i - 1 \in Nat /\ i - 1 < head /\ (i - 1) + 1 = i
      BY <1>2, <1>5
    <3>2. claimed'[i] = claimed[i]
      BY <3>1, <1>6
    <3> QED
      BY <3>2 DEF IInv, DeliveredInOrder
  <2> QED
    BY <2>1, <1>1, <1>2, <1>5, <1>6 DEF DeliveredInOrder
<1> QED
  BY <1>8, <1>10, <1>11, <1>12, <1>13, <1>14 DEF IInv

\* The slots of two positions of the current round differ.
LEMMA WindowSlots ==
    ASSUME TypeOK, NEW a \in Freed .. Freed + Size - 1,
           NEW b \in Freed .. Freed + Size - 1, a # b
    PROVE  SlotOf(a) # SlotOf(b)
<1>1. Freed \in Nat /\ Size \in Nat
  BY Ranges
<1>2. CASE a < b
  BY <1>1, <1>2, SlotInjective
<1>3. CASE b < a
  BY <1>1, <1>3, SlotInjective
<1> QED
  BY <1>1, <1>2, <1>3

\* A writer's position is in the window.
LEMMA WriterInWindow ==
    ASSUME IInv, NEW w \in Writing
    PROVE  /\ w \in Producers /\ pos[w] \in Nat
           /\ pos[w] \in Freed .. Freed + Size - 1
           /\ pos[w] < head
           /\ SlotOf(pos[w]) \in Slots
<1>1. /\ head \in Nat /\ Freed \in Nat /\ Size \in Nat
      /\ \A p \in Producers : pos[p] \in Nat
      /\ \A q \in Nat : SlotOf(q) \in Slots
  BY Ranges DEF IInv
<1>2. w \in Producers
  BY DEF Writing
<1>3. Freed =< pos[w] /\ pos[w] < head /\ head =< Freed + Size
  BY DEF IInv, WriterInv, WindowInv
<1> QED
  BY <1>1, <1>2, <1>3

\* Writing a value touches the writer's slot only.
LEMMA StoreStep ==
    ASSUME IInv, TypeOK', NEW p \in Producers, StoreValue(p)
    PROVE  IInv'
<1>1. /\ pc[p] = "value" /\ pc' = [pc EXCEPT ![p] = "publish"]
      /\ value' = [value EXCEPT ![SlotOf(pos[p])] = ItemOf(p)]
      /\ UNCHANGED <<sequence, head, claimed, pos, attempts, tail, cpc, item,
                     delivered>>
  BY DEF StoreValue, cvars
<1>2. /\ head \in Nat /\ tail \in Nat /\ Freed \in Nat
      /\ Size \in Nat /\ Size > 1
      /\ \A q \in Nat : SlotOf(q) \in Slots
  BY Ranges DEF IInv
<1>3. Freed' = Freed
  BY <1>1 DEF Freed
<1>4. Writing' = Writing /\ p \in Writing
  BY <1>1 DEF Writing, IInv, TypeOK
<1>5. /\ pos[p] \in Nat /\ pos[p] \in Freed .. Freed + Size - 1
      /\ SlotOf(pos[p]) \in Slots
  BY <1>4, WriterInWindow
<1>6. \A q \in Freed .. Freed + Size - 1 :
          q # pos[p] => value'[SlotOf(q)] = value[SlotOf(q)]
  <2> SUFFICES ASSUME NEW q \in Freed .. Freed + Size - 1, q # pos[p]
               PROVE  value'[SlotOf(q)] = value[SlotOf(q)]
    OBVIOUS
  <2>1. SlotOf(q) # SlotOf(pos[p])
    BY <1>5, WindowSlots DEF IInv
  <2>2. SlotOf(q) \in Slots
    BY <1>2
  <2> QED
    BY <2>1, <2>2, <1>1, <1>5 DEF IInv, TypeOK
<1>7. value'[SlotOf(pos[p])] = ItemOf(p)
  BY <1>1, <1>5 DEF IInv, TypeOK
<1>8. WindowInv'
  BY <1>1, <1>3 DEF IInv, WindowInv
<1>9. SlotInv'
  <2>1. sequence[SlotOf(pos[p])] = pos[p]
    BY <1>4 DEF IInv, WriterInv
  <2>2. ASSUME NEW q \in Freed .. Freed + Size - 1
        PROVE  IF q >= head THEN sequence[SlotOf(q)] = q
               ELSE \/ /\ sequence[SlotOf(q)] = q + 1
                       /\ \/ value'[SlotOf(q)] = claimed[q + 1]
                          \/ cpc = "free" /\ q = tail
                    \/ /\ sequence[SlotOf(q)] = q
                       /\ \E w \in Writing : pos[w] = q
    <3>1. CASE q = pos[p]
      BY <3>1, <2>1, <1>4
    <3>2. CASE q # pos[p]
      BY <3>2, <1>6 DEF IInv, SlotInv
    <3> QED
      BY <3>1, <3>2
  <2> QED
    BY <2>2, <1>1, <1>3, <1>4 DEF SlotInv
<1>10. WriterInv'
  <2>1. ASSUME NEW w \in Writing
        PROVE  pc'[w] = "publish" => value'[SlotOf(pos[w])] = ItemOf(w)
    <3>1. CASE w = p
      BY <3>1, <1>7
    <3>2. CASE w # p
      <4>1. pc'[w] = pc[w]
        BY <3>2, <1>1, WriterInWindow DEF IInv, TypeOK
      <4>2. pos[w] # pos[p] /\ pos[w] \in Freed .. Freed + Size - 1
        BY <3>2, <1>4, WriterInWindow DEF IInv, WriterInv
      <4> QED
        BY <4>1, <4>2, <1>6 DEF IInv, WriterInv
    <3> QED
      BY <3>1, <3>2
  <2> QED
    BY <2>1, <1>1, <1>3, <1>4 DEF IInv, WriterInv, ItemOf
<1>11. CandidateInv'
  <2>1. \A w \in Producers : pc'[w] = "cas" => pc[w] = "cas"
    BY <1>1 DEF IInv, TypeOK
  <2> QED
    BY <2>1, <1>1, <1>3 DEF IInv, CandidateInv
<1>12. ConsumerInv'
  BY <1>1 DEF IInv, ConsumerInv
<1>13. DeliveredInOrder'
  BY <1>1 DEF IInv, DeliveredInOrder
<1> QED
  BY <1>8, <1>9, <1>10, <1>11, <1>12, <1>13 DEF IInv

\* Publication turns the writer's slot into a published one.
LEMMA PublishStep ==
    ASSUME IInv, TypeOK', NEW p \in Producers, Publish(p)
    PROVE  IInv'
<1>1. /\ pc[p] = "publish" /\ pc' = [pc EXCEPT ![p] = "count"]
      /\ sequence' = [sequence EXCEPT ![SlotOf(pos[p])] = pos[p] + 1]
      /\ UNCHANGED <<value, head, claimed, pos, attempts, tail, cpc, item,
                     delivered>>
  BY DEF Publish, cvars
<1>2. /\ head \in Nat /\ tail \in Nat /\ Freed \in Nat
      /\ Size \in Nat /\ Size > 1
      /\ \A q \in Nat : SlotOf(q) \in Slots
  BY Ranges DEF IInv
<1>3. Freed' = Freed
  BY <1>1 DEF Freed
<1>4. Writing' = Writing \ {p} /\ p \in Writing
  BY <1>1 DEF Writing, IInv, TypeOK
<1>5. /\ pos[p] \in Nat /\ pos[p] \in Freed .. Freed + Size - 1
      /\ SlotOf(pos[p]) \in Slots /\ pos[p] < head
  BY <1>4, WriterInWindow
<1>6. \A q \in Freed .. Freed + Size - 1 :
          q # pos[p] => sequence'[SlotOf(q)] = sequence[SlotOf(q)]
  <2> SUFFICES ASSUME NEW q \in Freed .. Freed + Size - 1, q # pos[p]
               PROVE  sequence'[SlotOf(q)] = sequence[SlotOf(q)]
    OBVIOUS
  <2>1. SlotOf(q) # SlotOf(pos[p])
    BY <1>5, WindowSlots DEF IInv
  <2>2. SlotOf(q) \in Slots
    BY <1>2
  <2> QED
    BY <2>1, <2>2, <1>1, <1>5 DEF IInv, TypeOK
<1>7. sequence'[SlotOf(pos[p])] = pos[p] + 1
  BY <1>1, <1>5 DEF IInv, TypeOK
<1>8. WindowInv'
  BY <1>1, <1>3 DEF IInv, WindowInv
<1>9. SlotInv'
  <2>1. value[SlotOf(pos[p])] = claimed[pos[p] + 1]
    BY <1>1, <1>4 DEF IInv, WriterInv
  <2>2. ASSUME NEW q \in Freed .. Freed + Size - 1
        PROVE  IF q >= head THEN sequence'[SlotOf(q)] = q
               ELSE \/ /\ sequence'[SlotOf(q)] = q + 1
                       /\ \/ value[SlotOf(q)] = claimed[q + 1]
                          \/ cpc = "free" /\ q = tail
                    \/ /\ sequence'[SlotOf(q)] = q
                       /\ \E w \in Writing' : pos[w] = q
    <3>1. CASE q = pos[p]
      BY <3>1, <2>1, <1>2, <1>5, <1>7
    <3>2. CASE q # pos[p]
      <4>1. \A w \in Writing : pos[w] = q => w \in Writing'
        BY <3>2, <1>4
      <4> QED
        BY <3>2, <4>1, <1>6 DEF IInv, SlotInv
    <3> QED
      BY <3>1, <3>2
  <2> QED
    BY <2>2, <1>1, <1>3 DEF SlotInv
<1>10. WriterInv'
  <2>1. ASSUME NEW w \in Writing'
        PROVE  /\ sequence'[SlotOf(pos[w])] = pos[w]
               /\ pc'[w] = pc[w] /\ w \in Writing
    <3>1. w \in Writing /\ w # p
      BY <1>4
    <3>2. pos[w] # pos[p] /\ pos[w] \in Freed .. Freed + Size - 1
      BY <3>1, <1>4, WriterInWindow DEF IInv, WriterInv
    <3>3. pc'[w] = pc[w]
      BY <3>1, <1>1, WriterInWindow DEF IInv, TypeOK
    <3> QED
      BY <3>1, <3>2, <3>3, <1>6 DEF IInv, WriterInv
  <2> QED
    BY <2>1, <1>1, <1>3 DEF IInv, WriterInv, ItemOf
<1>11. CandidateInv'
  <2>1. \A w \in Producers : pc'[w] = "cas" => pc[w] = "cas"
    BY <1>1 DEF IInv, TypeOK
  <2> QED
    BY <2>1, <1>1, <1>3 DEF IInv, CandidateInv
<1>12. ConsumerInv'
  <2>1. ASSUME cpc \in {"take", "free"}
        PROVE  sequence'[SlotOf(tail)] = tail + 1
    <3>1. sequence[SlotOf(tail)] = tail + 1 /\ tail = Freed
      BY <2>1 DEF IInv, ConsumerInv, Freed
    <3>2. sequence[SlotOf(pos[p])] = pos[p]
      BY <1>4 DEF IInv, WriterInv
    <3>3. tail # pos[p]
      BY <3>1, <3>2, <1>2
    <3> QED
      BY <3>1, <3>3, <1>2, <1>6
  <2> QED
    BY <2>1, <1>1 DEF IInv, ConsumerInv
<1>13. DeliveredInOrder'
  BY <1>1 DEF IInv, DeliveredInOrder
<1> QED
  BY <1>8, <1>9, <1>10, <1>11, <1>12, <1>13 DEF IInv

\* The consumer takes the value of a published slot.
LEMMA TakeStep ==
    ASSUME IInv, TypeOK', TakeValue
    PROVE  IInv'
<1>1. /\ cpc = "take" /\ cpc' = "free"
      /\ item' = value[SlotOf(tail)]
      /\ value' = [value EXCEPT ![SlotOf(tail)] = Null]
      /\ UNCHANGED <<sequence, head, claimed, pc, pos, attempts, tail, delivered>>
  BY DEF TakeValue, pvars
<1>2. /\ head \in Nat /\ tail \in Nat /\ Freed \in Nat
      /\ Size \in Nat /\ Size > 1
      /\ \A q \in Nat : SlotOf(q) \in Slots
  BY Ranges DEF IInv
<1>3. Freed' = Freed /\ Freed = tail
  BY <1>1 DEF Freed
<1>4. Writing' = Writing
  BY <1>1 DEF Writing
<1>5. tail < head /\ sequence[SlotOf(tail)] = tail + 1
  BY <1>1 DEF IInv, WindowInv, ConsumerInv
<1>6. value[SlotOf(tail)] = claimed[tail + 1]
  BY <1>1, <1>2, <1>3, <1>5 DEF IInv, SlotInv
<1>7. \A q \in Freed .. Freed + Size - 1 :
          q # tail => value'[SlotOf(q)] = value[SlotOf(q)]
  <2> SUFFICES ASSUME NEW q \in Freed .. Freed + Size - 1, q # tail
               PROVE  value'[SlotOf(q)] = value[SlotOf(q)]
    OBVIOUS
  <2>1. SlotOf(q) # SlotOf(tail)
    BY <1>2, <1>3, WindowSlots DEF IInv
  <2>2. SlotOf(q) \in Slots
    BY <1>2
  <2> QED
    BY <2>1, <2>2, <1>1 DEF IInv, TypeOK
<1>8. WindowInv'
  BY <1>1, <1>3, <1>5 DEF IInv, WindowInv
<1>9. SlotInv'
  <2>1. ASSUME NEW q \in Freed .. Freed + Size - 1
        PROVE  IF q >= head THEN sequence[SlotOf(q)] = q
               ELSE \/ /\ sequence[SlotOf(q)] = q + 1
                       /\ \/ value'[SlotOf(q)] = claimed[q + 1]
                          \/ q = tail
                    \/ /\ sequence[SlotOf(q)] = q
                       /\ \E w \in Writing : pos[w] = q
    <3>1. CASE q = tail
      BY <3>1, <1>2, <1>5
    <3>2. CASE q # tail
      BY <3>2, <1>7 DEF IInv, SlotInv
    <3> QED
      BY <3>1, <3>2
  <2> QED
    BY <2>1, <1>1, <1>3, <1>4 DEF SlotInv
<1>10. WriterInv'
  <2>1. ASSUME NEW w \in Writing
        PROVE  value'[SlotOf(pos[w])] = value[SlotOf(pos[w])]
    <3>1. sequence[SlotOf(pos[w])] = pos[w]
      BY DEF IInv, WriterInv
    <3>2. pos[w] \in Freed .. Freed + Size - 1 /\ pos[w] # tail
      BY <3>1, <1>2, <1>5, WriterInWindow
    <3> QED
      BY <3>2, <1>7
  <2> QED
    BY <2>1, <1>1, <1>3, <1>4 DEF IInv, WriterInv, ItemOf
<1>11. CandidateInv'
  BY <1>1, <1>3 DEF IInv, CandidateInv
<1>12. ConsumerInv'
  BY <1>1, <1>5, <1>6 DEF ConsumerInv
<1>13. DeliveredInOrder'
  BY <1>1 DEF IInv, DeliveredInOrder
<1> QED
  BY <1>8, <1>9, <1>10, <1>11, <1>12, <1>13 DEF IInv

\* The consumer hands its slot to the next round: the window moves by one.
LEMMA FreeStep ==
    ASSUME IInv, TypeOK', FreeSlot
    PROVE  IInv'
<1>1. /\ cpc = "free" /\ cpc' = "advance"
      /\ sequence' = [sequence EXCEPT ![SlotOf(tail)] = tail + Size]
      /\ delivered' = Append(delivered, item)
      /\ UNCHANGED <<value, head, claimed, pc, pos, attempts, tail, item>>
  BY DEF FreeSlot, pvars
<1>2. /\ head \in Nat /\ tail \in Nat /\ Freed \in Nat
      /\ Size \in Nat /\ Size > 1
      /\ \A q \in Nat : SlotOf(q) \in Slots
  BY Ranges DEF IInv
<1>3. Freed' = tail + 1 /\ Freed = tail
  BY <1>1 DEF Freed
<1>4. Writing' = Writing
  BY <1>1 DEF Writing
<1>5. /\ tail < head /\ head =< tail + Size
      /\ sequence[SlotOf(tail)] = tail + 1 /\ item = claimed[tail + 1]
      /\ Len(claimed) = head /\ Len(delivered) = tail
  BY <1>1, <1>3 DEF IInv, WindowInv, ConsumerInv
<1>6. \A q \in tail + 1 .. tail + Size - 1 :
          sequence'[SlotOf(q)] = sequence[SlotOf(q)]
  <2> SUFFICES ASSUME NEW q \in tail + 1 .. tail + Size - 1
               PROVE  sequence'[SlotOf(q)] = sequence[SlotOf(q)]
    OBVIOUS
  <2>1. SlotOf(q) # SlotOf(tail)
    BY <1>2, <1>3, WindowSlots DEF IInv
  <2>2. SlotOf(q) \in Slots
    BY <1>2
  <2> QED
    BY <2>1, <2>2, <1>1 DEF IInv, TypeOK
<1>7. sequence'[SlotOf(tail + Size)] = tail + Size
  <2>1. SlotOf(tail + Size) = SlotOf(tail) /\ SlotOf(tail) \in Slots
    BY <1>2, SlotPeriodic
  <2> QED
    BY <2>1, <1>1 DEF IInv, TypeOK
<1>8. /\ Len(delivered') = tail + 1
      /\ delivered'[tail + 1] = item
      /\ \A i \in 1 .. tail : delivered'[i] = delivered[i]
  <2>1. delivered \in Seq(Items \cup {Null}) /\ item \in Items \cup {Null}
    BY DEF IInv, TypeOK
  <2> QED
    BY <2>1, <1>1, <1>2, <1>5
<1>9. WindowInv'
  BY <1>1, <1>2, <1>3, <1>5, <1>8 DEF WindowInv
<1>10. SlotInv'
  <2>1. ASSUME NEW q \in tail + 1 .. tail + Size
        PROVE  IF q >= head THEN sequence'[SlotOf(q)] = q
               ELSE \/ /\ sequence'[SlotOf(q)] = q + 1
                       /\ value[SlotOf(q)] = claimed[q + 1]
                    \/ /\ sequence'[SlotOf(q)] = q
                       /\ \E w \in Writing : pos[w] = q
    <3>1. CASE q = tail + Size
      BY <3>1, <1>2, <1>5, <1>7
    <3>2. CASE q # tail + Size
      <4>1. q \in tail + 1 .. tail + Size - 1 /\ q \in Freed .. Freed + Size - 1
            /\ q # tail
        BY <3>2, <1>2, <1>3
      <4> QED
        BY <4>1, <1>6 DEF IInv, SlotInv
    <3> QED
      BY <3>1, <3>2
  <2>2. tail + 1 .. (tail + 1) + Size - 1 = tail + 1 .. tail + Size
    BY <1>2
  <2> QED
    BY <2>1, <2>2, <1>1, <1>3, <1>4 DEF SlotInv
<1>11. WriterInv'
  <2>1. ASSUME NEW w \in Writing
        PROVE  /\ tail + 1 =< pos[w]
               /\ sequence'[SlotOf(pos[w])] = sequence[SlotOf(pos[w])]
    <3>1. sequence[SlotOf(pos[w])] = pos[w]
      BY DEF IInv, WriterInv
    <3>2. pos[w] \in tail .. tail + Size - 1 /\ pos[w] # tail
      BY <3>1, <1>2, <1>3, <1>5, WriterInWindow
    <3> QED
      BY <3>2, <1>2, <1>6
  <2> QED
    BY <2>1, <1>1, <1>3, <1>4 DEF IInv, WriterInv, ItemOf
<1>12. CandidateInv'
  <2>1. \A p \in Producers : pos[p] =< head /\ (pc[p] = "cas" /\ pos[p] = head => head < (tail + 1) + Size)
    BY <1>2, <1>5 DEF IInv, CandidateInv
  <2> QED
    BY <2>1, <1>1, <1>3 DEF CandidateInv
<1>13. ConsumerInv'
  BY <1>1 DEF ConsumerInv
<1>14. DeliveredInOrder'
  <2>1. ASSUME NEW i \in 1 .. tail + 1 PROVE delivered'[i] = claimed[i]
    <3>1. CASE i = tail + 1
      BY <3>1, <1>5, <1>8
    <3>2. CASE i # tail + 1
      <4>1. i \in 1 .. tail
        BY <3>2, <1>2
      <4> QED
        BY <4>1, <1>5, <1>8 DEF IInv, DeliveredInOrder
    <3> QED
      BY <3>1, <3>2
  <2> QED
    BY <2>1, <1>1, <1>2, <1>5, <1>8 DEF DeliveredInOrder
<1> QED
  BY <1>9, <1>10, <1>11, <1>12, <1>13, <1>14 DEF IInv

\* The consumer's private bookkeeping before and after its work on a slot.
LEMMA PopEdges ==
    ASSUME IInv, TypeOK', PopFound \/ Advance
    PROVE  IInv'
<1>1. /\ \/ cpc = "idle" /\ cpc' = "take" /\ tail' = tail
         \/ cpc = "advance" /\ cpc' = "idle" /\ tail' = tail + 1
      /\ UNCHANGED <<sequence, value, head, claimed, pc, pos, attempts, delivered>>
  BY DEF PopFound, Advance, pvars
<1>2. /\ head \in Nat /\ tail \in Nat /\ Freed \in Nat
      /\ Size \in Nat /\ Size > 1
  BY Ranges DEF IInv
<1>3. Freed' = Freed
  BY <1>1 DEF Freed
<1>4. Writing' = Writing
  BY <1>1 DEF Writing
<1>5. PopFound => sequence[SlotOf(tail)] = tail + 1 /\ Freed = tail /\ tail' = tail
                  /\ cpc' = "take"
  BY DEF PopFound, PopReady, Freed
<1>6. WindowInv'
  <2>1. CASE PopFound
    <3>1. tail # head
      <4>1. SUFFICES ASSUME tail = head PROVE FALSE
        OBVIOUS
      <4>2. sequence[SlotOf(tail)] = tail
        BY <4>1, <2>1, <1>2, <1>5 DEF IInv, SlotInv
      <4> QED
        BY <4>2, <2>1, <1>2, <1>5
    <3> QED
      BY <2>1, <3>1, <1>1, <1>2, <1>3, <1>5 DEF IInv, WindowInv
  <2>2. CASE Advance
    BY <2>2, <1>1, <1>2, <1>3 DEF IInv, WindowInv, Advance
  <2> QED
    BY <2>1, <2>2
<1>7. SlotInv'
  <2>1. cpc # "free" /\ cpc' # "free"
    BY <1>1
  <2> QED
    BY <2>1, <1>1, <1>3, <1>4 DEF IInv, SlotInv
<1>8. WriterInv'
  BY <1>1, <1>3, <1>4 DEF IInv, WriterInv, ItemOf
<1>9. CandidateInv'
  BY <1>1, <1>3 DEF IInv, CandidateInv
<1>10. ConsumerInv'
  <2>1. CASE PopFound
    BY <2>1, <1>1, <1>5 DEF ConsumerInv
  <2>2. CASE Advance
    BY <2>2 DEF Advance, ConsumerInv
  <2> QED
    BY <2>1, <2>2
<1>11. DeliveredInOrder'
  BY <1>1 DEF IInv, DeliveredInOrder
<1> QED
  BY <1>6, <1>7, <1>8, <1>9, <1>10, <1>11 DEF IInv

\* A candidate that finds its slot's sequence equal to pos = head has room:
\* here Size > 1 is needed, for with one slot a published position carries
\* the sequence of the next free one.
LEMMA RoomSeen ==
    ASSUME IInv, NEW p \in Producers, pos[p] = head,
           sequence[SlotOf(pos[p])] = pos[p]
    PROVE  head < Freed + Size
<1>1. /\ head \in Nat /\ Freed \in Nat /\ Size \in Nat /\ Size > 1
  BY Ranges DEF IInv
<1>2. Freed =< head /\ head =< Freed + Size
  BY DEF IInv, WindowInv
<1>3. SUFFICES ASSUME head = Freed + Size PROVE FALSE
  BY <1>1, <1>2
<1>4. SlotOf(head) = SlotOf(Freed)
  BY <1>1, <1>3, SlotPeriodic
<1>5. sequence[SlotOf(Freed)] \in {Freed, Freed + 1}
  BY <1>1, <1>3 DEF IInv, SlotInv
<1> QED
  BY <1>1, <1>3, <1>4, <1>5

\* The inductive step: one case per action.
LEMMA InvStep == IInv /\ [Next]_vars => IInv'
<1> SUFFICES ASSUME IInv, [Next]_vars PROVE IInv'
  OBVIOUS
<1>0. TypeOK'
  BY TypeStep DEF IInv
<1>1. ASSUME NEW p \in Producers, PushCall(p) PROVE IInv'
  <2>1. /\ pc[p] = "idle" /\ pc' = [pc EXCEPT ![p] = "head"]
        /\ attempts' = [attempts EXCEPT ![p] = @ + 1]
        /\ UNCHANGED <<sequence, value, head, tail, cpc, item, claimed,
                       delivered, pos>>
    BY <1>1 DEF PushCall, cvars
  <2>2. Writing' = Writing /\ p \notin Writing
    BY <2>1 DEF Writing, IInv, TypeOK
  <2>3. \A w \in Writing : pc'[w] = pc[w] /\ attempts'[w] = attempts[w]
    BY <2>1, <2>2 DEF Writing, IInv, TypeOK
  <2>4. CandidateInv'
    <3>1. Freed' = Freed /\ \A w \in Producers : pc'[w] = "cas" => pc[w] = "cas"
      BY <2>1 DEF Freed, IInv, TypeOK
    <3> QED
      BY <3>1, <2>1 DEF IInv, CandidateInv
  <2> QED
    BY <1>0, <2>1, <2>2, <2>3, <2>4, QuietStep
<1>2. ASSUME NEW p \in Producers, LoadHead(p) PROVE IInv'
  <2>1. /\ pc[p] = "head" /\ pc' = [pc EXCEPT ![p] = "sequence"]
        /\ pos' = [pos EXCEPT ![p] = head]
        /\ UNCHANGED <<sequence, value, head, tail, cpc, item, claimed,
                       delivered, attempts>>
    BY <1>2 DEF LoadHead, cvars
  <2>2. Writing' = Writing /\ p \notin Writing
    BY <2>1 DEF Writing, IInv, TypeOK
  <2>3. \A w \in Writing : pc'[w] = pc[w] /\ pos'[w] = pos[w]
    BY <2>1, <2>2 DEF Writing, IInv, TypeOK
  <2>4. CandidateInv'
    <3>1. /\ Freed' = Freed
          /\ \A w \in Producers :
                 /\ pc'[w] = "cas" => pc[w] = "cas" /\ pos'[w] = pos[w]
                 /\ pos'[w] = pos[w] \/ pos'[w] = head
      BY <2>1 DEF Freed, IInv, TypeOK
    <3>2. head =< head
      BY Ranges DEF IInv
    <3> QED
      BY <3>1, <3>2, <2>1 DEF IInv, CandidateInv
  <2> QED
    BY <1>0, <2>1, <2>2, <2>3, <2>4, QuietStep
<1>3. ASSUME NEW p \in Producers, LoadSequence(p) PROVE IInv'
  <2>1. /\ pc[p] = "sequence"
        /\ \/ pc' = [pc EXCEPT ![p] = "cas"]
              /\ sequence[SlotOf(pos[p])] - pos[p] = 0
           \/ pc' = [pc EXCEPT ![p] = "idle"]
           \/ pc' = [pc EXCEPT ![p] = "head"]
        /\ UNCHANGED <<sequence, value, head, tail, cpc, item, claimed,
                       delivered, pos, attempts>>
    BY <1>3 DEF LoadSequence, cvars
  <2>2. Writing' = Writing /\ p \notin Writing
    BY <2>1 DEF Writing, IInv, TypeOK
  <2>3. \A w \in Writing : pc'[w] = pc[w]
    BY <2>1, <2>2 DEF Writing, IInv, TypeOK
  <2>4. CandidateInv'
    <3>1. Freed' = Freed
      BY <2>1 DEF Freed
    <3>2. ASSUME NEW w \in Producers, pc'[w] = "cas", pos[w] = head
          PROVE  head < Freed + Size
      <4>1. CASE w = p
        <5>1. sequence[SlotOf(pos[p])] - pos[p] = 0
          BY <3>2, <4>1, <2>1 DEF IInv, TypeOK
        <5>2. sequence[SlotOf(pos[p])] \in Nat /\ pos[p] \in Nat
          BY Ranges DEF IInv, TypeOK
        <5> QED
          BY <3>2, <4>1, <5>1, <5>2, RoomSeen
      <4>2. CASE w # p
        <5>1. pc[w] = "cas"
          BY <3>2, <4>2, <2>1 DEF IInv, TypeOK
        <5> QED
          BY <5>1, <3>2 DEF IInv, CandidateInv
      <4> QED
        BY <4>1, <4>2
    <3> QED
      BY <3>1, <3>2, <2>1 DEF IInv, CandidateInv
  <2> QED
    BY <1>0, <2>1, <2>2, <2>3, <2>4, QuietStep
<1>4. ASSUME NEW p \in Producers, ClaimPosition(p) PROVE IInv'
  <2>1. CASE head = pos[p]
    BY <1>0, <1>4, <2>1, ClaimStep
  <2>2. CASE head # pos[p]
    <3>1. /\ pc[p] = "cas" /\ pc' = [pc EXCEPT ![p] = "sequence"]
          /\ pos' = [pos EXCEPT ![p] = head]
          /\ UNCHANGED <<sequence, value, head, tail, cpc, item, claimed,
                         delivered, attempts>>
      BY <1>4, <2>2 DEF ClaimPosition, cvars
    <3>2. Writing' = Writing /\ p \notin Writing
      BY <3>1 DEF Writing, IInv, TypeOK
    <3>3. \A w \in Writing : pc'[w] = pc[w] /\ pos'[w] = pos[w]
      BY <3>1, <3>2 DEF Writing, IInv, TypeOK
    <3>4. CandidateInv'
      <4>1. /\ Freed' = Freed
            /\ \A w \in Producers :
                   /\ pc'[w] = "cas" => pc[w] = "cas" /\ pos'[w] = pos[w]
                   /\ pos'[w] = pos[w] \/ pos'[w] = head
        BY <3>1 DEF Freed, IInv, TypeOK
      <4>2. head =< head
        BY Ranges DEF IInv
      <4> QED
        BY <4>1, <4>2, <3>1 DEF IInv, CandidateInv
    <3> QED
      BY <1>0, <3>1, <3>2, <3>3, <3>4, QuietStep
  <2> QED
    BY <2>1, <2>2
<1>5. ASSUME NEW p \in Producers, StoreValue(p) PROVE IInv'
  BY <1>0, <1>5, StoreStep
<1>6. ASSUME NEW p \in Producers, Publish(p) PROVE IInv'
  BY <1>0, <1>6, PublishStep
<1>7. ASSUME NEW p \in Producers, CountUp(p) PROVE IInv'
  <2>1. /\ pc[p] = "count" /\ pc' = [pc EXCEPT ![p] = "idle"]
        /\ UNCHANGED <<sequence, value, head, tail, cpc, item, claimed,
                       delivered, pos, attempts>>
    BY <1>7 DEF CountUp, cvars
  <2>2. Writing' = Writing /\ p \notin Writing
    BY <2>1 DEF Writing, IInv, TypeOK
  <2>3. \A w \in Writing : pc'[w] = pc[w]
    BY <2>1, <2>2 DEF Writing, IInv, TypeOK
  <2>4. CandidateInv'
    <3>1. Freed' = Freed /\ \A w \in Producers : pc'[w] = "cas" => pc[w] = "cas"
      BY <2>1 DEF Freed, IInv, TypeOK
    <3> QED
      BY <3>1, <2>1 DEF IInv, CandidateInv
  <2> QED
    BY <1>0, <2>1, <2>2, <2>3, <2>4, QuietStep
<1>8. CASE PopFound \/ Advance
  BY <1>0, <1>8, PopEdges
<1>9. CASE TakeValue
  BY <1>0, <1>9, TakeStep
<1>10. CASE FreeSlot
  BY <1>0, <1>10, FreeStep
<1>11. CASE UNCHANGED vars
  <2>1. UNCHANGED <<sequence, value, head, tail, cpc, item, claimed, delivered,
                    pc, pos, attempts>>
    BY <1>11 DEF vars, pvars, cvars
  <2>2. Writing' = Writing /\ Freed' = Freed
    BY <2>1 DEF Writing, Freed
  <2>3. CandidateInv'
    BY <2>1, <2>2 DEF IInv, CandidateInv
  <2> QED
    BY <1>0, <2>1, <2>2, <2>3, QuietStep
<1>12. CASE PopNothing
  BY <1>11, <1>12 DEF PopNothing
<1> QED
  BY <1>1, <1>2, <1>3, <1>4, <1>5, <1>6, <1>7, <1>8, <1>9, <1>10, <1>11, <1>12
  DEF Next, Pop, PushStep

\* The ring invariant holds in every reachable state.
THEOREM Invariance == Spec => []IInv
<1>1. Init => IInv
  <2> SUFFICES ASSUME Init PROVE IInv
    OBVIOUS
  <2>1. TypeOK
    BY SizeAssumption, MaxPushAssumption DEF Init, TypeOK, Slots
  <2>2. /\ Freed = 0 /\ Writing = {} /\ head = 0 /\ Len(claimed) = 0
        /\ Len(delivered) = 0 /\ cpc = "idle"
    <3>1. Freed = 0 /\ head = 0 /\ cpc = "idle"
      BY DEF Init, Freed
    <3>2. Writing = {}
      BY DEF Init, Writing
    <3>3. Len(claimed) = 0 /\ Len(delivered) = 0
      BY DEF Init
    <3> QED
      BY <3>1, <3>2, <3>3
  <2>3. WindowInv
    BY <2>2, SizeAssumption DEF WindowInv
  <2>4. SlotInv
    <3>1. ASSUME NEW q \in 0 .. Size - 1 PROVE sequence[SlotOf(q)] = q
      <4>1. q \in Nat /\ q = (Size * 0) + q
        BY SizeAssumption
      <4>2. SlotOf(q) = q
        BY <4>1, RemainderUnique, SizeAssumption DEF SlotOf
      <4> QED
        BY <4>2 DEF Init, Slots
    <3> QED
      BY <2>2, <3>1, SizeAssumption DEF SlotInv
  <2>5. WriterInv
    BY <2>2 DEF WriterInv
  <2>6. CandidateInv
    <3> SUFFICES ASSUME NEW p \in Producers
                 PROVE  pos[p] =< head /\ pc[p] # "cas"
      BY DEF CandidateInv
    <3>1. pc[p] = "idle" /\ pos[p] = 0 /\ head = 0
      BY DEF Init
    <3> QED
      BY <3>1
  <2>7. ConsumerInv /\ DeliveredInOrder
    BY <2>2 DEF ConsumerInv, DeliveredInOrder
  <2> QED
    BY <2>1, <2>3, <2>4, <2>5, <2>6, <2>7 DEF IInv
<1> QED
  BY <1>1, InvStep, PTL DEF Spec

-----------------------------------------------------------------------------
(* What follows from the inductive invariant. *)

\* pop returns the claimed items in the order of the claims.
THEOREM Fifo_Order == Spec => []DeliveredInOrder
BY Invariance, PTL DEF IInv

\* No two threads ever work on the value of the same slot.
THEOREM ExclusiveSlots == Spec => []SlotOwnership
<1>1. IInv => SlotOwnership
  <2> SUFFICES ASSUME IInv PROVE SlotOwnership
    OBVIOUS
  <2>1. /\ head \in Nat /\ tail \in Nat /\ Freed \in Nat
        /\ Size \in Nat /\ Size > 1
    BY Ranges DEF IInv
  <2>2. ASSUME NEW p \in Writing, NEW q \in Writing, p # q
        PROVE  SlotOf(pos[p]) # SlotOf(pos[q])
    <3>1. pos[p] # pos[q]
      BY <2>2 DEF IInv, WriterInv
    <3> QED
      BY <3>1, WriterInWindow, WindowSlots DEF IInv
  <2>3. ASSUME cpc \in {"take", "free"}, NEW p \in Writing
        PROVE  SlotOf(pos[p]) # SlotOf(tail)
    <3>1. sequence[SlotOf(tail)] = tail + 1 /\ Freed = tail
      BY <2>3 DEF IInv, ConsumerInv, Freed
    <3>2. sequence[SlotOf(pos[p])] = pos[p]
      BY DEF IInv, WriterInv
    <3>3. pos[p] # tail
      BY <3>1, <3>2, <2>1
    <3>4. tail \in Freed .. Freed + Size - 1
      BY <3>1, <2>1
    <3> QED
      BY <3>3, <3>4, WriterInWindow, WindowSlots DEF IInv
  <2> QED
    BY <2>2, <2>3 DEF SlotOwnership
<1> QED
  BY <1>1, Invariance, PTL

\* pop answers nullptr only when nothing finished waits at the front.
THEOREM EmptyAnswers == Spec => []NothingMeansNothing
<1>1. IInv => NothingMeansNothing
  <2> SUFFICES ASSUME IInv, cpc = "idle", ~PopReady, head # tail
               PROVE  \E p \in Writing : pos[p] = tail
    BY DEF NothingMeansNothing
  <2>1. /\ head \in Nat /\ tail \in Nat /\ Size \in Nat /\ Size > 1
    BY Ranges DEF IInv
  <2>2. Freed = tail
    BY DEF Freed
  <2>3. tail < head
    BY <2>1, <2>2 DEF IInv, WindowInv
  <2>4. tail \in Freed .. Freed + Size - 1
    BY <2>1, <2>2
  <2> QED
    BY <2>1, <2>3, <2>4 DEF IInv, SlotInv, PopReady
<1> QED
  BY <1>1, Invariance, PTL

\* A slot whose sequence is behind pos proves that the ring is full.
LEMMA BehindIsFull ==
    ASSUME IInv, NEW p \in Producers, sequence[SlotOf(pos[p])] - pos[p] < 0
    PROVE  head - Freed = Size
<1>1. /\ head \in Nat /\ Freed \in Nat /\ Size \in Nat /\ Size > 1
      /\ pos[p] \in Nat /\ SlotOf(pos[p]) \in Slots
  BY Ranges DEF IInv
<1>2. Freed =< head /\ head =< Freed + Size /\ pos[p] =< head
  BY DEF IInv, WindowInv, CandidateInv
<1>3. SUFFICES ASSUME head < Freed + Size PROVE FALSE
  BY <1>1, <1>2
<1>4. PICK q \in Freed .. Freed + Size - 1 : SlotOf(q) = SlotOf(pos[p])
  BY <1>1, SlotSurjective
<1>5. sequence[SlotOf(q)] >= q /\ q \in Nat
  BY <1>1 DEF IInv, SlotInv
<1>6. CASE pos[p] < Freed
  BY <1>1, <1>4, <1>5, <1>6 DEF IInv, TypeOK
<1>7. CASE pos[p] >= Freed
  <2>1. pos[p] \in Freed .. Freed + Size - 1
    BY <1>1, <1>2, <1>3, <1>7
  <2>2. pos[p] = q
    BY <2>1, <1>4, WindowSlots DEF IInv
  <2> QED
    BY <2>2, <1>1, <1>5 DEF IInv, TypeOK
<1> QED
  BY <1>1, <1>6, <1>7

\* "Queue is full" is thrown only when every slot is in use.
THEOREM FullAnswers == Spec => FullIsFull
<1>1. IInv /\ [Next]_vars => [refused' # refused => head - Freed = Size]_vars
  <2> SUFFICES ASSUME IInv, [Next]_vars, refused' # refused
               PROVE  head - Freed = Size
    OBVIOUS
  <2>1. ASSUME NEW p \in Producers, LoadSequence(p) PROVE head - Freed = Size
    BY <2>1, BehindIsFull DEF LoadSequence
  <2>2. ~UNCHANGED vars
    BY DEF vars
  <2> QED
    BY <2>1, <2>2 DEF Next, Pop, PushStep, PushCall, LoadHead, ClaimPosition,
       StoreValue, Publish, CountUp, PopFound, PopNothing, TakeValue, FreeSlot,
       Advance
<1> QED
  BY <1>1, Invariance, PTL DEF Spec, FullIsFull

-----------------------------------------------------------------------------
(* Each call of push counts once. *)

\* The step from CallInv to CallInv': only the claim and the refusal add to the
\* histories, and both settle an undecided call.
LEMMA CallStep == TypeOK /\ CallInv /\ [Next]_vars => CallInv'
<1> SUFFICES ASSUME TypeOK, CallInv, [Next]_vars PROVE CallInv'
  OBVIOUS
<1>1. /\ claimed \in Seq(Items) /\ refused \in SUBSET Items
      /\ attempts \in [Producers -> 0 .. MaxPush] /\ MaxPush \in Nat
      /\ pc \in [Producers -> {"idle", "head", "sequence", "cas", "value",
                               "publish", "count"}]
  BY MaxPushAssumption DEF TypeOK
<1>2. \A x \in Items : x[1] \in Producers /\ x[2] \in Nat
  BY <1>1 DEF Items
<1>3. \A i \in 1 .. Len(claimed) : claimed[i] \in Items
  BY <1>1
<1>4. ASSUME UNCHANGED <<claimed, refused, attempts>>, Undecided' \subseteq Undecided
      PROVE  CallInv'
  BY <1>4 DEF CallInv, OncePerCall
<1>5. ASSUME NEW p \in Producers, PushCall(p) PROVE CallInv'
  <2>1. /\ UNCHANGED <<claimed, refused>> /\ pc' = [pc EXCEPT ![p] = "head"]
        /\ attempts' = [attempts EXCEPT ![p] = @ + 1]
    BY <1>5 DEF PushCall
  <2>2. \A q \in Producers : q # p => (q \in Undecided' => q \in Undecided)
    BY <2>1, <1>1 DEF Undecided
  <2>3. \A x \in Items : /\ x[2] =< attempts[x[1]] => x[2] =< attempts'[x[1]]
                         /\ x[2] =< attempts[x[1]] /\ x[1] = p => x[2] < attempts'[x[1]]
                         /\ x[1] # p => attempts'[x[1]] = attempts[x[1]]
    <3> SUFFICES ASSUME NEW x \in Items
                 PROVE  /\ x[2] =< attempts[x[1]] => x[2] =< attempts'[x[1]]
                        /\ x[2] =< attempts[x[1]] /\ x[1] = p => x[2] < attempts'[x[1]]
                        /\ x[1] # p => attempts'[x[1]] = attempts[x[1]]
      OBVIOUS
    <3>1. x[1] \in Producers /\ x[2] \in Nat /\ attempts[x[1]] \in Nat
      BY <1>1, <1>2
    <3>2. CASE x[1] = p
      <4>1. attempts'[x[1]] = attempts[x[1]] + 1
        BY <3>2, <2>1, <1>1
      <4> QED
        BY <4>1, <3>1, <3>2
    <3>3. CASE x[1] # p
      BY <3>1, <3>3, <2>1, <1>1
    <3> QED
      BY <3>2, <3>3
  <2>4. ASSUME NEW x \in Items, x[2] =< attempts[x[1]],
               x[1] \in Undecided => x[2] < attempts[x[1]]
        PROVE  /\ x[2] =< attempts'[x[1]]
               /\ x[1] \in Undecided' => x[2] < attempts'[x[1]]
    BY <2>2, <2>3, <2>4, <1>2
  <2> QED
    BY <2>1, <2>4, <1>1, <1>3 DEF CallInv, OncePerCall
<1>6. ASSUME NEW p \in Producers, LoadSequence(p) PROVE CallInv'
  <2>1. /\ pc[p] = "sequence" /\ UNCHANGED <<claimed, attempts>>
        /\ \/ pc' = [pc EXCEPT ![p] = "cas"] /\ UNCHANGED refused
           \/ /\ pc' = [pc EXCEPT ![p] = "idle"]
              /\ refused' = refused \cup {ItemOf(p)}
           \/ pc' = [pc EXCEPT ![p] = "head"] /\ UNCHANGED refused
    BY <1>6 DEF LoadSequence
  <2>2. Undecided' \subseteq Undecided /\ p \in Undecided
    BY <2>1, <1>1 DEF Undecided
  <2>3. CASE UNCHANGED refused
    BY <2>1, <2>2, <2>3, <1>4
  <2>4. CASE /\ pc' = [pc EXCEPT ![p] = "idle"]
             /\ refused' = refused \cup {ItemOf(p)}
    <3>1. p \notin Undecided'
      BY <2>4, <1>1 DEF Undecided
    <3>2. ItemOf(p)[1] = p /\ ItemOf(p)[2] = attempts[p] /\ attempts[p] \in Nat
      BY <1>1 DEF ItemOf
    <3>3. \A i \in 1 .. Len(claimed) : claimed[i] # ItemOf(p)
      <4> SUFFICES ASSUME NEW i \in 1 .. Len(claimed), claimed[i] = ItemOf(p)
                   PROVE  FALSE
        OBVIOUS
      <4>1. claimed[i][2] < attempts[claimed[i][1]]
        BY <2>2, <3>2 DEF CallInv
      <4> QED
        BY <4>1, <3>2
    <3>4. attempts[p] =< attempts[p]
      BY <3>2
    <3>5. \A x \in refused' : /\ x[2] =< attempts[x[1]]
                              /\ x[1] \in Undecided' => x[2] < attempts[x[1]]
      BY <2>2, <2>4, <3>1, <3>2, <3>4 DEF CallInv
    <3>6. \A i \in 1 .. Len(claimed) : claimed[i] \notin refused'
      BY <2>4, <3>3 DEF CallInv, OncePerCall
    <3>7. \A i \in 1 .. Len(claimed) :
              claimed[i][1] \in Undecided' => claimed[i][2] < attempts[claimed[i][1]]
      BY <2>2 DEF CallInv
    <3> QED
      BY <3>5, <3>6, <3>7, <2>1 DEF CallInv, OncePerCall
  <2> QED
    BY <2>1, <2>3, <2>4
<1>7. ASSUME NEW p \in Producers, ClaimPosition(p), head = pos[p] PROVE CallInv'
  <2>1. /\ pc[p] = "cas" /\ UNCHANGED <<refused, attempts>>
        /\ pc' = [pc EXCEPT ![p] = "value"]
        /\ claimed' = Append(claimed, ItemOf(p))
    BY <1>7 DEF ClaimPosition
  <2>2. Undecided' \subseteq Undecided /\ p \in Undecided /\ p \notin Undecided'
    BY <2>1, <1>1 DEF Undecided
  <2>3. ItemOf(p)[1] = p /\ ItemOf(p)[2] = attempts[p] /\ attempts[p] \in Nat
    BY <1>1 DEF ItemOf
  <2>4. ItemOf(p) \in Items
    BY <2>1, ItemOfType
  <2> DEFINE n == Len(claimed)
  <2>5. /\ n \in Nat /\ Len(claimed') = n + 1 /\ claimed'[n + 1] = ItemOf(p)
        /\ \A i \in 1 .. n : claimed'[i] = claimed[i]
    BY <2>1, <2>4, <1>1
  <2>6. \A i \in 1 .. n : claimed[i][1] = p => claimed[i][2] < attempts[p]
    BY <2>2 DEF CallInv
  <2>7. ItemOf(p) \notin refused
    <3> SUFFICES ASSUME ItemOf(p) \in refused PROVE FALSE
      OBVIOUS
    <3>1. ItemOf(p)[2] < attempts[ItemOf(p)[1]]
      BY <2>2, <2>3 DEF CallInv
    <3> QED
      BY <3>1, <2>3
  <2>8. \A i \in 1 .. n : /\ claimed[i][2] =< attempts[claimed[i][1]]
                          /\ claimed[i][1] \in Undecided' =>
                                 claimed[i][2] < attempts[claimed[i][1]]
                          /\ claimed[i] \notin refused
    BY <2>2 DEF CallInv, OncePerCall
  <2>9. \A i, j \in 1 .. n :
            i < j /\ claimed[i][1] = claimed[j][1] => claimed[i][2] < claimed[j][2]
    BY DEF CallInv, OncePerCall
  <2> HIDE DEF n
  <2>10. \A i \in 1 .. n + 1 : i \in 1 .. n \/ i = n + 1
    BY <2>5
  <2>11. ASSUME NEW i \in 1 .. n + 1
         PROVE  /\ claimed'[i][2] =< attempts[claimed'[i][1]]
                /\ claimed'[i][1] \in Undecided' =>
                       claimed'[i][2] < attempts[claimed'[i][1]]
                /\ claimed'[i] \notin refused
    <3>1. CASE i \in 1 .. n
      BY <3>1, <2>5, <2>8
    <3>2. CASE i = n + 1
      BY <3>2, <2>2, <2>3, <2>5, <2>7
    <3> QED
      BY <3>1, <3>2, <2>10
  <2>12. ASSUME NEW i \in 1 .. n + 1, NEW j \in 1 .. n + 1, i < j,
                claimed'[i][1] = claimed'[j][1]
         PROVE  claimed'[i][2] < claimed'[j][2]
    <3>1. i \in 1 .. n
      BY <2>5, <2>12
    <3>2. CASE j \in 1 .. n
      BY <3>1, <3>2, <2>5, <2>9, <2>12
    <3>3. CASE j = n + 1
      BY <3>1, <3>3, <2>3, <2>5, <2>6, <2>12
    <3> QED
      BY <3>2, <3>3, <2>10
  <2> QED
    BY <2>1, <2>2, <2>5, <2>11, <2>12 DEF CallInv, OncePerCall
<1>8. ASSUME NEW p \in Producers,
             LoadHead(p) \/ (ClaimPosition(p) /\ head # pos[p]) \/ StoreValue(p)
             \/ Publish(p) \/ CountUp(p)
      PROVE  CallInv'
  <2>1. /\ UNCHANGED <<claimed, refused, attempts>>
        /\ pc[p] \in {"head", "cas"} \/ pc'[p] \notin {"head", "sequence", "cas"}
        /\ \A q \in Producers : q # p => pc'[q] = pc[q]
    BY <1>8, <1>1 DEF LoadHead, ClaimPosition, StoreValue, Publish, CountUp
  <2>2. Undecided' \subseteq Undecided
    BY <2>1 DEF Undecided
  <2> QED
    BY <2>1, <2>2, <1>4
<1>9. CASE Pop \/ UNCHANGED vars
  <2>1. UNCHANGED <<claimed, refused, attempts, pc>>
    BY <1>9 DEF Pop, PopFound, PopNothing, TakeValue, FreeSlot, Advance, vars, pvars
  <2>2. Undecided' = Undecided
    BY <2>1 DEF Undecided
  <2> QED
    BY <2>1, <2>2, <1>4
<1> QED
  BY <1>5, <1>6, <1>7, <1>8, <1>9 DEF Next, PushStep

\* A call of push claims at most one position, never after it threw, and the
\* items of one producer keep the order of its calls.
THEOREM EachCallOnce == Spec => []OncePerCall
<1>1. Init => CallInv
  <2> SUFFICES ASSUME Init PROVE CallInv
    OBVIOUS
  <2>1. Len(claimed) = 0 /\ refused = {}
    BY DEF Init
  <2> QED
    BY <2>1 DEF CallInv, OncePerCall
<1>2. CallInv => OncePerCall
  BY DEF CallInv
<1> QED
  BY <1>1, <1>2, CallStep, TypeCorrect, PTL DEF Spec

-----------------------------------------------------------------------------
(* The ring implements the bounded FIFO. *)

\* The items claimed and not yet handed back.
Waiting == SubSeq(claimed, Len(delivered) + 1, Len(claimed))

\* The waiting items, by position.
LEMMA WaitingItems ==
    ASSUME IInv
    PROVE  /\ Waiting \in Seq(Items)
           /\ Len(Waiting) = head - Freed
           /\ \A i \in 1 .. head - Freed : Waiting[i] = claimed[Freed + i]
<1>1. /\ head \in Nat /\ Freed \in Nat /\ Freed =< head
      /\ Len(claimed) = head /\ Len(delivered) = Freed
      /\ claimed \in Seq(Items)
  BY Ranges DEF IInv, WindowInv, TypeOK
<1>2. Freed + 1 \in Int /\ head \in Int
      /\ \A i \in Freed + 1 .. head : claimed[i] \in Items
  BY <1>1
<1>3. /\ Waiting \in Seq(Items)
      /\ Len(Waiting) = IF Freed + 1 <= head THEN head - (Freed + 1) + 1 ELSE 0
      /\ \A i \in 1 .. head - (Freed + 1) + 1 : Waiting[i] = claimed[(Freed + 1) + i - 1]
  <2>1. Waiting = SubSeq(claimed, Freed + 1, head)
    BY <1>1 DEF Waiting
  <2> HIDE DEF Waiting
  <2> QED
    BY <1>2, <2>1, SubSeqProperties
<1>4. Len(Waiting) = head - Freed
  BY <1>1, <1>3
<1>5. \A i \in 1 .. head - Freed : Waiting[i] = claimed[Freed + i]
  <2> SUFFICES ASSUME NEW i \in 1 .. head - Freed PROVE Waiting[i] = claimed[Freed + i]
    OBVIOUS
  <2>1. i \in 1 .. head - (Freed + 1) + 1 /\ (Freed + 1) + i - 1 = Freed + i
    BY <1>1
  <2> QED
    BY <2>1, <1>3
<1> QED
  BY <1>3, <1>4, <1>5

\* The claim appends to the waiting items.
LEMMA ClaimAccepts ==
    ASSUME IInv, IInv', NEW p \in Producers, ClaimPosition(p), head = pos[p]
    PROVE  Len(Waiting) < Size /\ Waiting' = Append(Waiting, ItemOf(p))
<1>1. /\ head' = head + 1 /\ pc[p] = "cas"
      /\ claimed' = Append(claimed, ItemOf(p))
      /\ UNCHANGED <<tail, cpc>>
  BY DEF ClaimPosition, cvars
<1>2. Freed' = Freed
  BY <1>1 DEF Freed
<1>3. /\ head \in Nat /\ Freed \in Nat /\ Freed =< head /\ Size \in Nat
      /\ head < Freed + Size /\ claimed \in Seq(Items) /\ Len(claimed) = head
  BY <1>1, Ranges DEF IInv, WindowInv, CandidateInv, TypeOK
<1>4. ItemOf(p) \in Items
  BY <1>1, ItemOfType DEF IInv
<1>5. /\ Waiting \in Seq(Items) /\ Len(Waiting) = head - Freed
      /\ \A i \in 1 .. head - Freed : Waiting[i] = claimed[Freed + i]
  BY WaitingItems
<1>6. /\ Waiting' \in Seq(Items) /\ Len(Waiting') = head' - Freed'
      /\ \A i \in 1 .. head' - Freed' : Waiting'[i] = claimed'[Freed' + i]
  <2>1. (Waiting \in Seq(Items) /\ Len(Waiting) = head - Freed
         /\ \A i \in 1 .. head - Freed : Waiting[i] = claimed[Freed + i])'
    BY WaitingItems, PTL
  <2> QED
    BY <2>1 DEF Items
<1> DEFINE n == head - Freed
           W == Append(Waiting, ItemOf(p))
<1>7. n \in Nat /\ head' - Freed' = n + 1
  BY <1>1, <1>2, <1>3
<1>8. /\ W \in Seq(Items) /\ Len(W) = n + 1 /\ W[n + 1] = ItemOf(p)
      /\ \A i \in 1 .. n : W[i] = Waiting[i]
  BY <1>4, <1>5, AppendProperties
<1>9. /\ claimed'[head + 1] = ItemOf(p)
      /\ \A i \in 1 .. head : claimed'[i] = claimed[i]
  BY <1>1, <1>3, <1>4, AppendProperties
<1>10. ASSUME NEW i \in 1 .. n + 1 PROVE Waiting'[i] = W[i]
  <2>1. Waiting'[i] = claimed'[Freed + i]
    BY <1>2, <1>6, <1>7
  <2>2. CASE i = n + 1
    <3>1. Freed + i = head + 1
      BY <2>2, <1>3
    <3> QED
      BY <2>1, <2>2, <3>1, <1>8, <1>9
  <2>3. CASE i # n + 1
    <3>1. i \in 1 .. n /\ Freed + i \in 1 .. head
      BY <2>3, <1>3, <1>7
    <3>2. Waiting[i] = claimed[Freed + i]
      BY <3>1, <1>5
    <3> QED
      BY <3>1, <3>2, <2>1, <1>8, <1>9
  <2> QED
    BY <2>2, <2>3
<1>11. Waiting' = W
  <2>1. Len(Waiting') = Len(W) /\ \A i \in 1 .. Len(Waiting') : Waiting'[i] = W[i]
    BY <1>6, <1>7, <1>8, <1>10
  <2> HIDE DEF W
  <2> QED
    BY <2>1, <1>6, <1>8, SeqEqual
<1> QED
  BY <1>3, <1>5, <1>11

\* Handing back the slot removes the oldest waiting item.
LEMMA FreeReceives ==
    ASSUME IInv, IInv', FreeSlot
    PROVE  /\ Waiting # <<>>
           /\ delivered' = Append(delivered, Head(Waiting))
           /\ Waiting' = Tail(Waiting)
<1>1. /\ cpc = "free" /\ cpc' = "advance"
      /\ delivered' = Append(delivered, item)
      /\ UNCHANGED <<head, claimed, tail>>
  BY DEF FreeSlot, pvars
<1>2. Freed = tail /\ Freed' = tail + 1
  BY <1>1 DEF Freed
<1>3. /\ head \in Nat /\ tail \in Nat /\ tail < head
      /\ item = claimed[tail + 1]
  BY <1>1, Ranges DEF IInv, WindowInv, ConsumerInv
<1>4. /\ Waiting \in Seq(Items) /\ Len(Waiting) = head - tail
      /\ \A i \in 1 .. head - tail : Waiting[i] = claimed[tail + i]
  BY <1>2, WaitingItems
<1>5. /\ Waiting' \in Seq(Items) /\ Len(Waiting') = head - (tail + 1)
      /\ \A i \in 1 .. head - (tail + 1) : Waiting'[i] = claimed[(tail + 1) + i]
  <2>1. (Waiting \in Seq(Items) /\ Len(Waiting) = head - Freed
         /\ \A i \in 1 .. head - Freed : Waiting[i] = claimed[Freed + i])'
    BY WaitingItems, PTL
  <2>2. Items' = Items
    BY DEF Items
  <2>3. head' = head /\ claimed' = claimed
    BY <1>1
  <2> QED
    BY <2>1, <2>2, <2>3, <1>2
<1>6. Waiting # <<>>
  BY <1>3, <1>4
<1>7. Head(Waiting) = item
  <2>1. Waiting[1] = claimed[tail + 1]
    BY <1>3, <1>4
  <2> QED
    BY <2>1, <1>3, <1>4, <1>6
<1>8. /\ Tail(Waiting) \in Seq(Items) /\ Len(Tail(Waiting)) = Len(Waiting) - 1
      /\ \A i \in 1 .. Len(Tail(Waiting)) : Tail(Waiting)[i] = Waiting[i + 1]
  BY <1>4, <1>6, HeadTailProperties
<1>9. Waiting' = Tail(Waiting)
  <2>1. Len(Waiting') = Len(Tail(Waiting))
    BY <1>3, <1>4, <1>5, <1>8
  <2>2. ASSUME NEW i \in 1 .. Len(Waiting') PROVE Waiting'[i] = Tail(Waiting)[i]
    <3>1. /\ i \in 1 .. head - (tail + 1) /\ i + 1 \in 1 .. head - tail
          /\ (tail + 1) + i = tail + (i + 1) /\ i \in 1 .. Len(Tail(Waiting))
      BY <1>3, <1>5, <2>1
    <3> QED
      BY <3>1, <1>4, <1>5, <1>8
  <2> QED
    BY <2>1, <2>2, <1>5, <1>8, SeqEqual
<1> QED
  BY <1>1, <1>6, <1>7, <1>9

\* Every step of push and pop is a step of the bounded FIFO or leaves it as it
\* is: the ring implements BoundedFifo.
THEOREM Refinement == Spec => RefinesFifo
<1>1. Init => Fifo!Init
  <2> SUFFICES ASSUME Init PROVE Fifo!Init
    OBVIOUS
  <2>1. claimed = <<>> /\ delivered = <<>> /\ refused = {}
        /\ attempts = [p \in Producers |-> 0]
    BY DEF Init
  <2>2. SubSeq(claimed, Len(delivered) + 1, Len(claimed)) = <<>>
    BY <2>1, SubSeqEmpty
  <2> QED
    BY <2>1, <2>2 DEF Fifo!Init
<1>2. IInv /\ IInv' /\ [Next]_vars => [Fifo!Next]_(Fifo!vars)
  <2> SUFFICES ASSUME IInv, IInv', [Next]_vars PROVE [Fifo!Next]_(Fifo!vars)
    OBVIOUS
  <2>1. ASSUME NEW p \in Producers, PushCall(p) PROVE Fifo!Begin(p)
    BY <2>1 DEF PushCall, cvars, Fifo!Begin
  <2>2. ASSUME NEW p \in Producers, ClaimPosition(p), head = pos[p]
        PROVE  Fifo!Accept(p)
    <3>1. Len(Waiting) < Size /\ Waiting' = Append(Waiting, ItemOf(p))
      BY <2>2, ClaimAccepts
    <3>2. UNCHANGED <<delivered, refused, attempts>>
      BY <2>2 DEF ClaimPosition, cvars
    <3> QED
      BY <3>1, <3>2 DEF Fifo!Accept, Waiting, ItemOf
  <2>3. ASSUME NEW p \in Producers, LoadSequence(p), refused' # refused
        PROVE  Fifo!Refuse(p)
    <3>1. /\ refused' = refused \cup {ItemOf(p)}
          /\ sequence[SlotOf(pos[p])] - pos[p] < 0
          /\ UNCHANGED <<claimed, delivered, attempts>>
      BY <2>3 DEF LoadSequence, cvars
    <3>2. Len(Waiting) = Size
      BY <3>1, BehindIsFull, WaitingItems
    <3>3. Waiting' = Waiting
      BY <3>1 DEF Waiting
    <3> QED
      BY <3>1, <3>2, <3>3 DEF Fifo!Refuse, Waiting, ItemOf
  <2>4. CASE FreeSlot
    <3>1. /\ Waiting # <<>>
          /\ delivered' = Append(delivered, Head(Waiting))
          /\ Waiting' = Tail(Waiting)
      BY <2>4, FreeReceives
    <3>2. UNCHANGED <<refused, attempts>>
      BY <2>4 DEF FreeSlot, pvars
    <3>3. Fifo!Receive
      BY <3>1, <3>2 DEF Fifo!Receive, Waiting
    <3> QED
      BY <3>3 DEF Fifo!Next
  <2>5. ASSUME UNCHANGED <<claimed, delivered, refused, attempts>>
        PROVE  UNCHANGED Fifo!vars
    BY <2>5 DEF Fifo!vars
  <2>6. ASSUME NEW p \in Producers,
               \/ LoadHead(p) \/ (LoadSequence(p) /\ refused' = refused)
               \/ (ClaimPosition(p) /\ head # pos[p])
               \/ StoreValue(p) \/ Publish(p) \/ CountUp(p)
        PROVE  UNCHANGED <<claimed, delivered, refused, attempts>>
    BY <2>6 DEF LoadHead, LoadSequence, ClaimPosition, StoreValue, Publish,
       CountUp, cvars
  <2>7. ASSUME PopFound \/ PopNothing \/ TakeValue \/ Advance \/ UNCHANGED vars
        PROVE  UNCHANGED <<claimed, delivered, refused, attempts>>
    BY <2>7 DEF PopFound, PopNothing, TakeValue, Advance, vars, pvars, cvars
  <2> QED
    BY <2>1, <2>2, <2>3, <2>4, <2>5, <2>6, <2>7
    DEF Next, Pop, PushStep, Fifo!Next
<1> QED
  BY <1>1, <1>2, Invariance, PTL DEF Spec, RefinesFifo, Fifo!Spec

-----------------------------------------------------------------------------
(* The counter. *)

\* Producers whose position is claimed and not yet counted.
Counting == {p \in Producers : pc[p] \in {"value", "publish", "count"}}

\* The counter lags behind the positions by the calls in Counting, and only
\* finitely many calls are there.
CountInv == IsFiniteSet(Counting) /\ size = head - tail - Cardinality(Counting)

LEMMA CountStep == TypeOK /\ CountInv /\ [Next]_vars => CountInv'
<1> SUFFICES ASSUME TypeOK, CountInv, [Next]_vars PROVE CountInv'
  OBVIOUS
<1>1. /\ head \in Nat /\ tail \in Nat /\ size \in Int
      /\ IsFiniteSet(Counting) /\ Cardinality(Counting) \in Nat
      /\ size = head - tail - Cardinality(Counting)
  BY FS_CardinalityType DEF TypeOK, CountInv
<1>2. ASSUME Counting' = Counting, size' - head' + tail' = size - head + tail,
             size' \in Int, head' \in Int, tail' \in Int
      PROVE  CountInv'
  <2>1. size' = head' - tail' - Cardinality(Counting)
    <3>1. PICK s \in Int, h \in Int, t \in Int : size' = s /\ head' = h /\ tail' = t
      BY <1>2
    <3>2. s - h + t = size - head + tail
      BY <1>2, <3>1
    <3>3. \A c \in Nat : size = head - tail - c => s = h - t - c
      BY <1>1, <3>2
    <3>4. s = h - t - Cardinality(Counting)
      BY <1>1, <3>3, Zenon
    <3> QED
      BY <3>1, <3>4, Zenon
  <2> QED
    BY <1>1, <1>2, <2>1, Zenon DEF CountInv
<1>3. ASSUME UNCHANGED <<pc, size, head, tail>> PROVE CountInv'
  <2>1. Counting' = Counting
    BY <1>3 DEF Counting
  <2> QED
    BY <1>1, <1>2, <1>3, <2>1
<1>4. ASSUME NEW p \in Producers, NEW l, pc' = [pc EXCEPT ![p] = l],
             pc[p] \in {"value", "publish", "count"} <=> l \in {"value", "publish", "count"},
             UNCHANGED <<size, head, tail>>
      PROVE  CountInv'
  <2>1. Counting' = Counting
    BY <1>4 DEF TypeOK, Counting
  <2> QED
    BY <1>1, <1>2, <1>4, <2>1
<1>5. ASSUME NEW p \in Producers, PushCall(p) PROVE CountInv'
  BY <1>4, <1>5 DEF PushCall, cvars
<1>6. ASSUME NEW p \in Producers, LoadHead(p) PROVE CountInv'
  BY <1>4, <1>6 DEF LoadHead, cvars
<1>7. ASSUME NEW p \in Producers, LoadSequence(p) PROVE CountInv'
  <2>1. PICK l \in {"cas", "idle", "head"} : pc' = [pc EXCEPT ![p] = l]
    BY <1>7 DEF LoadSequence
  <2>2. pc[p] = "sequence" /\ UNCHANGED <<size, head, tail>>
    BY <1>7 DEF LoadSequence, cvars
  <2> QED
    BY <1>4, <2>1, <2>2
<1>8. ASSUME NEW p \in Producers, ClaimPosition(p) PROVE CountInv'
  <2>1. pc[p] = "cas" /\ UNCHANGED <<size, tail>>
    BY <1>8 DEF ClaimPosition, cvars
  <2>2. CASE head' = head + 1 /\ pc' = [pc EXCEPT ![p] = "value"]
    <3>1. Counting' = Counting \cup {p} /\ p \notin Counting
      BY <2>1, <2>2 DEF TypeOK, Counting
    <3>2. IsFiniteSet(Counting') /\ Cardinality(Counting') = Cardinality(Counting) + 1
      BY <1>1, <3>1, FS_AddElement
    <3>3. size' = head' - tail' - Cardinality(Counting')
      BY <1>1, <2>1, <2>2, <3>2
    <3> QED
      BY <3>2, <3>3 DEF CountInv
  <2>3. CASE pc' = [pc EXCEPT ![p] = "sequence"] /\ UNCHANGED head
    BY <1>4, <2>1, <2>3
  <2> QED
    BY <1>8, <2>2, <2>3 DEF ClaimPosition
<1>9. ASSUME NEW p \in Producers, StoreValue(p) PROVE CountInv'
  BY <1>4, <1>9 DEF StoreValue, cvars
<1>10. ASSUME NEW p \in Producers, Publish(p) PROVE CountInv'
  BY <1>4, <1>10 DEF Publish, cvars
<1>11. ASSUME NEW p \in Producers, CountUp(p) PROVE CountInv'
  <2>1. /\ pc[p] = "count" /\ size' = size + 1 /\ pc' = [pc EXCEPT ![p] = "idle"]
        /\ UNCHANGED <<head, tail>>
    BY <1>11 DEF CountUp, cvars
  <2>2. Counting' = Counting \ {p} /\ p \in Counting
    BY <2>1 DEF TypeOK, Counting
  <2>3. IsFiniteSet(Counting') /\ Cardinality(Counting') = Cardinality(Counting) - 1
    BY <1>1, <2>2, FS_RemoveElement
  <2>4. size' = head' - tail' - Cardinality(Counting')
    BY <1>1, <2>1, <2>3
  <2> QED
    BY <2>3, <2>4 DEF CountInv
<1>12. CASE Pop
  <2>1. CASE PopFound \/ PopNothing \/ TakeValue \/ FreeSlot
    BY <1>3, <2>1 DEF PopFound, PopNothing, TakeValue, FreeSlot, pvars, cvars, vars
  <2>2. CASE Advance
    <3>1. tail' = tail + 1 /\ size' = size - 1 /\ UNCHANGED <<head, pc>>
      BY <2>2 DEF Advance, pvars
    <3>2. Counting' = Counting
      BY <3>1 DEF Counting
    <3> QED
      BY <1>1, <1>2, <3>1, <3>2
  <2> QED
    BY <1>12, <2>1, <2>2 DEF Pop
<1>13. CASE UNCHANGED vars
  BY <1>3, <1>13 DEF vars, pvars, cvars
<1> QED
  BY <1>5, <1>6, <1>7, <1>8, <1>9, <1>10, <1>11, <1>12, <1>13 DEF Next, PushStep

\* size() is exact whenever no call of push or pop is between its claim and its
\* count, for any number of producers and any capacity below 2^64.
THEOREM SizeExact == Spec => []SizeAtRest
<1>1. Init => CountInv
  <2> SUFFICES ASSUME Init PROVE CountInv
    OBVIOUS
  <2>1. Counting = {}
    BY DEF Init, Counting
  <2>2. IsFiniteSet(Counting) /\ Cardinality(Counting) = 0
    BY <2>1, FS_EmptySet, Zenon
  <2>3. size = head - tail - 0
    BY DEF Init
  <2> QED
    BY <2>2, <2>3 DEF CountInv
<1>2. IInv /\ CountInv => SizeAtRest
  <2> SUFFICES ASSUME IInv, CountInv, cpc = "idle",
                      \A p \in Producers : pc[p] \notin {"value", "publish", "count"}
               PROVE  ReportedSize = head - tail
    BY DEF SizeAtRest
  <2>1. Counting = {}
    BY DEF Counting
  <2>2. Cardinality(Counting) = 0
    BY <2>1, FS_EmptySet, Zenon
  <2>3. head \in Nat /\ tail \in Nat /\ Freed = tail
    BY DEF IInv, TypeOK, Freed
  <2>4. size = head - tail /\ size \in Nat /\ size =< Size
    BY <2>2, <2>3, SizeAssumption DEF CountInv, IInv, WindowInv
  <2>5. size \in 0 .. Word - 1 /\ size = (Word * 0) + size /\ Word > 0 /\ Word \in Nat
    BY <2>4, SizeAssumption, WordAssumption
  <2>6. size % Word = size
    BY <2>4, <2>5, RemainderUnique
  <2> QED
    BY <2>4, <2>6 DEF ReportedSize
<1>3. IInv => TypeOK
  BY DEF IInv
<1> QED
  BY <1>1, <1>2, <1>3, CountStep, Invariance, PTL DEF Spec

-----------------------------------------------------------------------------
(* EpollBase: the loop that is woken through an eventfd. *)

\* The inductive invariant: the loop goes to sleep only when it has handled its
\* batch, so that what it is woken for is not forgotten.
WakeInv == EpollTypeOK /\ NoLostWakeUp /\ (lpc = "wait" => batch = <<>>)

\* What a step does to the ring leaves a sequence of posted events.
LEMMA RingStep ==
    ASSUME EpollTypeOK, [EpollNext]_epoll_vars
    PROVE  ring' \in Seq([item : PostedItems, published : BOOLEAN])
<1> DEFINE Position == [item : PostedItems, published : BOOLEAN]
<1>1. ASSUME NEW p \in Posters, ClaimEvent(p) PROVE ring' \in Seq(Position)
  <2>1. posted[p] \in 0 .. MaxPost /\ posted[p] < MaxPost
    BY <1>1 DEF ClaimEvent, EpollTypeOK
  <2>2. <<p, posted[p] + 1>> \in PostedItems
    BY <2>1, PostBounds DEF PostedItems
  <2> QED
    BY <1>1, <2>2 DEF ClaimEvent, EpollTypeOK
<1>2. ASSUME NEW p \in Posters, PublishItem(p) PROVE ring' \in Seq(Position)
  <2>1. PICK i \in 1 .. Len(ring) : ring' = [ring EXCEPT ![i].published = TRUE]
    BY <1>2 DEF PublishItem
  <2>2. ring \in Seq(Position) /\ ring[i] \in Position
    BY <2>1, ElementOfSeq DEF EpollTypeOK
  <2> DEFINE new == [ring[i] EXCEPT !.published = TRUE]
  <2>4. new \in Position
    BY <2>2
  <2>3. ring' = [ring EXCEPT ![i] = new]
    BY <2>1
  <2> QED
    BY <2>2, <2>3, <2>4, ExceptSeq
<1>3. CASE DrainOne
  <2>1. ring \in Seq(Position) /\ ring # <<>>
    BY <1>3 DEF DrainOne, Poppable, EpollTypeOK
  <2>2. Tail(ring) \in Seq(Position)
    BY <2>1
  <2>3. CASE ring' = Tail(ring)
    BY <2>2, <2>3
  <2>4. CASE /\ own < MaxOwn
             /\ ring' = Append(Tail(ring), [item |-> <<Loop, own + 1>>, published |-> TRUE])
    <3>1. <<Loop, own + 1>> \in PostedItems
      BY <2>4, PostBounds DEF PostedItems, EpollTypeOK
    <3> QED
      BY <2>2, <2>4, <3>1
  <2> QED
    BY <1>3, <2>3, <2>4 DEF DrainOne
<1>4. ASSUME UNCHANGED ring PROVE ring' \in Seq(Position)
  BY <1>4 DEF EpollTypeOK
<1> QED
  BY <1>1, <1>2, <1>3, <1>4
  DEF EpollNext, PostStep, LoopStep, SetReadyTask, Stop, EpollWait, BatchEnd, HandleShutdown,
      HandleTask, DrainEnd, epoll_vars

\* The rest of the type invariant.
LEMMA EpollTypeStep == EpollTypeOK /\ [EpollNext]_epoll_vars => EpollTypeOK'
<1> SUFFICES ASSUME EpollTypeOK, [EpollNext]_epoll_vars PROVE EpollTypeOK'
  OBVIOUS
<1>1. ring' \in Seq([item : PostedItems, published : BOOLEAN])
  BY RingStep
<1>2. ASSUME NEW p \in Posters, ClaimEvent(p) \/ PostStep(p) PROVE EpollTypeOK'
  <2>1. CASE ClaimEvent(p)
    <3>1. posted[p] + 1 \in 0 .. MaxPost
      BY <2>1, PostBounds DEF EpollTypeOK, ClaimEvent
    <3> QED
      BY <1>1, <2>1, <3>1 DEF EpollTypeOK, ClaimEvent
  <2>2. CASE PublishItem(p)
    BY <1>1, <2>2 DEF EpollTypeOK, PublishItem
  <2>3. CASE SetReadyTask(p)
    BY <1>1, <2>3 DEF EpollTypeOK, SetReadyTask
  <2> QED
    BY <1>2, <2>1, <2>2, <2>3 DEF PostStep
<1>3. CASE Stop \/ UNCHANGED epoll_vars
  BY <1>1, <1>3 DEF EpollTypeOK, Stop, epoll_vars, post_vars
<1>4. CASE EpollWait
  <2>1. batch' \in Seq({"task", "shutdown"})
    <3>1. PICK s \in {<<"task">>, <<"shutdown">>, <<"task", "shutdown">>,
                      <<"shutdown", "task">>} : batch' = s
      BY <1>4 DEF EpollWait, Reports
    <3>2. \A d \in {"task", "shutdown"} : <<d>> \in Seq({"task", "shutdown"})
      OBVIOUS
    <3>3. \A d, e \in {"task", "shutdown"} : <<d, e>> \in Seq({"task", "shutdown"})
      OBVIOUS
    <3> QED
      BY <3>1, <3>2, <3>3
  <2> QED
    BY <1>1, <1>4, <2>1 DEF EpollTypeOK, EpollWait, post_vars
<1>5. CASE BatchEnd \/ DrainEnd
  BY <1>1, <1>5 DEF EpollTypeOK, BatchEnd, DrainEnd, post_vars
<1>6. CASE HandleShutdown \/ HandleTask
  <2>1. batch' \in Seq({"task", "shutdown"})
    <3>1. batch \in Seq({"task", "shutdown"}) /\ (batch' = <<>> \/ batch' = Tail(batch))
          /\ batch # <<>>
      BY <1>6 DEF EpollTypeOK, HandleShutdown, HandleTask
    <3>2. Tail(batch) \in Seq({"task", "shutdown"})
      BY <3>1, HeadTailProperties
    <3> QED
      BY <3>1, <3>2, EmptySeq
  <2> QED
    BY <1>1, <1>6, <2>1 DEF EpollTypeOK, HandleShutdown, HandleTask, post_vars
<1>7. CASE DrainOne
  <2>1. ring[1].item \in PostedItems
    <3>1. ring \in Seq([item : PostedItems, published : BOOLEAN]) /\ ring # <<>>
      BY <1>7 DEF EpollTypeOK, DrainOne, Poppable
    <3>2. 1 \in 1 .. Len(ring)
      BY <3>1
    <3>3. ring[1] \in [item : PostedItems, published : BOOLEAN]
      BY <3>1, <3>2, ElementOfSeq
    <3> QED
      BY <3>3
  <2> QED
    BY <1>1, <1>7, <2>1, PostBounds DEF EpollTypeOK, DrainOne, post_vars
<1> QED
  BY <1>2, <1>3, <1>4, <1>5, <1>6, <1>7 DEF EpollNext, LoopStep

\* The loop of EpollBase only ever handles posted events and its own
\* descriptors, whoever posts how much.
THEOREM EpollTypeCorrect == EpollSpec => []EpollTypeOK
<1>1. EpollInit => EpollTypeOK
  BY PostBounds DEF EpollInit, EpollTypeOK, PostedItems
<1> QED
  BY <1>1, EpollTypeStep, PTL DEF EpollSpec

\* No step loses a wake-up: a published event is covered from the moment it
\* comes to the front until the loop has taken it.
LEMMA WakeUpStep == WakeInv /\ [EpollNext]_epoll_vars => WakeInv'
<1> SUFFICES ASSUME WakeInv, [EpollNext]_epoll_vars PROVE WakeInv'
  OBVIOUS
<1>1. EpollTypeOK /\ EpollTypeOK'
  BY EpollTypeStep DEF WakeInv
<1>2. ASSUME NEW p \in Posters, ClaimEvent(p) PROVE WakeInv'
  <2>1. Poppable' => Poppable
    BY <1>1, <1>2 DEF ClaimEvent, Poppable, EpollTypeOK
  <2> QED
    BY <1>1, <1>2, <2>1 DEF WakeInv, NoLostWakeUp, ClaimEvent, Draining, EpollTypeOK
<1>3. ASSUME NEW p \in Posters, PublishItem(p) PROVE WakeInv'
  <2>1. ppc'[p] = "wake"
    BY <1>1, <1>3 DEF PublishItem, EpollTypeOK
  <2> QED
    BY <1>1, <1>3, <2>1 DEF WakeInv, NoLostWakeUp, PublishItem
<1>4. ASSUME NEW p \in Posters, SetReadyTask(p) PROVE WakeInv'
  BY <1>1, <1>4 DEF WakeInv, NoLostWakeUp, SetReadyTask, EpollTypeOK
<1>5. CASE Stop \/ UNCHANGED epoll_vars
  BY <1>1, <1>5 DEF WakeInv, NoLostWakeUp, Stop, epoll_vars, post_vars, Poppable, Draining
<1>6. CASE EpollWait
  <2>1. ~Draining
    BY <1>6 DEF WakeInv, EpollWait, Draining
  <2> QED
    BY <1>1, <1>6, <2>1 DEF WakeInv, NoLostWakeUp, EpollWait, Poppable, post_vars
<1>7. CASE BatchEnd
  BY <1>1, <1>7 DEF WakeInv, NoLostWakeUp, BatchEnd, Poppable, Draining, post_vars
<1>8. CASE HandleShutdown
  BY <1>1, <1>8 DEF WakeInv, NoLostWakeUp, HandleShutdown
<1>9. CASE HandleTask \/ DrainOne
  BY <1>1, <1>9 DEF WakeInv, NoLostWakeUp, HandleTask, DrainOne, Draining, post_vars
<1>10. CASE DrainEnd
  BY <1>1, <1>10 DEF WakeInv, NoLostWakeUp, DrainEnd, Poppable
<1> QED
  BY <1>2, <1>3, <1>4, <1>5, <1>6, <1>7, <1>8, <1>9, <1>10 DEF EpollNext, LoopStep, PostStep

\* The eventfd protocol of add_*_event and handle_read loses no wake-up, for any
\* number of posting threads and events.
THEOREM WakeUpsKept == EpollSpec => []NoLostWakeUp
<1>1. EpollInit => WakeInv
  BY PostBounds DEF EpollInit, WakeInv, EpollTypeOK, PostedItems, NoLostWakeUp, Poppable
<1> QED
  BY <1>1, WakeUpStep, PTL DEF EpollSpec, WakeInv
=============================================================================
