----------------------------- MODULE MPSCQueue -----------------------------
(***************************************************************************)
(* core/queue/mpsc_queue.h: the bounded ring that carries every coroutine  *)
(* event to the thread of its event base.  Any thread may push, the thread *)
(* of the event base alone pops.                                           *)
(*                                                                         *)
(* Each action is one access to shared memory.  The class spins with       *)
(* _mm_pause and is built for x86, whose locked instructions order the     *)
(* slot accesses around them, so the accesses interleave sequentially and  *)
(* compare_exchange_weak never fails spuriously.                           *)
(***************************************************************************)
EXTENDS Integers, Sequences

CONSTANTS Producers,  \* the threads that call push
          Size,       \* the template parameter Size
          Word,       \* 2^64 in the code: size_t arithmetic is modulo Word
          MaxPush,    \* bound: push calls of one producer
          Null        \* nullptr

ASSUME SizeAssumption == Size \in Nat /\ Size > 1   \* the static_assert
ASSUME WordAssumption == Word \in Nat /\ Word > Size
ASSUME MaxPushAssumption == MaxPush \in Nat
ASSUME NullAssumption == Null \notin Producers \X (1 .. MaxPush)

VARIABLES
    sequence,   \* Slot::sequence of each slot
    value,      \* Slot::value of each slot
    head,       \* next position a producer claims
    tail,       \* next position the consumer reads
    size,       \* the counter size, before reduction modulo Word
    pc,         \* where each producer stands in push
    pos,        \* push's local pos
    attempts,   \* the producer's current call is its attempts[p]-th
    cpc,        \* where the consumer stands in pop
    item,       \* pop's local item
    claimed,    \* history: items in the order their position was claimed
    delivered,  \* history: items pop has taken, oldest first
    refused     \* history: items whose push threw

pvars == <<pc, pos, attempts>>
cvars == <<tail, cpc, item, delivered>>
vars == <<sequence, value, head, size, claimed, refused, pvars, cvars>>

Slots == 0 .. Size - 1
Items == Producers \X (1 .. MaxPush)

\* The slot of a position: available_items[pos % Size].
SlotOf(q) == q % Size

\* The argument of the producer's current call of push.
ItemOf(p) == <<p, attempts[p]>>

Init ==
    /\ sequence = [i \in Slots |-> i]
    /\ value = [i \in Slots |-> Null]
    /\ head = 0 /\ tail = 0 /\ size = 0
    /\ pc = [p \in Producers |-> "idle"]
    /\ pos = [p \in Producers |-> 0]
    /\ attempts = [p \in Producers |-> 0]
    /\ cpc = "idle" /\ item = Null
    /\ claimed = <<>> /\ delivered = <<>> /\ refused = {}

-----------------------------------------------------------------------------
(* push *)

\* push begins; its first load of head follows.
PushCall(p) ==
    /\ pc[p] = "idle" /\ attempts[p] < MaxPush
    /\ attempts' = [attempts EXCEPT ![p] = @ + 1]
    /\ pc' = [pc EXCEPT ![p] = "head"]
    /\ UNCHANGED <<sequence, value, head, size, claimed, refused, pos, cvars>>

\* pos = head.load(): on entry, and again when another producer got ahead.
LoadHead(p) ==
    /\ pc[p] = "head"
    /\ pos' = [pos EXCEPT ![p] = head]
    /\ pc' = [pc EXCEPT ![p] = "sequence"]
    /\ UNCHANGED <<sequence, value, head, size, claimed, refused, attempts, cvars>>

\* Mutant: the test for a full ring is missing.
LoadSequence_NoFullTest(p) ==
    LET diff == sequence[SlotOf(pos[p])] - pos[p] IN
    /\ pc[p] = "sequence"
    /\ pc' = [pc EXCEPT ![p] = IF diff =< 0 THEN "cas" ELSE "head"]
    /\ UNCHANGED <<sequence, value, head, size, claimed, refused, pos, attempts, cvars>>

\* The load of the slot's sequence and the three-way branch on its distance
\* to pos.
LoadSequence(p) ==
    LET diff == sequence[SlotOf(pos[p])] - pos[p] IN
    /\ pc[p] = "sequence"
    /\ \/ /\ diff = 0
          /\ pc' = [pc EXCEPT ![p] = "cas"]
          /\ UNCHANGED refused
       \/ /\ diff < 0        \* throw "Queue is full"
          /\ pc' = [pc EXCEPT ![p] = "idle"]
          /\ refused' = refused \cup {ItemOf(p)}
       \/ /\ diff > 0
          /\ pc' = [pc EXCEPT ![p] = "head"]
          /\ UNCHANGED refused
    /\ UNCHANGED <<sequence, value, head, size, claimed, pos, attempts, cvars>>

\* compare_exchange_weak(pos, pos + 1): a failure leaves head's value in pos.
ClaimPosition(p) ==
    /\ pc[p] = "cas"
    /\ \/ /\ head = pos[p]
          /\ head' = head + 1
          /\ claimed' = Append(claimed, ItemOf(p))
          /\ pc' = [pc EXCEPT ![p] = "value"]
          /\ UNCHANGED pos
       \/ /\ head # pos[p]
          /\ pos' = [pos EXCEPT ![p] = head]
          /\ pc' = [pc EXCEPT ![p] = "sequence"]
          /\ UNCHANGED <<head, claimed>>
    /\ UNCHANGED <<sequence, value, size, refused, attempts, cvars>>

StoreValue(p) ==
    /\ pc[p] = "value"
    /\ value' = [value EXCEPT ![SlotOf(pos[p])] = ItemOf(p)]
    /\ pc' = [pc EXCEPT ![p] = "publish"]
    /\ UNCHANGED <<sequence, head, size, claimed, refused, pos, attempts, cvars>>

\* Mutant: the sequence published is that of a free slot.
Publish_OffByOne(p) ==
    /\ pc[p] = "publish"
    /\ sequence' = [sequence EXCEPT ![SlotOf(pos[p])] = pos[p]]
    /\ pc' = [pc EXCEPT ![p] = "count"]
    /\ UNCHANGED <<value, head, size, claimed, refused, pos, attempts, cvars>>

Publish(p) ==
    /\ pc[p] = "publish"
    /\ sequence' = [sequence EXCEPT ![SlotOf(pos[p])] = pos[p] + 1]
    /\ pc' = [pc EXCEPT ![p] = "count"]
    /\ UNCHANGED <<value, head, size, claimed, refused, pos, attempts, cvars>>

\* size.fetch_add(1) and the return.
CountUp(p) ==
    /\ pc[p] = "count"
    /\ size' = size + 1
    /\ pc' = [pc EXCEPT ![p] = "idle"]
    /\ UNCHANGED <<sequence, value, head, claimed, refused, pos, attempts, cvars>>

-----------------------------------------------------------------------------
(* pop *)

\* pop reads the sequence of the slot at tail: the item is there, or pop
\* returns nullptr.
PopReady == sequence[SlotOf(tail)] = tail + 1

PopFound ==
    /\ cpc = "idle" /\ PopReady
    /\ cpc' = "take"
    /\ UNCHANGED <<sequence, value, head, size, claimed, refused, pvars,
                   tail, item, delivered>>

PopNothing ==
    /\ cpc = "idle" /\ ~PopReady
    /\ UNCHANGED vars

TakeValue ==
    /\ cpc = "take"
    /\ item' = value[SlotOf(tail)]
    /\ value' = [value EXCEPT ![SlotOf(tail)] = Null]
    /\ cpc' = "free"
    /\ UNCHANGED <<sequence, head, size, claimed, refused, pvars, tail, delivered>>

\* Mutant: the slot is freed for the position just read.
FreeSlot_SameRound ==
    /\ cpc = "free"
    /\ sequence' = [sequence EXCEPT ![SlotOf(tail)] = tail]
    /\ delivered' = Append(delivered, item)
    /\ cpc' = "advance"
    /\ UNCHANGED <<value, head, size, claimed, refused, pvars, tail, item>>

\* Hands the slot to the producer that is one round ahead.
FreeSlot ==
    /\ cpc = "free"
    /\ sequence' = [sequence EXCEPT ![SlotOf(tail)] = tail + Size]
    /\ delivered' = Append(delivered, item)
    /\ cpc' = "advance"
    /\ UNCHANGED <<value, head, size, claimed, refused, pvars, tail, item>>

\* Mutant: pop forgets the counter.
Advance_NoCount ==
    /\ cpc = "advance"
    /\ tail' = tail + 1
    /\ cpc' = "idle"
    /\ item' = Null
    /\ UNCHANGED <<sequence, value, head, size, claimed, refused, pvars, delivered>>

\* tail, which only the consumer uses, and size.fetch_sub(1).
Advance ==
    /\ cpc = "advance"
    /\ tail' = tail + 1
    /\ size' = size - 1
    /\ cpc' = "idle"
    /\ item' = Null
    /\ UNCHANGED <<sequence, value, head, claimed, refused, pvars, delivered>>

\* The accessor size(): a value of size_t.
ReportedSize == size % Word

-----------------------------------------------------------------------------
PushStep(p) == \/ LoadHead(p) \/ LoadSequence(p) \/ ClaimPosition(p)
               \/ StoreValue(p) \/ Publish(p) \/ CountUp(p)

Pop == PopFound \/ PopNothing \/ TakeValue \/ FreeSlot \/ Advance

Next == Pop \/ \E p \in Producers : PushCall(p) \/ PushStep(p)

Spec == Init /\ [][Next]_vars

\* A producer that has entered push keeps running, and the loop of the event
\* base calls pop again and again (EventBase::loop, EpollBase::handle_read).
Fairness == WF_vars(Pop) /\ \A p \in Producers : WF_vars(PushStep(p))

LiveSpec == Spec /\ Fairness

-----------------------------------------------------------------------------
(* Properties *)

\* The positions below Freed have been handed back to the producers.
Freed == IF cpc = "advance" THEN tail + 1 ELSE tail

\* Producers between the claim of a position and its publication.
Writing == {p \in Producers : pc[p] \in {"value", "publish"}}

\* The ring's fields hold what their C++ types can hold, and a producer inside
\* push has an argument.
TypeOK ==
    /\ sequence \in [Slots -> Nat]
    /\ value \in [Slots -> Items \cup {Null}]
    /\ head \in Nat /\ tail \in Nat /\ size \in Int
    /\ pc \in [Producers -> {"idle", "head", "sequence", "cas", "value",
                             "publish", "count"}]
    /\ pos \in [Producers -> Nat]
    /\ attempts \in [Producers -> 0 .. MaxPush]
    /\ \A p \in Producers : pc[p] # "idle" => attempts[p] > 0
    /\ cpc \in {"idle", "take", "free", "advance"}
    /\ item \in Items \cup {Null}
    /\ claimed \in Seq(Items)
    /\ delivered \in Seq(Items \cup {Null})
    /\ refused \in SUBSET Items

\* Two producers between claim and publication never write the same slot, nor
\* the slot the consumer is emptying (slot.value is not atomic: push writes it
\* between the claim and the publication, pop between its load and FreeSlot).
SlotOwnership ==
    /\ \A p, q \in Writing : p # q => SlotOf(pos[p]) # SlotOf(pos[q])
    /\ cpc \in {"take", "free"} =>
           \A p \in Writing : SlotOf(pos[p]) # SlotOf(tail)

\* pop hands out exactly the items whose push claimed a position, in the order
\* of the claims, none lost, duplicated or replaced by nullptr.
DeliveredInOrder ==
    /\ Len(delivered) =< Len(claimed)
    /\ \A i \in 1 .. Len(delivered) : delivered[i] = claimed[i]

\* One call of push contributes its item at most once, never after throwing,
\* and a producer's items keep the order of its calls.
OncePerCall ==
    /\ \A i, j \in 1 .. Len(claimed) :
           i < j /\ claimed[i][1] = claimed[j][1] => claimed[i][2] < claimed[j][2]
    /\ \A i \in 1 .. Len(claimed) : claimed[i] \notin refused

\* push throws "Queue is full" only while Size positions are claimed and not
\* yet handed back, although it judges by one slot and a stale pos.
FullIsFull ==
    [][refused' # refused => head - Freed = Size]_vars

\* pop returns nullptr only when nothing is queued or the oldest claimed item
\* is still being written: a published item at the front is never missed.
NothingMeansNothing ==
    cpc = "idle" /\ ~PopReady =>
        head = tail \/ \E p \in Writing : pos[p] = tail

\* The counter differs from the number of positions in use by the calls under
\* way only, so size() is exact whenever no call is under way, although it may
\* read 2^64 - 1 when pop overtakes the fetch_add of the push it serves.
SizeAtRest ==
    (cpc = "idle" /\ \A p \in Producers : pc[p] \notin {"value", "publish", "count"})
        => ReportedSize = head - tail

\* The queue as its users see it: claimed and not yet handed back.
Fifo == INSTANCE BoundedFifo
    WITH queue <- SubSeq(claimed, Len(delivered) + 1, Len(claimed))

\* The ring implements the bounded FIFO (the step from a position's claim to
\* its slot's release is the item's stay in the queue).
RefinesFifo == Fifo!Spec

Among(x, s) == \E i \in 1 .. Len(s) : s[i] = x

\* Every item whose push claimed a position is received by pop.
EventuallyDelivered ==
    \A x \in Items : Among(x, claimed) ~> Among(x, delivered)

\* Every call of push returns or throws: a producer that loses the race for a
\* position retries only while others make progress.
PushEnds == \A p \in Producers : pc[p] # "idle" ~> pc[p] = "idle"

\* Neither side of the ring starves the other: every call of push ends, and what
\* it has accepted arrives.
RingMoves == PushEnds /\ EventuallyDelivered

-----------------------------------------------------------------------------
(* The inductive invariant behind DeliveredInOrder, SlotOwnership and       *)
(* FullIsFull.  Positions Freed .. Freed + Size - 1 are the current round   *)
(* of the slots; each one is free, being written, or published.             *)

\* At most Size positions are in use, and the histories agree with head and
\* tail.
WindowInv ==
    /\ Freed =< head /\ head =< Freed + Size
    /\ cpc # "idle" => tail < head
    /\ Len(claimed) = head /\ Len(delivered) = Freed

\* A slot's sequence tells the state of its position in the window.
SlotInv ==
    \A q \in Freed .. Freed + Size - 1 :
        IF q >= head THEN sequence[SlotOf(q)] = q
        ELSE \/ /\ sequence[SlotOf(q)] = q + 1
                /\ \/ value[SlotOf(q)] = claimed[q + 1]
                   \/ cpc = "free" /\ q = tail
             \/ /\ sequence[SlotOf(q)] = q
                /\ \E p \in Writing : pos[p] = q

\* A position has one writer, who writes the item claimed there.
WriterInv ==
    /\ \A p \in Writing :
           /\ Freed =< pos[p] /\ pos[p] < head
           /\ sequence[SlotOf(pos[p])] = pos[p]
           /\ claimed[pos[p] + 1] = ItemOf(p)
           /\ pc[p] = "publish" => value[SlotOf(pos[p])] = ItemOf(p)
    /\ \A p, q \in Writing : p # q => pos[p] # pos[q]

\* A producer's pos never runs ahead of head, and a producer that is about to
\* win the compare-exchange has seen a free slot that is still free.
CandidateInv ==
    \A p \in Producers :
        /\ pos[p] =< head
        /\ pc[p] = "cas" /\ pos[p] = head => head < Freed + Size

\* The consumer works on a published slot and holds that position's item.
ConsumerInv ==
    /\ cpc \in {"take", "free"} => sequence[SlotOf(tail)] = tail + 1
    /\ cpc = "free" => item = claimed[tail + 1]

\* A call whose item is not decided yet has contributed nothing, and no
\* history is ahead of the calls.
Undecided == {p \in Producers : pc[p] \in {"head", "sequence", "cas"}}

CallInv ==
    /\ \A i \in 1 .. Len(claimed) :
           /\ claimed[i][2] =< attempts[claimed[i][1]]
           /\ claimed[i][1] \in Undecided => claimed[i][2] < attempts[claimed[i][1]]
    /\ \A x \in refused :
           /\ x[2] =< attempts[x[1]]
           /\ x[1] \in Undecided => x[2] < attempts[x[1]]
    /\ OncePerCall

\* The ring's state at every step of push and pop: the inductive invariant.
IInv ==
    /\ TypeOK /\ WindowInv /\ SlotInv /\ WriterInv /\ CandidateInv
    /\ ConsumerInv /\ DeliveredInOrder
=============================================================================
