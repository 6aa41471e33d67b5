---------------------------- MODULE BoundedFifo ----------------------------
(***************************************************************************)
(* What a bounded multi-producer single-consumer queue promises to its     *)
(* users: an accepted item waits in one total order, the consumer receives *)
(* exactly that order, and an item is refused only when Size items are     *)
(* already waiting.  An item is the pair of its producer and the number of *)
(* that producer's attempt, so every attempt is told apart.                *)
(***************************************************************************)
EXTENDS Naturals, Sequences

CONSTANTS Producers,  \* the threads that call push
          Size,       \* capacity
          MaxPush     \* bound: attempts of one producer

VARIABLES queue,      \* items accepted and not yet received
          delivered,  \* items received, oldest first
          refused,    \* items whose push threw "Queue is full"
          attempts    \* attempts finished or under way, per producer

vars == <<queue, delivered, refused, attempts>>

Init ==
    /\ queue = <<>>
    /\ delivered = <<>>
    /\ refused = {}
    /\ attempts = [p \in Producers |-> 0]

\* A producer begins an attempt; its outcome is decided later.
Begin(p) ==
    /\ attempts[p] < MaxPush
    /\ attempts' = [attempts EXCEPT ![p] = @ + 1]
    /\ UNCHANGED <<queue, delivered, refused>>

Accept(p) ==
    /\ Len(queue) < Size
    /\ queue' = Append(queue, <<p, attempts[p]>>)
    /\ UNCHANGED <<delivered, refused, attempts>>

Refuse(p) ==
    /\ Len(queue) = Size
    /\ refused' = refused \cup {<<p, attempts[p]>>}
    /\ UNCHANGED <<queue, delivered, attempts>>

Receive ==
    /\ queue # <<>>
    /\ delivered' = Append(delivered, Head(queue))
    /\ queue' = Tail(queue)
    /\ UNCHANGED <<refused, attempts>>

Next == Receive \/ \E p \in Producers : Begin(p) \/ Accept(p) \/ Refuse(p)

Spec == Init /\ [][Next]_vars
=============================================================================
