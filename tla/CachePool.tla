----------------------------- MODULE CachePool -----------------------------
(***************************************************************************)
(* core/cache: CachePool and the pool of SharedCachePool.                  *)
(*                                                                         *)
(* A pool is a ring of pointers to free objects.  acquire takes the        *)
(* pointer at head, release puts one at tail, and size counts the free     *)
(* objects.  The three are separate atomics and the slots are plain        *)
(* memory: each access is a step of its own.                               *)
(*                                                                         *)
(* The two pools differ in one thing: CachePool::release calls refresh     *)
(* when the object is back in the pool, SharedCachePool::release before.   *)
(***************************************************************************)
EXTENDS Integers, FiniteSets, Functions

CONSTANTS Acquirers,        \* threads that call acquire
          Releasers,        \* threads that call release
          Size,             \* objects of the pool
          MaxOut,           \* bound: objects the callers have or ask for at a time
          RefreshFirst,     \* SharedCachePool's order of refresh and publication
          SIZE_MAX          \* size_t is an integer modulo SIZE_MAX + 1

ASSUME SizeAssumption == Size \in Nat \ {0} /\ SIZE_MAX \in Nat /\ Size < SIZE_MAX
                           /\ MaxOut \in Nat
ASSUME OrderAssumption == RefreshFirst \in BOOLEAN

VARIABLES
    available_items,    \* the ring: slot -> object
    head, tail, size,
    pc,                 \* where a thread is in acquire or release
    index,              \* its head_index or tail_index
    item,               \* the object it is about
    leases              \* how many callers own an object

vars == <<available_items, head, tail, size, pc, index, item, leases>>

Threads == Acquirers \cup Releasers
Slots == 0 .. Size - 1
Objects == Slots        \* data[i]

Init ==
    /\ available_items = [i \in Slots |-> i]
    /\ head = 0 /\ tail = 0 /\ size = Size
    /\ pc = [t \in Threads |-> "idle"]
    /\ index = [t \in Threads |-> 0]
    /\ item = [t \in Threads |-> 0]
    /\ leases = [i \in Objects |-> 0]

\* Objects owned or being acquired.
Out == SumFunction(leases)
       + Cardinality({t \in Acquirers : pc[t] \in {"claim_head", "read", "count_down"}})

Goto(t, from, to) == pc[t] = from /\ pc' = [pc EXCEPT ![t] = to]

-----------------------------------------------------------------------------
(* acquire *)

\* The pool is empty: acquire throws.
Refuse(t) ==
    /\ pc[t] = "idle" /\ size = 0
    /\ UNCHANGED vars

CheckSize(t) ==
    /\ size # 0 /\ Out < MaxOut
    /\ Goto(t, "idle", "claim_head")
    /\ UNCHANGED <<available_items, head, tail, size, index, item, leases>>

\* get_current_head: the compare-and-swap that succeeds.
ClaimHead(t) ==
    /\ Goto(t, "claim_head", "read")
    /\ index' = [index EXCEPT ![t] = head]
    /\ head' = (head + 1) % Size
    /\ UNCHANGED <<available_items, tail, size, item, leases>>

\* Mutant: the slot at head is read, not the one that was claimed.
ReadItem_AtHead(t) ==
    /\ Goto(t, "read", "count_down")
    /\ item' = [item EXCEPT ![t] = available_items[head]]
    /\ UNCHANGED <<available_items, head, tail, size, index, leases>>

ReadItem(t) ==
    /\ Goto(t, "read", "count_down")
    /\ item' = [item EXCEPT ![t] = available_items[index[t]]]
    /\ UNCHANGED <<available_items, head, tail, size, index, leases>>

\* size.fetch_sub, and the caller has the object.
CountDown(t) ==
    /\ Goto(t, "count_down", "idle")
    /\ size' = (size - 1) % (SIZE_MAX + 1)
    /\ leases' = [leases EXCEPT ![item[t]] = @ + 1]
    /\ UNCHANGED <<available_items, head, tail, index, item>>

-----------------------------------------------------------------------------
(* release *)

\* A caller gives up an object it owns.
Release(t, i) ==
    /\ leases[i] > 0
    /\ Goto(t, "idle", IF RefreshFirst THEN "refresh" ELSE "claim_tail")
    /\ item' = [item EXCEPT ![t] = i]
    /\ leases' = [leases EXCEPT ![i] = @ - 1]
    /\ UNCHANGED <<available_items, head, tail, size, index>>

\* get_current_tail.
ClaimTail(t) ==
    /\ Goto(t, "claim_tail", "put")
    /\ index' = [index EXCEPT ![t] = tail]
    /\ tail' = (tail + 1) % Size
    /\ UNCHANGED <<available_items, head, size, item, leases>>

\* Mutant: the object goes to the slot at tail, not to the one claimed.
PutItem_AtTail(t) ==
    /\ Goto(t, "put", "count_up")
    /\ available_items' = [available_items EXCEPT ![tail] = item[t]]
    /\ UNCHANGED <<head, tail, size, index, item, leases>>

PutItem(t) ==
    /\ Goto(t, "put", "count_up")
    /\ available_items' = [available_items EXCEPT ![index[t]] = item[t]]
    /\ UNCHANGED <<head, tail, size, index, item, leases>>

\* size.fetch_add.
CountUp(t) ==
    /\ Goto(t, "count_up", IF RefreshFirst THEN "idle" ELSE "refresh")
    /\ size' = (size + 1) % (SIZE_MAX + 1)
    /\ UNCHANGED <<available_items, head, tail, index, item, leases>>

\* refresh() of the object returns.
Refresh(t) ==
    /\ Goto(t, "refresh", IF RefreshFirst THEN "claim_tail" ELSE "idle")
    /\ UNCHANGED <<available_items, head, tail, size, index, item, leases>>

-----------------------------------------------------------------------------
Acquire(t) == Refuse(t) \/ CheckSize(t) \/ ClaimHead(t) \/ ReadItem(t) \/ CountDown(t)

GiveBack(t) == \/ ClaimTail(t) \/ PutItem(t) \/ CountUp(t) \/ Refresh(t)
               \/ \E i \in Objects : Release(t, i)

Next == (\E t \in Acquirers : Acquire(t)) \/ (\E t \in Releasers : GiveBack(t))

Spec == Init /\ [][Next]_vars

-----------------------------------------------------------------------------
(* Properties *)

\* The steps of release before the object can be found in the ring.
Returning == {"claim_tail", "put"} \cup (IF RefreshFirst THEN {"refresh"} ELSE {})

\* acquire never gives out an object that another caller owns, that a thread is
\* about to give out, or that is on its way back, a refresh() before the
\* publication included.
OneLease ==
    \A i \in Objects :
        leases[i] + Cardinality({t \in Acquirers : pc[t] = "count_down" /\ item[t] = i})
        + Cardinality({t \in Releasers : pc[t] \in Returning /\ item[t] = i}) =< 1

\* With no call under way every object is in exactly one place: owned by one
\* caller, or in one of the size slots from head on.
ConservedAtRest ==
    (\A t \in Threads : pc[t] = "idle") =>
        LET free == {(head + k) % Size : k \in 0 .. size - 1} IN
        /\ size = Cardinality({i \in Objects : leases[i] = 0})
        /\ {available_items[k] : k \in free} = {i \in Objects : leases[i] = 0}
=============================================================================
