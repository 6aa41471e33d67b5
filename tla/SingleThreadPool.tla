------------------------- MODULE SingleThreadPool --------------------------
(***************************************************************************)
(* SingleThreadCachePool: a ring of free objects for one thread.  An id is *)
(* the index of an object and the number of times it has been taken, so    *)
(* that the holder of an id can ask whether its lease is still the current *)
(* one.                                                                    *)
(***************************************************************************)
EXTENDS Integers

CONSTANTS PoolSize, MaxUse

ASSUME SinglePoolAssumption == PoolSize \in Nat \ {0} /\ MaxUse \in Nat

VARIABLES
    m_free_objects, m_head, m_tail, m_free_count,
    is_active, use_time,    \* fields of an object
    ids                     \* history: every id that was handed out, and
                            \* whether its lease was given back

single_vars == <<m_free_objects, m_head, m_tail, m_free_count, is_active, use_time, ids>>

Indexes == 0 .. PoolSize - 1

SingleInit ==
    /\ m_free_objects = [i \in Indexes |-> i]
    /\ m_head = 0 /\ m_tail = 0 /\ m_free_count = PoolSize
    /\ is_active = [i \in Indexes |-> FALSE]
    /\ use_time = [i \in Indexes |-> 0]
    /\ ids = {}

Id(i, n, over) == [index |-> i, use_time |-> n, over |-> over]

(* The id object i has, or gets with this acquire.                         *)
get_id(i, over) == Id(i, use_time[i], over)

(* Bound: an object is taken at most MaxUse times.                         *)
acquire ==
    /\ m_free_count > 0
    /\ LET i == m_free_objects[m_head]
       IN  /\ use_time[i] < MaxUse
           /\ is_active' = [is_active EXCEPT ![i] = TRUE]
           /\ use_time' = [use_time EXCEPT ![i] = @ + 1]
           /\ ids' = ids \cup {Id(i, use_time[i] + 1, FALSE)}
    /\ m_head' = (m_head + 1) % PoolSize
    /\ m_free_count' = m_free_count - 1
    /\ UNCHANGED <<m_free_objects, m_tail>>

release(i) ==
    /\ is_active[i]
    /\ is_active' = [is_active EXCEPT ![i] = FALSE]
    /\ m_free_objects' = [m_free_objects EXCEPT ![m_tail] = i]
    /\ m_tail' = (m_tail + 1) % PoolSize
    /\ m_free_count' = m_free_count + 1
    /\ ids' = (ids \ {get_id(i, FALSE)}) \cup {get_id(i, TRUE)}
    /\ UNCHANGED <<m_head, use_time>>

active(id) ==
    id.index \in Indexes /\ is_active[id.index] /\ use_time[id.index] = id.use_time

(* With no free object acquire throws, and so does a second release of an  *)
(* object: neither has changed anything.                                   *)
Throws == (m_free_count = 0 \/ \E i \in Indexes : ~is_active[i]) /\ UNCHANGED single_vars

SingleNext == acquire \/ Throws \/ \E i \in Indexes : release(i)

-----------------------------------------------------------------------------
(* Properties *)

(* is_active answers for a lease, not for an object: an id is active from  *)
(* the acquire that made it to the release of that lease, and never again, *)
(* however often the object has been around the ring since.  And the ring  *)
(* holds each inactive object once.                                        *)
LeaseKnown ==
    /\ \A id \in ids : active(id) = ~id.over
    /\ \A i \in Indexes : ~is_active[i] <=>
          \E n \in 0 .. m_free_count - 1 : m_free_objects[(m_head + n) % PoolSize] = i
    /\ \A i, j \in 0 .. m_free_count - 1 :
          m_free_objects[(m_head + i) % PoolSize] = m_free_objects[(m_head + j) % PoolSize] => i = j
=============================================================================
