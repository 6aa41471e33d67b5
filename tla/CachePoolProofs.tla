-------------------------- MODULE CachePoolProofs --------------------------
(***************************************************************************)
(* Proofs about the pool that is used by one thread only, for every size,  *)
(* and about the reference counted handles, for any number of threads,     *)
(* handles, objects and fields.  The pool of several threads is not        *)
(* correct and has no theorem: TLC shows what goes wrong there.            *)
(***************************************************************************)
EXTENDS MCCachePool, FiniteSetTheorems, TLAPS

-----------------------------------------------------------------------------
(* SingleThreadCachePool.  The inductive invariant: the free window of the
   ring ends at m_tail and holds each inactive object once, and an id is over
   unless its object is active and has not been taken again. *)

\* The k-th position of the ring from f on.
Place(f, k) == IF f + k < PoolSize THEN f + k ELSE (f + k) - PoolSize

FreeAt(k) == m_free_objects[Place(m_head, k)]

SingleType ==
    /\ m_free_objects \in [Indexes -> Indexes]
    /\ m_head \in Indexes /\ m_tail \in Indexes /\ m_free_count \in 0 .. PoolSize
    /\ is_active \in [Indexes -> BOOLEAN] /\ use_time \in [Indexes -> Nat]

SingleRing ==
    /\ m_tail = Place(m_head, m_free_count)
    /\ \A j, k \in 0 .. m_free_count - 1 : FreeAt(j) = FreeAt(k) => j = k
    /\ \A i \in Indexes : ~is_active[i] <=> \E k \in 0 .. m_free_count - 1 : FreeAt(k) = i

SingleIds ==
    \A id \in ids :
        /\ id.index \in Indexes /\ id.use_time \in Nat /\ id.over \in BOOLEAN
        /\ id = Id(id.index, id.use_time, id.over)
        /\ id.use_time =< use_time[id.index]
        /\ id.over <=> ~(is_active[id.index] /\ use_time[id.index] = id.use_time)

SingleInv == SingleType /\ SingleRing /\ SingleIds

LEMMA PlaceIsRemainder ==
    ASSUME NEW f \in Indexes, NEW k \in 0 .. PoolSize
    PROVE  Place(f, k) \in Indexes /\ (f + k) % PoolSize = Place(f, k)
<1>1. PoolSize \in Nat /\ PoolSize > 0 /\ f \in 0 .. PoolSize - 1
  BY SinglePoolAssumption DEF Indexes
<1>2. CASE f + k < PoolSize
  BY <1>1, <1>2, SMT DEF Place, Indexes
<1>3. CASE ~(f + k < PoolSize)
  <2>1. (f + k) - PoolSize \in 0 .. PoolSize - 1
    BY <1>1, <1>3, SMT
  <2>2. (f + k) % PoolSize = (f + k) - PoolSize
    BY <1>1, <2>1, SMT
  <2> QED
    BY <1>1, <1>3, <2>1, <2>2, SMT DEF Place, Indexes
<1> QED
  BY <1>2, <1>3

LEMMA PlaceFacts ==
    ASSUME NEW f \in Indexes
    PROVE  /\ Place(f, 0) = f
           /\ \A j, k \in 0 .. PoolSize - 1 : Place(f, j) = Place(f, k) => j = k
           /\ \A k \in 0 .. PoolSize - 1 : Place(Place(f, 1), k) = Place(f, k + 1)
           /\ \A k \in 0 .. PoolSize - 1 : Place(Place(f, k), 1) = Place(f, k + 1)
BY SinglePoolAssumption, SMT DEF Place, Indexes

\* A full ring has no active object: as many objects as positions, none twice.
LEMMA FullRing ==
    ASSUME SingleType, SingleRing, NEW i \in Indexes, is_active[i]
    PROVE  m_free_count < PoolSize
<1> SUFFICES ASSUME m_free_count = PoolSize PROVE FALSE
  BY SinglePoolAssumption DEF SingleType
<1> DEFINE f == [k \in Indexes |-> FreeAt(k)]
<1>1. PoolSize \in Nat /\ PoolSize > 0 /\ Indexes = 0 .. m_free_count - 1
  BY SinglePoolAssumption DEF Indexes
<1>2. \A k \in Indexes : FreeAt(k) \in Indexes
  <2> TAKE k \in Indexes
  <2>1. m_head \in Indexes /\ k \in 0 .. PoolSize
    BY <1>1 DEF SingleType
  <2>2. Place(m_head, k) \in Indexes
    BY <2>1, PlaceIsRemainder
  <2> QED
    BY <2>2 DEF FreeAt, SingleType
<1>3. f \in Injection(Indexes, Indexes)
  BY <1>1, <1>2 DEF Injection, IsInjective, SingleRing
<1>4. IsFiniteSet(Indexes)
  BY <1>1, FS_Interval DEF Indexes
<1>5. f \in Surjection(Indexes, Indexes)
  BY <1>3, <1>4, FS_Injection
<1>6. PICK k \in Indexes : f[k] = i
  BY <1>5 DEF Surjection
<1> QED
  BY <1>1, <1>6 DEF SingleRing

LEMMA SingleInitInv ==
    ASSUME SingleInit
    PROVE  SingleInv
<1>1. PoolSize \in Nat /\ PoolSize > 0
  BY SinglePoolAssumption
<1>2. SingleType /\ SingleIds
  BY <1>1 DEF SingleInit, SingleType, SingleIds, Indexes
<1>3. \A k \in 0 .. PoolSize - 1 : FreeAt(k) = k
  BY <1>1 DEF SingleInit, FreeAt, Place, Indexes
<1>4. SingleRing
  BY <1>1, <1>3 DEF SingleInit, SingleRing, Place, Indexes
<1> QED
  BY <1>2, <1>4 DEF SingleInv

\* The first of the window leaves it.
LEMMA AcquireStep ==
    ASSUME SingleInv, acquire
    PROVE  SingleInv'
<1> DEFINE i == FreeAt(0)
<1>1. PoolSize \in Nat /\ PoolSize > 0 /\ m_free_count \in 1 .. PoolSize
  BY SinglePoolAssumption DEF SingleInv, SingleType, acquire
<1>2. /\ Place(m_head, 0) = m_head /\ i = m_free_objects[m_head] /\ i \in Indexes
      /\ m_head \in Indexes
  BY PlaceFacts DEF SingleInv, SingleType, FreeAt
<1>3. m_head' = Place(m_head, 1) /\ m_head' \in Indexes
  BY <1>1, <1>2, PlaceIsRemainder DEF acquire
<1>4. SingleType'
  <2>1. m_free_count' \in 0 .. PoolSize
    BY <1>1 DEF acquire
  <2>2. is_active' \in [Indexes -> BOOLEAN] /\ use_time' \in [Indexes -> Nat]
    BY <1>2 DEF SingleInv, SingleType, acquire
  <2> QED
    BY <1>3, <2>1, <2>2 DEF SingleInv, SingleType, acquire, Indexes
<1>5. \A k \in 0 .. PoolSize - 1 : FreeAt(k)' = FreeAt(k + 1)
  <2> TAKE k \in 0 .. PoolSize - 1
  <2>1. Place(m_head, k)' = Place(m_head', k)
    BY DEF Place
  <2>2. Place(m_head', k) = Place(m_head, k + 1)
    BY <1>2, <1>3, PlaceFacts
  <2> QED
    BY <2>1, <2>2 DEF FreeAt, acquire
<1>6. m_free_count' = m_free_count - 1
  BY DEF acquire
<1>7. m_tail' = Place(m_head, m_free_count)'
  <2>1. Place(m_head, m_free_count)' = Place(m_head', m_free_count - 1)
    BY <1>6 DEF Place
  <2>2. m_free_count - 1 \in 0 .. PoolSize - 1 /\ (m_free_count - 1) + 1 = m_free_count
    BY <1>1
  <2>3. Place(m_head', m_free_count - 1) = Place(m_head, m_free_count)
    BY <1>2, <1>3, <2>2, PlaceFacts
  <2> QED
    BY <2>1, <2>3 DEF SingleInv, SingleRing, acquire
<1>8. is_active' = [is_active EXCEPT ![i] = TRUE] /\ use_time' = [use_time EXCEPT ![i] = @ + 1]
  BY <1>2 DEF acquire
<1>9. ~is_active[i]
  BY <1>1, <1>2 DEF SingleInv, SingleRing
<1>10. \A j, k \in 0 .. m_free_count' - 1 : FreeAt(j)' = FreeAt(k)' => j = k
  <2> TAKE j, k \in 0 .. m_free_count' - 1
  <2>1. /\ j \in 0 .. PoolSize - 1 /\ k \in 0 .. PoolSize - 1
        /\ j + 1 \in 0 .. m_free_count - 1 /\ k + 1 \in 0 .. m_free_count - 1
    BY <1>1, <1>6
  <2>2. FreeAt(j + 1) = FreeAt(k + 1) => j + 1 = k + 1
    BY <2>1 DEF SingleInv, SingleRing
  <2> QED
    BY <1>5, <2>1, <2>2
<1>11. \A x \in Indexes : ~is_active'[x] <=> \E k \in 0 .. m_free_count' - 1 : FreeAt(k)' = x
  <2> TAKE x \in Indexes
  <2>1. ~is_active[x] <=> \E k \in 0 .. m_free_count - 1 : FreeAt(k) = x
    BY DEF SingleInv, SingleRing
  <2>2. ~is_active'[x] <=> ~is_active[x] /\ x # i
    BY <1>2, <1>8 DEF SingleInv, SingleType
  <2>3. ASSUME NEW k \in 0 .. m_free_count' - 1, FreeAt(k)' = x PROVE ~is_active[x] /\ x # i
    <3>1. k + 1 \in 0 .. m_free_count - 1 /\ k \in 0 .. PoolSize - 1 /\ k + 1 # 0
          /\ 0 \in 0 .. m_free_count - 1
      BY <1>1, <1>6, <2>3
    <3>2. FreeAt(k + 1) = x
      BY <1>5, <2>3, <3>1
    <3> QED
      BY <2>1, <3>1, <3>2 DEF SingleInv, SingleRing
  <2>4. ASSUME ~is_active[x], x # i PROVE \E k \in 0 .. m_free_count' - 1 : FreeAt(k)' = x
    <3>1. PICK k \in 0 .. m_free_count - 1 : FreeAt(k) = x
      BY <2>1, <2>4
    <3>2. k # 0 /\ k - 1 \in 0 .. m_free_count' - 1 /\ k - 1 \in 0 .. PoolSize - 1
          /\ (k - 1) + 1 = k
      BY <1>1, <1>6, <2>4, <3>1
    <3> QED
      BY <1>5, <3>1, <3>2
  <2> QED
    BY <2>2, <2>3, <2>4
<1>12. SingleRing'
  BY <1>7, <1>10, <1>11 DEF SingleRing
<1>13. SingleIds'
  <2> SUFFICES ASSUME NEW id \in ids'
               PROVE  /\ id.index \in Indexes /\ id.use_time \in Nat /\ id.over \in BOOLEAN
                      /\ id = Id(id.index, id.use_time, id.over)
                      /\ id.use_time =< use_time'[id.index]
                      /\ id.over <=> ~(is_active'[id.index] /\ use_time'[id.index] = id.use_time)
    BY DEF SingleIds
  <2>1. use_time[i] \in Nat /\ use_time'[i] = use_time[i] + 1 /\ is_active'[i] = TRUE
    BY <1>2, <1>8 DEF SingleInv, SingleType
  <2>2. CASE id = Id(i, use_time[i] + 1, FALSE)
    BY <1>2, <2>1, <2>2 DEF Id
  <2>3. CASE id \in ids
    <3>1. /\ id.index \in Indexes /\ id.use_time \in Nat /\ id.over \in BOOLEAN
          /\ id = Id(id.index, id.use_time, id.over)
          /\ id.use_time =< use_time[id.index]
          /\ id.over <=> ~(is_active[id.index] /\ use_time[id.index] = id.use_time)
      BY <2>3 DEF SingleInv, SingleIds
    <3>2. CASE id.index = i
      BY <1>9, <2>1, <3>1, <3>2
    <3>3. CASE id.index # i
      <4>1. use_time'[id.index] = use_time[id.index] /\ is_active'[id.index] = is_active[id.index]
        BY <1>8, <3>1, <3>3 DEF SingleInv, SingleType
      <4> QED
        BY <3>1, <4>1
    <3> QED
      BY <3>2, <3>3
  <2> QED
    BY <1>2, <2>2, <2>3 DEF acquire
<1> QED
  BY <1>4, <1>12, <1>13 DEF SingleInv

\* The object is put behind the window.
LEMMA GiveBackStep ==
    ASSUME SingleInv, NEW i \in Indexes, release(i)
    PROVE  SingleInv'
<1>1. /\ PoolSize \in Nat /\ PoolSize > 0 /\ m_free_count \in 0 .. PoolSize - 1
      /\ m_head \in Indexes /\ m_tail \in Indexes /\ is_active[i]
  BY SinglePoolAssumption, FullRing DEF SingleInv, SingleType, release
<1>2. /\ m_tail' = Place(m_tail, 1) /\ m_tail' \in Indexes /\ m_head' = m_head
      /\ m_free_count' = m_free_count + 1 /\ m_tail = Place(m_head, m_free_count)
      /\ m_free_objects' = [m_free_objects EXCEPT ![m_tail] = i]
      /\ is_active' = [is_active EXCEPT ![i] = FALSE] /\ use_time' = use_time
  BY <1>1, PlaceIsRemainder DEF release, SingleInv, SingleRing
<1>3. SingleType'
  BY <1>1, <1>2 DEF SingleInv, SingleType
<1>4. m_tail' = Place(m_head, m_free_count)'
  <2>1. Place(m_head, m_free_count)' = Place(m_head, m_free_count + 1)
    BY <1>2 DEF Place
  <2> QED
    BY <1>1, <1>2, <2>1, PlaceFacts
<1>5. \A k \in 0 .. m_free_count : FreeAt(k)' = IF k = m_free_count THEN i ELSE FreeAt(k)
  <2> TAKE k \in 0 .. m_free_count
  <2>1. k \in 0 .. PoolSize - 1 /\ Place(m_head, k)' = Place(m_head, k)
    BY <1>1, <1>2 DEF Place
  <2>2. Place(m_head, k) = m_tail <=> k = m_free_count
    BY <1>1, <1>2, <2>1, PlaceFacts
  <2>3. Place(m_head, k) \in Indexes
    BY <1>1, <2>1, PlaceIsRemainder
  <2> QED
    BY <1>2, <2>1, <2>2, <2>3 DEF FreeAt, SingleInv, SingleType
<1>6. \A k \in 0 .. m_free_count - 1 : FreeAt(k) # i
  BY <1>1 DEF SingleInv, SingleRing
<1>7. \A j, k \in 0 .. m_free_count' - 1 : FreeAt(j)' = FreeAt(k)' => j = k
  <2> TAKE j, k \in 0 .. m_free_count' - 1
  <2>1. /\ j \in 0 .. m_free_count /\ k \in 0 .. m_free_count
        /\ j # m_free_count => j \in 0 .. m_free_count - 1
        /\ k # m_free_count => k \in 0 .. m_free_count - 1
    BY <1>1, <1>2
  <2> QED
    BY <1>5, <1>6, <2>1 DEF SingleInv, SingleRing
<1>8. \A x \in Indexes : ~is_active'[x] <=> \E k \in 0 .. m_free_count' - 1 : FreeAt(k)' = x
  <2> TAKE x \in Indexes
  <2>1. ~is_active[x] <=> \E k \in 0 .. m_free_count - 1 : FreeAt(k) = x
    BY DEF SingleInv, SingleRing
  <2>2. ~is_active'[x] <=> ~is_active[x] \/ x = i
    BY <1>2 DEF SingleInv, SingleType
  <2>3. \A k : k \in 0 .. m_free_count' - 1 <=> k = m_free_count \/ k \in 0 .. m_free_count - 1
    BY <1>1, <1>2
  <2>4. \A k : /\ k = m_free_count => FreeAt(k)' = i
               /\ k \in 0 .. m_free_count - 1 => FreeAt(k)' = FreeAt(k)
    BY <1>1, <1>5
  <2> QED
    BY <2>1, <2>2, <2>3, <2>4
<1>9. SingleRing'
  BY <1>4, <1>7, <1>8 DEF SingleRing
<1>10. SingleIds'
  <2> SUFFICES ASSUME NEW id \in ids'
               PROVE  /\ id.index \in Indexes /\ id.use_time \in Nat /\ id.over \in BOOLEAN
                      /\ id = Id(id.index, id.use_time, id.over)
                      /\ id.use_time =< use_time'[id.index]
                      /\ id.over <=> ~(is_active'[id.index] /\ use_time'[id.index] = id.use_time)
    BY DEF SingleIds
  <2>1. use_time[i] \in Nat /\ is_active'[i] = FALSE
    BY <1>2 DEF SingleInv, SingleType
  <2>2. CASE id = Id(i, use_time[i], TRUE)
    BY <1>2, <2>1, <2>2 DEF Id
  <2>3. CASE id \in ids /\ id # Id(i, use_time[i], FALSE)
    <3>1. /\ id.index \in Indexes /\ id.use_time \in Nat /\ id.over \in BOOLEAN
          /\ id = Id(id.index, id.use_time, id.over)
          /\ id.use_time =< use_time[id.index]
          /\ id.over <=> ~(is_active[id.index] /\ use_time[id.index] = id.use_time)
      BY <2>3 DEF SingleInv, SingleIds
    <3>2. CASE id.index = i
      <4>1. id.use_time = use_time[i] => id.over # FALSE
        BY <2>3, <3>1, <3>2, Zenon
      <4> QED
        BY <1>2, <2>1, <3>1, <3>2, <4>1
    <3>3. CASE id.index # i
      <4>1. is_active'[id.index] = is_active[id.index]
        BY <1>2, <3>1, <3>3 DEF SingleInv, SingleType
      <4> QED
        BY <1>2, <3>1, <4>1
    <3> QED
      BY <3>2, <3>3
  <2>4. ids' = (ids \ {Id(i, use_time[i], FALSE)}) \cup {Id(i, use_time[i], TRUE)}
    BY DEF release, get_id
  <2> QED
    BY <2>2, <2>3, <2>4
<1> QED
  BY <1>3, <1>9, <1>10 DEF SingleInv

LEMMA SingleUnchanged ==
    ASSUME SingleInv, UNCHANGED single_vars
    PROVE  SingleInv'
BY DEF single_vars, SingleInv, SingleType, SingleRing, SingleIds, FreeAt, Place, Indexes, Id

LEMMA SingleKnows ==
    ASSUME SingleInv
    PROVE  LeaseKnown
<1>1. \A k \in 0 .. m_free_count - 1 : m_free_objects[(m_head + k) % PoolSize] = FreeAt(k)
  <2> TAKE k \in 0 .. m_free_count - 1
  <2>1. k \in 0 .. PoolSize /\ m_head \in Indexes
    BY SinglePoolAssumption DEF SingleInv, SingleType
  <2> QED
    BY <2>1, PlaceIsRemainder DEF FreeAt
<1>2. \A id \in ids : active(id) = ~id.over
  <2> TAKE id \in ids
  <2>1. /\ id.index \in Indexes /\ id.over \in BOOLEAN
        /\ id.over <=> ~(is_active[id.index] /\ use_time[id.index] = id.use_time)
    BY DEF SingleInv, SingleIds
  <2>2. active(id) \in BOOLEAN /\ (active(id) <=> ~id.over)
    BY <2>1 DEF active, SingleInv, SingleType
  <2> QED
    BY <2>1, <2>2, Zenon
<1> QED
  BY <1>1, <1>2 DEF LeaseKnown, SingleInv, SingleRing

\* The pool of one thread neither loses nor doubles an object, its ring ends
\* where it counts, and the holder of an id learns from is_active whether its
\* own lease is still running, although objects are released early, twice and
\* taken again: for every size of the pool, whatever the other layers do.
THEOREM LeasesKnown == MCSpec => []LeaseKnown
<1> DEFINE mc_vars == <<vars, handle_vars, single_vars, layer>>
<1>1. MCInit => SingleInv
  BY SingleInitInv DEF MCInit
<1>2. SingleInv /\ [MCNext]_mc_vars => SingleInv'
  <2> SUFFICES ASSUME SingleInv, [MCNext]_mc_vars
               PROVE  SingleInv'
    OBVIOUS
  <2>1. SingleNext \/ UNCHANGED single_vars
    BY DEF MCNext
  <2> QED
    BY <2>1, AcquireStep, GiveBackStep, SingleUnchanged DEF SingleNext, Throws
<1>3. SingleInv => LeaseKnown
  BY SingleKnows
<1> QED
  BY <1>1, <1>2, <1>3, PTL DEF MCSpec

-----------------------------------------------------------------------------
(* The handles.  What leads to an object is counted in three parts: the     *)
(* handles, the fields and the releases still to be done.  Steps are counted
   from the end of a call, so that those behind the first keep their place. *)

ItemsOrNothing == Items \cup {Nothing}

StepSet ==
    [op : {"drop", "free"}, item : Items]
    \cup [op : {"take"}, item : ItemsOrNothing, handle : Handles]
    \cup [op : {"put"}, item : Items, into : Items, key : Fields]

HandlesType ==
    /\ form \in [Items -> {"free", "object", "value", "plain"}]
    /\ count \in [Items -> Int]
    /\ field \in [Items -> [Fields -> ItemsOrNothing]]
    /\ value \in [Handles -> ItemsOrNothing]
    /\ todo \in [Users -> Seq(StepSet)]

At(td, u, d) == td[u][Len(td[u]) + 1 - d]

ByHandle(val, i) == {h \in Handles : val[h] = i}
ByField(fld, i) == {p \in Items \X Fields : fld[p[1]][p[2]] = i}
ByStep(td, step) == {p \in Users \X Nat : p[2] \in 1 .. Len(td[p[1]]) /\ At(td, p[1], p[2]) = step}

\* A count is the number of references and of releases to come; the thread that
\* lowered it to 0 gives the object back, and nobody else does.
Tally(f, c, claims, frees) ==
    /\ f = "free" => claims = 0 /\ frees = 0
    /\ f = "value" => claims + frees = 1
    /\ f \in {"object", "plain"} => c = claims /\ frees = (IF claims = 0 THEN 1 ELSE 0)

Exact(i) ==
    /\ IsFiniteSet(ByStep(todo, Drop(i))) /\ IsFiniteSet(ByStep(todo, Free(i)))
    /\ Tally(form[i], count[i],
             Cardinality(ByHandle(value, i)) + Cardinality(ByField(field, i))
             + Cardinality(ByStep(todo, Drop(i))), Cardinality(ByStep(todo, Free(i))))

Empty(fld, i) == \A k \in Fields : fld[i][k] = Nothing

\* Objects have fields, and what is in one has none.
Flat ==
    \A i \in Items :
        /\ form[i] # "object" => Empty(field, i)
        /\ \A k \in Fields : field[i][k] # Nothing =>
               Empty(field, field[i][k]) /\ form[field[i][k]] # "plain"

\* The source of a copy under way is reached from another handle of the thread.
Source(u, i) == \E g \in Handles : Owner[g] = u /\ i \in Reaches(g)

TakeOK(u, step) ==
    /\ Owner[step.handle] = u /\ value[step.handle] = Nothing
    /\ step.item # Nothing => Source(u, step.item)

\* An object that is being changed belongs to the thread alone, and is in none.
PutOK(u, step) ==
    /\ \A h \in Handles : value[h] = step.into => Owner[h] = u
    /\ \E h \in Handles : value[h] = step.into
    /\ form[step.into] = "object" /\ field[step.into][step.key] = Nothing
    /\ \A p \in Items \X Fields : field[p[1]][p[2]] # step.into
    /\ \E g \in Handles : Owner[g] = u /\ value[g] = step.item
    /\ step.item # step.into /\ Empty(field, step.item) /\ form[step.item] # "plain"

\* Releases come before the copy they make room for.
Calls ==
    \A u \in Users : \A d \in 1 .. Len(todo[u]) :
        LET step == At(todo, u, d) IN
        /\ step.op \in {"take", "put"} => d = 1
        /\ step.op = "take" => TakeOK(u, step)
        /\ step.op = "put" => PutOK(u, step)

HandlesInv == HandlesType /\ (\A i \in Items : Exact(i)) /\ Flat /\ Calls

\* An object in its pool that is not refreshed yet: its thread is about to do it.
PublishedInv ==
    \A i \in published : i \in Items /\ \E u \in Users : todo[u] # << >> /\ Head(todo[u]) = Free(i)

-----------------------------------------------------------------------------
(* Counting *)

One(c) == IF c THEN 1 ELSE 0

LEMMA RemoveOrNot ==
    ASSUME NEW S, IsFiniteSet(S), NEW T, NEW x, T = S \ {x}
    PROVE  IsFiniteSet(T) /\ Cardinality(T) = Cardinality(S) - One(x \in S)
<1>1. CASE x \notin S
  <2>1. T = S
    BY <1>1
  <2>2. Cardinality(S) \in Nat
    BY FS_CardinalityType
  <2>3. One(x \in S) = 0
    BY <1>1 DEF One
  <2>4. \A n \in Nat : n = n - 0
    OBVIOUS
  <2>5. Cardinality(S) = Cardinality(S) - One(x \in S)
    BY <2>2, <2>3, <2>4, Zenon
  <2> QED
    BY <2>1, <2>5, Zenon
<1>2. CASE x \in S
  <2>1. One(x \in S) = 1
    BY <1>2 DEF One
  <2>2. IsFiniteSet(T) /\ Cardinality(T) = Cardinality(S) - 1
    BY <1>2, FS_RemoveElement, Zenon
  <2> QED
    BY <2>1, <2>2, Zenon
<1> QED
  BY <1>1, <1>2

\* T is S but for x, which is in T if and only if c holds.
LEMMA ReplaceOne ==
    ASSUME NEW S, IsFiniteSet(S), NEW T, NEW x, NEW c \in BOOLEAN,
           T \ {x} = S \ {x}, x \in T <=> c
    PROVE  IsFiniteSet(T) /\ Cardinality(T) = Cardinality(S) - One(x \in S) + One(c)
<1>1. PICK R : R = S \ {x}
  OBVIOUS
<1>2. /\ IsFiniteSet(R) /\ Cardinality(R) = Cardinality(S) - One(x \in S)
      /\ Cardinality(R) \in Nat /\ x \notin R
  BY <1>1, RemoveOrNot, FS_CardinalityType
<1>3. CASE c
  <2>1. T = R \cup {x}
    BY <1>1, <1>3
  <2>2. IsFiniteSet(T) /\ Cardinality(T) = Cardinality(R) + 1
    BY <1>2, <2>1, FS_AddElement
  <2> QED
    BY <1>2, <1>3, <2>2 DEF One
<1>4. CASE ~c
  <2>1. T = R
    BY <1>1, <1>4
  <2> QED
    BY <1>2, <1>4, <2>1 DEF One
<1> QED
  BY <1>3, <1>4

LEMMA HandlesFinite ==
    ASSUME NEW val, NEW i
    PROVE  IsFiniteSet(ByHandle(val, i)) /\ Cardinality(ByHandle(val, i)) \in Nat
<1>1. ByHandle(val, i) \subseteq Handles
  BY DEF ByHandle
<1>2. IsFiniteSet(ByHandle(val, i))
  BY <1>1, HandlesAssumption, FS_Subset
<1> QED
  BY <1>2, FS_CardinalityType

LEMMA FieldsFinite ==
    ASSUME NEW fld, NEW i
    PROVE  IsFiniteSet(ByField(fld, i)) /\ Cardinality(ByField(fld, i)) \in Nat
<1>1. IsFiniteSet(Items \X Fields)
  BY HandlesAssumption, FS_Product
<1>2. ByField(fld, i) \subseteq Items \X Fields
  BY DEF ByField
<1>3. IsFiniteSet(ByField(fld, i))
  BY <1>1, <1>2, FS_Subset
<1> QED
  BY <1>3, FS_CardinalityType

\* A handle points elsewhere.
Repointed(val, h, new, val2) ==
    /\ val \in [Handles -> ItemsOrNothing] /\ h \in Handles
    /\ val2 = [val EXCEPT ![h] = new]

LEMMA HandleSet ==
    ASSUME NEW val, NEW h, NEW new, NEW val2, Repointed(val, h, new, val2), NEW i
    PROVE  Cardinality(ByHandle(val2, i))
               = Cardinality(ByHandle(val, i)) - One(val[h] = i) + One(new = i)
<1>1. ByHandle(val2, i) \ {h} = ByHandle(val, i) \ {h}
  BY DEF ByHandle, Repointed
<1>2. (h \in ByHandle(val2, i) <=> new = i) /\ (h \in ByHandle(val, i) <=> val[h] = i)
  BY DEF ByHandle, Repointed
<1>3. PICK S, T : S = ByHandle(val, i) /\ T = ByHandle(val2, i)
  OBVIOUS
<1>4. IsFiniteSet(S)
  BY <1>3, HandlesFinite
<1>5. PICK c \in BOOLEAN : c <=> new = i
  OBVIOUS
<1>6. Cardinality(T) = Cardinality(S) - One(h \in S) + One(c)
  <2>1. T \ {h} = S \ {h} /\ (h \in T <=> c)
    BY <1>1, <1>2, <1>3, <1>5
  <2> QED
    BY <1>4, <2>1, ReplaceOne
<1>7. One(h \in S) = One(val[h] = i) /\ One(c) = One(new = i)
  BY <1>2, <1>3, <1>5 DEF One
<1> QED
  BY <1>3, <1>6, <1>7

\* A field holds something else.
Refilled(fld, j, k, new, fld2) ==
    /\ fld \in [Items -> [Fields -> ItemsOrNothing]] /\ j \in Items /\ k \in Fields
    /\ fld2 = [fld EXCEPT ![j][k] = new]

LEMMA FieldSet ==
    ASSUME NEW fld, NEW j, NEW k, NEW new, NEW fld2, Refilled(fld, j, k, new, fld2), NEW i
    PROVE  Cardinality(ByField(fld2, i))
               = Cardinality(ByField(fld, i)) - One(fld[j][k] = i) + One(new = i)
<1>1. PICK x : x = <<j, k>>
  OBVIOUS
<1>2. /\ j \in Items /\ k \in Fields /\ fld2[j][k] = new
      /\ \A a \in Items, b \in Fields : a # j \/ b # k => fld2[a][b] = fld[a][b]
  BY DEF Refilled
<1>3. ByField(fld2, i) \ {x} = ByField(fld, i) \ {x}
  <2>1. ASSUME NEW p \in Items \X Fields, p # x
        PROVE  fld2[p[1]][p[2]] = fld[p[1]][p[2]]
    <3>1. PICK a \in Items, b \in Fields : p = <<a, b>>
      OBVIOUS
    <3> QED
      BY <1>1, <1>2, <2>1, <3>1
  <2> QED
    BY <2>1 DEF ByField
<1>4. (x \in ByField(fld2, i) <=> new = i) /\ (x \in ByField(fld, i) <=> fld[j][k] = i)
  BY <1>1, <1>2 DEF ByField
<1>5. PICK S, T : S = ByField(fld, i) /\ T = ByField(fld2, i)
  OBVIOUS
<1>6. IsFiniteSet(S)
  BY <1>5, FieldsFinite
<1>7. PICK c \in BOOLEAN : c <=> new = i
  OBVIOUS
<1>8. Cardinality(T) = Cardinality(S) - One(x \in S) + One(c)
  <2>1. T \ {x} = S \ {x} /\ (x \in T <=> c)
    BY <1>3, <1>4, <1>5, <1>7
  <2> QED
    BY <1>6, <2>1, ReplaceOne
<1>9. One(x \in S) = One(fld[j][k] = i) /\ One(c) = One(new = i)
  BY <1>4, <1>5, <1>7 DEF One
<1> QED
  BY <1>5, <1>8, <1>9

-----------------------------------------------------------------------------
(* Steps to come *)

\* td2 is td with the step s before the others of u.
OneMore(td, u, s, td2) ==
    /\ td \in [Users -> Seq(StepSet)] /\ td2 \in [Users -> Seq(StepSet)]
    /\ u \in Users /\ Len(td[u]) \in Nat /\ Len(td2[u]) = Len(td[u]) + 1
    /\ \A v \in Users : v # u => td2[v] = td[v]
    /\ At(td2, u, Len(td[u]) + 1) = s
    /\ \A d \in 1 .. Len(td[u]) : At(td2, u, d) = At(td, u, d)

LEMMA PushOK ==
    ASSUME NEW td \in [Users -> Seq(StepSet)], NEW u \in Users, NEW s \in StepSet, NEW td2,
           td2 = [td EXCEPT ![u] = <<s>> \o td[u]]
    PROVE  OneMore(td, u, s, td2)
<1>1. PICK q, r, L : q = td[u] /\ r = <<s>> \o q /\ L = Len(q)
  OBVIOUS
<1>2. q \in Seq(StepSet) /\ r \in Seq(StepSet) /\ L \in Nat
  BY <1>1
<1>3. Len(r) = L + 1 /\ r[1] = s /\ \A n \in 2 .. (L + 1) : r[n] = q[n - 1]
  BY <1>1, <1>2
<1>4. td2[u] = r /\ td2 \in [Users -> Seq(StepSet)] /\ \A v \in Users : v # u => td2[v] = td[v]
  BY <1>1, <1>2
<1>5. At(td2, u, L + 1) = s
  <2>1. (L + 1) + 1 - (L + 1) = 1
    BY <1>2
  <2> QED
    BY <1>3, <1>4, <2>1 DEF At
<1>6. ASSUME NEW d \in 1 .. L PROVE At(td2, u, d) = At(td, u, d)
  <2>1. L + 1 + 1 - d \in 2 .. (L + 1) /\ (L + 1 + 1 - d) - 1 = L + 1 - d
    BY <1>2
  <2> QED
    BY <1>1, <1>3, <1>4, <2>1 DEF At
<1> QED
  BY <1>1, <1>2, <1>3, <1>4, <1>5, <1>6 DEF OneMore

LEMMA PopOK ==
    ASSUME NEW td \in [Users -> Seq(StepSet)], NEW u \in Users, td[u] # << >>, NEW td2,
           td2 = [td EXCEPT ![u] = Tail(td[u])]
    PROVE  OneMore(td2, u, Head(td[u]), td) /\ Head(td[u]) \in StepSet
<1>1. PICK s, q : s = Head(td[u]) /\ q = Tail(td[u])
  OBVIOUS
<1>2. s \in StepSet /\ q \in Seq(StepSet) /\ td[u] = <<s>> \o q
  BY <1>1
<1>3. td2 \in [Users -> Seq(StepSet)] /\ td2[u] = q
  BY <1>1, <1>2
<1>4. td = [td2 EXCEPT ![u] = <<s>> \o td2[u]]
  BY <1>1, <1>2, <1>3
<1> QED
  BY <1>1, <1>2, <1>3, <1>4, PushOK

\* A step more is counted once.
LEMMA OneMoreCount ==
    ASSUME NEW td, NEW u, NEW s, NEW td2, OneMore(td, u, s, td2), NEW step
    PROVE  /\ IsFiniteSet(ByStep(td, step)) <=> IsFiniteSet(ByStep(td2, step))
           /\ IsFiniteSet(ByStep(td, step)) =>
                  Cardinality(ByStep(td2, step)) = Cardinality(ByStep(td, step)) + One(s = step)
<1>1. PICK S, T, L, x : S = ByStep(td, step) /\ T = ByStep(td2, step) /\ L = Len(td[u])
                        /\ x = <<u, L + 1>>
  OBVIOUS
<1>2. L \in Nat /\ Len(td2[u]) = L + 1 /\ u \in Users
  BY <1>1 DEF OneMore
<1>3. x \notin S /\ (x \in T <=> s = step)
  <2>1. x \notin S
    BY <1>1, <1>2 DEF ByStep
  <2>2. At(td2, u, L + 1) = s
    BY <1>1 DEF OneMore
  <2>3. x \in Users \X Nat /\ x[1] = u /\ x[2] = L + 1 /\ L + 1 \in 1 .. (L + 1)
    BY <1>1, <1>2
  <2> QED
    BY <1>1, <1>2, <2>1, <2>2, <2>3 DEF ByStep
<1>4. ASSUME NEW p \in Users \X Nat, p # x PROVE p \in T <=> p \in S
  <2>1. PICK v \in Users, d \in Nat : p = <<v, d>>
    OBVIOUS
  <2>2. p \in S <=> d \in 1 .. Len(td[v]) /\ At(td, v, d) = step
    BY <1>1, <2>1 DEF ByStep
  <2>3. p \in T <=> d \in 1 .. Len(td2[v]) /\ At(td2, v, d) = step
    BY <1>1, <2>1 DEF ByStep
  <2>4. CASE v # u
    BY <2>2, <2>3, <2>4 DEF OneMore, At
  <2>5. CASE v = u
    <3>1. d # L + 1
      BY <1>1, <1>4, <2>1, <2>5
    <3>2. d \in 1 .. (L + 1) <=> d \in 1 .. L
      BY <1>2, <3>1
    <3> QED
      BY <1>1, <1>2, <2>2, <2>3, <2>5, <3>2 DEF OneMore
  <2> QED
    BY <2>4, <2>5
<1>5. S \subseteq Users \X Nat /\ T \subseteq Users \X Nat
  BY <1>1 DEF ByStep
<1>6. T \ {x} = S \ {x}
  BY <1>4, <1>5
<1>7. IsFiniteSet(T) => IsFiniteSet(S)
  <2> SUFFICES ASSUME IsFiniteSet(T) PROVE IsFiniteSet(S)
    OBVIOUS
  <2>1. S \in SUBSET T
    BY <1>3, <1>6
  <2> QED
    BY <2>1, FS_Subset
<1>8. IsFiniteSet(S) => IsFiniteSet(T) /\ Cardinality(T) = Cardinality(S) + One(s = step)
  <2> SUFFICES ASSUME IsFiniteSet(S)
               PROVE  IsFiniteSet(T) /\ Cardinality(T) = Cardinality(S) + One(s = step)
    OBVIOUS
  <2>1. PICK c \in BOOLEAN : c <=> s = step
    OBVIOUS
  <2>2. x \in T <=> c
    BY <1>3, <2>1
  <2>3. IsFiniteSet(T) /\ Cardinality(T) = Cardinality(S) - One(x \in S) + One(c)
    BY <1>6, <2>2, ReplaceOne
  <2>4. One(x \in S) = 0 /\ One(c) = One(s = step) /\ One(c) \in {0, 1}
    BY <1>3, <2>1 DEF One
  <2>5. Cardinality(S) \in Nat
    BY FS_CardinalityType
  <2> QED
    BY <2>3, <2>4, <2>5
<1> QED
  BY <1>1, <1>7, <1>8

\* Types of steps.
LEMMA StepFacts ==
    /\ \A i \in Items : Drop(i) \in StepSet /\ Free(i) \in StepSet
    /\ \A h \in Handles, i \in ItemsOrNothing : Take(h, i) \in StepSet
    /\ \A j \in Items, k \in Fields, i \in Items : Put(j, k, i) \in StepSet
    /\ \A i, j : (Drop(i) = Drop(j) <=> i = j) /\ (Free(i) = Free(j) <=> i = j) /\ Drop(i) # Free(j)
    /\ \A s \in StepSet : /\ s.op = "drop" => s.item \in Items /\ s = Drop(s.item)
                          /\ s.op = "free" => s.item \in Items /\ s = Free(s.item)
                          /\ s.op = "take" => s.item \in ItemsOrNothing /\ s.handle \in Handles
                          /\ s.op = "put" => s.item \in Items /\ s.into \in Items /\ s.key \in Fields
                          /\ s.op \in {"drop", "free", "take", "put"}
    /\ \A s, i : s.op \notin {"drop", "free"} => s # Drop(i) /\ s # Free(i)
<1>1. /\ \A i \in Items : Drop(i) \in StepSet /\ Free(i) \in StepSet
      /\ \A h \in Handles, i \in ItemsOrNothing : Take(h, i) \in StepSet
      /\ \A j \in Items, k \in Fields, i \in Items : Put(j, k, i) \in StepSet
  BY DEF StepSet, Drop, Free, Take, Put
<1>2. \A i, j : (Drop(i) = Drop(j) <=> i = j) /\ (Free(i) = Free(j) <=> i = j) /\ Drop(i) # Free(j)
  BY DEF Drop, Free
<1>3. ASSUME NEW s \in StepSet
      PROVE  /\ s.op = "drop" => s.item \in Items /\ s = Drop(s.item)
             /\ s.op = "free" => s.item \in Items /\ s = Free(s.item)
             /\ s.op = "take" => s.item \in ItemsOrNothing /\ s.handle \in Handles
             /\ s.op = "put" => s.item \in Items /\ s.into \in Items /\ s.key \in Fields
             /\ s.op \in {"drop", "free", "take", "put"}
  BY DEF StepSet, Drop, Free
<1>4. \A s, i : s.op \notin {"drop", "free"} => s # Drop(i) /\ s # Free(i)
  BY DEF Drop, Free
<1> QED
  BY <1>1, <1>2, <1>3, <1>4

-----------------------------------------------------------------------------
(* Clearing the fields of an object *)

\* Object i is cleared and its fields are to be released by u, in some order.
Cleared(fld, td, u, i, order, m, fld2, td2) ==
    /\ fld \in [Items -> [Fields -> ItemsOrNothing]] /\ td \in [Users -> Seq(StepSet)]
    /\ u \in Users /\ i \in Items /\ m \in Nat
    /\ order \in Bijection(1 .. m, {k \in Fields : fld[i][k] # Nothing})
    /\ fld2 = [fld EXCEPT ![i] = [k \in Fields |-> Nothing]]
    /\ td2 = [td EXCEPT ![u] = [n \in 1 .. m |-> Drop(fld[i][order[n]])] \o td[u]]

\* The fields of i that hold x.
Holding(fld, i, x) == {p \in Items \X Fields : p[1] = i /\ fld[i][p[2]] = x}

LEMMA ClearedOrder ==
    ASSUME NEW fld, NEW td, NEW u, NEW i, NEW order, NEW m, NEW fld2, NEW td2,
           Cleared(fld, td, u, i, order, m, fld2, td2)
    PROVE  /\ \A n \in 1 .. m : order[n] \in Fields /\ fld[i][order[n]] \in Items
           /\ \A n, l \in 1 .. m : order[n] = order[l] => n = l
           /\ \A k \in Fields : fld[i][k] # Nothing => \E n \in 1 .. m : order[n] = k
<1>1. PICK held : held = {k \in Fields : fld[i][k] # Nothing}
  OBVIOUS
<1>2. order \in Bijection(1 .. m, held)
  BY <1>1 DEF Cleared
<1>3. /\ order \in [1 .. m -> held] /\ \A n, l \in 1 .. m : order[n] = order[l] => n = l
      /\ \A k \in held : \E n \in 1 .. m : order[n] = k
  BY <1>2 DEF Bijection, Injection, Surjection, IsInjective
<1>4. \A k \in held : k \in Fields /\ fld[i][k] \in Items
  BY <1>1 DEF Cleared, ItemsOrNothing
<1> QED
  BY <1>1, <1>3, <1>4

LEMMA ClearedSteps ==
    ASSUME NEW fld, NEW td, NEW u, NEW i, NEW order, NEW m, NEW fld2, NEW td2,
           Cleared(fld, td, u, i, order, m, fld2, td2)
    PROVE  /\ td2 \in [Users -> Seq(StepSet)] /\ Len(td[u]) \in Nat
           /\ Len(td2[u]) = Len(td[u]) + m
           /\ \A v \in Users : v # u => td2[v] = td[v]
           /\ \A d \in 1 .. Len(td[u]) : At(td2, u, d) = At(td, u, d)
           /\ \A d \in (Len(td[u]) + 1) .. (Len(td[u]) + m) :
                  /\ Len(td[u]) + m + 1 - d \in 1 .. m
                  /\ At(td2, u, d) = Drop(fld[i][order[Len(td[u]) + m + 1 - d]])
<1>1. PICK q, new, r, L : /\ q = td[u] /\ new = [n \in 1 .. m |-> Drop(fld[i][order[n]])]
                          /\ r = new \o q /\ L = Len(q)
  OBVIOUS
<1>2. q \in Seq(StepSet) /\ L \in Nat /\ m \in Nat /\ u \in Users
  BY <1>1 DEF Cleared
<1>3. \A n \in 1 .. m : new[n] = Drop(fld[i][order[n]]) /\ new[n] \in StepSet
  BY <1>1, ClearedOrder, StepFacts
<1>4. new \in Seq(StepSet) /\ Len(new) = m
  <2>1. new \in [1 .. m -> StepSet]
    BY <1>1, <1>3
  <2> QED
    BY <1>2, <2>1
<1>5. /\ r \in Seq(StepSet) /\ Len(r) = m + L
      /\ \A n \in 1 .. m : r[n] = new[n]
      /\ \A n \in (m + 1) .. (m + L) : r[n] = q[n - m]
  BY <1>1, <1>2, <1>4
<1>6. /\ td2 \in [Users -> Seq(StepSet)] /\ td2[u] = r
      /\ \A v \in Users : v # u => td2[v] = td[v]
  <2>1. td \in [Users -> Seq(StepSet)] /\ td2 = [td EXCEPT ![u] = r]
    BY <1>1 DEF Cleared
  <2> QED
    BY <1>2, <1>5, <2>1
<1>7. ASSUME NEW d \in 1 .. L PROVE At(td2, u, d) = At(td, u, d)
  <2>1. (m + L) + 1 - d \in (m + 1) .. (m + L) /\ ((m + L) + 1 - d) - m = L + 1 - d
    BY <1>2
  <2>2. At(td2, u, d) = r[(m + L) + 1 - d]
    BY <1>5, <1>6 DEF At
  <2>3. At(td, u, d) = q[L + 1 - d]
    BY <1>1 DEF At
  <2> QED
    BY <1>5, <2>1, <2>2, <2>3
<1>8. ASSUME NEW d \in (L + 1) .. (L + m)
      PROVE  L + m + 1 - d \in 1 .. m /\ At(td2, u, d) = Drop(fld[i][order[L + m + 1 - d]])
  <2>1. L + m + 1 - d \in 1 .. m /\ (m + L) + 1 - d = L + m + 1 - d
    BY <1>2
  <2> QED
    BY <1>3, <1>5, <1>6, <2>1 DEF At
<1> QED
  BY <1>1, <1>2, <1>5, <1>6, <1>7, <1>8

\* The releases to come of an object x that was in a field.
NewDrops(fld, td, u, i, order, m, x) ==
    {p \in Users \X Nat : /\ p[1] = u /\ p[2] \in (Len(td[u]) + 1) .. (Len(td[u]) + m)
                          /\ fld[i][order[Len(td[u]) + m + 1 - p[2]]] = x}

LEMMA AsManyDrops ==
    ASSUME NEW fld, NEW td, NEW u, NEW i, NEW order, NEW m, NEW fld2, NEW td2,
           Cleared(fld, td, u, i, order, m, fld2, td2), NEW x \in Items
    PROVE  /\ IsFiniteSet(NewDrops(fld, td, u, i, order, m, x))
           /\ IsFiniteSet(Holding(fld, i, x))
           /\ Cardinality(NewDrops(fld, td, u, i, order, m, x)) = Cardinality(Holding(fld, i, x))
<1>1. PICK A, D, L : /\ A = Holding(fld, i, x) /\ D = NewDrops(fld, td, u, i, order, m, x)
                     /\ L = Len(td[u])
  OBVIOUS
<1>2. L \in Nat /\ m \in Nat /\ i \in Items /\ u \in Users
  BY <1>1, ClearedSteps DEF Cleared
<1>3. IsFiniteSet(A)
  <2>1. A \subseteq ByField(fld, x)
    BY <1>1 DEF Holding, ByField
  <2> QED
    BY <2>1, FieldsFinite, FS_Subset
<1>4. PICK f : f = [p \in D |-> <<i, order[L + m + 1 - p[2]]>>]
  OBVIOUS
<1>5. ASSUME NEW p \in D
      PROVE  /\ p = <<u, p[2]>> /\ p[2] \in (L + 1) .. (L + m)
             /\ L + m + 1 - p[2] \in 1 .. m /\ fld[i][order[L + m + 1 - p[2]]] = x
             /\ order[L + m + 1 - p[2]] \in Fields
  <2>1. p \in Users \X Nat /\ p[1] = u /\ p[2] \in (L + 1) .. (L + m)
        /\ fld[i][order[L + m + 1 - p[2]]] = x
    BY <1>1, <1>5 DEF NewDrops
  <2>2. L + m + 1 - p[2] \in 1 .. m
    BY <1>2, <2>1
  <2>3. p = <<u, p[2]>>
    BY <2>1
  <2> QED
    BY <2>1, <2>2, <2>3, ClearedOrder
<1>6. f \in [D -> A]
  <2>1. ASSUME NEW p \in D PROVE f[p] \in A
    <3>1. f[p] = <<i, order[L + m + 1 - p[2]]>>
      BY <1>4
    <3> QED
      BY <1>1, <1>2, <1>5, <3>1 DEF Holding
  <2> QED
    BY <1>4, <2>1
<1>7. ASSUME NEW p \in D, NEW r \in D, f[p] = f[r] PROVE p = r
  <2>1. order[L + m + 1 - p[2]] = order[L + m + 1 - r[2]]
    BY <1>4, <1>7
  <2>2. L + m + 1 - p[2] = L + m + 1 - r[2]
    BY <1>5, <2>1, ClearedOrder
  <2>3. p[2] = r[2]
    BY <1>2, <1>5, <2>2
  <2> QED
    BY <1>5, <2>3
<1>8. ASSUME NEW y \in A PROVE \E p \in D : f[p] = y
  <2>1. PICK k \in Fields : y = <<i, k>> /\ fld[i][k] = x
    BY <1>1, <1>8 DEF Holding
  <2>2. fld[i][k] # Nothing
    BY <2>1, HandlesAssumption
  <2>3. PICK n \in 1 .. m : order[n] = k
    BY <2>2, ClearedOrder
  <2>4. PICK d : d = L + m + 1 - n
    OBVIOUS
  <2>5. d \in (L + 1) .. (L + m) /\ d \in Nat /\ L + m + 1 - d = n
    BY <1>2, <2>4
  <2>6. PICK p : p = <<u, d>>
    OBVIOUS
  <2>7. p \in Users \X Nat /\ p[1] = u /\ p[2] = d
    BY <1>2, <2>5, <2>6
  <2>8. p \in D
    BY <1>1, <2>1, <2>3, <2>5, <2>7 DEF NewDrops
  <2>9. f[p] = y
    BY <1>4, <2>1, <2>3, <2>5, <2>7, <2>8
  <2> QED
    BY <2>8, <2>9
<1>9. f \in Injection(D, A) /\ f \in Surjection(D, A)
  BY <1>6, <1>7, <1>8 DEF Injection, Surjection, IsInjective
<1>10. IsFiniteSet(D) /\ Cardinality(D) = Cardinality(A)
  BY <1>3, <1>9, FS_Injection
<1> QED
  BY <1>1, <1>3, <1>10

LEMMA ClearedFields ==
    ASSUME NEW fld, NEW td, NEW u, NEW i, NEW order, NEW m, NEW fld2, NEW td2,
           Cleared(fld, td, u, i, order, m, fld2, td2), NEW x \in Items
    PROVE  Cardinality(ByField(fld2, x))
               = Cardinality(ByField(fld, x)) - Cardinality(Holding(fld, i, x))
<1>1. PICK S, T, A : S = ByField(fld, x) /\ T = ByField(fld2, x) /\ A = Holding(fld, i, x)
  OBVIOUS
<1>2. /\ i \in Items /\ fld \in [Items -> [Fields -> ItemsOrNothing]]
      /\ fld2 = [fld EXCEPT ![i] = [k \in Fields |-> Nothing]]
  BY DEF Cleared
<1>3. ASSUME NEW p \in Items \X Fields PROVE p \in T <=> p \in S \ A
  <2>1. PICK a \in Items, b \in Fields : p = <<a, b>>
    OBVIOUS
  <2>2. (p \in T <=> fld2[a][b] = x) /\ (p \in S <=> fld[a][b] = x)
        /\ (p \in A <=> a = i /\ fld[i][b] = x)
    BY <1>1, <2>1 DEF ByField, Holding
  <2>3. a # i => fld2[a][b] = fld[a][b]
    BY <1>2
  <2>4. a = i => fld2[a][b] = Nothing
    BY <1>2
  <2> QED
    BY <2>2, <2>3, <2>4, HandlesAssumption
<1>4. S \subseteq Items \X Fields /\ T \subseteq Items \X Fields /\ A \subseteq S
  BY <1>1 DEF ByField, Holding
<1>5. T = S \ A /\ S \cap A = A
  BY <1>3, <1>4
<1>6. IsFiniteSet(S)
  BY <1>1, FieldsFinite
<1>7. Cardinality(S \ A) = Cardinality(S) - Cardinality(S \cap A)
  BY <1>6, FS_Difference
<1> QED
  BY <1>1, <1>5, <1>7

LEMMA ClearedDrops ==
    ASSUME NEW fld, NEW td, NEW u, NEW i, NEW order, NEW m, NEW fld2, NEW td2,
           Cleared(fld, td, u, i, order, m, fld2, td2), NEW x \in Items,
           IsFiniteSet(ByStep(td, Drop(x)))
    PROVE  /\ IsFiniteSet(ByStep(td2, Drop(x)))
           /\ Cardinality(ByStep(td2, Drop(x)))
                  = Cardinality(ByStep(td, Drop(x))) + Cardinality(Holding(fld, i, x))
           /\ ByStep(td2, Free(x)) = ByStep(td, Free(x))
<1>1. PICK S, T, D, L : /\ S = ByStep(td, Drop(x)) /\ T = ByStep(td2, Drop(x))
                        /\ D = NewDrops(fld, td, u, i, order, m, x) /\ L = Len(td[u])
  OBVIOUS
<1>2. /\ L \in Nat /\ m \in Nat /\ u \in Users /\ Len(td2[u]) = L + m
      /\ \A v \in Users : v # u => td2[v] = td[v]
      /\ \A d \in 1 .. L : At(td2, u, d) = At(td, u, d)
      /\ \A d \in (L + 1) .. (L + m) : /\ L + m + 1 - d \in 1 .. m
                                      /\ At(td2, u, d) = Drop(fld[i][order[L + m + 1 - d]])
  <2>1. m \in Nat /\ u \in Users
    BY DEF Cleared
  <2>2. /\ Len(td[u]) \in Nat /\ Len(td2[u]) = Len(td[u]) + m
        /\ \A v \in Users : v # u => td2[v] = td[v]
        /\ \A d \in 1 .. Len(td[u]) : At(td2, u, d) = At(td, u, d)
        /\ \A d \in (Len(td[u]) + 1) .. (Len(td[u]) + m) :
               /\ Len(td[u]) + m + 1 - d \in 1 .. m
               /\ At(td2, u, d) = Drop(fld[i][order[Len(td[u]) + m + 1 - d]])
    BY ClearedSteps
  <2> QED
    BY <1>1, <2>1, <2>2
<1>3. ASSUME NEW p \in Users \X Nat, NEW step
      PROVE  /\ p[1] = u /\ p[2] \in (L + 1) .. (L + m) =>
                    /\ p \in ByStep(td2, step) <=> Drop(fld[i][order[L + m + 1 - p[2]]]) = step
                    /\ p \notin ByStep(td, step)
             /\ ~(p[1] = u /\ p[2] \in (L + 1) .. (L + m)) =>
                    (p \in ByStep(td2, step) <=> p \in ByStep(td, step))
  <2>1. PICK v \in Users, d \in Nat : p = <<v, d>> /\ p[1] = v /\ p[2] = d
    OBVIOUS
  <2>2. p \in ByStep(td, step) <=> d \in 1 .. Len(td[v]) /\ At(td, v, d) = step
    BY <2>1 DEF ByStep
  <2>3. p \in ByStep(td2, step) <=> d \in 1 .. Len(td2[v]) /\ At(td2, v, d) = step
    BY <2>1 DEF ByStep
  <2>4. CASE v # u
    BY <1>2, <2>1, <2>2, <2>3, <2>4 DEF At
  <2>5. CASE v = u /\ d \in (L + 1) .. (L + m)
    <3>1. d \in 1 .. (L + m) /\ d \notin 1 .. L
      BY <1>2, <2>5
    <3> QED
      BY <1>1, <1>2, <2>1, <2>2, <2>3, <2>5, <3>1
  <2>6. CASE v = u /\ d \notin (L + 1) .. (L + m)
    <3>1. d \in 1 .. (L + m) <=> d \in 1 .. L
      BY <1>2, <2>6
    <3> QED
      BY <1>1, <1>2, <2>1, <2>2, <2>3, <2>6, <3>1
  <2> QED
    BY <2>4, <2>5, <2>6
<1>4. ByStep(td2, Free(x)) = ByStep(td, Free(x))
  <2>1. \A y : Drop(y) # Free(x)
    BY StepFacts
  <2>2. \A p \in Users \X Nat : p \in ByStep(td2, Free(x)) <=> p \in ByStep(td, Free(x))
    BY <1>3, <2>1
  <2> QED
    BY <2>2 DEF ByStep
<1>5. T = S \cup D /\ S \cap D = {}
  <2>1. \A p \in Users \X Nat :
            p \in D <=> /\ p[1] = u /\ p[2] \in (L + 1) .. (L + m)
                       /\ fld[i][order[L + m + 1 - p[2]]] = x
    BY <1>1 DEF NewDrops
  <2>2. \A y : Drop(y) = Drop(x) <=> y = x
    BY StepFacts
  <2>3. \A p \in Users \X Nat : (p \in T <=> p \in S \cup D) /\ ~(p \in S /\ p \in D)
    BY <1>1, <1>3, <2>1, <2>2
  <2>4. S \subseteq Users \X Nat /\ T \subseteq Users \X Nat /\ D \subseteq Users \X Nat
    BY <1>1 DEF ByStep, NewDrops
  <2> QED
    BY <2>3, <2>4
<1>6. IsFiniteSet(D) /\ Cardinality(D) = Cardinality(Holding(fld, i, x))
  BY <1>1, AsManyDrops
<1>7. /\ IsFiniteSet(S \cup D)
      /\ Cardinality(S \cup D) = Cardinality(S) + Cardinality(D) - Cardinality(S \cap D)
  BY <1>1, <1>6, FS_Union
<1>8. Cardinality(S \cap D) = 0 /\ Cardinality(S) \in Nat /\ Cardinality(D) \in Nat
  BY <1>1, <1>5, <1>6, FS_EmptySet, FS_CardinalityType
<1> QED
  BY <1>1, <1>4, <1>5, <1>6, <1>7, <1>8

-----------------------------------------------------------------------------
(* What the invariant says of an object *)

LEMMA HandlesTypeFacts ==
    ASSUME HandlesType
    PROVE  /\ \A h \in Handles : value[h] \in ItemsOrNothing
           /\ \A i \in Items, k \in Fields : field[i][k] \in ItemsOrNothing
           /\ \A u \in Users : todo[u] \in Seq(StepSet) /\ Len(todo[u]) \in Nat
           /\ \A i \in Items : form[i] \in {"free", "object", "value", "plain"} /\ count[i] \in Int
BY DEF HandlesType

\* Counts of an object as numbers.
LEMMA Numbers ==
    ASSUME NEW i \in Items, Exact(i)
    PROVE  /\ Cardinality(ByHandle(value, i)) \in Nat /\ Cardinality(ByField(field, i)) \in Nat
           /\ Cardinality(ByStep(todo, Drop(i))) \in Nat /\ Cardinality(ByStep(todo, Free(i))) \in Nat
<1>1. IsFiniteSet(ByStep(todo, Drop(i))) /\ IsFiniteSet(ByStep(todo, Free(i)))
  BY DEF Exact
<1> QED
  BY <1>1, HandlesFinite, FieldsFinite, FS_CardinalityType

\* Nothing leads to an object that is free.
LEMMA FreeFacts ==
    ASSUME HandlesInv, NEW i \in Items, form[i] = "free"
    PROVE  /\ \A h \in Handles : value[h] # i
           /\ \A j \in Items, k \in Fields : field[j][k] # i
           /\ \A step : step \in {Drop(i), Free(i)} => ByStep(todo, step) = {}
           /\ Empty(field, i)
<1>1. Exact(i) /\ Flat
  BY DEF HandlesInv
<1>2. PICK H, F, D, R : /\ H = ByHandle(value, i) /\ F = ByField(field, i)
                        /\ D = ByStep(todo, Drop(i)) /\ R = ByStep(todo, Free(i))
  OBVIOUS
<1>3. IsFiniteSet(H) /\ IsFiniteSet(F) /\ IsFiniteSet(D) /\ IsFiniteSet(R)
  BY <1>1, <1>2, HandlesFinite, FieldsFinite DEF Exact
<1>4. /\ Cardinality(H) \in Nat /\ Cardinality(F) \in Nat /\ Cardinality(D) \in Nat
      /\ Cardinality(H) + Cardinality(F) + Cardinality(D) = 0 /\ Cardinality(R) = 0
  BY <1>1, <1>2, Numbers DEF Exact, Tally
<1>5. Cardinality(H) = 0 /\ Cardinality(F) = 0 /\ Cardinality(D) = 0
  BY <1>4
<1>6. H = {} /\ F = {} /\ D = {} /\ R = {}
  BY <1>3, <1>4, <1>5, FS_EmptySet
<1>7. \A h \in Handles : value[h] # i
  BY <1>2, <1>6 DEF ByHandle
<1>8. ASSUME NEW j \in Items, NEW k \in Fields PROVE field[j][k] # i
  <2>1. <<j, k>> \notin F
    BY <1>6
  <2> QED
    BY <1>2, <2>1 DEF ByField
<1>9. Empty(field, i)
  BY <1>1 DEF Flat
<1> QED
  BY <1>2, <1>6, <1>7, <1>8, <1>9

\* Nothing leads to an object that is about to be given back.
LEMMA FreedFacts ==
    ASSUME HandlesInv, NEW i \in Items, NEW u \in Users, NEW d \in 1 .. Len(todo[u]),
           At(todo, u, d) = Free(i)
    PROVE  /\ \A h \in Handles : value[h] # i
           /\ \A j \in Items, k \in Fields : field[j][k] # i
           /\ ByStep(todo, Drop(i)) = {} /\ Cardinality(ByStep(todo, Free(i))) = 1
           /\ form[i] # "free"
<1>1. Exact(i) /\ HandlesType
  BY DEF HandlesInv
<1>2. PICK H, F, D, R : /\ H = ByHandle(value, i) /\ F = ByField(field, i)
                        /\ D = ByStep(todo, Drop(i)) /\ R = ByStep(todo, Free(i))
  OBVIOUS
<1>3. IsFiniteSet(H) /\ IsFiniteSet(F) /\ IsFiniteSet(D) /\ IsFiniteSet(R)
  BY <1>1, <1>2, HandlesFinite, FieldsFinite DEF Exact
<1>4. R # {}
  <2>1. d \in Nat /\ <<u, d>> \in Users \X Nat
    BY <1>1, HandlesTypeFacts
  <2>2. <<u, d>> \in R
    BY <1>2, <2>1 DEF ByStep
  <2> QED
    BY <2>2
<1>5. Cardinality(R) # 0
  BY <1>3, <1>4, FS_EmptySet
<1>6. /\ Cardinality(H) \in Nat /\ Cardinality(F) \in Nat /\ Cardinality(D) \in Nat
      /\ Cardinality(R) \in Nat
      /\ Tally(form[i], count[i], Cardinality(H) + Cardinality(F) + Cardinality(D), Cardinality(R))
      /\ form[i] \in {"free", "object", "value", "plain"}
  BY <1>1, <1>2, Numbers, HandlesTypeFacts DEF Exact
<1>7. /\ Cardinality(H) + Cardinality(F) + Cardinality(D) = 0 /\ Cardinality(R) = 1
      /\ form[i] # "free"
  BY <1>5, <1>6 DEF Tally
<1>8. Cardinality(H) = 0 /\ Cardinality(F) = 0 /\ Cardinality(D) = 0
  BY <1>6, <1>7
<1>9. H = {} /\ F = {} /\ D = {}
  BY <1>3, <1>8, FS_EmptySet
<1>10. \A h \in Handles : value[h] # i
  BY <1>2, <1>9 DEF ByHandle
<1>11. ASSUME NEW j \in Items, NEW k \in Fields PROVE field[j][k] # i
  <2>1. <<j, k>> \notin F
    BY <1>9
  <2> QED
    BY <1>2, <2>1 DEF ByField
<1> QED
  BY <1>2, <1>7, <1>9, <1>10, <1>11

\* An object that something leads to is not free, and nobody gives it back.
LEMMA ClaimedFacts ==
    ASSUME HandlesInv, NEW i \in Items,
           \/ \E h \in Handles : value[h] = i
           \/ \E j \in Items, k \in Fields : field[j][k] = i
    PROVE  /\ form[i] # "free" /\ Cardinality(ByStep(todo, Free(i))) = 0
           /\ \A u \in Users : \A d \in 1 .. Len(todo[u]) : At(todo, u, d) # Free(i)
<1>1. form[i] # "free"
  BY FreeFacts
<1>2. \A u \in Users : \A d \in 1 .. Len(todo[u]) : At(todo, u, d) # Free(i)
  BY FreedFacts
<1>3. ByStep(todo, Free(i)) = {}
  <2>1. \A p \in Users \X Nat : p[1] \in Users
    OBVIOUS
  <2> QED
    BY <1>2, <2>1 DEF ByStep
<1>4. Cardinality(ByStep(todo, Free(i))) = 0
  BY <1>3, FS_EmptySet
<1> QED
  BY <1>1, <1>2, <1>4

\* What can be reached from a handle.
LEMMA ReachesFacts ==
    ASSUME HandlesInv, NEW g \in Handles, NEW i, i \in Reaches(g)
    PROVE  /\ i \in Items /\ value[g] \in Items
           /\ i = value[g] \/ \E k \in Fields : field[value[g]][k] = i
<1>1. value[g] \in ItemsOrNothing /\ value[g] # Nothing
  BY HandlesTypeFacts DEF HandlesInv, Reaches
<1>2. value[g] \in Items
  BY <1>1 DEF ItemsOrNothing
<1>3. i = value[g] \/ (i # Nothing /\ \E k \in Fields : field[value[g]][k] = i)
  BY <1>1 DEF Reaches, Inside
<1> QED
  BY <1>2, <1>3, HandlesTypeFacts DEF HandlesInv, ItemsOrNothing

-----------------------------------------------------------------------------
(* What a step of one thread leaves of the others *)

Discreet(u) ==
    /\ \A v \in Users : v # u => todo'[v] = todo[v]
    /\ \A g \in Handles : Owner[g] # u /\ ~Idle(Owner[g]) => value'[g] = value[g]
    /\ \A g \in Handles : value[g] # Nothing => form'[value[g]] = form[value[g]]
    /\ \A g \in Handles : Owner[g] # u /\ value[g] # Nothing =>
           \A k \in Fields : field'[value[g]][k] = field[value[g]][k]
    /\ \A g \in Handles : value'[g] # value[g] /\ value'[g] # Nothing =>
           \/ form[value'[g]] = "free"
           \/ \E e \in Handles : Owner[e] = u /\ value'[g] \in Reaches(e)
    /\ \A i \in Items, k \in Fields : field'[i][k] # field[i][k] /\ field'[i][k] # Nothing =>
           \/ form[field'[i][k]] = "free"
           \/ \E e \in Handles : Owner[e] = u /\ value[e] = field'[i][k]

\* The source of a copy stays within reach of a handle that stays.
LEMMA SourceKept ==
    ASSUME HandlesInv, NEW v \in Users, NEW i, Source(v, i),
           \A g \in Handles : Owner[g] = v => value'[g] = value[g],
           \A g \in Handles : Owner[g] = v /\ value[g] # Nothing =>
               \A k \in Fields : field'[value[g]][k] = field[value[g]][k]
    PROVE  Source(v, i)'
<1>1. PICK g \in Handles : Owner[g] = v /\ i \in Reaches(g)
  BY DEF Source
<1>2. /\ value'[g] = value[g] /\ value[g] # Nothing
      /\ \A k \in Fields : field'[value[g]][k] = field[value[g]][k]
  BY <1>1 DEF Reaches
<1>3. i = value[g] \/ (i # Nothing /\ \E k \in Fields : field[value[g]][k] = i)
  BY <1>1, <1>2 DEF Reaches, Inside
<1>4. i \in Reaches(g)'
  BY <1>2, <1>3 DEF Reaches, Inside
<1> QED
  BY <1>1, <1>4 DEF Source

LEMMA TakeKept ==
    ASSUME HandlesInv, NEW u \in Users, Discreet(u), NEW v \in Users, v # u, ~Idle(v),
           NEW step \in StepSet, step.op = "take", TakeOK(v, step)
    PROVE  TakeOK(v, step)'
<1>1. step.handle \in Handles
  BY StepFacts
<1>2. /\ \A g \in Handles : Owner[g] = v => value'[g] = value[g]
      /\ \A g \in Handles : Owner[g] = v /\ value[g] # Nothing =>
             \A k \in Fields : field'[value[g]][k] = field[value[g]][k]
  BY DEF Discreet
<1>3. step.item # Nothing => Source(v, step.item)'
  BY <1>2, SourceKept DEF TakeOK
<1> QED
  BY <1>1, <1>2, <1>3 DEF TakeOK

LEMMA PutKept ==
    ASSUME HandlesInv, NEW u \in Users, Discreet(u), NEW v \in Users, v # u, ~Idle(v),
           NEW step \in StepSet, step.op = "put", PutOK(v, step)
    PROVE  PutOK(v, step)'
<1>1. PICK j, k, i : j = step.into /\ k = step.key /\ i = step.item
  OBVIOUS
<1>2. j \in Items /\ k \in Fields /\ i \in Items /\ j # Nothing /\ i # Nothing
  BY <1>1, StepFacts, HandlesAssumption
<1>3. /\ \A h \in Handles : value[h] = j => Owner[h] = v
      /\ form[j] = "object" /\ field[j][k] = Nothing
      /\ i # j /\ Empty(field, i) /\ form[i] # "plain"
      /\ \A a \in Items, b \in Fields : field[a][b] # j
  <2>1. \A p \in Items \X Fields : field[p[1]][p[2]] # j
    BY <1>1 DEF PutOK
  <2>2. ASSUME NEW a \in Items, NEW b \in Fields PROVE field[a][b] # j
    <3>1. <<a, b>> \in Items \X Fields /\ <<a, b>>[1] = a /\ <<a, b>>[2] = b
      OBVIOUS
    <3> QED
      BY <2>1, <3>1
  <2> QED
    BY <1>1, <2>2 DEF PutOK
<1>4. PICK h \in Handles, g \in Handles : /\ value[h] = j /\ Owner[h] = v
                                          /\ value[g] = i /\ Owner[g] = v
  BY <1>1, <1>3 DEF PutOK
<1>5. value'[h] = j /\ value'[g] = i
  BY <1>4 DEF Discreet
<1>6. form'[j] = "object" /\ form'[i] # "plain"
  BY <1>2, <1>3, <1>4 DEF Discreet
<1>7. \A b \in Fields : field'[j][b] = field[j][b] /\ field'[i][b] = field[i][b]
  BY <1>2, <1>4 DEF Discreet
<1>8. ~\E e \in Handles : Owner[e] = u /\ j \in Reaches(e)
  BY <1>3, ReachesFacts
<1>9. ASSUME NEW f \in Handles, value'[f] = j PROVE Owner[f] = v
  <2>1. CASE value[f] = value'[f]
    BY <1>3, <1>9, <2>1
  <2>2. CASE value[f] # value'[f]
    BY <1>2, <1>3, <1>8, <1>9, <2>2 DEF Discreet
  <2> QED
    BY <2>1, <2>2
<1>10. ASSUME NEW a \in Items, NEW b \in Fields PROVE field'[a][b] # j
  <2>1. ~\E e \in Handles : Owner[e] = u /\ value[e] = j
    BY <1>3
  <2> QED
    BY <1>2, <1>3, <2>1 DEF Discreet
<1>11. \A p \in Items \X Fields : field'[p[1]][p[2]] # j
  BY <1>10
<1>12. Empty(field', i) /\ field'[j][k] = Nothing
  BY <1>2, <1>3, <1>7 DEF Empty
<1>13. /\ \E f \in Handles : value'[f] = j
       /\ \E f \in Handles : Owner[f] = v /\ value'[f] = i
  BY <1>4, <1>5
<1>14. /\ \A f \in Handles : value'[f] = step.into => Owner[f] = v
       /\ \E f \in Handles : value'[f] = step.into
       /\ form'[step.into] = "object" /\ field'[step.into][step.key] = Nothing
       /\ \A p \in Items \X Fields : field'[p[1]][p[2]] # step.into
       /\ \E f \in Handles : Owner[f] = v /\ value'[f] = step.item
       /\ step.item # step.into /\ Empty(field', step.item) /\ form'[step.item] # "plain"
  BY <1>1, <1>3, <1>6, <1>9, <1>11, <1>12, <1>13
<1> QED
  BY <1>14 DEF PutOK, Empty

\* The calls of one thread.
CallOK(u) ==
    \A d \in 1 .. Len(todo[u]) :
        LET step == At(todo, u, d) IN
        /\ step.op \in {"take", "put"} => d = 1
        /\ step.op = "take" => TakeOK(u, step)
        /\ step.op = "put" => PutOK(u, step)

LEMMA StepAt ==
    ASSUME HandlesType, NEW u \in Users, NEW d \in 1 .. Len(todo[u])
    PROVE  At(todo, u, d) \in StepSet
<1>1. todo[u] \in Seq(StepSet) /\ Len(todo[u]) \in Nat
  BY HandlesTypeFacts
<1>2. Len(todo[u]) + 1 - d \in 1 .. Len(todo[u])
  BY <1>1
<1> QED
  BY <1>1, <1>2 DEF At

LEMMA OthersKept ==
    ASSUME HandlesInv, NEW u \in Users, Discreet(u), NEW v \in Users, v # u
    PROVE  CallOK(v)'
<1>1. CallOK(v) /\ HandlesType
  BY DEF HandlesInv, Calls, CallOK
<1>2. todo'[v] = todo[v]
  BY DEF Discreet
<1> SUFFICES ASSUME NEW d \in 1 .. Len(todo'[v]), NEW step, step = At(todo', v, d)
             PROVE  /\ step.op \in {"take", "put"} => d = 1
                    /\ step.op = "take" => TakeOK(v, step)'
                    /\ step.op = "put" => PutOK(v, step)'
  BY DEF CallOK, TakeOK, PutOK, Source
<1>3. d \in 1 .. Len(todo[v]) /\ step = At(todo, v, d)
  BY <1>2 DEF At
<1>4. /\ step \in StepSet /\ (step.op \in {"take", "put"} => d = 1)
      /\ (step.op = "take" => TakeOK(v, step)) /\ (step.op = "put" => PutOK(v, step))
  BY <1>1, <1>3, StepAt DEF CallOK
<1>5. ~Idle(v)
  <2>1. Len(todo[v]) # 0
    BY <1>1, <1>3, HandlesTypeFacts
  <2> QED
    BY <2>1 DEF Idle
<1> QED
  BY <1>4, <1>5, TakeKept, PutKept

LEMMA CallsByThread ==
    ASSUME \A v \in Users : CallOK(v)
    PROVE  Calls
BY DEF Calls, CallOK

-----------------------------------------------------------------------------
(* Releases *)

\* Releasing leaves the copy of the call possible that it makes room for.
LEMMA OwnKept ==
    ASSUME HandlesInv, NEW u \in Users, UNCHANGED value,
           \A g \in Handles : value[g] # Nothing =>
               /\ form'[value[g]] = form[value[g]]
               /\ \A k \in Fields : field'[value[g]][k] = field[value[g]][k],
           \A i \in Items, k \in Fields : field'[i][k] \in {field[i][k], Nothing},
           \A d \in 1 .. Len(todo'[u]) :
               \/ At(todo', u, d).op \in {"drop", "free"}
               \/ d \in 1 .. Len(todo[u]) /\ At(todo', u, d) = At(todo, u, d)
    PROVE  CallOK(u)'
<1>1. CallOK(u) /\ HandlesType
  BY DEF HandlesInv, Calls, CallOK
<1> SUFFICES ASSUME NEW d \in 1 .. Len(todo'[u]), NEW step, step = At(todo', u, d),
                    step.op \in {"take", "put"}
             PROVE  /\ d = 1
                    /\ step.op = "take" => TakeOK(u, step)'
                    /\ step.op = "put" => PutOK(u, step)'
  BY DEF CallOK, TakeOK, PutOK, Source
<1>2. d \in 1 .. Len(todo[u]) /\ step = At(todo, u, d)
  OBVIOUS
<1>3. /\ step \in StepSet /\ d = 1
      /\ (step.op = "take" => TakeOK(u, step)) /\ (step.op = "put" => PutOK(u, step))
  BY <1>1, <1>2, StepAt DEF CallOK
<1>4. CASE step.op = "take"
  <2>1. step.item # Nothing => Source(u, step.item)'
    BY <1>3, <1>4, SourceKept DEF TakeOK
  <2>2. TakeOK(u, step)'
    BY <1>3, <1>4, <2>1 DEF TakeOK
  <2> QED
    BY <1>3, <1>4, <2>2
<1>5. CASE step.op = "put"
  <2>1. PICK j, k, i : j = step.into /\ k = step.key /\ i = step.item
    OBVIOUS
  <2>2. j \in Items /\ k \in Fields /\ i \in Items /\ j # Nothing /\ i # Nothing
    BY <1>3, <1>5, <2>1, StepFacts, HandlesAssumption
  <2>3. PICK h \in Handles, g \in Handles : value[h] = j /\ value[g] = i /\ Owner[g] = u
    BY <1>3, <1>5, <2>1 DEF PutOK
  <2>4. /\ \A f \in Handles : value[f] = j => Owner[f] = u
        /\ form[j] = "object" /\ field[j][k] = Nothing
        /\ i # j /\ Empty(field, i) /\ form[i] # "plain"
        /\ \A p \in Items \X Fields : field[p[1]][p[2]] # j
    BY <1>3, <1>5, <2>1 DEF PutOK
  <2>5. form'[j] = "object" /\ form'[i] # "plain" /\ field'[j][k] = Nothing
        /\ \A b \in Fields : field'[i][b] = field[i][b]
    BY <2>2, <2>3, <2>4
  <2>6. \A p \in Items \X Fields : field'[p[1]][p[2]] # j
    BY <2>2, <2>4
  <2>7. Empty(field', i)
    BY <2>4, <2>5 DEF Empty
  <2>8. /\ \A f \in Handles : value'[f] = step.into => Owner[f] = u
        /\ \E f \in Handles : value'[f] = step.into
        /\ form'[step.into] = "object" /\ field'[step.into][step.key] = Nothing
        /\ \A p \in Items \X Fields : field'[p[1]][p[2]] # step.into
        /\ \E f \in Handles : Owner[f] = u /\ value'[f] = step.item
        /\ step.item # step.into /\ Empty(field', step.item) /\ form'[step.item] # "plain"
    BY <2>1, <2>3, <2>4, <2>5, <2>6, <2>7
  <2>9. PutOK(u, step)'
    BY <2>8 DEF PutOK, Empty
  <2> QED
    BY <1>3, <1>5, <2>9
<1> QED
  BY <1>4, <1>5

\* The first step of a call.
LEMMA FirstStep ==
    ASSUME HandlesInv, NEW u \in Users, todo[u] # << >>
    PROVE  /\ Head(todo[u]) \in StepSet /\ Len(todo[u]) \in Nat /\ Len(todo[u]) >= 1
           /\ Head(todo[u]) = At(todo, u, Len(todo[u])) /\ Len(todo[u]) \in 1 .. Len(todo[u])
           /\ OneMore([todo EXCEPT ![u] = Tail(todo[u])], u, Head(todo[u]), todo)
<1>1. todo \in [Users -> Seq(StepSet)]
  BY DEF HandlesInv, HandlesType
<1>2. PICK q : q = todo[u] /\ q \in Seq(StepSet) /\ q # << >>
  BY <1>1
<1>3. Len(q) \in Nat /\ Len(q) >= 1 /\ Head(q) = q[1] /\ Len(q) + 1 - Len(q) = 1
  BY <1>2
<1>4. Head(todo[u]) = At(todo, u, Len(todo[u]))
  BY <1>2, <1>3 DEF At
<1>5. /\ OneMore([todo EXCEPT ![u] = Tail(todo[u])], u, Head(todo[u]), todo)
      /\ Head(todo[u]) \in StepSet
  BY <1>1, PopOK
<1> QED
  BY <1>2, <1>3, <1>4, <1>5

LEMMA RunDropInv ==
    ASSUME HandlesInv, NEW u \in Users, RunDrop(u)
    PROVE  HandlesInv'
<1>1. /\ HandlesType /\ Flat /\ todo[u] # << >> /\ Head(todo[u]).op = "drop"
      /\ UNCHANGED <<form, field, value>> /\ \A x \in Items : Exact(x)
  BY DEF HandlesInv, RunDrop
<1>2. PICK td1, i, last :
          /\ td1 = [todo EXCEPT ![u] = Tail(todo[u])] /\ i = Head(todo[u]).item
          /\ last \in BOOLEAN /\ (last <=> form[i] = "value" \/ count[i] = 1)
  OBVIOUS
<1>3. OneMore(td1, u, Drop(i), todo) /\ i \in Items
  <2>1. Head(todo[u]) \in StepSet /\ OneMore(td1, u, Head(todo[u]), todo)
    BY <1>1, <1>2, FirstStep
  <2>2. Head(todo[u]) = Drop(i) /\ i \in Items
    BY <1>1, <1>2, <2>1, StepFacts
  <2> QED
    BY <2>1, <2>2
<1>4. /\ count' = [count EXCEPT ![i] = IF Counted(i) THEN @ - 1 ELSE @]
      /\ todo' = [todo EXCEPT ![u] = (IF last THEN << Free(i) >> ELSE << >>) \o Tail(todo[u])]
  BY <1>2 DEF RunDrop
<1>5. td1 \in [Users -> Seq(StepSet)] /\ Free(i) \in StepSet /\ td1[u] = Tail(todo[u])
  <2>1. td1 \in [Users -> Seq(StepSet)]
    BY <1>3 DEF OneMore
  <2>2. todo \in [Users -> Seq(StepSet)]
    BY <1>1 DEF HandlesType
  <2> QED
    BY <1>2, <1>3, <2>1, <2>2, StepFacts
<1>6. IF last THEN OneMore(td1, u, Free(i), todo') ELSE todo' = td1
  <2>1. PICK td2 : td2 = todo'
    OBVIOUS
  <2>2. CASE last
    <3>1. td2 = [td1 EXCEPT ![u] = << Free(i) >> \o td1[u]]
      BY <1>2, <1>4, <1>5, <2>1, <2>2
    <3> QED
      BY <1>5, <2>1, <2>2, <3>1, PushOK
  <2>3. CASE ~last
    <3>1. << >> \o td1[u] = td1[u]
      BY <1>5
    <3> QED
      BY <1>2, <1>4, <1>5, <2>3, <3>1
  <2> QED
    BY <1>2, <2>2, <2>3
<1>7. todo' \in [Users -> Seq(StepSet)] /\ count' \in [Items -> Int]
  <2>1. todo' \in [Users -> Seq(StepSet)]
    BY <1>5, <1>6 DEF OneMore
  <2> QED
    BY <1>1, <1>3, <1>4, <2>1 DEF HandlesType
<1>8. HandlesType'
  BY <1>1, <1>7 DEF HandlesType
<1>9. ASSUME NEW x \in Items PROVE Exact(x)'
  <2>1. PICK h, f, d, r, d1, r1, d2, r2 :
            /\ h = Cardinality(ByHandle(value, x)) /\ f = Cardinality(ByField(field, x))
            /\ d = Cardinality(ByStep(todo, Drop(x))) /\ r = Cardinality(ByStep(todo, Free(x)))
            /\ d1 = Cardinality(ByStep(td1, Drop(x))) /\ r1 = Cardinality(ByStep(td1, Free(x)))
            /\ d2 = Cardinality(ByStep(todo', Drop(x))) /\ r2 = Cardinality(ByStep(todo', Free(x)))
    OBVIOUS
  <2>2. h \in Nat /\ f \in Nat /\ d \in Nat /\ r \in Nat /\ Tally(form[x], count[x], h + f + d, r)
    BY <1>1, <2>1, Numbers DEF Exact
  <2>3. /\ IsFiniteSet(ByStep(td1, Drop(x))) /\ IsFiniteSet(ByStep(td1, Free(x)))
        /\ d = d1 + One(i = x) /\ r = r1 /\ d1 \in Nat /\ r1 \in Nat
    <3>1. IsFiniteSet(ByStep(todo, Drop(x))) /\ IsFiniteSet(ByStep(todo, Free(x)))
      BY <1>1 DEF Exact
    <3>2. IsFiniteSet(ByStep(td1, Drop(x))) /\ IsFiniteSet(ByStep(td1, Free(x)))
      BY <1>3, <3>1, OneMoreCount
    <3>3. d = d1 + One(Drop(i) = Drop(x)) /\ r = r1 + One(Drop(i) = Free(x))
      BY <1>3, <2>1, <3>2, OneMoreCount
    <3>4. One(Drop(i) = Drop(x)) = One(i = x) /\ One(Drop(i) = Free(x)) = 0
      BY StepFacts DEF One
    <3>5. d1 \in Nat /\ r1 \in Nat
      BY <2>1, <3>2, FS_CardinalityType
    <3> QED
      BY <3>2, <3>3, <3>4, <3>5
  <2>4. /\ IsFiniteSet(ByStep(todo', Drop(x))) /\ IsFiniteSet(ByStep(todo', Free(x)))
        /\ d2 = d1 /\ r2 = r1 + One(last /\ i = x)
    <3>1. PICK td2 : td2 = todo'
      OBVIOUS
    <3>2. CASE last
      <4>1. /\ IsFiniteSet(ByStep(td2, Drop(x))) /\ IsFiniteSet(ByStep(td2, Free(x)))
            /\ d2 = d1 + One(Free(i) = Drop(x)) /\ r2 = r1 + One(Free(i) = Free(x))
        BY <1>6, <2>1, <2>3, <3>1, <3>2, OneMoreCount
      <4>2. One(Free(i) = Free(x)) = One(last /\ i = x) /\ One(Free(i) = Drop(x)) = 0
        BY <3>2, StepFacts DEF One
      <4> QED
        BY <2>3, <3>1, <4>1, <4>2
    <3>3. CASE ~last
      <4>1. One(last /\ i = x) = 0
        BY <3>3 DEF One
      <4> QED
        BY <1>6, <2>1, <2>3, <3>3, <4>1
    <3> QED
      BY <1>2, <3>2, <3>3
  <2>5. /\ count'[x] = IF i = x /\ form[x] \in {"object", "plain"} THEN count[x] - 1 ELSE count[x]
        /\ count[x] \in Int /\ form[x] \in {"free", "object", "value", "plain"}
    <3>1. count \in [Items -> Int]
      BY <1>1 DEF HandlesType
    <3> QED
      BY <1>1, <1>3, <1>4, <3>1, HandlesTypeFacts DEF Counted
  <2>6. Tally(form[x], count'[x], h + f + d2, r2)
    <3>1. CASE i # x
      BY <2>2, <2>3, <2>4, <2>5, <3>1 DEF One
    <3>2. CASE i = x
      <4>1. d = d1 + 1 /\ d2 = d1 /\ r = r1 /\ r2 = r1 + (IF last THEN 1 ELSE 0)
        BY <2>3, <2>4, <3>2 DEF One
      <4>2. last <=> form[x] = "value" \/ count[x] = 1
        BY <1>2, <3>2
      <4>3. CASE form[x] = "free"
        BY <2>2, <2>3, <4>1, <4>3 DEF Tally
      <4>4. CASE form[x] = "value"
        BY <2>2, <2>3, <4>1, <4>2, <4>4 DEF Tally
      <4>5. CASE form[x] \in {"object", "plain"}
        <5>1. count'[x] = count[x] - 1 /\ count[x] = h + f + d /\ r = 0 /\ (last <=> count[x] = 1)
          BY <2>2, <2>3, <2>5, <3>2, <4>1, <4>2, <4>5 DEF Tally
        <5>2. count'[x] = h + f + d2 /\ r2 = IF h + f + d2 = 0 THEN 1 ELSE 0
          BY <2>2, <2>3, <4>1, <5>1
        <5> QED
          BY <4>5, <5>2 DEF Tally
      <4> QED
        BY <2>5, <4>3, <4>4, <4>5
    <3> QED
      BY <3>1, <3>2
  <2> QED
    BY <1>1, <2>1, <2>4, <2>6 DEF Exact
<1>10. Flat'
  BY <1>1 DEF Flat, Empty
<1>11. Discreet(u)
  <2>1. \A v \in Users : v # u => todo'[v] = todo[v]
    BY <1>1, <1>4 DEF HandlesType
  <2> QED
    BY <1>1, <2>1 DEF Discreet
<1>12. CallOK(u)'
  <2>1. /\ Len(td1[u]) \in Nat /\ Len(todo[u]) = Len(td1[u]) + 1
        /\ \A d \in 1 .. Len(td1[u]) : At(todo, u, d) = At(td1, u, d)
    BY <1>3 DEF OneMore
  <2>2. ASSUME NEW d \in 1 .. Len(todo'[u])
        PROVE  \/ At(todo', u, d).op \in {"drop", "free"}
               \/ d \in 1 .. Len(todo[u]) /\ At(todo', u, d) = At(todo, u, d)
    <3>1. CASE last
      <4>1. /\ Len(todo'[u]) = Len(td1[u]) + 1 /\ At(todo', u, Len(td1[u]) + 1) = Free(i)
            /\ \A e \in 1 .. Len(td1[u]) : At(todo', u, e) = At(td1, u, e)
        BY <1>6, <3>1 DEF OneMore
      <4>2. Free(i).op = "free"
        BY DEF Free
      <4>3. d \in 1 .. Len(td1[u]) \/ d = Len(td1[u]) + 1
        BY <2>1, <2>2, <4>1
      <4> QED
        BY <2>1, <4>1, <4>2, <4>3
    <3>2. CASE ~last
      BY <1>6, <2>1, <2>2, <3>2
    <3> QED
      BY <1>2, <3>1, <3>2
  <2> QED
    BY <1>1, <2>2, OwnKept
<1>13. \A v \in Users : CallOK(v)'
  BY <1>11, <1>12, OthersKept
<1>14. Calls'
  BY <1>13 DEF Calls, CallOK
<1> QED
  BY <1>8, <1>9, <1>10, <1>14 DEF HandlesInv

LEMMA RunFreeInv ==
    ASSUME HandlesInv, NEW u \in Users, RunFree(u)
    PROVE  HandlesInv'
<1>1. /\ HandlesType /\ Flat /\ todo[u] # << >> /\ Head(todo[u]).op = "free"
      /\ UNCHANGED <<count, value>> /\ \A x \in Items : Exact(x)
  BY DEF HandlesInv, RunFree
<1>2. PICK td1, i, held :
          /\ td1 = [todo EXCEPT ![u] = Tail(todo[u])] /\ i = Head(todo[u]).item
          /\ held = {k \in Fields : field[i][k] # Nothing}
  OBVIOUS
<1>3. OneMore(td1, u, Free(i), todo) /\ i \in Items /\ Head(todo[u]) = Free(i)
  <2>1. Head(todo[u]) \in StepSet /\ OneMore(td1, u, Head(todo[u]), todo)
    BY <1>1, <1>2, FirstStep
  <2>2. Head(todo[u]) = Free(i) /\ i \in Items
    BY <1>1, <1>2, <2>1, StepFacts
  <2> QED
    BY <2>1, <2>2
<1>4. PICK order, m :
          /\ m = Cardinality(held) /\ order \in Bijection(1 .. m, held)
          /\ form' = [form EXCEPT ![i] = "free"]
          /\ field' = [field EXCEPT ![i] = [k \in Fields |-> Nothing]]
          /\ todo' = [todo EXCEPT ![u] = [n \in 1 .. m |-> Drop(field[i][order[n]])] \o Tail(todo[u])]
  <2>1. PICK m : m = Cardinality(held)
    OBVIOUS
  <2>2. form' = [form EXCEPT ![i] = "free"]
        /\ field' = [field EXCEPT ![i] = [k \in Fields |-> Nothing]]
    BY <1>2 DEF RunFree
  <2>3. \E order \in Bijection(1 .. m, held) :
            todo' = [todo EXCEPT ![u] = [n \in 1 .. m |-> Drop(field[i][order[n]])] \o Tail(todo[u])]
    <3>1. PICK order \in Bijection(1 .. Cardinality({k \in Fields : field[Head(todo[u]).item][k] # Nothing}),
                                   {k \in Fields : field[Head(todo[u]).item][k] # Nothing}) :
            todo' = [todo EXCEPT ![u] =
               [n \in 1 .. Cardinality({k \in Fields : field[Head(todo[u]).item][k] # Nothing})
                   |-> Drop(field[Head(todo[u]).item][order[n]])] \o Tail(@)]
      BY DEF RunFree
    <3>2. order \in Bijection(1 .. m, held)
      BY <1>2, <2>1, <3>1
    <3>3. todo' = [todo EXCEPT ![u] = [n \in 1 .. m |-> Drop(field[i][order[n]])] \o Tail(todo[u])]
      BY <1>2, <2>1, <3>1
    <3> QED
      BY <3>2, <3>3
  <2> QED
    BY <2>1, <2>2, <2>3
<1>5. m \in Nat
  <2>1. held \subseteq Fields
    BY <1>2
  <2> QED
    BY <1>4, <2>1, HandlesAssumption, FS_Subset, FS_CardinalityType
<1>6. PICK fld2, td2 : fld2 = field' /\ td2 = todo'
  OBVIOUS
<1>7. td1 \in [Users -> Seq(StepSet)] /\ td1[u] = Tail(todo[u])
  <2>1. td1 \in [Users -> Seq(StepSet)]
    BY <1>3 DEF OneMore
  <2>2. todo \in [Users -> Seq(StepSet)]
    BY <1>1 DEF HandlesType
  <2> QED
    BY <1>2, <2>1, <2>2
<1>8. Cleared(field, td1, u, i, order, m, fld2, td2)
  <2>1. field \in [Items -> [Fields -> ItemsOrNothing]]
    BY <1>1 DEF HandlesType
  <2>2. todo' = [td1 EXCEPT ![u] = [n \in 1 .. m |-> Drop(field[i][order[n]])] \o td1[u]]
    BY <1>2, <1>4, <1>7
  <2> QED
    BY <1>2, <1>3, <1>4, <1>5, <1>6, <1>7, <2>1, <2>2 DEF Cleared
<1>9. /\ \A h \in Handles : value[h] # i
      /\ \A j \in Items, k \in Fields : field[j][k] # i
      /\ ByStep(todo, Drop(i)) = {} /\ Cardinality(ByStep(todo, Free(i))) = 1
  <2>1. PICK d : d = Len(todo[u]) /\ d \in 1 .. Len(todo[u]) /\ At(todo, u, d) = Free(i)
    BY <1>1, <1>3, FirstStep
  <2> QED
    BY <1>3, <2>1, FreedFacts
<1>10. HandlesType'
  <2>1. todo' \in [Users -> Seq(StepSet)]
    BY <1>6, <1>8, ClearedSteps
  <2>2. form' \in [Items -> {"free", "object", "value", "plain"}]
    BY <1>1, <1>4 DEF HandlesType
  <2>3. field' \in [Items -> [Fields -> ItemsOrNothing]]
    BY <1>1, <1>3, <1>4 DEF HandlesType, ItemsOrNothing
  <2> QED
    BY <1>1, <2>1, <2>2, <2>3 DEF HandlesType
<1>11. /\ \A x \in Items : x # i => form'[x] = form[x] /\ \A k \in Fields : field'[x][k] = field[x][k]
       /\ form'[i] = "free" /\ \A k \in Fields : field'[i][k] = Nothing
  BY <1>1, <1>3, <1>4 DEF HandlesType
<1>12. ASSUME NEW x \in Items PROVE Exact(x)'
  <2>1. PICK h, f, d, r, d1, r1, f2, d2, r2, a :
            /\ h = Cardinality(ByHandle(value, x)) /\ f = Cardinality(ByField(field, x))
            /\ d = Cardinality(ByStep(todo, Drop(x))) /\ r = Cardinality(ByStep(todo, Free(x)))
            /\ d1 = Cardinality(ByStep(td1, Drop(x))) /\ r1 = Cardinality(ByStep(td1, Free(x)))
            /\ f2 = Cardinality(ByField(fld2, x)) /\ a = Cardinality(Holding(field, i, x))
            /\ d2 = Cardinality(ByStep(td2, Drop(x))) /\ r2 = Cardinality(ByStep(td2, Free(x)))
    OBVIOUS
  <2>2. h \in Nat /\ f \in Nat /\ d \in Nat /\ r \in Nat /\ Tally(form[x], count[x], h + f + d, r)
    BY <1>1, <2>1, Numbers DEF Exact
  <2>3. /\ IsFiniteSet(ByStep(td1, Drop(x))) /\ IsFiniteSet(ByStep(td1, Free(x)))
        /\ d = d1 /\ r = r1 + One(i = x) /\ d1 \in Nat /\ r1 \in Nat
    <3>1. IsFiniteSet(ByStep(todo, Drop(x))) /\ IsFiniteSet(ByStep(todo, Free(x)))
      BY <1>1 DEF Exact
    <3>2. IsFiniteSet(ByStep(td1, Drop(x))) /\ IsFiniteSet(ByStep(td1, Free(x)))
      BY <1>3, <3>1, OneMoreCount
    <3>3. d = d1 + One(Free(i) = Drop(x)) /\ r = r1 + One(Free(i) = Free(x))
      BY <1>3, <2>1, <3>2, OneMoreCount
    <3>4. One(Free(i) = Free(x)) = One(i = x) /\ One(Free(i) = Drop(x)) = 0
      BY StepFacts DEF One
    <3>5. d1 \in Nat /\ r1 \in Nat
      BY <2>1, <3>2, FS_CardinalityType
    <3> QED
      BY <3>2, <3>3, <3>4, <3>5
  <2>4. a \in Nat /\ f2 = f - a
    <3>1. IsFiniteSet(Holding(field, i, x))
      BY <1>8, AsManyDrops
    <3> QED
      BY <1>8, <2>1, <3>1, ClearedFields, FS_CardinalityType
  <2>5. /\ IsFiniteSet(ByStep(td2, Drop(x))) /\ IsFiniteSet(ByStep(td2, Free(x)))
        /\ d2 = d1 + a /\ r2 = r1
    BY <1>8, <2>1, <2>3, ClearedDrops
  <2>6. h + f2 + d2 = h + f + d
    BY <2>2, <2>3, <2>4, <2>5
  <2>7. Tally(form'[x], count'[x], h + f2 + d2, r2)
    <3>1. CASE x # i
      BY <1>1, <1>11, <2>2, <2>3, <2>5, <2>6, <3>1 DEF One
    <3>2. CASE x = i
      <4>1. h + f + d = 0
        <5>1. r = 1
          BY <1>9, <2>1, <3>2
        <5> QED
          BY <1>1, <2>2, <5>1, HandlesTypeFacts DEF Tally
      <4>2. r2 = 0
        <5>1. r = 1 /\ One(i = x) = 1
          BY <1>9, <2>1, <3>2 DEF One
        <5> QED
          BY <2>3, <2>5, <5>1
      <4> QED
        BY <1>11, <2>6, <3>2, <4>1, <4>2 DEF Tally
    <3> QED
      BY <3>1, <3>2
  <2> QED
    BY <1>1, <1>6, <2>1, <2>5, <2>7 DEF Exact
<1>13. Flat'
  <2>1. ASSUME NEW x \in Items, NEW k \in Fields, field'[x][k] # Nothing
        PROVE  /\ \A l \in Fields : field'[field'[x][k]][l] = Nothing
               /\ form'[field'[x][k]] # "plain"
    <3>1. PICK y : y = field[x][k] /\ y = field'[x][k] /\ y \in Items /\ y # i /\ y # Nothing
      BY <1>1, <1>9, <1>11, <2>1, HandlesTypeFacts DEF ItemsOrNothing
    <3>2. (\A l \in Fields : field[y][l] = Nothing) /\ form[y] # "plain"
      BY <1>1, <3>1 DEF Flat, Empty
    <3> QED
      BY <1>11, <3>1, <3>2
  <2>2. ASSUME NEW x \in Items, form'[x] # "object" PROVE \A l \in Fields : field'[x][l] = Nothing
    BY <1>1, <1>11, <2>2 DEF Flat, Empty
  <2> QED
    BY <2>1, <2>2 DEF Flat, Empty
<1>14. \A g \in Handles : value[g] # Nothing =>
           /\ form'[value[g]] = form[value[g]]
           /\ \A k \in Fields : field'[value[g]][k] = field[value[g]][k]
  BY <1>1, <1>9, <1>11, HandlesTypeFacts DEF ItemsOrNothing
<1>15. Discreet(u)
  <2>1. \A v \in Users : v # u => todo'[v] = todo[v]
    BY <1>1, <1>4 DEF HandlesType
  <2> QED
    BY <1>1, <1>11, <1>14, <2>1 DEF Discreet
<1>16. CallOK(u)'
  <2>1. /\ Len(td1[u]) \in Nat /\ Len(todo[u]) = Len(td1[u]) + 1
        /\ \A d \in 1 .. Len(td1[u]) : At(todo, u, d) = At(td1, u, d)
    BY <1>3 DEF OneMore
  <2>2. /\ Len(td2[u]) = Len(td1[u]) + m
        /\ \A d \in 1 .. Len(td1[u]) : At(td2, u, d) = At(td1, u, d)
        /\ \A d \in (Len(td1[u]) + 1) .. (Len(td1[u]) + m) :
               At(td2, u, d) = Drop(field[i][order[Len(td1[u]) + m + 1 - d]])
    BY <1>8, ClearedSteps
  <2>3. \A y : Drop(y).op = "drop"
    BY DEF Drop
  <2>4. ASSUME NEW d \in 1 .. Len(td2[u])
        PROVE  \/ At(td2, u, d).op \in {"drop", "free"}
               \/ d \in 1 .. Len(todo[u]) /\ At(td2, u, d) = At(todo, u, d)
    <3>1. d \in 1 .. Len(td1[u]) \/ d \in (Len(td1[u]) + 1) .. (Len(td1[u]) + m)
      BY <1>5, <2>1, <2>2
    <3> QED
      BY <2>1, <2>2, <2>3, <3>1
  <2>5. \A d \in 1 .. Len(todo'[u]) :
            \/ At(todo', u, d).op \in {"drop", "free"}
            \/ d \in 1 .. Len(todo[u]) /\ At(todo', u, d) = At(todo, u, d)
    BY <1>6, <2>4
  <2>6. \A x \in Items, k \in Fields : field'[x][k] \in {field[x][k], Nothing}
    BY <1>11
  <2> QED
    BY <1>1, <1>14, <2>5, <2>6, OwnKept
<1>17. \A v \in Users : CallOK(v)'
  BY <1>15, <1>16, OthersKept
<1>18. Calls'
  BY <1>17 DEF Calls, CallOK
<1> QED
  BY <1>10, <1>12, <1>13, <1>18 DEF HandlesInv

-----------------------------------------------------------------------------
(* Copies *)

\* The objects that something leads to keep their form, and so do those that hold
\* something: the fields stay in order.
LEMMA FlatForms ==
    ASSUME HandlesInv, UNCHANGED field, \A x \in Items : form[x] # "free" => form'[x] = form[x]
    PROVE  Flat'
<1>1. HandlesType /\ Flat
  BY DEF HandlesInv
<1>2. \A x \in Items, k \in Fields : field[x][k] \in Items \/ field[x][k] = Nothing
  BY <1>1, HandlesTypeFacts DEF ItemsOrNothing
<1>3. \A x \in Items, k \in Fields : field[x][k] # Nothing => form[field[x][k]] # "free"
  BY <1>2, FreeFacts
<1>4. \A x \in Items : form[x] = "free" => \A l \in Fields : field[x][l] = Nothing
  BY <1>1 DEF Flat, Empty
<1> QED
  BY <1>1, <1>2, <1>3, <1>4 DEF Flat, Empty

LEMMA CopiedFacts ==
    ASSUME HandlesInv, NEW i \in ItemsOrNothing, NEW new \in ItemsOrNothing, Copied(i, new)
    PROVE  /\ form' \in [Items -> {"free", "object", "value", "plain"}]
           /\ count' \in [Items -> Int]
           /\ \A x \in Items : form[x] # "free" => form'[x] = form[x]
           /\ new # Nothing => i # Nothing /\ (new = i \/ (form[new] = "free" /\ form'[new] = "value"))
<1>1. form \in [Items -> {"free", "object", "value", "plain"}] /\ count \in [Items -> Int]
  BY DEF HandlesInv, HandlesType
<1>2. CASE /\ new = i /\ UNCHANGED form
           /\ count' = IF i = Nothing THEN count ELSE [count EXCEPT ![i] = @ + 1]
  BY <1>1, <1>2 DEF ItemsOrNothing
<1>3. CASE /\ i # Nothing /\ new \in Items /\ form[new] = "free"
           /\ form' = [form EXCEPT ![new] = "value"] /\ UNCHANGED count
  BY <1>1, <1>3
<1> QED
  BY <1>2, <1>3 DEF Copied

\* A copy is one claim more.
LEMMA CopiedTally ==
    ASSUME HandlesInv, NEW i \in ItemsOrNothing, NEW new \in ItemsOrNothing, Copied(i, new),
           NEW x \in Items, NEW c \in Nat, NEW r \in Nat, Tally(form[x], count[x], c, r),
           x = i => r = 0
    PROVE  Tally(form'[x], count'[x], c + One(new = x), r)
<1>1. form \in [Items -> {"free", "object", "value", "plain"}] /\ count \in [Items -> Int]
  BY DEF HandlesInv, HandlesType
<1>2. CASE /\ new = i /\ UNCHANGED form /\ (i # Nothing => Counted(i))
           /\ count' = IF i = Nothing THEN count ELSE [count EXCEPT ![i] = @ + 1]
  <2>1. CASE new # x
    <3>1. count'[x] = count[x] /\ One(new = x) = 0
      BY <1>1, <1>2, <2>1 DEF One, ItemsOrNothing
    <3>2. c + One(new = x) = c
      BY <3>1
    <3> QED
      BY <1>2, <3>1, <3>2
  <2>2. CASE new = x
    <3>1. x = i /\ i # Nothing /\ One(new = x) = 1 /\ r = 0
      BY <1>2, <2>2, HandlesAssumption DEF One
    <3>2. count'[x] = count[x] + 1 /\ form'[x] = form[x] /\ form[x] \in {"object", "plain"}
      BY <1>1, <1>2, <3>1 DEF Counted
    <3>3. count[x] = c
      BY <3>2 DEF Tally
    <3> QED
      BY <3>1, <3>2, <3>3 DEF Tally
  <2> QED
    BY <2>1, <2>2
<1>3. CASE /\ i # Nothing /\ new \in Items /\ form[new] = "free"
           /\ form' = [form EXCEPT ![new] = "value"] /\ UNCHANGED count
  <2>1. CASE new # x
    <3>1. form'[x] = form[x] /\ One(new = x) = 0
      BY <1>1, <1>3, <2>1 DEF One
    <3>2. c + One(new = x) = c
      BY <3>1
    <3> QED
      BY <1>3, <3>1, <3>2
  <2>2. CASE new = x
    <3>1. form'[x] = "value" /\ One(new = x) = 1
      BY <1>1, <1>3, <2>2 DEF One
    <3>2. c = 0 /\ r = 0
      BY <1>3, <2>2 DEF Tally
    <3> QED
      BY <3>1, <3>2 DEF Tally
  <2> QED
    BY <2>1, <2>2
<1> QED
  BY <1>2, <1>3 DEF Copied

\* A step that is no release is not counted.
LEMMA OtherStep ==
    ASSUME NEW td, NEW u, NEW s, NEW td2, OneMore(td, u, s, td2), s.op \notin {"drop", "free"},
           NEW x \in Items,
           \/ IsFiniteSet(ByStep(td, Drop(x))) /\ IsFiniteSet(ByStep(td, Free(x)))
           \/ IsFiniteSet(ByStep(td2, Drop(x))) /\ IsFiniteSet(ByStep(td2, Free(x)))
    PROVE  /\ IsFiniteSet(ByStep(td, Drop(x))) /\ IsFiniteSet(ByStep(td, Free(x)))
           /\ IsFiniteSet(ByStep(td2, Drop(x))) /\ IsFiniteSet(ByStep(td2, Free(x)))
           /\ Cardinality(ByStep(td2, Drop(x))) = Cardinality(ByStep(td, Drop(x)))
           /\ Cardinality(ByStep(td2, Free(x))) = Cardinality(ByStep(td, Free(x)))
<1>1. /\ IsFiniteSet(ByStep(td, Drop(x))) /\ IsFiniteSet(ByStep(td, Free(x)))
      /\ IsFiniteSet(ByStep(td2, Drop(x))) /\ IsFiniteSet(ByStep(td2, Free(x)))
  BY OneMoreCount
<1>2. PICK d, r, d2, r2 :
          /\ d = Cardinality(ByStep(td, Drop(x))) /\ r = Cardinality(ByStep(td, Free(x)))
          /\ d2 = Cardinality(ByStep(td2, Drop(x))) /\ r2 = Cardinality(ByStep(td2, Free(x)))
  OBVIOUS
<1>3. d2 = d + One(s = Drop(x)) /\ r2 = r + One(s = Free(x))
  BY <1>1, <1>2, OneMoreCount
<1>4. One(s = Drop(x)) = 0 /\ One(s = Free(x)) = 0 /\ d \in Nat /\ r \in Nat
  BY <1>1, <1>2, StepFacts, FS_CardinalityType DEF One
<1>5. d2 = d /\ r2 = r
  BY <1>3, <1>4
<1> QED
  BY <1>1, <1>2, <1>5

\* A take or a put is the last step of its call.
LEMMA LastStep ==
    ASSUME HandlesInv, NEW u \in Users, todo[u] # << >>, Head(todo[u]).op \in {"take", "put"},
           NEW td1, td1 = [todo EXCEPT ![u] = Tail(todo[u])]
    PROVE  /\ td1 \in [Users -> Seq(StepSet)] /\ OneMore(td1, u, Head(todo[u]), todo)
           /\ Len(td1[u]) = 0 /\ \A v \in Users : v # u => td1[v] = todo[v]
           /\ Head(todo[u]) \in StepSet
           /\ Head(todo[u]).op = "take" => TakeOK(u, Head(todo[u]))
           /\ Head(todo[u]).op = "put" => PutOK(u, Head(todo[u]))
<1>1. /\ Head(todo[u]) \in StepSet /\ Len(todo[u]) \in Nat /\ Len(todo[u]) \in 1 .. Len(todo[u])
      /\ Head(todo[u]) = At(todo, u, Len(todo[u])) /\ OneMore(td1, u, Head(todo[u]), todo)
  BY FirstStep
<1>2. PICK s, L : s = Head(todo[u]) /\ L = Len(todo[u])
  OBVIOUS
<1>3. L = 1 /\ (s.op = "take" => TakeOK(u, s)) /\ (s.op = "put" => PutOK(u, s))
  BY <1>1, <1>2 DEF HandlesInv, Calls
<1>4. td1 \in [Users -> Seq(StepSet)] /\ Len(td1[u]) \in Nat /\ Len(todo[u]) = Len(td1[u]) + 1
      /\ \A v \in Users : v # u => td1[v] = todo[v]
  BY <1>1 DEF OneMore
<1>5. Len(td1[u]) = 0
  <2>1. PICK l : l = Len(td1[u])
    OBVIOUS
  <2>2. l \in Nat /\ 1 = l + 1
    BY <1>2, <1>3, <1>4, <2>1
  <2>3. l = 0
    BY <2>2
  <2> QED
    BY <2>1, <2>3
<1> QED
  BY <1>1, <1>2, <1>3, <1>4, <1>5

LEMMA RunTakeInv ==
    ASSUME HandlesInv, NEW u \in Users, RunTake(u)
    PROVE  HandlesInv'
<1>1. /\ HandlesType /\ Flat /\ todo[u] # << >> /\ Head(todo[u]).op = "take"
      /\ UNCHANGED field /\ \A x \in Items : Exact(x)
  BY DEF HandlesInv, RunTake
<1>2. PICK s, i, hd, td1 : /\ s = Head(todo[u]) /\ i = s.item /\ hd = s.handle
                           /\ td1 = [todo EXCEPT ![u] = Tail(todo[u])]
  OBVIOUS
<1>3. /\ td1 \in [Users -> Seq(StepSet)] /\ OneMore(td1, u, s, todo) /\ Len(td1[u]) = 0
      /\ \A v \in Users : v # u => td1[v] = todo[v]
      /\ s \in StepSet /\ s.op = "take" /\ TakeOK(u, s)
  BY <1>1, <1>2, LastStep
<1>4. i \in ItemsOrNothing /\ hd \in Handles
  BY <1>2, <1>3, StepFacts
<1>5. PICK new \in ItemsOrNothing : Copied(i, new) /\ value' = [value EXCEPT ![hd] = new]
  BY <1>2 DEF RunTake, ItemsOrNothing
<1>6. todo' = td1
  BY <1>2 DEF RunTake
<1>7. /\ form' \in [Items -> {"free", "object", "value", "plain"}] /\ count' \in [Items -> Int]
      /\ \A x \in Items : form[x] # "free" => form'[x] = form[x]
      /\ new # Nothing => i # Nothing /\ (new = i \/ form[new] = "free")
  BY <1>4, <1>5, CopiedFacts
<1>8. HandlesType'
  BY <1>1, <1>3, <1>4, <1>5, <1>6, <1>7 DEF HandlesType
<1>9. /\ Owner[hd] = u /\ value[hd] = Nothing
      /\ i # Nothing => \E e \in Handles : Owner[e] = u /\ i \in Reaches(e)
  BY <1>2, <1>3 DEF TakeOK, Source
<1>10. i # Nothing => i \in Items /\ Cardinality(ByStep(todo, Free(i))) = 0
  <2> SUFFICES ASSUME i # Nothing PROVE i \in Items /\ Cardinality(ByStep(todo, Free(i))) = 0
    OBVIOUS
  <2>1. PICK e \in Handles : i \in Reaches(e)
    BY <1>9
  <2>2. /\ i \in Items /\ value[e] \in Items
        /\ i = value[e] \/ \E k \in Fields : field[value[e]][k] = i
    BY <2>1, ReachesFacts
  <2> QED
    BY <2>2, ClaimedFacts
<1>11. ASSUME NEW x \in Items PROVE Exact(x)'
  <2>1. PICK h, f, d, r, hh, d2, r2 :
            /\ h = Cardinality(ByHandle(value, x)) /\ f = Cardinality(ByField(field, x))
            /\ d = Cardinality(ByStep(todo, Drop(x))) /\ r = Cardinality(ByStep(todo, Free(x)))
            /\ hh = Cardinality(ByHandle(value', x))
            /\ d2 = Cardinality(ByStep(td1, Drop(x))) /\ r2 = Cardinality(ByStep(td1, Free(x)))
    OBVIOUS
  <2>2. h \in Nat /\ f \in Nat /\ d \in Nat /\ r \in Nat /\ Tally(form[x], count[x], h + f + d, r)
    BY <1>1, <2>1, Numbers DEF Exact
  <2>3. IsFiniteSet(ByStep(td1, Drop(x))) /\ IsFiniteSet(ByStep(td1, Free(x))) /\ d2 = d /\ r2 = r
    <3>1. IsFiniteSet(ByStep(todo, Drop(x))) /\ IsFiniteSet(ByStep(todo, Free(x)))
      BY <1>1 DEF Exact
    <3>2. s.op \notin {"drop", "free"}
      BY <1>3
    <3> QED
      BY <1>3, <2>1, <3>1, <3>2, OtherStep
  <2>4. hh = h + One(new = x)
    <3>1. PICK val2 : val2 = value'
      OBVIOUS
    <3>2. Repointed(value, hd, new, val2)
      BY <1>1, <1>4, <1>5, <3>1 DEF HandlesType, Repointed
    <3>3. hh = h - One(value[hd] = x) + One(new = x)
      <4>1. Cardinality(ByHandle(val2, x)) = Cardinality(ByHandle(value, x)) - One(value[hd] = x) + One(new = x)
        BY <3>2, HandleSet
      <4> QED
        BY <2>1, <3>1, <4>1
    <3>4. One(value[hd] = x) = 0 /\ One(new = x) \in Nat
      BY <1>9, HandlesAssumption DEF One
    <3> QED
      BY <2>2, <3>3, <3>4
  <2>5. Tally(form'[x], count'[x], (h + f + d) + One(new = x), r)
    <3>1. x = i => r = 0
      BY <1>10, <2>1, HandlesAssumption
    <3>2. h + f + d \in Nat
      BY <2>2
    <3> QED
      BY <1>4, <1>5, <2>2, <3>1, <3>2, CopiedTally
  <2>6. (h + f + d) + One(new = x) = hh + f + d2
    BY <2>2, <2>3, <2>4 DEF One
  <2> QED
    BY <1>1, <1>6, <2>1, <2>3, <2>5, <2>6 DEF Exact
<1>12. Flat'
  BY <1>1, <1>7, FlatForms
<1>13. Discreet(u)
  <2>1. \A v \in Users : v # u => todo'[v] = todo[v]
    BY <1>3, <1>6
  <2>2. \A g \in Handles : g # hd => value'[g] = value[g]
    BY <1>1, <1>5 DEF HandlesType
  <2>3. value'[hd] = new
    BY <1>1, <1>4, <1>5 DEF HandlesType
  <2>4. \A g \in Handles : value[g] # Nothing => form'[value[g]] = form[value[g]]
    <3>1. ASSUME NEW g \in Handles, value[g] # Nothing PROVE value[g] \in Items /\ form[value[g]] # "free"
      <4>1. value[g] \in Items
        BY <1>1, <3>1, HandlesTypeFacts DEF ItemsOrNothing
      <4> QED
        BY <4>1, ClaimedFacts
    <3> QED
      BY <1>7, <3>1
  <2>5. ASSUME NEW g \in Handles, value'[g] # value[g], value'[g] # Nothing
        PROVE  form[value'[g]] = "free" \/ \E e \in Handles : Owner[e] = u /\ value'[g] \in Reaches(e)
    BY <1>7, <1>9, <2>2, <2>3, <2>5
  <2> QED
    BY <1>1, <1>9, <2>1, <2>2, <2>4, <2>5 DEF Discreet
<1>14. CallOK(u)'
  <2>1. 1 .. Len(todo'[u]) = {}
    BY <1>3, <1>6
  <2> QED
    BY <2>1 DEF CallOK
<1>15. \A v \in Users : CallOK(v)'
  BY <1>13, <1>14, OthersKept
<1>16. Calls'
  BY <1>15 DEF Calls, CallOK
<1> QED
  BY <1>8, <1>11, <1>12, <1>16 DEF HandlesInv

\* What handles and fields lead to is out of its pool, and nobody gives it back.
LEMMA HeldFacts ==
    ASSUME HandlesInv
    PROVE  /\ \A g \in Handles : value[g] # Nothing =>
                  /\ value[g] \in Items /\ form[value[g]] # "free"
                  /\ Cardinality(ByStep(todo, Free(value[g]))) = 0
           /\ \A j \in Items, k \in Fields : field[j][k] # Nothing =>
                  /\ field[j][k] \in Items /\ form[field[j][k]] # "free"
                  /\ Cardinality(ByStep(todo, Free(field[j][k]))) = 0
<1>1. ASSUME NEW g \in Handles, value[g] # Nothing
      PROVE  /\ value[g] \in Items /\ form[value[g]] # "free"
             /\ Cardinality(ByStep(todo, Free(value[g]))) = 0
  <2>1. PICK i : i = value[g] /\ i \in Items
    BY <1>1, HandlesTypeFacts DEF HandlesInv, ItemsOrNothing
  <2> QED
    BY <2>1, ClaimedFacts
<1>2. ASSUME NEW j \in Items, NEW k \in Fields, field[j][k] # Nothing
      PROVE  /\ field[j][k] \in Items /\ form[field[j][k]] # "free"
             /\ Cardinality(ByStep(todo, Free(field[j][k]))) = 0
  <2>1. PICK i : i = field[j][k] /\ i \in Items
    BY <1>2, HandlesTypeFacts DEF HandlesInv, ItemsOrNothing
  <2> QED
    BY <2>1, ClaimedFacts
<1> QED
  BY <1>1, <1>2

LEMMA RunPutInv ==
    ASSUME HandlesInv, NEW u \in Users, RunPut(u)
    PROVE  HandlesInv'
<1>1. /\ HandlesType /\ Flat /\ todo[u] # << >> /\ Head(todo[u]).op = "put"
      /\ UNCHANGED value /\ \A x \in Items : Exact(x)
  BY DEF HandlesInv, RunPut
<1>2. PICK s, i, j, k, td1 : /\ s = Head(todo[u]) /\ i = s.item /\ j = s.into /\ k = s.key
                             /\ td1 = [todo EXCEPT ![u] = Tail(todo[u])]
  OBVIOUS
<1>3. /\ td1 \in [Users -> Seq(StepSet)] /\ OneMore(td1, u, s, todo) /\ Len(td1[u]) = 0
      /\ \A v \in Users : v # u => td1[v] = todo[v]
      /\ s \in StepSet /\ s.op = "put" /\ PutOK(u, s)
  BY <1>1, <1>2, LastStep
<1>4. i \in Items /\ j \in Items /\ k \in Fields /\ i \in ItemsOrNothing /\ i # Nothing /\ j # Nothing
  BY <1>2, <1>3, StepFacts, HandlesAssumption DEF ItemsOrNothing
<1>5. PICK new \in ItemsOrNothing : Copied(i, new) /\ field' = [field EXCEPT ![j][k] = new]
  BY <1>2 DEF RunPut, ItemsOrNothing
<1>6. todo' = td1
  BY <1>2 DEF RunPut
<1>7. /\ form' \in [Items -> {"free", "object", "value", "plain"}] /\ count' \in [Items -> Int]
      /\ \A x \in Items : form[x] # "free" => form'[x] = form[x]
      /\ new # Nothing => new = i \/ (form[new] = "free" /\ form'[new] = "value")
  BY <1>4, <1>5, CopiedFacts
<1>8. HandlesType'
  <2>1. field' \in [Items -> [Fields -> ItemsOrNothing]]
    BY <1>1, <1>4, <1>5 DEF HandlesType
  <2> QED
    BY <1>1, <1>3, <1>6, <1>7, <2>1 DEF HandlesType
<1>9. /\ \A g \in Handles : value[g] = j => Owner[g] = u
      /\ form[j] = "object" /\ field[j][k] = Nothing
      /\ \A p \in Items \X Fields : field[p[1]][p[2]] # j
      /\ \E g \in Handles : Owner[g] = u /\ value[g] = i
      /\ i # j /\ (\A l \in Fields : field[i][l] = Nothing) /\ form[i] # "plain"
  BY <1>2, <1>3 DEF PutOK, Empty
<1>10. ASSUME NEW a \in Items, NEW b \in Fields PROVE field[a][b] # j
  <2>1. <<a, b>> \in Items \X Fields /\ <<a, b>>[1] = a /\ <<a, b>>[2] = b
    OBVIOUS
  <2> QED
    BY <1>9, <2>1
<1>11. form[i] # "free" /\ Cardinality(ByStep(todo, Free(i))) = 0
  BY <1>4, <1>9, HeldFacts
<1>12. /\ \A x \in Items, l \in Fields : x # j \/ l # k => field'[x][l] = field[x][l]
       /\ field'[j][k] = new
  BY <1>1, <1>4, <1>5 DEF HandlesType
<1>13. ASSUME NEW x \in Items PROVE Exact(x)'
  <2>1. PICK h, f, d, r, f2, d2, r2 :
            /\ h = Cardinality(ByHandle(value, x)) /\ f = Cardinality(ByField(field, x))
            /\ d = Cardinality(ByStep(todo, Drop(x))) /\ r = Cardinality(ByStep(todo, Free(x)))
            /\ f2 = Cardinality(ByField(field', x))
            /\ d2 = Cardinality(ByStep(td1, Drop(x))) /\ r2 = Cardinality(ByStep(td1, Free(x)))
    OBVIOUS
  <2>2. h \in Nat /\ f \in Nat /\ d \in Nat /\ r \in Nat /\ Tally(form[x], count[x], h + f + d, r)
    BY <1>1, <2>1, Numbers DEF Exact
  <2>3. IsFiniteSet(ByStep(td1, Drop(x))) /\ IsFiniteSet(ByStep(td1, Free(x))) /\ d2 = d /\ r2 = r
    <3>1. IsFiniteSet(ByStep(todo, Drop(x))) /\ IsFiniteSet(ByStep(todo, Free(x)))
      BY <1>1 DEF Exact
    <3>2. s.op \notin {"drop", "free"}
      BY <1>3
    <3> QED
      BY <1>3, <2>1, <3>1, <3>2, OtherStep
  <2>4. f2 = f + One(new = x)
    <3>1. PICK fld2 : fld2 = field'
      OBVIOUS
    <3>2. Refilled(field, j, k, new, fld2)
      BY <1>1, <1>4, <1>5, <3>1 DEF HandlesType, Refilled
    <3>3. f2 = f - One(field[j][k] = x) + One(new = x)
      <4>1. Cardinality(ByField(fld2, x))
                = Cardinality(ByField(field, x)) - One(field[j][k] = x) + One(new = x)
        BY <3>2, FieldSet
      <4> QED
        BY <2>1, <3>1, <4>1
    <3>4. One(field[j][k] = x) = 0 /\ One(new = x) \in Nat
      BY <1>9, HandlesAssumption DEF One
    <3> QED
      BY <2>2, <3>3, <3>4
  <2>5. Tally(form'[x], count'[x], (h + f + d) + One(new = x), r)
    <3>1. x = i => r = 0
      BY <1>11, <2>1
    <3>2. h + f + d \in Nat
      BY <2>2
    <3> QED
      BY <1>4, <1>5, <2>2, <3>1, <3>2, CopiedTally
  <2>6. (h + f + d) + One(new = x) = h + f2 + d2
    BY <2>2, <2>3, <2>4 DEF One
  <2> QED
    BY <1>1, <1>6, <2>1, <2>3, <2>5, <2>6 DEF Exact
<1>14. Flat'
  <2>1. \A x \in Items : form[x] = "free" => \A l \in Fields : field[x][l] = Nothing
    BY <1>1 DEF Flat, Empty
  <2>2. form'[j] = "object"
    BY <1>4, <1>7, <1>9
  <2>3. ASSUME NEW x \in Items, form'[x] # "object", NEW l \in Fields PROVE field'[x][l] = Nothing
    <3>1. x # j
      BY <2>2, <2>3
    <3> QED
      BY <1>1, <1>7, <1>12, <2>1, <2>3, <3>1 DEF Flat, Empty
  <2>4. new # Nothing => /\ new # j /\ form'[new] # "plain" /\ new \in Items
                         /\ \A l \in Fields : field[new][l] = Nothing
    BY <1>4, <1>5, <1>7, <1>9, <1>11, <2>1 DEF ItemsOrNothing
  <2>5. ASSUME NEW x \in Items, NEW l \in Fields, field'[x][l] # Nothing
        PROVE  /\ \A b \in Fields : field'[field'[x][l]][b] = Nothing
               /\ form'[field'[x][l]] # "plain"
    <3>1. CASE x = j /\ l = k
      BY <1>12, <2>4, <2>5, <3>1
    <3>2. CASE x # j \/ l # k
      <4>1. PICK y : y = field[x][l] /\ y = field'[x][l] /\ y # Nothing
        BY <1>12, <2>5, <3>2
      <4>2. y \in Items /\ form[y] # "free" /\ y # j
        BY <1>10, <4>1, HeldFacts
      <4>3. (\A b \in Fields : field[y][b] = Nothing) /\ form[y] # "plain"
        <5>1. Empty(field, y) /\ form[y] # "plain"
          BY <1>1, <4>1 DEF Flat
        <5> QED
          BY <5>1 DEF Empty
      <4> QED
        BY <1>7, <1>12, <4>1, <4>2, <4>3
    <3> QED
      BY <3>1, <3>2
  <2> QED
    BY <2>3, <2>5 DEF Flat, Empty
<1>15. Discreet(u)
  <2>1. \A v \in Users : v # u => todo'[v] = todo[v]
    BY <1>3, <1>6
  <2>2. \A g \in Handles : value[g] # Nothing => form'[value[g]] = form[value[g]]
    BY <1>7, HeldFacts
  <2>3. \A g \in Handles : Owner[g] # u /\ value[g] # Nothing =>
            \A l \in Fields : field'[value[g]][l] = field[value[g]][l]
    BY <1>9, <1>12, HeldFacts
  <2>4. ASSUME NEW x \in Items, NEW l \in Fields, field'[x][l] # field[x][l], field'[x][l] # Nothing
        PROVE  \/ form[field'[x][l]] = "free"
               \/ \E e \in Handles : Owner[e] = u /\ value[e] = field'[x][l]
    BY <1>7, <1>9, <1>12, <2>4
  <2> QED
    BY <1>1, <2>1, <2>2, <2>3, <2>4 DEF Discreet
<1>16. CallOK(u)'
  <2>1. 1 .. Len(todo'[u]) = {}
    BY <1>3, <1>6
  <2> QED
    BY <2>1 DEF CallOK
<1>17. \A v \in Users : CallOK(v)'
  BY <1>15, <1>16, OthersKept
<1>18. Calls'
  BY <1>17 DEF Calls, CallOK
<1> QED
  BY <1>8, <1>13, <1>14, <1>18 DEF HandlesInv

LEMMA CopyConstructInv ==
    ASSUME HandlesInv, NEW u \in Users, NEW hd \in Handles, NEW g \in Handles,
           CopyConstruct(u, hd, g)
    PROVE  HandlesInv'
<1>1. /\ HandlesType /\ Flat /\ \A x \in Items : Exact(x)
      /\ UNCHANGED <<field, todo>> /\ Idle(u) /\ Idle(Owner[hd])
      /\ Owner[g] = u /\ value[hd] = Nothing /\ value[g] # Nothing
  BY DEF HandlesInv, CopyConstruct
<1>2. PICK i : i = value[g] /\ i \in Items /\ form[i] # "free"
               /\ Cardinality(ByStep(todo, Free(i))) = 0
  BY <1>1, HeldFacts
<1>3. PICK new \in Items : Copied(i, new) /\ value' = [value EXCEPT ![hd] = new]
  BY <1>2 DEF CopyConstruct
<1>4. i \in ItemsOrNothing /\ new \in ItemsOrNothing
  BY <1>2, <1>3 DEF ItemsOrNothing
<1>5. /\ form' \in [Items -> {"free", "object", "value", "plain"}] /\ count' \in [Items -> Int]
      /\ \A x \in Items : form[x] # "free" => form'[x] = form[x]
      /\ new # Nothing => new = i \/ form[new] = "free"
  BY <1>3, <1>4, CopiedFacts
<1>6. HandlesType'
  BY <1>1, <1>3, <1>4, <1>5 DEF HandlesType
<1>7. ASSUME NEW x \in Items PROVE Exact(x)'
  <2>1. PICK h, f, d, r, hh :
            /\ h = Cardinality(ByHandle(value, x)) /\ f = Cardinality(ByField(field, x))
            /\ d = Cardinality(ByStep(todo, Drop(x))) /\ r = Cardinality(ByStep(todo, Free(x)))
            /\ hh = Cardinality(ByHandle(value', x))
    OBVIOUS
  <2>2. h \in Nat /\ f \in Nat /\ d \in Nat /\ r \in Nat /\ Tally(form[x], count[x], h + f + d, r)
    BY <1>1, <2>1, Numbers DEF Exact
  <2>3. hh = h + One(new = x)
    <3>1. PICK val2 : val2 = value'
      OBVIOUS
    <3>2. Repointed(value, hd, new, val2)
      BY <1>1, <1>3, <3>1 DEF HandlesType, Repointed
    <3>3. hh = h - One(value[hd] = x) + One(new = x)
      <4>1. Cardinality(ByHandle(val2, x))
                = Cardinality(ByHandle(value, x)) - One(value[hd] = x) + One(new = x)
        BY <3>2, HandleSet
      <4> QED
        BY <2>1, <3>1, <4>1
    <3>4. One(value[hd] = x) = 0 /\ One(new = x) \in Nat
      BY <1>1, HandlesAssumption DEF One
    <3> QED
      BY <2>2, <3>3, <3>4
  <2>4. Tally(form'[x], count'[x], (h + f + d) + One(new = x), r)
    <3>1. x = i => r = 0
      BY <1>2, <2>1
    <3>2. h + f + d \in Nat
      BY <2>2
    <3> QED
      BY <1>3, <1>4, <2>2, <3>1, <3>2, CopiedTally
  <2>5. (h + f + d) + One(new = x) = hh + f + d
    BY <2>2, <2>3 DEF One
  <2>6. IsFiniteSet(ByStep(todo, Drop(x))) /\ IsFiniteSet(ByStep(todo, Free(x)))
    BY <1>1 DEF Exact
  <2> QED
    BY <1>1, <2>1, <2>4, <2>5, <2>6 DEF Exact
<1>8. Flat'
  BY <1>1, <1>5, FlatForms
<1>9. Discreet(u)
  <2>1. (\A e \in Handles : e # hd => value'[e] = value[e]) /\ value'[hd] = new
    BY <1>1, <1>3 DEF HandlesType
  <2>2. \A e \in Handles : value[e] # Nothing => form'[value[e]] = form[value[e]]
    BY <1>5, HeldFacts
  <2>3. i \in Reaches(g)
    BY <1>1, <1>2 DEF Reaches
  <2>4. ASSUME NEW e \in Handles, value'[e] # value[e], value'[e] # Nothing
        PROVE  form[value'[e]] = "free" \/ \E a \in Handles : Owner[a] = u /\ value'[e] \in Reaches(a)
    BY <1>1, <1>5, <2>1, <2>3, <2>4
  <2> QED
    BY <1>1, <2>1, <2>2, <2>4 DEF Discreet
<1>10. CallOK(u)'
  BY <1>1 DEF CallOK, Idle
<1>11. \A v \in Users : CallOK(v)'
  BY <1>9, <1>10, OthersKept
<1>12. Calls'
  BY <1>11 DEF Calls, CallOK
<1> QED
  BY <1>6, <1>7, <1>8, <1>12 DEF HandlesInv

-----------------------------------------------------------------------------
(* Calls *)

\* Thread u starts a call: it releases y, if that is an object, and then does rest.
Started(td, u, y, rest, td2) ==
    /\ td \in [Users -> Seq(StepSet)] /\ u \in Users /\ td[u] = << >> /\ y \in ItemsOrNothing
    /\ \/ rest = << >>
       \/ \E s \in StepSet : rest = << s >> /\ s.op \in {"take", "put"}
    /\ td2 = [td EXCEPT ![u] = Drops(y) \o rest]

LEMMA StartedSteps ==
    ASSUME NEW td, NEW u, NEW y, NEW rest, NEW td2, Started(td, u, y, rest, td2)
    PROVE  \E td1 : /\ \/ rest = << >> /\ td1 = td
                       \/ \E s \in StepSet : rest = << s >> /\ s.op \in {"take", "put"}
                                             /\ OneMore(td, u, s, td1)
                    /\ \/ y = Nothing /\ td2 = td1
                       \/ y \in Items /\ OneMore(td1, u, Drop(y), td2)
                    /\ td1 \in [Users -> Seq(StepSet)] /\ td1[u] = rest
<1>1. /\ td \in [Users -> Seq(StepSet)] /\ u \in Users /\ td[u] = << >>
      /\ y \in Items \/ y = Nothing
      /\ td2 = [td EXCEPT ![u] = Drops(y) \o rest]
  BY DEF Started, ItemsOrNothing
<1>2. PICK td1 : td1 = [td EXCEPT ![u] = rest]
  OBVIOUS
<1>3. rest \in Seq(StepSet)
  <2>1. CASE rest = << >>
    BY <2>1
  <2>2. CASE \E s \in StepSet : rest = << s >>
    BY <2>2
  <2> QED
    BY <2>1, <2>2 DEF Started
<1>4. td1 \in [Users -> Seq(StepSet)] /\ td1[u] = rest
  BY <1>1, <1>2, <1>3
<1>5. \/ rest = << >> /\ td1 = td
      \/ \E s \in StepSet : rest = << s >> /\ s.op \in {"take", "put"} /\ OneMore(td, u, s, td1)
  <2>1. CASE rest = << >>
    BY <1>1, <1>2, <2>1
  <2>2. ASSUME NEW s \in StepSet, rest = << s >>, s.op \in {"take", "put"}
        PROVE  OneMore(td, u, s, td1)
    <3>1. << s >> \o td[u] = << s >>
      BY <1>1
    <3>2. td1 = [td EXCEPT ![u] = << s >> \o td[u]]
      BY <1>2, <2>2, <3>1
    <3> QED
      BY <1>1, <3>2, PushOK
  <2> QED
    BY <2>1, <2>2 DEF Started
<1>6. \/ y = Nothing /\ td2 = td1
      \/ y \in Items /\ OneMore(td1, u, Drop(y), td2)
  <2>1. CASE y = Nothing
    <3>1. Drops(y) \o rest = rest
      BY <1>3, <2>1 DEF Drops
    <3> QED
      BY <1>1, <1>2, <2>1, <3>1
  <2>2. CASE y \in Items
    <3>1. Drops(y) = << Drop(y) >> /\ Drop(y) \in StepSet
      BY <2>2, HandlesAssumption, StepFacts DEF Drops
    <3>2. td2 = [td1 EXCEPT ![u] = << Drop(y) >> \o td1[u]]
      BY <1>1, <1>2, <1>4, <3>1
    <3> QED
      BY <1>1, <1>4, <2>2, <3>1, <3>2, PushOK
  <2> QED
    BY <1>1, <2>1, <2>2
<1> QED
  BY <1>4, <1>5, <1>6

LEMMA StartedFacts ==
    ASSUME NEW td, NEW u, NEW y, NEW rest, NEW td2, Started(td, u, y, rest, td2)
    PROVE  /\ td2 \in [Users -> Seq(StepSet)]
           /\ \A v \in Users : v # u => td2[v] = td[v]
           /\ \A d \in 1 .. Len(td2[u]) :
                  At(td2, u, d).op = "drop" \/ (d = 1 /\ rest = << At(td2, u, d) >>)
<1>1. td \in [Users -> Seq(StepSet)] /\ u \in Users /\ td[u] = << >>
      /\ td2 = [td EXCEPT ![u] = Drops(y) \o rest]
  BY DEF Started
<1>2. PICK td1 : /\ \/ y = Nothing /\ td2 = td1
                    \/ y \in Items /\ OneMore(td1, u, Drop(y), td2)
                 /\ td1 \in [Users -> Seq(StepSet)] /\ td1[u] = rest
  BY StartedSteps
<1>3. td2 \in [Users -> Seq(StepSet)]
  BY <1>2 DEF OneMore
<1>4. \A v \in Users : v # u => td2[v] = td[v]
  BY <1>1
<1>5. ASSUME NEW d \in 1 .. Len(rest) PROVE d = 1 /\ rest = << At(td1, u, d) >>
  <2>1. PICK s : rest = << s >>
    BY <1>5 DEF Started
  <2>2. d = 1 /\ Len(rest) = 1 /\ rest[1] = s
    BY <1>5, <2>1
  <2>3. Len(rest) + 1 - d = 1
    BY <2>2
  <2>4. At(td1, u, d) = s
    BY <1>2, <2>2, <2>3 DEF At
  <2> QED
    BY <2>1, <2>2, <2>4
<1>6. ASSUME NEW d \in 1 .. Len(td2[u])
      PROVE  At(td2, u, d).op = "drop" \/ (d = 1 /\ rest = << At(td2, u, d) >>)
  <2>1. CASE y = Nothing /\ td2 = td1
    BY <1>2, <1>5, <1>6, <2>1
  <2>2. CASE OneMore(td1, u, Drop(y), td2)
    <3>1. /\ Len(rest) \in Nat /\ Len(td2[u]) = Len(rest) + 1 /\ At(td2, u, Len(rest) + 1) = Drop(y)
          /\ \A e \in 1 .. Len(rest) : At(td2, u, e) = At(td1, u, e)
      BY <1>2, <2>2 DEF OneMore
    <3>2. d \in 1 .. Len(rest) \/ d = Len(rest) + 1
      BY <1>6, <3>1
    <3>3. Drop(y).op = "drop"
      BY DEF Drop
    <3> QED
      BY <1>5, <3>1, <3>2, <3>3
  <2> QED
    BY <1>2, <2>1, <2>2
<1> QED
  BY <1>3, <1>4, <1>6

LEMMA StartedCount ==
    ASSUME NEW td, NEW u, NEW y, NEW rest, NEW td2, Started(td, u, y, rest, td2), NEW x \in Items,
           IsFiniteSet(ByStep(td, Drop(x))), IsFiniteSet(ByStep(td, Free(x)))
    PROVE  /\ IsFiniteSet(ByStep(td2, Drop(x))) /\ IsFiniteSet(ByStep(td2, Free(x)))
           /\ Cardinality(ByStep(td2, Drop(x))) = Cardinality(ByStep(td, Drop(x))) + One(y = x)
           /\ Cardinality(ByStep(td2, Free(x))) = Cardinality(ByStep(td, Free(x)))
<1>1. PICK td1 : /\ \/ rest = << >> /\ td1 = td
                    \/ \E s \in StepSet : rest = << s >> /\ s.op \in {"take", "put"}
                                          /\ OneMore(td, u, s, td1)
                 /\ \/ y = Nothing /\ td2 = td1
                    \/ y \in Items /\ OneMore(td1, u, Drop(y), td2)
  BY StartedSteps
<1>2. PICK d, r, d1, r1, d2, r2 :
          /\ d = Cardinality(ByStep(td, Drop(x))) /\ r = Cardinality(ByStep(td, Free(x)))
          /\ d1 = Cardinality(ByStep(td1, Drop(x))) /\ r1 = Cardinality(ByStep(td1, Free(x)))
          /\ d2 = Cardinality(ByStep(td2, Drop(x))) /\ r2 = Cardinality(ByStep(td2, Free(x)))
  OBVIOUS
<1>3. /\ IsFiniteSet(ByStep(td1, Drop(x))) /\ IsFiniteSet(ByStep(td1, Free(x)))
      /\ d1 = d /\ r1 = r
  <2>1. CASE td1 = td
    BY <1>2, <2>1
  <2>2. ASSUME NEW s \in StepSet, s.op \in {"take", "put"}, OneMore(td, u, s, td1)
        PROVE  /\ IsFiniteSet(ByStep(td1, Drop(x))) /\ IsFiniteSet(ByStep(td1, Free(x)))
               /\ d1 = d /\ r1 = r
    <3>1. s.op \notin {"drop", "free"}
      BY <2>2
    <3> QED
      BY <1>2, <2>2, <3>1, OtherStep
  <2> QED
    BY <1>1, <2>1, <2>2
<1>4. d1 \in Nat /\ r1 \in Nat
  BY <1>2, <1>3, FS_CardinalityType
<1>5. CASE y = Nothing /\ td2 = td1
  <2>1. One(y = x) = 0
    BY <1>5, HandlesAssumption DEF One
  <2>2. d2 = d1 /\ r2 = r1 /\ d1 = d1 + 0
    BY <1>2, <1>4, <1>5
  <2> QED
    BY <1>2, <1>3, <1>5, <2>1, <2>2
<1>6. CASE OneMore(td1, u, Drop(y), td2)
  <2>1. IsFiniteSet(ByStep(td2, Drop(x))) /\ IsFiniteSet(ByStep(td2, Free(x)))
    BY <1>3, <1>6, OneMoreCount
  <2>2. d2 = d1 + One(Drop(y) = Drop(x))
    <3>1. Cardinality(ByStep(td2, Drop(x))) = Cardinality(ByStep(td1, Drop(x))) + One(Drop(y) = Drop(x))
      BY <1>3, <1>6, OneMoreCount
    <3> QED
      BY <1>2, <3>1
  <2>3. r2 = r1 + One(Drop(y) = Free(x))
    <3>1. Cardinality(ByStep(td2, Free(x))) = Cardinality(ByStep(td1, Free(x))) + One(Drop(y) = Free(x))
      BY <1>3, <1>6, OneMoreCount
    <3> QED
      BY <1>2, <3>1
  <2>4. One(Drop(y) = Drop(x)) = One(y = x) /\ One(Drop(y) = Free(x)) = 0
    BY StepFacts DEF One
  <2>5. d2 = d1 + One(y = x) /\ r2 = r1
    BY <1>4, <2>2, <2>3, <2>4
  <2> QED
    BY <1>2, <1>3, <2>1, <2>5
<1> QED
  BY <1>1, <1>5, <1>6

\* n claims more of an object x, by the form and the count it gets.
Grown(x, n) ==
    \A c, r \in Nat : Tally(form[x], count[x], c, r) => Tally(form'[x], count'[x], c + n, r)

\* What a handle or a field gave up is released, and the rest is new.
LEMMA CallExact ==
    ASSUME HandlesInv, NEW u, NEW y, NEW rest, NEW td2, td2 = todo', Started(todo, u, y, rest, td2),
           NEW x \in Items, NEW n \in Nat, Grown(x, n),
           Cardinality(ByHandle(value', x)) + Cardinality(ByField(field', x))
               = Cardinality(ByHandle(value, x)) + Cardinality(ByField(field, x)) - One(y = x) + n
    PROVE  Exact(x)'
<1>1. Exact(x)
  BY DEF HandlesInv
<1>2. PICK h, f, d, r, hh, f2, d2, r2 :
          /\ h = Cardinality(ByHandle(value, x)) /\ f = Cardinality(ByField(field, x))
          /\ d = Cardinality(ByStep(todo, Drop(x))) /\ r = Cardinality(ByStep(todo, Free(x)))
          /\ hh = Cardinality(ByHandle(value', x)) /\ f2 = Cardinality(ByField(field', x))
          /\ d2 = Cardinality(ByStep(td2, Drop(x))) /\ r2 = Cardinality(ByStep(td2, Free(x)))
  OBVIOUS
<1>3. h \in Nat /\ f \in Nat /\ d \in Nat /\ r \in Nat /\ Tally(form[x], count[x], h + f + d, r)
  BY <1>1, <1>2, Numbers DEF Exact
<1>4. /\ IsFiniteSet(ByStep(td2, Drop(x))) /\ IsFiniteSet(ByStep(td2, Free(x)))
      /\ d2 = d + One(y = x) /\ r2 = r
  <2>1. IsFiniteSet(ByStep(todo, Drop(x))) /\ IsFiniteSet(ByStep(todo, Free(x)))
    BY <1>1 DEF Exact
  <2> QED
    BY <1>2, <2>1, StartedCount
<1>5. hh \in Nat /\ f2 \in Nat
  <2>1. PICK val2, fld2 : val2 = value' /\ fld2 = field'
    OBVIOUS
  <2>2. Cardinality(ByHandle(val2, x)) \in Nat /\ Cardinality(ByField(fld2, x)) \in Nat
    BY HandlesFinite, FieldsFinite
  <2> QED
    BY <1>2, <2>1, <2>2
<1>6. hh + f2 = h + f - One(y = x) + n
  BY <1>2
<1>7. hh + f2 + d2 = (h + f + d) + n
  <2>1. One(y = x) \in Nat
    BY DEF One
  <2> QED
    BY <1>3, <1>4, <1>5, <1>6, <2>1
<1>8. Tally(form'[x], count'[x], hh + f2 + d2, r2)
  <2>1. h + f + d \in Nat
    BY <1>3
  <2> QED
    BY <1>3, <1>4, <1>7, <2>1 DEF Grown
<1> QED
  BY <1>2, <1>4, <1>8 DEF Exact

LEMMA NotGrown ==
    ASSUME NEW x \in Items, form'[x] = form[x], count'[x] = count[x]
    PROVE  Grown(x, 0)
<1>1. \A c \in Nat : c + 0 = c
  OBVIOUS
<1> QED
  BY <1>1 DEF Grown

LEMMA FreshGrown ==
    ASSUME NEW x \in Items, form[x] = "free", form'[x] \in {"object", "value", "plain"},
           count'[x] = (IF form'[x] = "value" THEN 0 ELSE 1)
    PROVE  Grown(x, 1)
BY DEF Grown, Tally

\* A call that only releases has nothing left to copy.
LEMMA ReleaseOnly ==
    ASSUME NEW u, NEW y, NEW td2, td2 = todo', Started(todo, u, y, << >>, td2)
    PROVE  CallOK(u)'
<1>1. PICK rest : rest = << >> /\ Started(todo, u, y, rest, td2)
  OBVIOUS
<1>2. \A d \in 1 .. Len(td2[u]) : At(td2, u, d).op = "drop" \/ rest = << At(td2, u, d) >>
  <2>1. Started(todo, u, y, rest, td2)
    BY <1>1
  <2> QED
    BY <2>1, StartedFacts
<1>3. \A s : << >> # << s >>
  OBVIOUS
<1>4. \A d \in 1 .. Len(todo'[u]) : At(todo', u, d).op = "drop"
  BY <1>1, <1>2, <1>3
<1> QED
  BY <1>4 DEF CallOK

\* An object is taken from its pool.
Fresh(i, f) ==
    /\ form[i] = "free" /\ form' = [form EXCEPT ![i] = f]
    /\ count' = [count EXCEPT ![i] = IF f = "value" THEN 0 ELSE 1]

LEMMA FreshFacts ==
    ASSUME HandlesInv, NEW i \in Items, NEW f \in {"object", "value", "plain"}, Fresh(i, f)
    PROVE  /\ form' \in [Items -> {"free", "object", "value", "plain"}] /\ count' \in [Items -> Int]
           /\ \A x \in Items : form[x] # "free" => form'[x] = form[x]
           /\ \A x \in Items : Grown(x, One(i = x))
<1>1. form \in [Items -> {"free", "object", "value", "plain"}] /\ count \in [Items -> Int]
  BY DEF HandlesInv, HandlesType
<1>2. /\ form[i] = "free" /\ form' = [form EXCEPT ![i] = f]
      /\ count' = [count EXCEPT ![i] = IF f = "value" THEN 0 ELSE 1]
  BY DEF Fresh
<1>3. form' \in [Items -> {"free", "object", "value", "plain"}] /\ count' \in [Items -> Int]
  BY <1>1, <1>2
<1>4. ASSUME NEW x \in Items PROVE Grown(x, One(i = x))
  <2>1. CASE x = i
    <3>1. form[x] = "free" /\ form'[x] = f /\ count'[x] = IF f = "value" THEN 0 ELSE 1
      BY <1>1, <1>2, <2>1
    <3>2. Grown(x, 1)
      BY <3>1, FreshGrown
    <3>3. One(i = x) = 1
      BY <2>1 DEF One
    <3> QED
      BY <3>2, <3>3
  <2>2. CASE x # i
    <3>1. form'[x] = form[x] /\ count'[x] = count[x]
      BY <1>1, <1>2, <2>2
    <3>2. Grown(x, 0)
      BY <3>1, NotGrown
    <3>3. One(i = x) = 0
      BY <2>2 DEF One
    <3> QED
      BY <3>2, <3>3
  <2> QED
    BY <2>1, <2>2
<1> QED
  BY <1>1, <1>2, <1>3, <1>4

\* A thread that keeps its steps starts a call with none.
LEMMA NoSteps ==
    ASSUME HandlesInv, NEW u \in Users, Idle(u), NEW td2, td2 = todo
    PROVE  Started(todo, u, Nothing, << >>, td2)
<1>1. todo \in [Users -> Seq(StepSet)] /\ todo[u] = << >>
  BY DEF HandlesInv, HandlesType, Idle
<1>2. Drops(Nothing) \o << >> = << >>
  BY DEF Drops
<1>3. todo = [todo EXCEPT ![u] = Drops(Nothing) \o << >>]
  BY <1>1, <1>2
<1> QED
  BY <1>1, <1>3 DEF Started, ItemsOrNothing

LEMMA OneNat == \A c : One(c) \in Nat /\ (\A x \in Items : One(Nothing = x) = 0)
BY HandlesAssumption DEF One

LEMMA ConstructInv ==
    ASSUME HandlesInv, NEW u \in Users, NEW hd \in Handles, NEW i \in Items,
           NEW f \in {"object", "value", "plain"}, Construct(u, hd, i, f)
    PROVE  HandlesInv'
<1>1. /\ HandlesType /\ Idle(u) /\ Owner[hd] = u /\ value[hd] = Nothing
      /\ value' = [value EXCEPT ![hd] = i] /\ UNCHANGED <<field, todo>> /\ Fresh(i, f)
  BY DEF HandlesInv, Construct, Fresh
<1>2. /\ form' \in [Items -> {"free", "object", "value", "plain"}] /\ count' \in [Items -> Int]
      /\ \A x \in Items : form[x] # "free" => form'[x] = form[x]
      /\ \A x \in Items : Grown(x, One(i = x))
  BY <1>1, FreshFacts
<1>3. HandlesType'
  BY <1>1, <1>2 DEF HandlesType, ItemsOrNothing
<1>4. PICK td2, val2 : td2 = todo' /\ val2 = value' /\ Started(todo, u, Nothing, << >>, td2)
  BY <1>1, NoSteps
<1>5. ASSUME NEW x \in Items PROVE Exact(x)'
  <2>1. Repointed(value, hd, i, val2)
    BY <1>1, <1>4 DEF HandlesType, Repointed
  <2>2. Cardinality(ByHandle(val2, x)) = Cardinality(ByHandle(value, x)) - One(value[hd] = x) + One(i = x)
    BY <2>1, HandleSet
  <2>3. PICK h, hh, f1, n : /\ h = Cardinality(ByHandle(value, x)) /\ hh = Cardinality(ByHandle(value', x))
                            /\ f1 = Cardinality(ByField(field, x)) /\ n = One(i = x)
    OBVIOUS
  <2>4. h \in Nat /\ f1 \in Nat /\ n \in Nat /\ One(value[hd] = x) = 0 /\ One(Nothing = x) = 0
    BY <1>1, <2>3, HandlesFinite, FieldsFinite, OneNat
  <2>5. hh + f1 = h + f1 - One(Nothing = x) + n
    BY <1>4, <2>2, <2>3, <2>4
  <2>6. Cardinality(ByHandle(value', x)) + Cardinality(ByField(field', x))
            = Cardinality(ByHandle(value, x)) + Cardinality(ByField(field, x)) - One(Nothing = x) + n
    BY <1>1, <2>3, <2>5
  <2>7. Grown(x, n)
    BY <1>2, <2>3
  <2> QED
    BY <1>4, <2>4, <2>6, <2>7, CallExact
<1>6. Flat'
  BY <1>1, <1>2, FlatForms
<1>7. Discreet(u)
  <2>1. (\A e \in Handles : e # hd => value'[e] = value[e]) /\ value'[hd] = i
    BY <1>1 DEF HandlesType
  <2>2. \A e \in Handles : value[e] # Nothing => form'[value[e]] = form[value[e]]
    BY <1>2, HeldFacts
  <2>3. form[i] = "free"
    BY <1>1 DEF Fresh
  <2>4. \A e \in Handles : value'[e] # value[e] => form[value'[e]] = "free" /\ Owner[e] = u
    BY <1>1, <2>1, <2>3
  <2> QED
    BY <1>1, <2>2, <2>4 DEF Discreet
<1>8. CallOK(u)'
  BY <1>4, ReleaseOnly
<1>9. \A v \in Users : CallOK(v)'
  BY <1>7, <1>8, OthersKept
<1>10. Calls'
  BY <1>9 DEF Calls, CallOK
<1> QED
  BY <1>3, <1>5, <1>6, <1>10 DEF HandlesInv

LEMMA DropsOnly ==
    ASSUME HandlesInv, NEW u \in Users, Idle(u), NEW y \in ItemsOrNothing, NEW td2,
           td2 = [todo EXCEPT ![u] = Drops(y)]
    PROVE  Started(todo, u, y, << >>, td2)
<1>1. todo \in [Users -> Seq(StepSet)] /\ todo[u] = << >>
  BY DEF HandlesInv, HandlesType, Idle
<1>2. Drops(y) \o << >> = Drops(y)
  BY DEF Drops
<1> QED
  BY <1>1, <1>2 DEF Started

LEMMA BecomesInv ==
    ASSUME HandlesInv, NEW u \in Users, NEW hd \in Handles, NEW i \in Items,
           NEW f \in {"object", "value"}, Becomes(u, hd, i, f)
    PROVE  HandlesInv'
<1>1. /\ HandlesType /\ Idle(u) /\ Owner[hd] = u /\ value[hd] # Nothing
      /\ value' = [value EXCEPT ![hd] = i] /\ UNCHANGED field /\ Fresh(i, f)
      /\ todo' = [todo EXCEPT ![u] = Drops(value[hd])]
  BY DEF HandlesInv, Becomes, Fresh
<1>2. /\ form' \in [Items -> {"free", "object", "value", "plain"}] /\ count' \in [Items -> Int]
      /\ \A x \in Items : form[x] # "free" => form'[x] = form[x]
      /\ \A x \in Items : Grown(x, One(i = x))
  BY <1>1, FreshFacts
<1>3. PICK td2, val2, y : td2 = todo' /\ val2 = value' /\ y = value[hd]
  OBVIOUS
<1>4. Started(todo, u, y, << >>, td2)
  <2>1. y \in ItemsOrNothing /\ td2 = [todo EXCEPT ![u] = Drops(y)]
    BY <1>1, <1>3, HandlesTypeFacts
  <2> QED
    BY <1>1, <2>1, DropsOnly
<1>5. HandlesType'
  <2>1. todo' \in [Users -> Seq(StepSet)]
    BY <1>3, <1>4, StartedFacts
  <2> QED
    BY <1>1, <1>2, <2>1 DEF HandlesType, ItemsOrNothing
<1>6. ASSUME NEW x \in Items PROVE Exact(x)'
  <2>1. Repointed(value, hd, i, val2)
    BY <1>1, <1>3 DEF HandlesType, Repointed
  <2>2. Cardinality(ByHandle(val2, x)) = Cardinality(ByHandle(value, x)) - One(value[hd] = x) + One(i = x)
    BY <2>1, HandleSet
  <2>3. PICK h, hh, f1, n, o : /\ h = Cardinality(ByHandle(value, x)) /\ hh = Cardinality(ByHandle(value', x))
                               /\ f1 = Cardinality(ByField(field, x)) /\ n = One(i = x) /\ o = One(y = x)
    OBVIOUS
  <2>4. h \in Nat /\ f1 \in Nat /\ n \in Nat /\ o \in Nat
    BY <2>3, HandlesFinite, FieldsFinite, OneNat
  <2>5. hh = h - o + n
    BY <1>3, <2>2, <2>3
  <2>6. hh + f1 = h + f1 - o + n
    BY <2>4, <2>5
  <2>7. Cardinality(ByHandle(value', x)) + Cardinality(ByField(field', x))
            = Cardinality(ByHandle(value, x)) + Cardinality(ByField(field, x)) - One(y = x) + n
    BY <1>1, <2>3, <2>6
  <2>8. Grown(x, n)
    BY <1>2, <2>3
  <2> QED
    BY <1>3, <1>4, <2>4, <2>7, <2>8, CallExact
<1>7. Flat'
  BY <1>1, <1>2, FlatForms
<1>8. Discreet(u)
  <2>1. (\A e \in Handles : e # hd => value'[e] = value[e]) /\ value'[hd] = i
    BY <1>1 DEF HandlesType
  <2>2. \A e \in Handles : value[e] # Nothing => form'[value[e]] = form[value[e]]
    BY <1>2, HeldFacts
  <2>3. form[i] = "free"
    BY <1>1 DEF Fresh
  <2>4. \A e \in Handles : value'[e] # value[e] => form[value'[e]] = "free" /\ Owner[e] = u
    BY <1>1, <2>1, <2>3
  <2>5. \A v \in Users : v # u => todo'[v] = todo[v]
    BY <1>3, <1>4, StartedFacts
  <2> QED
    BY <1>1, <2>2, <2>4, <2>5 DEF Discreet
<1>9. CallOK(u)'
  BY <1>3, <1>4, ReleaseOnly
<1>10. \A v \in Users : CallOK(v)'
  BY <1>8, <1>9, OthersKept
<1>11. Calls'
  BY <1>10 DEF Calls, CallOK
<1> QED
  BY <1>5, <1>6, <1>7, <1>11 DEF HandlesInv

\* A handle, or a field, gives up what it has.
LEMMA HandleGivesUp ==
    ASSUME HandlesInv, UNCHANGED <<form, count, field>>, NEW hd, NEW val2, val2 = value',
           Repointed(value, hd, Nothing, val2), NEW y, y = value[hd],
           NEW u, NEW rest, NEW td2, td2 = todo', Started(todo, u, y, rest, td2), NEW x \in Items
    PROVE  Exact(x)'
<1>1. Cardinality(ByHandle(val2, x))
          = Cardinality(ByHandle(value, x)) - One(value[hd] = x) + One(Nothing = x)
  BY HandleSet
<1>2. PICK h, hh, f1, o : /\ h = Cardinality(ByHandle(value, x)) /\ hh = Cardinality(ByHandle(val2, x))
                          /\ f1 = Cardinality(ByField(field, x)) /\ o = One(y = x)
  OBVIOUS
<1>3. h \in Nat /\ f1 \in Nat /\ o \in Nat /\ One(Nothing = x) = 0
  BY <1>2, HandlesFinite, FieldsFinite, OneNat
<1>4. hh = h - o + 0
  BY <1>1, <1>2, <1>3
<1>5. hh + f1 = h + f1 - o + 0
  BY <1>3, <1>4
<1>6. Cardinality(ByHandle(value', x)) + Cardinality(ByField(field', x))
          = Cardinality(ByHandle(value, x)) + Cardinality(ByField(field, x)) - One(y = x) + 0
  BY <1>2, <1>5
<1>7. Grown(x, 0)
  BY NotGrown
<1>8. 0 \in Nat
  OBVIOUS
<1> QED
  BY <1>6, <1>7, <1>8, CallExact

LEMMA FieldGivesUp ==
    ASSUME HandlesInv, UNCHANGED <<form, count, value>>, NEW j, NEW k, NEW fld2, fld2 = field',
           Refilled(field, j, k, Nothing, fld2), NEW y, y = field[j][k],
           NEW u, NEW rest, NEW td2, td2 = todo', Started(todo, u, y, rest, td2), NEW x \in Items
    PROVE  Exact(x)'
<1>1. Cardinality(ByField(fld2, x))
          = Cardinality(ByField(field, x)) - One(field[j][k] = x) + One(Nothing = x)
  BY FieldSet
<1>2. PICK f, f2, hv, o : /\ f = Cardinality(ByField(field, x)) /\ f2 = Cardinality(ByField(fld2, x))
                          /\ hv = Cardinality(ByHandle(value, x)) /\ o = One(y = x)
  OBVIOUS
<1>3. f \in Nat /\ hv \in Nat /\ o \in Nat /\ One(Nothing = x) = 0
  BY <1>2, HandlesFinite, FieldsFinite, OneNat
<1>4. f2 = f - o + 0
  BY <1>1, <1>2, <1>3
<1>5. hv + f2 = hv + f - o + 0
  BY <1>3, <1>4
<1>6. Cardinality(ByHandle(value', x)) + Cardinality(ByField(field', x))
          = Cardinality(ByHandle(value, x)) + Cardinality(ByField(field, x)) - One(y = x) + 0
  BY <1>2, <1>5
<1>7. Grown(x, 0)
  BY NotGrown
<1>8. 0 \in Nat
  OBVIOUS
<1> QED
  BY <1>6, <1>7, <1>8, CallExact

LEMMA DestroyInv ==
    ASSUME HandlesInv, NEW u \in Users, NEW hd \in Handles, Destroy(u, hd)
    PROVE  HandlesInv'
<1>1. /\ HandlesType /\ Idle(u) /\ Owner[hd] = u /\ value' = [value EXCEPT ![hd] = Nothing]
      /\ UNCHANGED <<form, count, field>> /\ todo' = [todo EXCEPT ![u] = Drops(value[hd])]
  BY DEF HandlesInv, Destroy
<1>2. PICK td2, val2, y : td2 = todo' /\ val2 = value' /\ y = value[hd]
  OBVIOUS
<1>3. Started(todo, u, y, << >>, td2)
  <2>1. y \in ItemsOrNothing /\ td2 = [todo EXCEPT ![u] = Drops(y)]
    BY <1>1, <1>2, HandlesTypeFacts
  <2> QED
    BY <1>1, <2>1, DropsOnly
<1>4. HandlesType'
  <2>1. todo' \in [Users -> Seq(StepSet)]
    BY <1>2, <1>3, StartedFacts
  <2> QED
    BY <1>1, <2>1 DEF HandlesType, ItemsOrNothing
<1>5. ASSUME NEW x \in Items PROVE Exact(x)'
  <2>1. Repointed(value, hd, Nothing, val2)
    BY <1>1, <1>2 DEF HandlesType, Repointed
  <2> QED
    BY <1>1, <1>2, <1>3, <2>1, HandleGivesUp
<1>6. Flat'
  BY <1>1, FlatForms
<1>7. Discreet(u)
  <2>1. (\A e \in Handles : e # hd => value'[e] = value[e]) /\ value'[hd] = Nothing
    BY <1>1 DEF HandlesType
  <2>2. \A v \in Users : v # u => todo'[v] = todo[v]
    BY <1>2, <1>3, StartedFacts
  <2> QED
    BY <1>1, <2>1, <2>2 DEF Discreet
<1>8. CallOK(u)'
  BY <1>2, <1>3, ReleaseOnly
<1>9. \A v \in Users : CallOK(v)'
  BY <1>7, <1>8, OthersKept
<1>10. Calls'
  BY <1>9 DEF Calls, CallOK
<1> QED
  BY <1>4, <1>5, <1>6, <1>10 DEF HandlesInv

LEMMA MoveAssignInv ==
    ASSUME HandlesInv, NEW u \in Users, NEW hd \in Handles, NEW g \in Handles, MoveAssign(u, hd, g)
    PROVE  HandlesInv'
<1>1. /\ HandlesType /\ Idle(u) /\ Owner[hd] = u /\ Owner[g] = u /\ hd # g
      /\ value' = [value EXCEPT ![hd] = value[g], ![g] = Nothing]
      /\ UNCHANGED <<form, count, field>> /\ todo' = [todo EXCEPT ![u] = Drops(value[hd])]
  BY DEF HandlesInv, MoveAssign
<1>2. PICK td2, val1, val2, y, z : /\ td2 = todo' /\ val2 = value' /\ y = value[hd] /\ z = value[g]
                                   /\ val1 = [value EXCEPT ![hd] = z]
  OBVIOUS
<1>3. Started(todo, u, y, << >>, td2)
  <2>1. y \in ItemsOrNothing /\ td2 = [todo EXCEPT ![u] = Drops(y)]
    BY <1>1, <1>2, HandlesTypeFacts
  <2> QED
    BY <1>1, <2>1, DropsOnly
<1>4. /\ value \in [Handles -> ItemsOrNothing] /\ val1 \in [Handles -> ItemsOrNothing]
      /\ val2 \in [Handles -> ItemsOrNothing] /\ val1[g] = z /\ val2 = [val1 EXCEPT ![g] = Nothing]
  <2>1. value \in [Handles -> ItemsOrNothing] /\ z \in ItemsOrNothing
    BY <1>1, <1>2, HandlesTypeFacts DEF HandlesType
  <2>2. val1 \in [Handles -> ItemsOrNothing] /\ val1[g] = z
    BY <1>1, <1>2, <2>1
  <2>3. val2 = [val1 EXCEPT ![g] = Nothing]
    BY <1>1, <1>2, <2>1, <2>2
  <2> QED
    BY <2>1, <2>2, <2>3 DEF ItemsOrNothing
<1>5. HandlesType'
  <2>1. todo' \in [Users -> Seq(StepSet)]
    BY <1>2, <1>3, StartedFacts
  <2> QED
    BY <1>1, <1>2, <1>4, <2>1 DEF HandlesType
<1>6. ASSUME NEW x \in Items PROVE Exact(x)'
  <2>1. Repointed(value, hd, z, val1) /\ Repointed(val1, g, Nothing, val2)
    BY <1>2, <1>4 DEF Repointed
  <2>2. /\ Cardinality(ByHandle(val1, x))
               = Cardinality(ByHandle(value, x)) - One(value[hd] = x) + One(z = x)
        /\ Cardinality(ByHandle(val2, x))
               = Cardinality(ByHandle(val1, x)) - One(val1[g] = x) + One(Nothing = x)
    BY <2>1, HandleSet
  <2>3. PICK h, hv, hh, f1, o, p : /\ h = Cardinality(ByHandle(value, x))
                                   /\ hv = Cardinality(ByHandle(val1, x))
                                   /\ hh = Cardinality(ByHandle(val2, x))
                                   /\ f1 = Cardinality(ByField(field, x))
                                   /\ o = One(y = x) /\ p = One(z = x)
    OBVIOUS
  <2>4. /\ h \in Nat /\ hv \in Nat /\ f1 \in Nat /\ o \in Nat /\ p \in Nat /\ One(Nothing = x) = 0
    BY <2>3, HandlesFinite, FieldsFinite, OneNat
  <2>5. hv = h - o + p /\ hh = hv - p + 0
    BY <1>2, <1>4, <2>2, <2>3, <2>4
  <2>6. hh + f1 = h + f1 - o + 0
    BY <2>4, <2>5
  <2>7. Cardinality(ByHandle(value', x)) + Cardinality(ByField(field', x))
            = Cardinality(ByHandle(value, x)) + Cardinality(ByField(field, x)) - One(y = x) + 0
    BY <1>1, <1>2, <2>3, <2>6
  <2>8. Grown(x, 0) /\ 0 \in Nat
    BY <1>1, NotGrown
  <2> QED
    BY <1>2, <1>3, <2>7, <2>8, CallExact
<1>7. Flat'
  BY <1>1, FlatForms
<1>8. Discreet(u)
  <2>1. /\ \A e \in Handles : e # hd /\ e # g => value'[e] = value[e]
        /\ value'[hd] = value[g] /\ value'[g] = Nothing
    BY <1>1, <1>4
  <2>2. \A v \in Users : v # u => todo'[v] = todo[v]
    BY <1>2, <1>3, StartedFacts
  <2>3. value[g] # Nothing => value[g] \in Reaches(g)
    BY DEF Reaches
  <2>4. \A e \in Handles : value'[e] # value[e] /\ value'[e] # Nothing =>
            \E a \in Handles : Owner[a] = u /\ value'[e] \in Reaches(a)
    BY <1>1, <2>1, <2>3
  <2> QED
    BY <1>1, <2>1, <2>2, <2>4 DEF Discreet
<1>9. CallOK(u)'
  BY <1>2, <1>3, ReleaseOnly
<1>10. \A v \in Users : CallOK(v)'
  BY <1>8, <1>9, OthersKept
<1>11. Calls'
  BY <1>10 DEF Calls, CallOK
<1> QED
  BY <1>5, <1>6, <1>7, <1>11 DEF HandlesInv

\* The one step behind the releases of a call.
LEMMA CopyLast ==
    ASSUME NEW u, NEW y, NEW s, NEW td2, td2 = todo', Started(todo, u, y, << s >>, td2),
           s.op = "take" => TakeOK(u, s)', s.op = "put" => PutOK(u, s)'
    PROVE  CallOK(u)'
<1> SUFFICES ASSUME NEW d \in 1 .. Len(todo'[u]), NEW step, step = At(todo', u, d),
                    step.op \in {"take", "put"}
             PROVE  /\ d = 1
                    /\ step.op = "take" => TakeOK(u, step)'
                    /\ step.op = "put" => PutOK(u, step)'
  BY DEF CallOK, TakeOK, PutOK, Source
<1>1. PICK rest : rest = << s >>
  OBVIOUS
<1>2. step.op = "drop" \/ (d = 1 /\ rest = << step >>)
  <2>1. Started(todo, u, y, rest, td2)
    BY <1>1
  <2>2. \A e \in 1 .. Len(td2[u]) : At(td2, u, e).op = "drop" \/ (e = 1 /\ rest = << At(td2, u, e) >>)
    BY <2>1, StartedFacts
  <2> QED
    BY <2>2
<1>3. d = 1 /\ step = s
  BY <1>1, <1>2
<1> QED
  BY <1>3

LEMMA CopyAssignInv ==
    ASSUME HandlesInv, NEW u \in Users, NEW hd \in Handles, NEW g \in Handles, CopyAssign(u, hd, g)
    PROVE  HandlesInv'
<1>1. /\ HandlesType /\ Idle(u) /\ Owner[hd] = u /\ Owner[g] = u /\ hd # g
      /\ value' = [value EXCEPT ![hd] = Nothing] /\ UNCHANGED <<form, count, field>>
  BY DEF HandlesInv, CopyAssign
<1>2. PICK source : /\ source \in {value[g]} \cup (IF value[g] = Nothing THEN {} ELSE Inside(value[g]))
                    /\ todo' = [todo EXCEPT ![u] = Drops(value[hd]) \o << Take(hd, source) >>]
  BY DEF CopyAssign
<1>3. source = Nothing \/ source \in Reaches(g)
  BY <1>2 DEF Reaches
<1>4. source \in ItemsOrNothing
  BY <1>3, ReachesFacts DEF ItemsOrNothing
<1>5. PICK td2, val2, y, s : td2 = todo' /\ val2 = value' /\ y = value[hd] /\ s = Take(hd, source)
  OBVIOUS
<1>6. /\ s \in StepSet /\ s.op = "take" /\ s.handle = hd /\ s.item = source
  BY <1>4, <1>5, StepFacts DEF Take
<1>7. Started(todo, u, y, << s >>, td2)
  <2>1. y \in ItemsOrNothing /\ td2 = [todo EXCEPT ![u] = Drops(y) \o << s >>]
    BY <1>1, <1>2, <1>5, HandlesTypeFacts
  <2>2. todo \in [Users -> Seq(StepSet)] /\ todo[u] = << >>
    BY <1>1 DEF HandlesType, Idle
  <2> QED
    BY <1>6, <2>1, <2>2 DEF Started
<1>8. HandlesType'
  <2>1. todo' \in [Users -> Seq(StepSet)]
    BY <1>5, <1>7, StartedFacts
  <2> QED
    BY <1>1, <2>1 DEF HandlesType, ItemsOrNothing
<1>9. ASSUME NEW x \in Items PROVE Exact(x)'
  <2>1. Repointed(value, hd, Nothing, val2)
    BY <1>1, <1>5 DEF HandlesType, Repointed
  <2> QED
    BY <1>1, <1>5, <1>7, <2>1, HandleGivesUp
<1>10. Flat'
  BY <1>1, FlatForms
<1>11. (\A e \in Handles : e # hd => value'[e] = value[e]) /\ value'[hd] = Nothing
  BY <1>1 DEF HandlesType
<1>12. Discreet(u)
  <2>1. \A v \in Users : v # u => todo'[v] = todo[v]
    BY <1>5, <1>7, StartedFacts
  <2> QED
    BY <1>1, <1>11, <2>1 DEF Discreet
<1>13. TakeOK(u, s)'
  <2>1. source # Nothing => Source(u, source)'
    <3> SUFFICES ASSUME source # Nothing PROVE Source(u, source)'
      OBVIOUS
    <3>1. source \in Reaches(g)'
      BY <1>1, <1>3, <1>11 DEF Reaches, Inside
    <3> QED
      BY <1>1, <3>1 DEF Source
  <2> QED
    BY <1>1, <1>6, <1>11, <2>1 DEF TakeOK
<1>14. CallOK(u)'
  BY <1>5, <1>6, <1>7, <1>13, CopyLast
<1>15. \A v \in Users : CallOK(v)'
  BY <1>12, <1>14, OthersKept
<1>16. Calls'
  BY <1>15 DEF Calls, CallOK
<1> QED
  BY <1>8, <1>9, <1>10, <1>16 DEF HandlesInv

\* Taking something out of an object leaves the fields in order.
LEMMA FlatLess ==
    ASSUME HandlesInv, UNCHANGED form,
           \A x \in Items, k \in Fields : field'[x][k] \in {field[x][k], Nothing}
    PROVE  Flat'
<1>1. HandlesType /\ Flat
  BY DEF HandlesInv
<1>2. ASSUME NEW x \in Items, form'[x] # "object" PROVE \A l \in Fields : field'[x][l] = Nothing
  BY <1>1, <1>2 DEF Flat, Empty
<1>3. ASSUME NEW x \in Items, NEW l \in Fields, field'[x][l] # Nothing
      PROVE  /\ \A b \in Fields : field'[field'[x][l]][b] = Nothing
             /\ form'[field'[x][l]] # "plain"
  <2>1. PICK y : y = field[x][l] /\ y = field'[x][l] /\ y # Nothing
    BY <1>3
  <2>2. y \in Items
    BY <2>1, HeldFacts
  <2>3. Empty(field, y) /\ form[y] # "plain"
    BY <1>1, <2>1 DEF Flat
  <2>4. \A b \in Fields : field'[y][b] = Nothing
    BY <2>2, <2>3 DEF Empty
  <2> QED
    BY <2>1, <2>3, <2>4
<1> QED
  BY <1>2, <1>3 DEF Flat, Empty

\* A thread takes something out of an object that no other thread can reach.
LEMMA PrivateField ==
    ASSUME HandlesInv, NEW u \in Users, NEW hd \in Handles, NEW k \in Fields,
           value[hd] # Nothing, Private(u, hd), UNCHANGED <<form, count, value>>,
           field' = [field EXCEPT ![value[hd]][k] = Nothing],
           NEW rest, NEW td2, td2 = todo', Started(todo, u, field[value[hd]][k], rest, td2)
    PROVE  /\ HandlesType' /\ (\A x \in Items : Exact(x)') /\ Flat' /\ Discreet(u)
           /\ \A g \in Handles : value[g] = value[hd] => Owner[g] = u
<1>1. HandlesType
  BY DEF HandlesInv
<1>2. PICK j, y, fld2 : j = value[hd] /\ y = field[value[hd]][k] /\ fld2 = field' /\ j \in Items
  BY HeldFacts
<1>3. field \in [Items -> [Fields -> ItemsOrNothing]] /\ field' = [field EXCEPT ![j][k] = Nothing]
  BY <1>1, <1>2 DEF HandlesType
<1>4. /\ \A x \in Items, l \in Fields : x # j \/ l # k => field'[x][l] = field[x][l]
      /\ field'[j][k] = Nothing /\ field' \in [Items -> [Fields -> ItemsOrNothing]]
  BY <1>2, <1>3 DEF ItemsOrNothing
<1>5. td2 \in [Users -> Seq(StepSet)] /\ \A v \in Users : v # u => td2[v] = todo[v]
  BY StartedFacts
<1>6. HandlesType'
  BY <1>1, <1>4, <1>5 DEF HandlesType
<1>7. ASSUME NEW x \in Items PROVE Exact(x)'
  <2>1. Refilled(field, j, k, Nothing, fld2) /\ y = field[j][k] /\ Started(todo, u, y, rest, td2)
    BY <1>2, <1>3 DEF Refilled
  <2> QED
    BY <1>2, <2>1, FieldGivesUp
<1>8. Flat'
  BY <1>4, FlatLess
<1>9. ASSUME NEW g \in Handles, value[g] = value[hd] PROVE Owner[g] = u
  <2>1. j \in Reaches(g) /\ j \in Reaches(hd)
    BY <1>2, <1>9 DEF Reaches
  <2> QED
    BY <2>1 DEF Private
<1>10. Discreet(u)
  <2>1. \A g \in Handles : Owner[g] # u /\ value[g] # Nothing =>
            \A l \in Fields : field'[value[g]][l] = field[value[g]][l]
    BY <1>2, <1>4, <1>9, HeldFacts
  <2>2. \A v \in Users : v # u => todo'[v] = todo[v]
    BY <1>5
  <2>3. \A x \in Items, l \in Fields : field'[x][l] # field[x][l] => field'[x][l] = Nothing
    BY <1>4
  <2> QED
    BY <2>1, <2>2, <2>3 DEF Discreet
<1> QED
  BY <1>6, <1>7, <1>8, <1>9, <1>10

LEMMA RemoveFieldInv ==
    ASSUME HandlesInv, NEW u \in Users, NEW hd \in Handles, NEW k \in Fields, RemoveField(u, hd, k)
    PROVE  HandlesInv'
<1>1. /\ HandlesType /\ Idle(u) /\ value[hd] # Nothing /\ Private(u, hd)
      /\ UNCHANGED <<form, count, value>> /\ field' = [field EXCEPT ![value[hd]][k] = Nothing]
      /\ todo' = [todo EXCEPT ![u] = Drops(field[value[hd]][k])]
  BY DEF HandlesInv, RemoveField
<1>2. PICK td2, y : td2 = todo' /\ y = field[value[hd]][k]
  OBVIOUS
<1>3. Started(todo, u, y, << >>, td2)
  <2>1. value[hd] \in Items
    BY <1>1, HeldFacts
  <2>2. y \in ItemsOrNothing /\ td2 = [todo EXCEPT ![u] = Drops(y)]
    BY <1>1, <1>2, <2>1, HandlesTypeFacts
  <2> QED
    BY <1>1, <2>2, DropsOnly
<1>4. HandlesType' /\ (\A x \in Items : Exact(x)') /\ Flat' /\ Discreet(u)
  <2>1. PICK rest : rest = << >>
    OBVIOUS
  <2>2. Started(todo, u, field[value[hd]][k], rest, td2)
    BY <1>2, <1>3, <2>1
  <2> QED
    BY <1>1, <1>2, <2>2, PrivateField
<1>5. CallOK(u)'
  BY <1>2, <1>3, ReleaseOnly
<1>6. \A v \in Users : CallOK(v)'
  BY <1>4, <1>5, OthersKept
<1>7. Calls'
  BY <1>6 DEF Calls, CallOK
<1> QED
  BY <1>4, <1>7 DEF HandlesInv

LEMMA SetFieldInv ==
    ASSUME HandlesInv, NEW u \in Users, NEW hd \in Handles, NEW k \in Fields, NEW g \in Handles,
           SetField(u, hd, k, g)
    PROVE  HandlesInv'
<1>1. /\ HandlesType /\ Idle(u) /\ Owner[hd] = u /\ Owner[g] = u
      /\ value[hd] # Nothing /\ form[value[hd]] = "object" /\ Private(u, hd)
      /\ value[g] # Nothing /\ value[hd] # value[g] /\ form[value[g]] # "plain"
      /\ Inside(value[g]) = {} /\ \A j \in Items : value[hd] \notin Inside(j)
  BY DEF HandlesInv, SetField
<1>2. /\ todo' = [todo EXCEPT ![u] =
              Drops(field[value[hd]][k]) \o << Put(value[hd], k, value[g]) >>]
      /\ field' = [field EXCEPT ![value[hd]][k] = Nothing]
      /\ UNCHANGED <<form, count, value>>
  BY DEF SetField
<1>3. PICK td2, y, j, i, s : /\ td2 = todo' /\ y = field[value[hd]][k] /\ j = value[hd]
                             /\ i = value[g] /\ s = Put(j, k, i)
  OBVIOUS
<1>4. j \in Items /\ i \in Items /\ j # Nothing /\ i # Nothing
  BY <1>1, <1>3, HeldFacts
<1>5. s \in StepSet /\ s.op = "put" /\ s.item = i /\ s.into = j /\ s.key = k
  BY <1>3, <1>4, StepFacts DEF Put
<1>6. Started(todo, u, y, << s >>, td2)
  <2>1. y \in ItemsOrNothing /\ td2 = [todo EXCEPT ![u] = Drops(y) \o << s >>]
    BY <1>1, <1>2, <1>3, <1>4, HandlesTypeFacts
  <2>2. todo \in [Users -> Seq(StepSet)] /\ todo[u] = << >>
    BY <1>1 DEF HandlesType, Idle
  <2> QED
    BY <1>5, <2>1, <2>2 DEF Started
<1>7. /\ HandlesType' /\ (\A x \in Items : Exact(x)') /\ Flat' /\ Discreet(u)
      /\ \A e \in Handles : value[e] = value[hd] => Owner[e] = u
  <2>1. PICK rest : rest = << s >>
    OBVIOUS
  <2>2. Started(todo, u, field[value[hd]][k], rest, td2)
    BY <1>3, <1>6, <2>1
  <2> QED
    BY <1>1, <1>2, <1>3, <2>2, PrivateField
<1>8. /\ \A x \in Items, l \in Fields : x # j \/ l # k => field'[x][l] = field[x][l]
      /\ field'[j][k] = Nothing
  <2>1. field \in [Items -> [Fields -> ItemsOrNothing]] /\ field' = [field EXCEPT ![j][k] = Nothing]
    BY <1>1, <1>2, <1>3 DEF HandlesType
  <2> QED
    BY <1>4, <2>1
<1>9. PutOK(u, s)'
  <2>1. \A l \in Fields : field[i][l] = Nothing
    BY <1>1, <1>3 DEF Inside
  <2>2. \A l \in Fields : field'[i][l] = Nothing
    BY <1>1, <1>3, <1>4, <1>8, <2>1
  <2>3. \A a \in Items, b \in Fields : field[a][b] # j
    BY <1>1, <1>3, <1>4 DEF Inside
  <2>4. \A a \in Items, b \in Fields : field'[a][b] # j
    BY <1>4, <1>8, <2>3
  <2>5. \A p \in Items \X Fields : field'[p[1]][p[2]] # j
    BY <2>4
  <2>6. /\ \A f \in Handles : value'[f] = j => Owner[f] = u
        /\ \E f \in Handles : value'[f] = j
        /\ form'[j] = "object" /\ field'[j][k] = Nothing
        /\ \E f \in Handles : Owner[f] = u /\ value'[f] = i
        /\ i # j /\ form'[i] # "plain"
    BY <1>1, <1>2, <1>3, <1>7, <1>8
  <2>7. /\ \A f \in Handles : value'[f] = s.into => Owner[f] = u
        /\ \E f \in Handles : value'[f] = s.into
        /\ form'[s.into] = "object" /\ field'[s.into][s.key] = Nothing
        /\ \A p \in Items \X Fields : field'[p[1]][p[2]] # s.into
        /\ \E f \in Handles : Owner[f] = u /\ value'[f] = s.item
        /\ s.item # s.into /\ Empty(field', s.item) /\ form'[s.item] # "plain"
    BY <1>5, <2>2, <2>5, <2>6 DEF Empty
  <2> QED
    BY <2>7 DEF PutOK, Empty
<1>10. CallOK(u)'
  BY <1>3, <1>5, <1>6, <1>9, CopyLast
<1>11. \A v \in Users : CallOK(v)'
  BY <1>7, <1>10, OthersKept
<1>12. Calls'
  BY <1>11 DEF Calls, CallOK
<1> QED
  BY <1>7, <1>12 DEF HandlesInv

\* The fields of an object without fields are filled, each with something of its own.
Filled(fld, i, new, fld2) ==
    /\ fld \in [Items -> [Fields -> ItemsOrNothing]] /\ i \in Items /\ Empty(fld, i)
    /\ new \in [Fields -> ItemsOrNothing] /\ fld2 = [fld EXCEPT ![i] = new]
    /\ \A k, l \in Fields : new[k] = new[l] /\ new[k] # Nothing => k = l

LEMMA FilledCount ==
    ASSUME NEW fld, NEW i, NEW new, NEW fld2, Filled(fld, i, new, fld2), NEW x \in Items,
           NEW c \in BOOLEAN, c <=> \E k \in Fields : new[k] = x
    PROVE  Cardinality(ByField(fld2, x)) = Cardinality(ByField(fld, x)) + One(c)
<1>1. PICK S, T : S = ByField(fld, x) /\ T = ByField(fld2, x)
  OBVIOUS
<1>2. x # Nothing /\ IsFiniteSet(S) /\ Cardinality(S) \in Nat
  BY <1>1, HandlesAssumption, FieldsFinite
<1>3. /\ i \in Items /\ \A a \in Items, b \in Fields : fld2[a][b] = IF a = i THEN new[b] ELSE fld[a][b]
      /\ \A k, l \in Fields : new[k] = new[l] /\ new[k] # Nothing => k = l
  BY DEF Filled
<1>4. \A b \in Fields : fld[i][b] = Nothing
  BY DEF Filled, Empty
<1>5. ASSUME NEW a \in Items, NEW b \in Fields
      PROVE  /\ <<a, b>> \in S <=> fld[a][b] = x
             /\ <<a, b>> \in T <=> fld2[a][b] = x
  BY <1>1 DEF ByField
<1>6. S \subseteq Items \X Fields /\ T \subseteq Items \X Fields
  BY <1>1 DEF ByField
<1>7. CASE ~c
  <2>1. ASSUME NEW a \in Items, NEW b \in Fields PROVE <<a, b>> \in S <=> <<a, b>> \in T
    <3>1. CASE a = i
      BY <1>2, <1>3, <1>4, <1>5, <1>7, <3>1
    <3>2. CASE a # i
      BY <1>3, <1>5, <3>2
    <3> QED
      BY <3>1, <3>2
  <2>2. S \subseteq T /\ T \subseteq S
    BY <1>6, <2>1
  <2>3. S = T
    BY <2>2
  <2>4. One(c) = 0 /\ Cardinality(S) = Cardinality(S) + 0
    BY <1>2, <1>7 DEF One
  <2> QED
    BY <1>1, <2>3, <2>4
<1>8. ASSUME NEW k \in Fields, new[k] = x PROVE Cardinality(T) = Cardinality(S) + One(c)
  <2>1. PICK p : p = <<i, k>>
    OBVIOUS
  <2>2. p \in T /\ p \notin S
    BY <1>2, <1>3, <1>4, <1>5, <1>8, <2>1
  <2>3. \A a \in Items, b \in Fields : <<a, b>> # p => (<<a, b>> \in S <=> <<a, b>> \in T)
    <3>1. ASSUME NEW a \in Items, NEW b \in Fields, <<a, b>> # p
          PROVE  <<a, b>> \in S <=> <<a, b>> \in T
      <4>1. CASE a # i
        BY <1>3, <1>5, <4>1
      <4>2. CASE a = i
        <5>1. b # k
          BY <2>1, <3>1, <4>2
        <5>2. new[b] # x
          BY <1>2, <1>3, <1>8, <5>1
        <5> QED
          BY <1>2, <1>3, <1>4, <1>5, <4>2, <5>2
      <4> QED
        BY <4>1, <4>2
    <3> QED
      BY <3>1
  <2>4. T \ {p} = S \ {p}
    BY <1>6, <2>3
  <2>5. S = T \ {p}
    BY <2>2, <2>4
  <2>6. T = S \cup {p}
    BY <2>2, <2>5
  <2>7. Cardinality(T) = Cardinality(S) + 1
    BY <1>2, <2>2, <2>6, FS_AddElement
  <2>8. One(c) = 1
    BY <1>8 DEF One
  <2> QED
    BY <2>7, <2>8
<1> QED
  BY <1>1, <1>7, <1>8

\* A clone: object i and what its fields hold are new.
Cloned(g, i, new) ==
    /\ \A k \in Fields : new[k] # Nothing => field[value[g]][k] # Nothing
    /\ \A k, l \in Fields : new[k] = new[l] /\ new[k] # Nothing => k = l
    /\ form[i] = "free" /\ form'[i] = "object" /\ count'[i] = 1
    /\ \A k \in Fields : new[k] # Nothing =>
           /\ new[k] # i /\ form[new[k]] = "free"
           /\ \E l \in Fields : field[value[g]][l] # Nothing /\ form'[new[k]] = form[field[value[g]][l]]
           /\ count'[new[k]] = IF form'[new[k]] = "value" THEN 0 ELSE 1
    /\ \A x \in Items : x # i /\ (~\E k \in Fields : new[k] = x) =>
           form'[x] = form[x] /\ count'[x] = count[x]
    /\ form' = [x \in Items |-> form'[x]] /\ count' = [x \in Items |-> count'[x]]
    /\ field' = [field EXCEPT ![i] = new]

LEMMA DeepCloneMakes ==
    ASSUME HandlesInv, NEW u \in Users, NEW hd \in Handles, NEW g \in Handles, DeepClone(u, hd, g)
    PROVE  \E i \in Items, new \in [Fields -> ItemsOrNothing] :
               Cloned(g, i, new) /\ value' = [value EXCEPT ![hd] = i]
<1>0. PICK i \in Items, new \in [Fields -> Items \cup {Nothing}] :
          LET old == field[value[g]]
              made == {new[k] : k \in Fields} \ {Nothing}
          IN
          /\ \A k \in Fields : (new[k] = Nothing) = (old[k] = Nothing)
          /\ \A k, l \in Fields : new[k] = new[l] /\ new[k] # Nothing => k = l
          /\ \A j \in {i} \cup made : form[j] = "free"
          /\ i \notin made
          /\ form' = [j \in Items |->
                 IF j = i THEN "object"
                 ELSE IF j \in made THEN form[old[CHOOSE k \in Fields : new[k] = j]]
                 ELSE form[j]]
          /\ count' = [j \in Items |->
                 IF j \in {i} \cup made THEN (IF form'[j] = "value" THEN 0 ELSE 1) ELSE count[j]]
          /\ field' = [field EXCEPT ![i] = new]
          /\ value' = [value EXCEPT ![hd] = i]
  BY DEF DeepClone
<1> DEFINE old == field[value[g]]
           made == {new[k] : k \in Fields} \ {Nothing}
<1>1. /\ new \in [Fields -> ItemsOrNothing]
      /\ old = field[value[g]] /\ made = {new[k] : k \in Fields} \ {Nothing}
      /\ \A k \in Fields : (new[k] = Nothing) = (old[k] = Nothing)
      /\ \A k, l \in Fields : new[k] = new[l] /\ new[k] # Nothing => k = l
      /\ \A j \in {i} \cup made : form[j] = "free"
      /\ i \notin made
      /\ form' = [j \in Items |->
             IF j = i THEN "object"
             ELSE IF j \in made THEN form[old[CHOOSE k \in Fields : new[k] = j]]
             ELSE form[j]]
      /\ count' = [j \in Items |->
             IF j \in {i} \cup made THEN (IF form'[j] = "value" THEN 0 ELSE 1) ELSE count[j]]
      /\ field' = [field EXCEPT ![i] = new]
      /\ value' = [value EXCEPT ![hd] = i]
  <2>1. new \in [Fields -> ItemsOrNothing]
    BY DEF ItemsOrNothing
  <2> QED
    BY <1>0, <2>1
<1> HIDE DEF old, made
<1>2. \A k \in Fields : new[k] # Nothing => new[k] \in made /\ new[k] \in Items
  BY <1>1 DEF ItemsOrNothing
<1>3. \A x : x \in made <=> x # Nothing /\ \E k \in Fields : new[k] = x
  BY <1>1
<1>4. ASSUME NEW k \in Fields, new[k] # Nothing
      PROVE  /\ new[k] # i /\ form[new[k]] = "free"
             /\ \E l \in Fields : field[value[g]][l] # Nothing /\ form'[new[k]] = form[field[value[g]][l]]
             /\ count'[new[k]] = IF form'[new[k]] = "value" THEN 0 ELSE 1
  <2>1. PICK j : j = new[k] /\ j \in made /\ j \in Items /\ j # i /\ form[j] = "free"
    BY <1>1, <1>2, <1>4
  <2>2. PICK l : l = CHOOSE b \in Fields : new[b] = j
    OBVIOUS
  <2>3. l \in Fields /\ new[l] = j
    BY <2>1, <2>2
  <2>4. form'[j] = form[old[l]]
    BY <1>1, <2>1, <2>2
  <2>5. old[l] # Nothing
    BY <1>1, <1>4, <2>1, <2>3
  <2>6. count'[j] = IF form'[j] = "value" THEN 0 ELSE 1
    BY <1>1, <2>1
  <2> QED
    BY <1>1, <2>1, <2>3, <2>4, <2>5, <2>6
<1>5. form[i] = "free" /\ form'[i] = "object" /\ count'[i] = 1
  <2>1. form[i] = "free"
    BY <1>1
  <2>2. form'[i] = "object"
    BY <1>1
  <2>3. count'[i] = IF form'[i] = "value" THEN 0 ELSE 1
    BY <1>1
  <2> QED
    BY <2>1, <2>2, <2>3
<1>6. ASSUME NEW x \in Items, x # i, ~\E k \in Fields : new[k] = x
      PROVE  form'[x] = form[x] /\ count'[x] = count[x]
  <2>1. x \notin made
    BY <1>3, <1>6
  <2> QED
    BY <1>1, <1>6, <2>1
<1>7. form' = [x \in Items |-> form'[x]] /\ count' = [x \in Items |-> count'[x]]
  BY <1>1
<1>8. \A k \in Fields : new[k] # Nothing => field[value[g]][k] # Nothing
  BY <1>1
<1>9. Cloned(g, i, new)
  BY <1>1, <1>4, <1>5, <1>6, <1>7, <1>8 DEF Cloned
<1> QED
  BY <1>1, <1>9

LEMMA DeepCloneInv ==
    ASSUME HandlesInv, NEW u \in Users, NEW hd \in Handles, NEW g \in Handles, DeepClone(u, hd, g)
    PROVE  HandlesInv'
<1>1. /\ HandlesType /\ Flat /\ Idle(u) /\ Owner[hd] = u /\ value[hd] = Nothing
      /\ value[g] # Nothing /\ UNCHANGED todo
  BY DEF HandlesInv, DeepClone
<1>2. PICK i \in Items, new \in [Fields -> ItemsOrNothing] :
          Cloned(g, i, new) /\ value' = [value EXCEPT ![hd] = i]
  BY DeepCloneMakes
<1>3. PICK j : j = value[g] /\ j \in Items
  BY <1>1, HeldFacts
<1>4. /\ form[i] = "free" /\ form'[i] = "object" /\ count'[i] = 1
      /\ \A x \in Items : x # i /\ (~\E k \in Fields : new[k] = x) =>
             form'[x] = form[x] /\ count'[x] = count[x]
      /\ field' = [field EXCEPT ![i] = new]
      /\ \A k, l \in Fields : new[k] = new[l] /\ new[k] # Nothing => k = l
  BY <1>2 DEF Cloned
<1>5. ASSUME NEW x \in Items, NEW k \in Fields, new[k] = x
      PROVE  /\ x # i /\ form[x] = "free" /\ form'[x] \in {"object", "value"}
             /\ count'[x] = IF form'[x] = "value" THEN 0 ELSE 1
  <2>1. new[k] # Nothing
    BY <1>5, HandlesAssumption
  <2>2. /\ x # i /\ form[x] = "free" /\ count'[x] = IF form'[x] = "value" THEN 0 ELSE 1
        /\ \E l \in Fields : field[j][l] # Nothing /\ form'[x] = form[field[j][l]]
    BY <1>2, <1>3, <1>5, <2>1 DEF Cloned
  <2>3. PICK l \in Fields : field[j][l] # Nothing /\ form'[x] = form[field[j][l]]
    BY <2>2
  <2>4. PICK z : z = field[j][l] /\ z \in Items /\ form[z] # "free"
    BY <1>3, <2>3, HeldFacts
  <2>5. form[z] # "plain" /\ form[z] \in {"free", "object", "value", "plain"}
    BY <1>1, <1>3, <2>3, <2>4, HandlesTypeFacts DEF Flat
  <2> QED
    BY <2>2, <2>3, <2>4, <2>5
<1>6. \A k \in Fields : new[k] \in Items \/ new[k] = Nothing
  BY DEF ItemsOrNothing
<1>7. \A x \in Items : form[x] # "free" => form'[x] = form[x] /\ x # i
  BY <1>4, <1>5
<1>8. /\ field \in [Items -> [Fields -> ItemsOrNothing]] /\ Empty(field, i)
      /\ \A x \in Items : form[x] = "free" => \A l \in Fields : field[x][l] = Nothing
  BY <1>1, <1>4 DEF HandlesType, Flat, Empty
<1>9. \A x \in Items, l \in Fields : field'[x][l] = IF x = i THEN new[l] ELSE field[x][l]
  BY <1>4, <1>8
<1>10. HandlesType'
  <2>1. field' \in [Items -> [Fields -> ItemsOrNothing]] /\ value' \in [Handles -> ItemsOrNothing]
    BY <1>1, <1>2, <1>4 DEF HandlesType, ItemsOrNothing
  <2>2. ASSUME NEW x \in Items
        PROVE  form'[x] \in {"free", "object", "value", "plain"} /\ count'[x] \in Int
    <3>1. CASE x = i
      BY <1>4, <3>1
    <3>2. CASE \E k \in Fields : new[k] = x
      BY <1>5, <3>2
    <3>3. CASE x # i /\ ~\E k \in Fields : new[k] = x
      BY <1>1, <1>4, <3>3, HandlesTypeFacts
    <3> QED
      BY <3>1, <3>2, <3>3
  <2>3. form' = [x \in Items |-> form'[x]] /\ count' = [x \in Items |-> count'[x]]
    BY <1>2 DEF Cloned
  <2>4. PICK f2, c2 : f2 = form' /\ c2 = count'
    OBVIOUS
  <2>5. f2 \in [Items -> {"free", "object", "value", "plain"}] /\ c2 \in [Items -> Int]
    BY <2>2, <2>3, <2>4
  <2> QED
    BY <1>1, <2>1, <2>4, <2>5 DEF HandlesType
<1>11. PICK td2, val2, fld2 : td2 = todo' /\ val2 = value' /\ fld2 = field'
  OBVIOUS
<1>12. Started(todo, u, Nothing, << >>, td2)
  BY <1>1, <1>11, NoSteps
<1>13. ASSUME NEW x \in Items PROVE Exact(x)'
  <2>1. PICK c \in BOOLEAN : c <=> \E k \in Fields : new[k] = x
    OBVIOUS
  <2>2. PICK h, hh, f, f2, n : /\ h = Cardinality(ByHandle(value, x)) /\ hh = Cardinality(ByHandle(val2, x))
                               /\ f = Cardinality(ByField(field, x)) /\ f2 = Cardinality(ByField(fld2, x))
                               /\ n = One(i = x) + One(c)
    OBVIOUS
  <2>3. hh = h - One(value[hd] = x) + One(i = x)
    <3>1. Repointed(value, hd, i, val2)
      BY <1>1, <1>2, <1>11 DEF HandlesType, Repointed
    <3>2. Cardinality(ByHandle(val2, x)) = Cardinality(ByHandle(value, x)) - One(value[hd] = x) + One(i = x)
      BY <3>1, HandleSet
    <3> QED
      BY <2>2, <3>2
  <2>4. f2 = f + One(c)
    <3>1. Filled(field, i, new, fld2)
      BY <1>4, <1>8, <1>11 DEF Filled
    <3>2. Cardinality(ByField(fld2, x)) = Cardinality(ByField(field, x)) + One(c)
      BY <2>1, <3>1, FilledCount
    <3> QED
      BY <2>2, <3>2
  <2>5. /\ h \in Nat /\ f \in Nat /\ One(i = x) \in Nat /\ One(c) \in Nat
        /\ One(value[hd] = x) = 0 /\ One(Nothing = x) = 0 /\ n \in Nat
    BY <1>1, <2>2, HandlesFinite, FieldsFinite, OneNat
  <2>6. hh + f2 = h + f - One(Nothing = x) + n
    BY <2>2, <2>3, <2>4, <2>5
  <2>7. Cardinality(ByHandle(value', x)) + Cardinality(ByField(field', x))
            = Cardinality(ByHandle(value, x)) + Cardinality(ByField(field, x)) - One(Nothing = x) + n
    BY <1>11, <2>2, <2>6
  <2>8. Grown(x, n)
    <3>1. CASE x = i
      <4>1. ~c
        BY <1>5, <2>1, <3>1
      <4>2. n = 1
        BY <2>2, <3>1, <4>1 DEF One
      <4>3. Grown(x, 1)
        BY <1>4, <3>1, FreshGrown
      <4> QED
        BY <4>2, <4>3
    <3>2. CASE c
      <4>1. x # i /\ form[x] = "free" /\ form'[x] \in {"object", "value"}
            /\ count'[x] = IF form'[x] = "value" THEN 0 ELSE 1
        BY <1>5, <2>1, <3>2
      <4>2. n = 1
        BY <2>2, <3>2, <4>1 DEF One
      <4>3. Grown(x, 1)
        BY <4>1, FreshGrown
      <4> QED
        BY <4>2, <4>3
    <3>3. CASE x # i /\ ~c
      <4>1. n = 0
        BY <2>2, <3>3 DEF One
      <4>2. Grown(x, 0)
        BY <1>4, <2>1, <3>3, NotGrown
      <4> QED
        BY <4>1, <4>2
    <3> QED
      BY <2>1, <3>1, <3>2, <3>3
  <2> QED
    BY <1>11, <1>12, <2>5, <2>7, <2>8, CallExact
<1>14. Flat'
  <2>1. ASSUME NEW x \in Items, form'[x] # "object", NEW l \in Fields PROVE field'[x][l] = Nothing
    <3>1. x # i
      BY <1>4, <2>1
    <3>2. form[x] = "free" \/ form[x] # "object"
      BY <1>7, <2>1
    <3> QED
      BY <1>1, <1>8, <1>9, <3>1, <3>2 DEF Flat, Empty
  <2>2. ASSUME NEW x \in Items, NEW l \in Fields, field'[x][l] # Nothing
        PROVE  /\ \A b \in Fields : field'[field'[x][l]][b] = Nothing
               /\ form'[field'[x][l]] # "plain"
    <3>1. CASE x = i
      <4>1. PICK z : z = new[l] /\ z = field'[x][l] /\ z \in Items
        BY <1>6, <1>9, <2>2, <3>1
      <4>2. z # i /\ form[z] = "free" /\ form'[z] # "plain"
        BY <1>5, <4>1
      <4> QED
        BY <1>8, <1>9, <4>1, <4>2
    <3>2. CASE x # i
      <4>1. PICK z : z = field[x][l] /\ z = field'[x][l] /\ z # Nothing
        BY <1>9, <2>2, <3>2
      <4>2. z \in Items /\ form[z] # "free" /\ z # i /\ form'[z] = form[z]
        BY <1>7, <4>1, HeldFacts
      <4>3. Empty(field, z) /\ form[z] # "plain"
        BY <1>1, <4>1 DEF Flat
      <4>4. \A b \in Fields : field'[z][b] = Nothing
        BY <1>9, <4>2, <4>3 DEF Empty
      <4> QED
        BY <4>1, <4>2, <4>3, <4>4
    <3> QED
      BY <3>1, <3>2
  <2> QED
    BY <2>1, <2>2 DEF Flat, Empty
<1>15. Discreet(u)
  <2>1. (\A e \in Handles : e # hd => value'[e] = value[e]) /\ value'[hd] = i
    BY <1>1, <1>2 DEF HandlesType
  <2>2. \A e \in Handles : value[e] # Nothing =>
            form'[value[e]] = form[value[e]] /\ \A l \in Fields : field'[value[e]][l] = field[value[e]][l]
    BY <1>7, <1>9, HeldFacts
  <2>3. \A e \in Handles : value'[e] # value[e] => form[value'[e]] = "free" /\ Owner[e] = u
    BY <1>1, <1>4, <2>1
  <2>4. \A x \in Items, l \in Fields : field'[x][l] # field[x][l] /\ field'[x][l] # Nothing =>
            form[field'[x][l]] = "free"
    BY <1>5, <1>6, <1>9
  <2> QED
    BY <1>1, <2>2, <2>3, <2>4 DEF Discreet
<1>16. CallOK(u)'
  BY <1>11, <1>12, ReleaseOnly
<1>17. \A v \in Users : CallOK(v)'
  BY <1>15, <1>16, OthersKept
<1>18. Calls'
  BY <1>17 DEF Calls, CallOK
<1> QED
  BY <1>10, <1>13, <1>14, <1>18 DEF HandlesInv

-----------------------------------------------------------------------------
(* The invariant holds, and says what is wanted *)

LEMMA HandlesInitInv == HandlesInit => HandlesInv
<1> SUFFICES ASSUME HandlesInit PROVE HandlesInv
  OBVIOUS
<1>1. /\ form = [i \in Items |-> "free"] /\ count = [i \in Items |-> 0]
      /\ field = [i \in Items |-> [k \in Fields |-> Nothing]]
      /\ value = [h \in Handles |-> Nothing] /\ todo = [u \in Users |-> << >>]
  BY DEF HandlesInit
<1>2. HandlesType
  BY <1>1 DEF HandlesType, ItemsOrNothing
<1>3. \A u \in Users : todo[u] = << >> /\ 1 .. Len(todo[u]) = {}
  BY <1>1
<1>4. ASSUME NEW step PROVE ByStep(todo, step) = {}
  <2>1. \A p \in Users \X Nat : p[1] \in Users
    OBVIOUS
  <2> QED
    BY <1>3, <2>1 DEF ByStep
<1>5. ASSUME NEW x \in Items PROVE Exact(x)
  <2>1. ByHandle(value, x) = {}
    BY <1>1, HandlesAssumption DEF ByHandle
  <2>2. ByField(field, x) = {}
    <3>1. \A p \in Items \X Fields : field[p[1]][p[2]] # x
      BY <1>1, HandlesAssumption
    <3> QED
      BY <3>1 DEF ByField
  <2>3. form[x] = "free" /\ Cardinality({}) = 0 /\ IsFiniteSet({})
    BY <1>1, FS_EmptySet
  <2>4. Tally("free", count[x], 0 + 0 + 0, 0)
    BY DEF Tally
  <2> QED
    BY <1>4, <2>1, <2>2, <2>3, <2>4 DEF Exact
<1>6. Flat
  BY <1>1 DEF Flat, Empty
<1>7. Calls
  BY <1>3 DEF Calls
<1> QED
  BY <1>2, <1>5, <1>6, <1>7 DEF HandlesInv

LEMMA HandlesUnchanged ==
    ASSUME HandlesInv, UNCHANGED <<form, count, field, value, todo>>
    PROVE  HandlesInv'
<1>1. UNCHANGED <<form, count, field, value, todo>>
  OBVIOUS
<1>2. HandlesType'
  BY <1>1 DEF HandlesInv, HandlesType
<1>3. \A x \in Items : Exact(x)'
  BY <1>1 DEF HandlesInv, Exact
<1>4. Flat'
  BY <1>1 DEF HandlesInv, Flat, Empty
<1>5. ASSUME NEW u \in Users PROVE CallOK(u)'
  <2>1. \A d \in 1 .. Len(todo'[u]) : d \in 1 .. Len(todo[u]) /\ At(todo', u, d) = At(todo, u, d)
    BY <1>1
  <2> QED
    BY <1>1, <2>1, OwnKept
<1>6. Calls'
  BY <1>5 DEF Calls, CallOK
<1> QED
  BY <1>2, <1>3, <1>4, <1>6 DEF HandlesInv

LEMMA HandlesStep ==
    ASSUME HandlesInv, HandlesNext
    PROVE  HandlesInv'
<1>8. CASE undefined
  BY <1>8, HandlesUnchanged DEF HandlesNext, handle_vars
<1>9. SUFFICES ASSUME ~undefined PROVE HandlesInv'
  BY <1>8
<1>1. PICK u \in Users :
          \/ RunDrop(u) \/ RunPublish(u) \/ RunFree(u) \/ RunTake(u) \/ RunPut(u) \/ TakePublished(u)
          \/ \E h \in Handles :
                \/ \E i \in Items :
                      \/ \E f \in {"object", "value", "plain"} : Construct(u, h, i, f)
                      \/ \E f \in {"object", "value"} : Becomes(u, h, i, f)
                \/ \E g \in Handles : \/ CopyConstruct(u, h, g) \/ CopyAssign(u, h, g)
                                      \/ MoveAssign(u, h, g) \/ DeepClone(u, h, g)
                                      \/ \E k \in Fields : SetField(u, h, k, g)
                \/ Destroy(u, h) \/ AssignOwnField(u, h)
                \/ \E k \in Fields : RemoveField(u, h, k)
  BY <1>9 DEF HandlesNext, Run
<1>2. CASE RunDrop(u) \/ RunFree(u) \/ RunTake(u) \/ RunPut(u)
  BY <1>2, RunDropInv, RunFreeInv, RunTakeInv, RunPutInv
<1>10. ASSUME RunPublish(u) \/ TakePublished(u) \/ \E h \in Handles : AssignOwnField(u, h)
       PROVE  HandlesInv'
  BY <1>10, HandlesUnchanged DEF RunPublish, TakePublished, AssignOwnField
<1>3. ASSUME NEW h \in Handles, NEW i \in Items,
             \/ \E f \in {"object", "value", "plain"} : Construct(u, h, i, f)
             \/ \E f \in {"object", "value"} : Becomes(u, h, i, f)
      PROVE  HandlesInv'
  BY <1>3, ConstructInv, BecomesInv
<1>4. ASSUME NEW h \in Handles, NEW g \in Handles,
             \/ CopyConstruct(u, h, g) \/ CopyAssign(u, h, g)
             \/ MoveAssign(u, h, g) \/ DeepClone(u, h, g)
      PROVE  HandlesInv'
  BY <1>4, CopyConstructInv, CopyAssignInv, MoveAssignInv, DeepCloneInv
<1>5. ASSUME NEW h \in Handles, NEW g \in Handles, NEW k \in Fields,
             SetField(u, h, k, g)
      PROVE  HandlesInv'
  BY <1>5, SetFieldInv
<1>6. ASSUME NEW h \in Handles, Destroy(u, h)
      PROVE  HandlesInv'
  BY <1>6, DestroyInv
<1>7. ASSUME NEW h \in Handles, NEW k \in Fields, RemoveField(u, h, k)
      PROVE  HandlesInv'
  BY <1>7, RemoveFieldInv
<1> QED
  BY <1>1, <1>2, <1>3, <1>4, <1>5, <1>6, <1>7, <1>10

\* A step of a thread that is not refreshing leaves the others at it.
LEMMA RefreshersKept ==
    ASSUME HandlesInv, PublishedInv, published' = published, NEW u \in Users,
           todo[u] = << >> \/ Head(todo[u]).op # "free",
           \A v \in Users \ {u} : todo'[v] = todo[v]
    PROVE  PublishedInv'
<1> SUFFICES ASSUME NEW i \in published
             PROVE  i \in Items /\ \E v \in Users : todo'[v] # << >> /\ Head(todo'[v]) = Free(i)
  BY DEF PublishedInv
<1>1. i \in Items
  BY DEF PublishedInv
<1>2. PICK v \in Users : todo[v] # << >> /\ Head(todo[v]) = Free(i)
  BY DEF PublishedInv
<1>3. v # u
  BY <1>2 DEF Free
<1> QED
  BY <1>1, <1>2, <1>3

LEMMA PublishedStep ==
    ASSUME HandlesInv, PublishedInv, HandlesNext
    PROVE  PublishedInv'
<1>8. CASE undefined
  BY <1>8 DEF HandlesNext, handle_vars, PublishedInv
<1>9. SUFFICES ASSUME ~undefined PROVE PublishedInv'
  BY <1>8
<1>1. PICK u \in Users :
          \/ RunDrop(u) \/ RunPublish(u) \/ RunFree(u) \/ RunTake(u) \/ RunPut(u) \/ TakePublished(u)
          \/ \E h \in Handles :
                \/ \E i \in Items :
                      \/ \E f \in {"object", "value", "plain"} : Construct(u, h, i, f)
                      \/ \E f \in {"object", "value"} : Becomes(u, h, i, f)
                \/ \E g \in Handles : \/ CopyConstruct(u, h, g) \/ CopyAssign(u, h, g)
                                      \/ MoveAssign(u, h, g) \/ DeepClone(u, h, g)
                                      \/ \E k \in Fields : SetField(u, h, k, g)
                \/ Destroy(u, h) \/ AssignOwnField(u, h)
                \/ \E k \in Fields : RemoveField(u, h, k)
  BY <1>9 DEF HandlesNext, Run
<1>2. todo \in [Users -> Seq(StepSet)]
  BY DEF HandlesInv, HandlesType
<1>3. CASE RunDrop(u) \/ RunTake(u) \/ RunPut(u)
  <2>1. published' = published /\ Head(todo[u]).op # "free" /\ \A v \in Users \ {u} : todo'[v] = todo[v]
    BY <1>2, <1>3 DEF RunDrop, RunTake, RunPut, lives
  <2> QED
    BY <2>1, RefreshersKept
<1>4. CASE RunPublish(u)
  <2>1. PICK i : i = Head(todo[u]).item
    OBVIOUS
  <2>2. Head(todo[u]) = Free(i) /\ i \in Items /\ todo[u] # << >>
    BY <1>4, <2>1, FirstStep, StepFacts DEF RunPublish
  <2>3. published' = published \cup {i} /\ todo' = todo
    BY <1>4, <2>1 DEF RunPublish
  <2> QED
    BY <2>2, <2>3 DEF PublishedInv
<1>5. CASE RunFree(u)
  <2>1. PICK i : i = Head(todo[u]).item
    OBVIOUS
  <2>2. published' = published \ {i} /\ \A v \in Users \ {u} : todo'[v] = todo[v]
    BY <1>2, <1>5, <2>1 DEF RunFree
  <2>3. \A x : Head(todo[u]) = Free(x) => x = i
    BY <2>1 DEF Free
  <2> QED
    BY <2>2, <2>3 DEF PublishedInv
<1>6. ASSUME todo[u] = << >>, published' = published, \A v \in Users \ {u} : todo'[v] = todo[v]
      PROVE  PublishedInv'
  BY <1>6, RefreshersKept
<1>7. CASE TakePublished(u)
  BY <1>7 DEF TakePublished, PublishedInv
<1>10. ASSUME NEW h \in Handles, NEW i \in Items, NEW f, Construct(u, h, i, f) \/ Becomes(u, h, i, f)
       PROVE  PublishedInv'
  BY <1>2, <1>6, <1>10 DEF Construct, Becomes, Idle, lives
<1>11. ASSUME NEW h \in Handles, NEW g \in Handles,
              \/ CopyConstruct(u, h, g) \/ CopyAssign(u, h, g)
              \/ MoveAssign(u, h, g) \/ DeepClone(u, h, g)
       PROVE  PublishedInv'
  <2>1. CASE CopyConstruct(u, h, g)
    BY <1>2, <1>6, <2>1 DEF CopyConstruct, Idle, lives
  <2>2. CASE CopyAssign(u, h, g)
    BY <1>2, <1>6, <2>2 DEF CopyAssign, Idle, lives
  <2>3. CASE MoveAssign(u, h, g)
    BY <1>2, <1>6, <2>3 DEF MoveAssign, Idle, lives
  <2>4. CASE DeepClone(u, h, g)
    <3>1. todo[u] = << >> /\ todo' = todo /\ published' = published
      BY <2>4 DEF DeepClone, Idle, lives
    <3> QED
      BY <1>6, <3>1
  <2> QED
    BY <1>11, <2>1, <2>2, <2>3, <2>4
<1>12. ASSUME NEW h \in Handles, NEW g \in Handles, NEW k \in Fields,
              SetField(u, h, k, g) \/ RemoveField(u, h, k)
       PROVE  PublishedInv'
  BY <1>2, <1>6, <1>12 DEF SetField, RemoveField, Idle, lives
<1>13. ASSUME NEW h \in Handles, Destroy(u, h) \/ AssignOwnField(u, h)
       PROVE  PublishedInv'
  BY <1>2, <1>6, <1>13 DEF Destroy, AssignOwnField, Idle, lives
<1> QED
  BY <1>1, <1>3, <1>4, <1>5, <1>7, <1>10, <1>11, <1>12, <1>13

LEMMA NothingDangles == HandlesInv /\ PublishedInv => NoHandleDangles
<1> SUFFICES ASSUME HandlesInv, PublishedInv, NEW i \in Items, form[i] = "free" \/ i \in published
             PROVE  /\ References(i) = 0
                    /\ \A u \in Users : \A n \in DOMAIN todo[u] :
                          todo[u][n].item = i => i \in published /\ todo[u][n] = Free(i)
  BY DEF NoHandleDangles
<1>1. HandlesType
  BY DEF HandlesInv
<1>2. /\ \A h \in Handles : value[h] # i
      /\ \A j \in Items, k \in Fields : field[j][k] # i
      /\ ByStep(todo, Drop(i)) = {} /\ (form[i] = "free" => ByStep(todo, Free(i)) = {})
  <2>1. CASE form[i] = "free"
    BY <2>1, FreeFacts
  <2>2. CASE i \in published
    <3>1. PICK u \in Users : todo[u] # << >> /\ Head(todo[u]) = Free(i)
      BY <2>2 DEF PublishedInv
    <3>2. Len(todo[u]) \in 1 .. Len(todo[u]) /\ At(todo, u, Len(todo[u])) = Free(i)
      BY <3>1, FirstStep
    <3> QED
      BY <3>2, FreedFacts
  <2> QED
    BY <2>1, <2>2
<1>3. References(i) = 0
  <2>1. {h \in Handles : value[h] = i} = {}
    BY <1>2
  <2>2. {p \in Items \X Fields : field[p[1]][p[2]] = i} = {}
    BY <1>2
  <2>3. Cardinality({}) = 0
    BY FS_EmptySet
  <2>4. References(i) = 0 + 0
    BY <2>1, <2>2, <2>3 DEF References
  <2> QED
    BY <2>4
<1>4. ASSUME NEW u \in Users, NEW n \in DOMAIN todo[u], todo[u][n].item = i
      PROVE  i \in published /\ todo[u][n] = Free(i)
  <2>1. todo[u] \in Seq(StepSet) /\ Len(todo[u]) \in Nat /\ n \in 1 .. Len(todo[u])
    BY <1>1, <1>4, HandlesTypeFacts
  <2>2. PICK d, s : d = Len(todo[u]) + 1 - n /\ s = todo[u][n]
    OBVIOUS
  <2>3. d \in 1 .. Len(todo[u]) /\ Len(todo[u]) + 1 - d = n /\ d \in Nat
    BY <2>1, <2>2
  <2>4. s = At(todo, u, d) /\ s \in StepSet
    BY <2>1, <2>2, <2>3 DEF At
  <2>5. /\ s.op = "take" => TakeOK(u, s)
        /\ s.op = "put" => PutOK(u, s)
    BY <2>3, <2>4 DEF HandlesInv, Calls
  <2>6. CASE s.op \in {"drop", "free"}
    <3>1. s # Drop(i) /\ (form[i] = "free" => s # Free(i))
      <4>1. <<u, d>> \notin ByStep(todo, Drop(i)) /\ (form[i] = "free" => <<u, d>> \notin ByStep(todo, Free(i)))
        BY <1>2
      <4>2. <<u, d>> \in Users \X Nat /\ <<u, d>>[1] = u /\ <<u, d>>[2] = d
        BY <2>3
      <4> QED
        BY <2>3, <2>4, <4>1, <4>2 DEF ByStep
    <3>2. s = Drop(s.item) \/ s = Free(s.item)
      BY <2>4, <2>6, StepFacts
    <3>3. s = Free(i) /\ form[i] # "free"
      BY <1>4, <2>2, <3>1, <3>2
    <3> QED
      BY <2>2, <3>3
  <2>7. CASE s.op = "take"
    <3>1. s.item # Nothing => \E g \in Handles : s.item \in Reaches(g)
      BY <2>5, <2>7 DEF TakeOK, Source
    <3>2. \A g \in Handles : i \notin Reaches(g)
      BY <1>2, ReachesFacts
    <3>3. i # Nothing
      BY HandlesAssumption
    <3> QED
      BY <1>4, <2>2, <3>1, <3>2, <3>3
  <2>8. CASE s.op = "put"
    BY <1>2, <1>4, <2>2, <2>5, <2>8 DEF PutOK
  <2> QED
    BY <2>4, <2>6, <2>7, <2>8, StepFacts
<1> QED
  BY <1>3, <1>4

LEMMA CountsAtRest == HandlesInv => CountsExact
<1> SUFFICES ASSUME HandlesInv, \A u \in Users : Idle(u), NEW i \in Items
             PROVE  /\ Counted(i) => count[i] = References(i)
                    /\ form[i] = "value" => References(i) = 1
                    /\ form[i] # "free" => \E h \in Handles : i \in Reaches(h)
  BY DEF CountsExact
<1>1. HandlesType /\ Flat
  BY DEF HandlesInv
<1>2. ASSUME NEW step PROVE ByStep(todo, step) = {}
  <2>1. \A u \in Users : 1 .. Len(todo[u]) = {}
    BY DEF Idle
  <2>2. \A p \in Users \X Nat : p[1] \in Users
    OBVIOUS
  <2> QED
    BY <2>1, <2>2 DEF ByStep
<1>3. ASSUME NEW x \in Items
      PROVE  /\ Tally(form[x], count[x], References(x), 0) /\ References(x) \in Nat
             /\ form[x] # "free" => \/ \E h \in Handles : value[h] = x
                                    \/ \E j \in Items, k \in Fields : field[j][k] = x
  <2>1. PICK H, F : H = ByHandle(value, x) /\ F = ByField(field, x)
    OBVIOUS
  <2>2. IsFiniteSet(H) /\ IsFiniteSet(F) /\ Cardinality(H) \in Nat /\ Cardinality(F) \in Nat
    BY <2>1, HandlesFinite, FieldsFinite
  <2>3. References(x) = Cardinality(H) + Cardinality(F)
    BY <2>1 DEF References, ByHandle, ByField
  <2>4. Exact(x)
    BY DEF HandlesInv
  <2>5. Cardinality(ByStep(todo, Drop(x))) = 0 /\ Cardinality(ByStep(todo, Free(x))) = 0
    BY <1>2, FS_EmptySet
  <2>6. Tally(form[x], count[x], Cardinality(H) + Cardinality(F) + 0, 0)
    BY <2>1, <2>4, <2>5 DEF Exact
  <2>7. Cardinality(H) + Cardinality(F) + 0 = References(x)
    BY <2>2, <2>3
  <2>8. Tally(form[x], count[x], References(x), 0) /\ References(x) \in Nat
    BY <2>2, <2>3, <2>6, <2>7
  <2>9. ASSUME form[x] # "free"
        PROVE  \/ \E h \in Handles : value[h] = x
               \/ \E j \in Items, k \in Fields : field[j][k] = x
    <3>1. form[x] \in {"free", "object", "value", "plain"}
      BY <1>1, HandlesTypeFacts
    <3>2. References(x) # 0
      BY <2>8, <2>9, <3>1 DEF Tally
    <3>3. H # {} \/ F # {}
      <4>1. Cardinality(H) # 0 \/ Cardinality(F) # 0
        BY <2>2, <2>3, <3>2
      <4> QED
        BY <4>1, FS_EmptySet
    <3>4. CASE H # {}
      BY <2>1, <3>4 DEF ByHandle
    <3>5. CASE F # {}
      <4>1. PICK p \in Items \X Fields : field[p[1]][p[2]] = x
        BY <2>1, <3>5 DEF ByField
      <4> QED
        BY <4>1
    <3> QED
      BY <3>3, <3>4, <3>5
  <2> QED
    BY <2>8, <2>9
<1>4. Counted(i) => count[i] = References(i)
  BY <1>3 DEF Counted, Tally
<1>5. form[i] = "value" => References(i) = 1
  <2>1. form[i] = "value" => References(i) + 0 = 1
    BY <1>3 DEF Tally
  <2> QED
    BY <1>3, <2>1
<1>6. ASSUME form[i] # "free" PROVE \E h \in Handles : i \in Reaches(h)
  <2>1. CASE \E h \in Handles : value[h] = i
    BY <2>1, HandlesAssumption DEF Reaches
  <2>2. ASSUME NEW j \in Items, NEW k \in Fields, field[j][k] = i
        PROVE  \E h \in Handles : i \in Reaches(h)
    <3>1. i # Nothing /\ j # Nothing
      BY HandlesAssumption
    <3>2. form[j] = "object"
      BY <1>1, <2>2, <3>1 DEF Flat, Empty
    <3>3. ~\E l \in Items, m \in Fields : field[l][m] = j
      <4>1. ASSUME NEW l \in Items, NEW m \in Fields, field[l][m] = j PROVE FALSE
        <5>1. Empty(field, j)
          BY <1>1, <3>1, <4>1 DEF Flat
        <5> QED
          BY <2>2, <3>1, <5>1 DEF Empty
      <4> QED
        BY <4>1
    <3>4. PICK h \in Handles : value[h] = j
      BY <1>3, <3>2, <3>3
    <3> QED
      BY <2>2, <3>1, <3>4 DEF Reaches, Inside
  <2> QED
    BY <1>3, <1>6, <2>1, <2>2
<1> QED
  BY <1>4, <1>5, <1>6

\* No handle, no field and no step of a call leads to an object that is back in
\* its pool, its refresh excepted, and between calls the reference counts are
\* exact and nothing leaks: for every number of threads, handles, objects and
\* fields, whatever the other layers do, until a JsonObject is taken between its
\* return and its refresh or a handle is assigned a field of what it alone keeps.
THEOREM HandlesStayExact == MCSpec => []HandlesExact
<1> DEFINE mc_vars == <<vars, handle_vars, single_vars, layer>>
<1>1. MCInit => HandlesInv /\ PublishedInv
  BY HandlesInitInv DEF MCInit, HandlesInit, PublishedInv
<1>2. HandlesInv /\ PublishedInv /\ [MCNext]_mc_vars => (HandlesInv /\ PublishedInv)'
  <2>1. [MCNext]_mc_vars => HandlesNext \/ UNCHANGED handle_vars
    BY DEF MCNext
  <2>2. HandlesInv /\ PublishedInv /\ UNCHANGED handle_vars => (HandlesInv /\ PublishedInv)'
    <3> SUFFICES ASSUME HandlesInv, PublishedInv, UNCHANGED handle_vars PROVE HandlesInv' /\ PublishedInv'
      OBVIOUS
    <3>1. UNCHANGED <<form, count, field, value, todo>> /\ published' = published
      BY DEF handle_vars
    <3>2. HandlesInv'
      BY <3>1, HandlesUnchanged
    <3>3. PublishedInv'
      BY <3>1 DEF PublishedInv
    <3> QED
      BY <3>2, <3>3
  <2> QED
    BY <2>1, <2>2, HandlesStep, PublishedStep
<1>3. HandlesInv /\ PublishedInv => HandlesExact
  BY NothingDangles, CountsAtRest DEF HandlesExact
<1> QED
  BY <1>1, <1>2, <1>3, PTL DEF MCSpec
=============================================================================
