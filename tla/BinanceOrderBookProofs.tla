----------------------- MODULE BinanceOrderBookProofs -----------------------
(***************************************************************************)
(* The local book of a Binance instrument is the exchange's book once a    *)
(* buffered message has joined the snapshot to the stream, for every set   *)
(* of prices and every number of changes, requests, losses and failures.   *)
(***************************************************************************)
EXTENDS BinanceOrderBook, FiniteSetTheorems, SequenceTheorems, WellFoundedInduction, TLAPS

-----------------------------------------------------------------------------
(* The inductive invariant. *)

\* What every message of the stream says: its changes are there, and follow
\* the ones of the message before.
Sound(m) == m.U = m.pu + 1 /\ m.U =< m.u /\ m.u =< Len(log)

StreamInv ==
    /\ Len(log) =< MaxId
    /\ \A i \in 1 .. Len(wire) : Sound(wire[i])
    /\ \A i \in 1 .. Len(m_buffered_updates) : Sound(m_buffered_updates[i])
    /\ \A r \in requests : r.last = NotServed \/ r.last =< Len(log)
    /\ nrequests \in Nat /\ disconnects \in Nat

\* A joined book is the exchange's, whatever the session's state.
BookInv ==
    bridged => /\ m_package_last_update_id \in 1 .. Len(log)
               /\ book = BookAt(m_package_last_update_id)

\* Which requests are under way.
RequestInv ==
    /\ disconnects = 0 => \A r, s \in requests : r = s
    /\ disconnects = 0
       /\ (re_fetch > 0 \/ ~m_has_received_first_update \/ m_sync_state = "Synced")
           => requests = {}
    /\ m_sync_state = "Buffering" /\ re_fetch = 0 => requests # {}

IInv == TypeOK /\ StreamInv /\ BookInv /\ RequestInv

-----------------------------------------------------------------------------
(* Least and greatest elements. *)

\* Every non-empty set of naturals has a least element, and Min names it.
LEMMA MinIs ==
    ASSUME NEW T \in SUBSET Nat, T # {}
    PROVE  Min(T) \in T /\ \A y \in T : Min(T) =< y
<1> DEFINE R == {ss \in Nat \X Nat : ss[1] < ss[2]}
<1>1. IsWellFoundedOn(R, Nat)
  BY NatLessThanWellFounded DEF OpToRel
<1>2. \A x, y \in Nat : <<y, x>> \notin R => x =< y
  OBVIOUS
<1>3. T \subseteq Nat
  OBVIOUS
<1> HIDE DEF R
<1>4. PICK x \in T : \A y \in T : <<y, x>> \notin R
  BY <1>1, <1>3, WFMin, Zenon
<1>5. \A y \in T : x =< y
  BY <1>2, <1>3, <1>4
<1> QED
  BY <1>5, Zenon DEF Min

\* A non-empty bounded set of naturals has a greatest element, and Max names it.
LEMMA MaxIs ==
    ASSUME NEW n \in Nat, NEW T \in SUBSET (0 .. n), T # {}
    PROVE  Max(T) \in T /\ \A y \in T : y =< Max(T)
<1> DEFINE D == {n - y : y \in T}
<1>1. D \in SUBSET Nat /\ D # {}
  <2>1. \A y \in T : y \in 0 .. n
    OBVIOUS
  <2>2. \A y \in T : n - y \in Nat
    BY <2>1
  <2> QED
    BY <2>2
<1>2. Min(D) \in D /\ \A d \in D : Min(D) =< d
  BY <1>1, MinIs
<1>3. PICK x \in T : Min(D) = n - x
  BY <1>2
<1>4. \A y \in T : n - x =< n - y
  BY <1>2, <1>3
<1>5. \A y \in T : x >= y
  BY <1>4
<1>6. Max(T) \in T /\ \A y \in T : Max(T) >= y
  BY <1>5, Zenon DEF Max
<1>7. T \subseteq Nat
  OBVIOUS
<1> QED
  BY <1>6, <1>7

-----------------------------------------------------------------------------
(* Books. *)

\* Changes from a on, applied to the book at v, give the book at u when no
\* change between v and a is left out: applying a change again does no harm.
LEMMA AfterJoin ==
    ASSUME NEW a \in Nat, NEW v \in Nat, NEW u \in Nat,
           1 =< a, a =< v + 1, v =< u
    PROVE  After(BookAt(v), a .. u) = BookAt(u)
<1> SUFFICES ASSUME NEW p \in Prices
             PROVE  After(BookAt(v), a .. u)[p] = BookAt(u)[p]
  BY DEF After, BookAt
<1> DEFINE V == {k \in 1 .. v : log[k] = p}
           K == {k \in a .. u : log[k] = p}
           W == {k \in 1 .. u : log[k] = p}
<1>1. /\ BookAt(v)[p] = IF V = {} THEN 0 ELSE Max(V)
      /\ BookAt(u)[p] = IF W = {} THEN 0 ELSE Max(W)
      /\ After(BookAt(v), a .. u)[p] = IF K = {} THEN BookAt(v)[p] ELSE Max(K)
  BY DEF BookAt, After, Empty
<1>2. W = V \cup K
  OBVIOUS
<1>3. CASE K = {}
  BY <1>1, <1>2, <1>3
<1>4. CASE K # {}
  <2>1. Max(K) \in K /\ \A y \in K : y =< Max(K)
    <3>1. K \in SUBSET (0 .. u)
      OBVIOUS
    <3> HIDE DEF K
    <3> QED
      BY <1>4, <3>1, MaxIs
  <2>2. Max(W) \in W /\ \A y \in W : y =< Max(W)
    <3>1. W \in SUBSET (0 .. u) /\ W # {}
      BY <1>4
    <3> HIDE DEF W
    <3> QED
      BY <3>1, MaxIs
  <2>3. Max(W) \in K
    <3>1. Max(K) \in W
      BY <2>1
    <3>2. Max(K) =< Max(W) /\ a =< Max(K)
      BY <2>1, <2>2, <3>1
    <3>3. a =< Max(W)
      BY <2>1, <2>2, <3>2
    <3> QED
      BY <2>2, <3>3
  <2>4. Max(W) = Max(K)
    <3>1. Max(W) =< Max(K) /\ Max(K) =< Max(W)
      BY <1>2, <2>1, <2>2, <2>3
    <3>2. Max(W) \in Nat /\ Max(K) \in Nat
      BY <2>1, <2>2
    <3> QED
      BY <3>1, <3>2
  <2>5. W # {}
    BY <1>2, <1>4
  <2> QED
    BY <1>1, <1>4, <2>4, <2>5
<1> QED
  BY <1>3, <1>4

\* A book keeps its type.
LEMMA AfterType ==
    ASSUME MaxId \in Nat, NEW b \in [Prices -> 0 .. MaxId], NEW ids \in SUBSET Ids
    PROVE  After(b, ids) \in [Prices -> 0 .. MaxId]
<1> SUFFICES ASSUME NEW p \in Prices
             PROVE  (LET ks == {k \in ids : log[k] = p}
                     IN  IF ks = {} THEN b[p] ELSE Max(ks)) \in 0 .. MaxId
  BY DEF After
<1> DEFINE ks == {k \in ids : log[k] = p}
<1>1. CASE ks = {}
  BY <1>1
<1>2. CASE ks # {}
  <2>1. ks \in SUBSET (0 .. MaxId)
    <3>1. \A k \in Ids : k \in 0 .. MaxId
      BY DEF Ids
    <3>2. \A k \in ks : k \in Ids
      OBVIOUS
    <3> QED
      BY <3>1, <3>2
  <2> HIDE DEF ks
  <2>2. Max(ks) \in ks
    BY <1>2, <2>1, MaxIs
  <2>3. Max(ks) \in 0 .. MaxId
    BY <2>1, <2>2
  <2> QED
    BY <1>2, <2>3 DEF ks
<1> QED
  BY <1>1, <1>2

LEMMA BookAtType ==
    ASSUME MaxId \in Nat, NEW v \in 0 .. MaxId
    PROVE  BookAt(v) \in [Prices -> 0 .. MaxId]
<1>1. Empty \in [Prices -> 0 .. MaxId]
  BY DEF Empty
<1>2. 1 .. v \in SUBSET Ids
  BY DEF Ids
<1> QED
  BY <1>1, <1>2, AfterType DEF BookAt

\* A new change leaves the books before it alone.
LEMMA BookAtKept ==
    ASSUME log \in Seq(Prices), NEW p \in Prices, log' = Append(log, p),
           NEW v \in 0 .. Len(log)
    PROVE  BookAt(v)' = BookAt(v)
<1>1. \A k \in 1 .. v : log'[k] = log[k]
  OBVIOUS
<1>2. \A q : {k \in 1 .. v : log'[k] = q} = {k \in 1 .. v : log[k] = q}
  BY <1>1
<1> QED
  BY <1>2 DEF BookAt, After, Empty

-----------------------------------------------------------------------------
(* The buffered messages that a snapshot joins. *)

\* The positions of the buffer that the loop reaches.
LEMMA JoinedIs ==
    ASSUME TypeOK, NEW v
    PROVE  /\ Stop(v) \in 1 .. Len(m_buffered_updates) + 1
           /\ Joined(v) \subseteq Kept(v) /\ Kept(v) \subseteq 1 .. Len(m_buffered_updates)
           /\ \A i \in Joined(v) : Joins(v, i)
           /\ \A i \in Joined(v) : \A j \in Kept(v) : j < i => j \in Joined(v)
<1> DEFINE n == Len(m_buffered_updates)
           B == {i \in Kept(v) : ~Joins(v, i)}
           X == B \cup {n + 1}
<1>1. n \in Nat
  BY DEF TypeOK
<1>2. Kept(v) \subseteq 1 .. n /\ Joined(v) \subseteq Kept(v)
  BY DEF Kept, Joined
<1>3. X \in SUBSET Nat /\ X # {} /\ \A x \in X : x \in 1 .. n + 1
  <2>1. \A x \in X : x \in 1 .. n + 1
    BY <1>1, <1>2
  <2> QED
    BY <1>1, <2>1
<1>4. Min(X) \in X /\ \A x \in X : Min(X) =< x
  <2> HIDE DEF X
  <2> QED
    BY <1>3, MinIs
<1>5. Stop(v) = Min(X)
  BY DEF Stop
<1>6. Stop(v) \in 1 .. n + 1 /\ \A x \in X : Stop(v) =< x
  BY <1>3, <1>4, <1>5
<1>7. ASSUME NEW i \in Joined(v) PROVE Joins(v, i)
  <2>1. i \in Kept(v) /\ i < Stop(v) /\ i \in 1 .. n
    BY <1>2 DEF Joined
  <2>2. ~Joins(v, i) => i \in X
    BY <2>1
  <2> HIDE DEF X
  <2> QED
    BY <1>1, <1>6, <2>1, <2>2
<1>8. ASSUME NEW i \in Joined(v), NEW j \in Kept(v), j < i PROVE j \in Joined(v)
  <2>1. i < Stop(v) /\ i \in 1 .. n /\ j \in 1 .. n
    BY <1>2 DEF Joined
  <2>2. j < Stop(v)
    BY <1>1, <1>6, <1>8, <2>1
  <2> QED
    BY <2>2 DEF Joined
<1> QED
  BY <1>2, <1>6, <1>7, <1>8

\* They carry every change from some number not above the snapshot's to the
\* last one's, and no other.
LEMMA JoinedIds ==
    ASSUME TypeOK, StreamInv, NEW v \in Nat, Joined(v) # {}
    PROVE  LET last == m_buffered_updates[Max(Joined(v))].u IN
           /\ Max(Joined(v)) \in Joined(v)
           /\ last \in 1 .. Len(log) /\ v =< last
           /\ \E a \in Nat :
                /\ 1 =< a /\ a =< v
                /\ UNION {m_buffered_updates[i].U .. m_buffered_updates[i].u : i \in Joined(v)}
                     = a .. last
<1> DEFINE n == Len(m_buffered_updates)
           J == Joined(v)
           U(i) == m_buffered_updates[i].U
           u(i) == m_buffered_updates[i].u
           f == Min(J)
           Upto(i) == \A x : (\E j \in J : j =< i /\ x \in U(j) .. u(j)) <=> x \in U(f) .. u(i)
<1>1. n \in Nat
  BY DEF TypeOK
<1>2. /\ J \subseteq Kept(v) /\ Kept(v) \subseteq 1 .. n
      /\ \A i \in J : Joins(v, i)
      /\ \A i \in J : \A j \in Kept(v) : j < i => j \in J
  BY JoinedIs
<1>3. \A i \in 1 .. n : /\ U(i) \in Nat /\ u(i) \in Nat /\ U(i) =< u(i) /\ 1 =< U(i)
                        /\ u(i) =< Len(log) /\ U(i) = m_buffered_updates[i].pu + 1
  <2>1. ASSUME NEW i \in 1 .. n PROVE m_buffered_updates[i] \in Messages
    BY <2>1, ElementOfSeq DEF TypeOK
  <2>2. \A m \in Messages : m.U \in Nat /\ m.u \in Nat /\ 1 =< m.U
    BY BoundsAssumption DEF Messages, Ids
  <2> QED
    BY <2>1, <2>2 DEF StreamInv, Sound
<1>4. \A i \in Kept(v) : v =< u(i)
  <2>1. \A i \in Kept(v) : u(i) >= v
    BY DEF Kept
  <2> QED
    BY <1>2, <1>3, <2>1
<1>5. J \in SUBSET Nat /\ J \in SUBSET (0 .. n) /\ \A i \in J : i \in 1 .. n
  BY <1>1, <1>2
<1>6. f \in J /\ \A j \in J : f =< j
  <2> HIDE DEF J
  <2> QED
    BY <1>5, MinIs DEF J
<1>7. Max(J) \in J /\ \A j \in J : j =< Max(J)
  <2> HIDE DEF J
  <2> QED
    BY <1>1, <1>5, MaxIs DEF J
<1> HIDE DEF J, f
<1>8. U(f) =< v /\ U(f) \in Nat /\ 1 =< U(f)
  <2>1. {j \in Kept(v) : j < f} = {}
    BY <1>2, <1>5, <1>6
  <2>2. Joins(v, f)
    BY <1>2, <1>6
  <2> QED
    BY <1>3, <1>5, <1>6, <2>1, <2>2 DEF Joins
<1>9. \A i \in J : Upto(i)
  <2> SUFFICES ASSUME {i \in J : ~Upto(i)} # {} PROVE FALSE
    OBVIOUS
  <2> DEFINE Bad == {i \in J : ~Upto(i)}
  <2>1. Bad \in SUBSET Nat /\ Bad \subseteq J
    BY <1>5
  <2> HIDE DEF Upto
  <2>2. PICK i \in Bad : \A y \in Bad : i =< y
    <3> HIDE DEF Bad
    <3> QED
      BY <2>1, MinIs DEF Bad
  <2>3. i \in J /\ ~Upto(i) /\ i \in 1 .. n
    BY <1>5, <2>2
  <2>4. CASE i = f
    <3>1. \A j \in J : j =< i <=> j = i
      BY <1>5, <1>6, <2>3, <2>4
    <3> QED
      BY <2>3, <2>4, <3>1 DEF Upto
  <2>5. CASE i # f
    <3> DEFINE P == {j \in Kept(v) : j < i}
               k == Max(P)
    <3>1. f \in P
      BY <1>2, <1>5, <1>6, <2>3, <2>5
    <3>2. P \in SUBSET (0 .. n) /\ P # {}
      BY <1>1, <1>2, <3>1
    <3>3. k \in P /\ \A y \in P : y =< k
      <4> HIDE DEF P
      <4> QED
        BY <1>1, <3>2, MaxIs DEF P
    <3>4. k \in J /\ k < i /\ k \in 1 .. n
      BY <1>2, <1>5, <2>3, <3>3
    <3>5. \A j \in J : j =< i <=> j =< k \/ j = i
      <4>1. \A j \in J : j < i => j =< k
        BY <1>2, <3>3
      <4> QED
        BY <1>5, <2>3, <3>4, <4>1
    <3>6. m_buffered_updates[i].pu = u(k)
      BY <1>2, <2>3, <3>1 DEF Joins
    <3>7. Upto(k)
      BY <2>1, <2>2, <2>3, <3>4, <1>5
    <3>8. U(i) = u(k) + 1 /\ U(i) =< u(i) /\ u(k) \in Nat /\ u(i) \in Nat /\ U(f) =< u(k)
          /\ U(f) \in Nat
      BY <1>2, <1>3, <1>4, <1>8, <2>3, <3>4, <3>6
    <3>9. \A x : x \in U(f) .. u(i) <=> x \in U(f) .. u(k) \/ x \in U(i) .. u(i)
      BY <3>8
    <3>10. \A x : (\E j \in J : j =< i /\ x \in U(j) .. u(j)) <=>
                  (\E j \in J : j =< k /\ x \in U(j) .. u(j)) \/ x \in U(i) .. u(i)
      BY <2>3, <3>4, <3>5
    <3> HIDE DEF k
    <3> QED
      BY <2>3, <3>7, <3>9, <3>10 DEF Upto
  <2> QED
    BY <2>4, <2>5
<1>10. \A x : (\E j \in J : x \in U(j) .. u(j)) <=> x \in U(f) .. u(Max(J))
  BY <1>7, <1>9
<1>11. UNION {m_buffered_updates[i].U .. m_buffered_updates[i].u : i \in J} = U(f) .. u(Max(J))
  BY <1>10
<1>12. u(Max(J)) \in 1 .. Len(log) /\ v =< u(Max(J))
  <2>1. Max(J) \in 1 .. n /\ Max(J) \in Kept(v)
    BY <1>2, <1>5, <1>7 DEF J
  <2>2. Len(log) \in Nat
    BY DEF TypeOK
  <2> QED
    BY <1>3, <1>4, <2>1, <2>2
<1> QED
  BY <1>7, <1>8, <1>11, <1>12 DEF J

-----------------------------------------------------------------------------
(* One lemma per action: the inductive invariant is kept. *)

LEMMA BoundsNat == {MaxId, MaxRequests, MaxLost, MaxFailed, MaxDisconnects} \subseteq Nat
                   /\ MaxId \in Nat /\ MaxRequests \in Nat /\ NotServed \in Nat
BY BoundsAssumption DEF NotServed

\* A step that touches neither the exchange nor what the engine believes.
LEMMA SameBook ==
    ASSUME BookInv, UNCHANGED <<log, m_package_last_update_id, book, bridged>>
    PROVE  BookInv'
<1>1. \A w : BookAt(w)' = BookAt(w)
  BY DEF BookAt, After, Empty
<1> QED
  BY <1>1 DEF BookInv

LEMMA ChangeStep ==
    ASSUME IInv, NEW p \in Prices, Change(p)
    PROVE  IInv'
<1>1. /\ Len(log) < MaxId /\ log' = Append(log, p)
      /\ UNCHANGED <<sent, connected, wire, requests, nrequests, disconnects, re_fetch,
                     m_sync_state, m_has_received_first_update, m_snapshot_last_update_id,
                     m_package_last_update_id, m_buffered_updates, book, bridged>>
  BY DEF Change, counters, state
<1>2. log \in Seq(Prices) /\ Len(log) \in Nat
  BY DEF IInv, TypeOK
<1>3. log' \in Seq(Prices) /\ Len(log') = Len(log) + 1 /\ Len(log') =< MaxId
  BY <1>1, <1>2, BoundsNat
<1>4. sent' \in 0 .. Len(log')
  BY <1>1, <1>2, <1>3 DEF IInv, TypeOK
<1>5. TypeOK'
  BY <1>1, <1>3, <1>4 DEF IInv, TypeOK
<1>6. StreamInv'
  <2>1. \A i \in 1 .. Len(wire) : wire[i] \in Messages
    BY ElementOfSeq DEF IInv, TypeOK
  <2>2. \A i \in 1 .. Len(m_buffered_updates) : m_buffered_updates[i] \in Messages
    BY ElementOfSeq DEF IInv, TypeOK
  <2>3. \A m \in Messages : Sound(m) => Sound(m)'
    <3>1. \A m \in Messages : m.u \in Nat
      BY BoundsNat DEF Messages, Ids
    <3> QED
      BY <1>2, <1>3, <3>1 DEF Sound
  <2>4. \A r \in requests : r.last = NotServed \/ r.last =< Len(log')
    <3>1. \A r \in requests : r.last \in Nat
      BY BoundsNat DEF IInv, TypeOK
    <3> QED
      BY <1>2, <1>3, <3>1 DEF IInv, StreamInv
  <2> QED
    BY <1>1, <1>3, <2>1, <2>2, <2>3, <2>4 DEF IInv, StreamInv
<1>7. BookInv'
  <2>1. ASSUME bridged
        PROVE  /\ m_package_last_update_id \in 1 .. Len(log')
               /\ book = BookAt(m_package_last_update_id)'
    <3>1. m_package_last_update_id \in 1 .. Len(log) /\ book = BookAt(m_package_last_update_id)
      BY <2>1 DEF IInv, BookInv
    <3>2. PICK w \in 0 .. Len(log) : w = m_package_last_update_id
      BY <1>2, <3>1
    <3>3. BookAt(w)' = BookAt(w)
      BY <1>1, <1>2, BookAtKept
    <3>4. m_package_last_update_id' = w
      BY <1>1, <3>2
    <3>5. book = BookAt(m_package_last_update_id)'
      BY <3>1, <3>2, <3>3, <3>4
    <3> QED
      BY <1>2, <1>3, <3>1, <3>5
  <2> QED
    BY <1>1, <2>1 DEF BookInv
<1>8. RequestInv'
  BY <1>1 DEF IInv, RequestInv
<1> QED
  BY <1>5, <1>6, <1>7, <1>8 DEF IInv

LEMMA StreamStep ==
    ASSUME IInv, Emit \/ Lose \/ Repeat
    PROVE  IInv'
<1>1. UNCHANGED <<log, connected, requests, nrequests, disconnects, re_fetch, m_sync_state,
                  m_has_received_first_update, m_snapshot_last_update_id,
                  m_package_last_update_id, m_buffered_updates, book, bridged>>
  BY DEF Emit, Lose, Repeat, exchange, counters, state
<1>2. /\ Len(log) \in Nat /\ Len(log) =< MaxId /\ sent \in Nat /\ sent =< Len(log)
      /\ wire \in Seq(Messages) /\ \A i \in 1 .. Len(wire) : Sound(wire[i])
  BY DEF IInv, TypeOK, StreamInv
<1>3. sent' \in 0 .. Len(log)
  <2>1. CASE Emit \/ Lose
    BY <1>2, <2>1 DEF Emit, Lose
  <2>2. CASE Repeat
    BY <1>2, <2>2 DEF Repeat, exchange
  <2> QED
    BY <2>1, <2>2
<1>4. wire' \in Seq(Messages) /\ \A i \in 1 .. Len(wire') : Sound(wire'[i])
  <2>1. ASSUME NEW m \in Messages, Sound(m), wire' = Append(wire, m)
        PROVE  wire' \in Seq(Messages) /\ \A i \in 1 .. Len(wire') : Sound(wire'[i])
    <3>1. /\ Len(wire') = Len(wire) + 1 /\ wire'[Len(wire) + 1] = m
          /\ \A i \in 1 .. Len(wire) : wire'[i] = wire[i]
          /\ wire' \in Seq(Messages) /\ Len(wire) \in Nat
      BY <1>2, <2>1
    <3>2. \A i \in 1 .. Len(wire') : i \in 1 .. Len(wire) \/ i = Len(wire) + 1
      BY <3>1
    <3> QED
      BY <1>2, <2>1, <3>1, <3>2
  <2>2. CASE wire' = wire
    BY <1>2, <2>2
  <2>3. CASE Emit
    <3>1. CASE connected
      <4>1. wire' = Append(wire, Message) /\ sent < Len(log)
        BY <2>3, <3>1 DEF Emit
      <4>2. Message \in Messages
        BY <1>2, <4>1, BoundsNat DEF Message, Messages, Ids
      <4>3. Sound(Message)
        BY <1>2, <4>1 DEF Message, Sound
      <4> QED
        BY <2>1, <4>1, <4>2, <4>3
    <3>2. CASE ~connected
      BY <2>2, <2>3, <3>2 DEF Emit
    <3> QED
      BY <3>1, <3>2
  <2>4. CASE Lose
    BY <2>2, <2>4 DEF Lose
  <2>5. CASE Repeat
    <3>1. wire # <<>> /\ wire' = Append(wire, wire[Len(wire)])
      BY <2>5 DEF Repeat
    <3>2. Len(wire) \in 1 .. Len(wire)
      BY <1>2, <3>1, EmptySeq
    <3>3. wire[Len(wire)] \in Messages /\ Sound(wire[Len(wire)])
      BY <1>2, <3>2, ElementOfSeq
    <3> QED
      BY <2>1, <3>1, <3>3
  <2> QED
    BY <2>3, <2>4, <2>5
<1>5. TypeOK'
  BY <1>1, <1>3, <1>4 DEF IInv, TypeOK
<1>6. \A m : Sound(m)' <=> Sound(m)
  BY <1>1 DEF Sound
<1>7. StreamInv'
  BY <1>1, <1>4, <1>6 DEF IInv, StreamInv, Sound
<1>8. BookInv'
  BY <1>1, SameBook DEF IInv
<1>9. RequestInv'
  BY <1>1 DEF IInv, RequestInv
<1> QED
  BY <1>5, <1>7, <1>8, <1>9 DEF IInv

LEMMA ConnectionStep ==
    ASSUME IInv, Connect \/ Disconnect
    PROVE  IInv'
<1>1. UNCHANGED <<log, sent, requests, nrequests, m_sync_state,
                  m_has_received_first_update, m_snapshot_last_update_id,
                  m_package_last_update_id, m_buffered_updates, book, bridged>>
  BY DEF Connect, Disconnect, exchange, counters, state
<1>2. /\ re_fetch \in Nat /\ disconnects \in Nat /\ wire \in Seq(Messages)
      /\ \A i \in 1 .. Len(wire) : Sound(wire[i])
  BY DEF IInv, TypeOK, StreamInv
<1>3. /\ connected' \in BOOLEAN
      /\ \/ UNCHANGED <<wire, re_fetch, disconnects>>
         \/ wire' = <<>> /\ re_fetch' = re_fetch + 1 /\ disconnects' = disconnects + 1
  BY DEF Connect, Disconnect, counters
<1>4. /\ wire' \in Seq(Messages) /\ \A i \in 1 .. Len(wire') : Sound(wire'[i])
      /\ re_fetch' \in Nat /\ disconnects' \in Nat
  <2>1. CASE UNCHANGED <<wire, re_fetch, disconnects>>
    BY <1>2, <2>1
  <2>2. CASE wire' = <<>> /\ re_fetch' = re_fetch + 1 /\ disconnects' = disconnects + 1
    BY <1>2, <2>2, EmptySeq
  <2> QED
    BY <1>3, <2>1, <2>2
<1>5. TypeOK'
  BY <1>1, <1>3, <1>4 DEF IInv, TypeOK
<1>6. StreamInv'
  BY <1>1, <1>4 DEF IInv, StreamInv, Sound
<1>7. BookInv'
  BY <1>1, SameBook DEF IInv
<1>8. RequestInv'
  BY <1>1, <1>2, <1>3 DEF IInv, RequestInv
<1> QED
  BY <1>5, <1>6, <1>7, <1>8 DEF IInv

\* The exchange answers a request, or its connection breaks.
LEMMA RestStep ==
    ASSUME IInv, NEW r \in requests, Serve(r) \/ Fail(r)
    PROVE  IInv'
<1>1. UNCHANGED <<log, sent, connected, wire, nrequests, disconnects, re_fetch, m_sync_state,
                  m_has_received_first_update, m_snapshot_last_update_id,
                  m_package_last_update_id, m_buffered_updates, book, bridged>>
  BY DEF Serve, Fail, exchange, counters, state
<1>2. /\ Len(log) \in Nat /\ Len(log) =< MaxId
      /\ requests \subseteq [n : 1 .. MaxRequests, last : 0 .. NotServed]
  BY DEF IInv, TypeOK, StreamInv
<1>3. PICK w \in {Len(log), 0} : requests' = (requests \ {r}) \cup {[r EXCEPT !.last = w]}
  BY DEF Serve, Fail
<1>4. /\ w \in 0 .. NotServed /\ w =< Len(log)
  BY <1>2, <1>3, BoundsNat DEF NotServed
<1>5. /\ [r EXCEPT !.last = w] \in [n : 1 .. MaxRequests, last : 0 .. NotServed]
      /\ [r EXCEPT !.last = w].last = w
  BY <1>2, <1>4
<1>6. requests' \subseteq [n : 1 .. MaxRequests, last : 0 .. NotServed]
  BY <1>2, <1>3, <1>5
<1>7. TypeOK'
  BY <1>1, <1>6 DEF IInv, TypeOK
<1>8. \A q \in requests' : q.last = NotServed \/ q.last =< Len(log)
  <2>1. \A q \in requests : q.last = NotServed \/ q.last =< Len(log)
    BY DEF IInv, StreamInv
  <2> QED
    BY <1>3, <1>4, <1>5, <2>1
<1>9. StreamInv'
  BY <1>1, <1>8 DEF IInv, StreamInv, Sound
<1>10. BookInv'
  BY <1>1, SameBook DEF IInv
<1>11. RequestInv'
  <2>1. requests # {} /\ requests' # {}
    BY <1>3
  <2>2. (\A q, s \in requests : q = s) => \A q, s \in requests' : q = s
    BY <1>3
  <2> QED
    BY <1>1, <2>1, <2>2 DEF IInv, RequestInv
<1> QED
  BY <1>7, <1>9, <1>10, <1>11 DEF IInv

\* The message a handler takes off the wire, and the messages it leaves.
LEMMA TakeMessage ==
    ASSUME IInv, wire # <<>>, wire' = Tail(wire)
    PROVE  /\ Head(wire) \in Messages /\ Sound(Head(wire))
           /\ wire' \in Seq(Messages) /\ \A i \in 1 .. Len(wire') : Sound(wire'[i])
<1>1. wire \in Seq(Messages) /\ \A i \in 1 .. Len(wire) : Sound(wire[i])
  BY DEF IInv, TypeOK, StreamInv
<1>2. /\ Head(wire) \in Messages /\ Head(wire) = wire[1] /\ 1 \in 1 .. Len(wire)
      /\ Tail(wire) \in Seq(Messages) /\ Len(wire) \in Nat /\ Len(Tail(wire)) = Len(wire) - 1
      /\ \A i \in 1 .. Len(wire) - 1 : Tail(wire)[i] = wire[i + 1] /\ i + 1 \in 1 .. Len(wire)
  BY <1>1
<1> QED
  BY <1>1, <1>2

\* The message goes to the end of the buffer.
LEMMA BufferGrows ==
    ASSUME IInv, wire # <<>>, wire' = Tail(wire),
           m_buffered_updates' = Append(m_buffered_updates, Head(wire))
    PROVE  /\ m_buffered_updates' \in Seq(Messages)
           /\ \A i \in 1 .. Len(m_buffered_updates') : Sound(m_buffered_updates'[i])
<1>1. /\ m_buffered_updates \in Seq(Messages)
      /\ \A i \in 1 .. Len(m_buffered_updates) : Sound(m_buffered_updates[i])
  BY DEF IInv, TypeOK, StreamInv
<1>2. Head(wire) \in Messages /\ Sound(Head(wire))
  BY TakeMessage
<1>3. /\ m_buffered_updates' \in Seq(Messages) /\ Len(m_buffered_updates) \in Nat
      /\ Len(m_buffered_updates') = Len(m_buffered_updates) + 1
      /\ m_buffered_updates'[Len(m_buffered_updates) + 1] = Head(wire)
      /\ \A i \in 1 .. Len(m_buffered_updates) : m_buffered_updates'[i] = m_buffered_updates[i]
  BY <1>1, <1>2
<1>4. \A i \in 1 .. Len(m_buffered_updates') :
          i \in 1 .. Len(m_buffered_updates) \/ i = Len(m_buffered_updates) + 1
  BY <1>3
<1> QED
  BY <1>1, <1>2, <1>3, <1>4

LEMMA FirstMessageStep ==
    ASSUME IInv, FirstMessage
    PROVE  IInv'
<1> DEFINE q == [n |-> nrequests + 1, last |-> NotServed]
<1>1. /\ wire # <<>> /\ re_fetch = 0 /\ ~m_has_received_first_update
      /\ nrequests < MaxRequests
      /\ m_has_received_first_update' = TRUE
      /\ m_sync_state' = "Buffering"
      /\ nrequests' = nrequests + 1
      /\ requests' = requests \cup {q}
      /\ m_buffered_updates' = Append(m_buffered_updates, Head(wire))
      /\ wire' = Tail(wire)
      /\ UNCHANGED <<log, sent, connected, disconnects, re_fetch,
                     m_snapshot_last_update_id, m_package_last_update_id, book, bridged>>
  BY DEF FirstMessage, exchange
<1>2. /\ wire' \in Seq(Messages) /\ \A i \in 1 .. Len(wire') : Sound(wire'[i])
      /\ m_buffered_updates' \in Seq(Messages)
      /\ \A i \in 1 .. Len(m_buffered_updates') : Sound(m_buffered_updates'[i])
  BY <1>1, TakeMessage, BufferGrows
<1>3. nrequests' \in Nat /\ q \in [n : 1 .. MaxRequests, last : 0 .. NotServed]
  <2>1. nrequests \in Nat
    BY DEF IInv, StreamInv
  <2>2. nrequests + 1 \in 1 .. MaxRequests /\ NotServed \in 0 .. NotServed
    BY <1>1, <2>1, BoundsNat
  <2> QED
    BY <1>1, <2>1, <2>2
<1>4. TypeOK'
  BY <1>1, <1>2, <1>3 DEF IInv, TypeOK
<1>5. StreamInv'
  <2>1. q.last = NotServed
    OBVIOUS
  <2> HIDE DEF q
  <2> QED
    BY <1>1, <1>2, <1>3, <2>1 DEF IInv, StreamInv, Sound
<1>6. BookInv'
  BY <1>1, SameBook DEF IInv
<1>7. RequestInv'
  <2>1. disconnects = 0 => requests = {}
    BY <1>1 DEF IInv, RequestInv
  <2> HIDE DEF q
  <2> QED
    BY <1>1, <2>1 DEF RequestInv
<1> QED
  BY <1>4, <1>5, <1>6, <1>7 DEF IInv

LEMMA BufferMessageStep ==
    ASSUME IInv, BufferMessage
    PROVE  IInv'
<1>1. /\ wire # <<>>
      /\ m_buffered_updates' = Append(m_buffered_updates, Head(wire))
      /\ wire' = Tail(wire)
      /\ UNCHANGED <<log, sent, connected, requests, nrequests, disconnects, re_fetch,
                     m_sync_state, m_has_received_first_update, m_snapshot_last_update_id,
                     m_package_last_update_id, book, bridged>>
  BY DEF BufferMessage, exchange, counters
<1>2. /\ wire' \in Seq(Messages) /\ \A i \in 1 .. Len(wire') : Sound(wire'[i])
      /\ m_buffered_updates' \in Seq(Messages)
      /\ \A i \in 1 .. Len(m_buffered_updates') : Sound(m_buffered_updates'[i])
  BY <1>1, TakeMessage, BufferGrows
<1>3. TypeOK'
  BY <1>1, <1>2 DEF IInv, TypeOK
<1>4. StreamInv'
  BY <1>1, <1>2 DEF IInv, StreamInv, Sound
<1>5. BookInv'
  BY <1>1, SameBook DEF IInv
<1>6. RequestInv'
  BY <1>1 DEF IInv, RequestInv
<1> QED
  BY <1>3, <1>4, <1>5, <1>6 DEF IInv

\* What check_apply_update does to a joined book: a message is applied only
\* when it follows the last one applied.
LEMMA CheckApplyUpdateBook ==
    ASSUME IInv, NEW m \in Messages, Sound(m), CheckApplyUpdate(m),
           UNCHANGED <<log, bridged>>
    PROVE  /\ BookInv' /\ book' \in [Prices -> 0 .. MaxId]
           /\ m_package_last_update_id' \in 0 .. MaxId
           /\ re_fetch' = re_fetch \/ re_fetch' = re_fetch + 1
<1> DEFINE last == m_package_last_update_id
<1>1. /\ m.U \in Nat /\ m.u \in Nat /\ m.U = m.pu + 1 /\ m.U =< m.u /\ m.u =< Len(log)
      /\ 1 =< m.U /\ m.u =< MaxId /\ m.pu \in Nat /\ Len(log) \in Nat
  BY BoundsNat DEF Messages, Ids, Sound, IInv, TypeOK
<1>2. last \in 0 .. MaxId /\ book \in [Prices -> 0 .. MaxId] /\ MaxId \in Nat
  BY BoundsNat DEF IInv, TypeOK
<1>3. CASE UNCHANGED <<book, m_package_last_update_id>>
  <2>1. re_fetch' = re_fetch \/ re_fetch' = re_fetch + 1
    BY DEF CheckApplyUpdate
  <2> QED
    BY <1>2, <1>3, <2>1, SameBook DEF IInv
<1>4. CASE (last = 0 \/ (m.u > last /\ m.pu = last)) /\ Apply(m) /\ UNCHANGED re_fetch
  <2>1. book' = After(book, m.U .. m.u) /\ last' = m.u
    BY <1>4 DEF Apply
  <2>2. book' \in [Prices -> 0 .. MaxId]
    <3>1. m.U .. m.u \in SUBSET Ids
      BY <1>1, <1>2 DEF Ids
    <3> QED
      BY <1>2, <2>1, <3>1, AfterType
  <2>3. ASSUME bridged PROVE book' = BookAt(m.u)
    <3>1. last \in 1 .. Len(log) /\ book = BookAt(last)
      BY <2>3 DEF IInv, BookInv
    <3>2. last \in Nat /\ m.U = last + 1 /\ last =< m.u
      BY <1>1, <1>4, <3>1
    <3>3. After(BookAt(last), m.U .. m.u) = BookAt(m.u)
      BY <1>1, <3>2, AfterJoin
    <3> QED
      BY <2>1, <3>1, <3>3
  <2>4. \A w : BookAt(w)' = BookAt(w)
    BY DEF BookAt, After, Empty
  <2>5. BookInv'
    BY <1>1, <2>1, <2>3, <2>4 DEF BookInv
  <2> QED
    BY <1>1, <1>2, <1>4, <2>1, <2>2, <2>5
<1> QED
  BY <1>3, <1>4 DEF CheckApplyUpdate

LEMMA LiveMessageStep ==
    ASSUME IInv, LiveMessage
    PROVE  IInv'
<1>1. /\ wire # <<>> /\ m_sync_state = "Synced"
      /\ CheckApplyUpdate(Head(wire))
      /\ wire' = Tail(wire)
      /\ UNCHANGED <<log, sent, connected, requests, nrequests, disconnects, m_sync_state,
                     m_has_received_first_update, m_snapshot_last_update_id,
                     m_buffered_updates, bridged>>
  BY DEF LiveMessage, exchange, counters
<1>2. /\ Head(wire) \in Messages /\ Sound(Head(wire))
      /\ wire' \in Seq(Messages) /\ \A i \in 1 .. Len(wire') : Sound(wire'[i])
  BY <1>1, TakeMessage
<1>3. /\ BookInv' /\ book' \in [Prices -> 0 .. MaxId]
      /\ m_package_last_update_id' \in 0 .. MaxId
      /\ re_fetch' = re_fetch \/ re_fetch' = re_fetch + 1
  BY <1>1, <1>2, CheckApplyUpdateBook
<1>4. re_fetch' \in Nat
  BY <1>3 DEF IInv, TypeOK
<1>5. TypeOK'
  BY <1>1, <1>2, <1>3, <1>4 DEF IInv, TypeOK
<1>6. StreamInv'
  BY <1>1, <1>2 DEF IInv, StreamInv, Sound
<1>7. RequestInv'
  BY <1>1 DEF IInv, RequestInv
<1> QED
  BY <1>3, <1>5, <1>6, <1>7 DEF IInv

LEMMA ReFetchStep ==
    ASSUME IInv, ReFetch
    PROVE  IInv'
<1>1. /\ re_fetch > 0
      /\ re_fetch' = re_fetch - 1
      /\ connected' = FALSE /\ wire' = <<>>
      /\ m_sync_state' = "None" /\ m_has_received_first_update' = FALSE
      /\ m_snapshot_last_update_id' = 0 /\ m_package_last_update_id' = 0
      /\ m_buffered_updates' = <<>> /\ bridged' = FALSE
      /\ UNCHANGED <<log, sent, requests, nrequests, disconnects, book>>
  BY DEF ReFetch, exchange, counters
<1>2. re_fetch' \in Nat /\ 0 \in 0 .. MaxId /\ <<>> \in Seq(Messages)
  BY <1>1, BoundsNat, EmptySeq DEF IInv, TypeOK
<1>3. TypeOK'
  BY <1>1, <1>2 DEF IInv, TypeOK
<1>4. StreamInv'
  <2>1. \A i \in 1 .. Len(<<>>) : FALSE
    BY EmptySeq
  <2> QED
    BY <1>1, <2>1 DEF IInv, StreamInv
<1>5. BookInv'
  BY <1>1 DEF BookInv
<1>6. RequestInv'
  BY <1>1 DEF IInv, RequestInv
<1> QED
  BY <1>3, <1>4, <1>5, <1>6 DEF IInv

LEMMA HandleSnapshotStep ==
    ASSUME IInv, NEW r \in requests, HandleSnapshot(r)
    PROVE  IInv'
<1> DEFINE v == r.last
           n == Len(m_buffered_updates)
           ids == UNION {m_buffered_updates[i].U .. m_buffered_updates[i].u : i \in Joined(v)}
<1>1. /\ v # NotServed
      /\ requests' = requests \ {r}
      /\ m_snapshot_last_update_id' = v
      /\ book' = After(BookAt(v), ids)
      /\ IF Joined(v) = {} THEN UNCHANGED m_package_last_update_id
         ELSE m_package_last_update_id' = m_buffered_updates[Max(Joined(v))].u
      /\ bridged' = (Joined(v) # {})
      /\ m_buffered_updates' = SubSeq(m_buffered_updates, Stop(v) + 1, n)
      /\ \/ m_sync_state' = "Synced" /\ UNCHANGED re_fetch
         \/ re_fetch' = re_fetch + 1 /\ UNCHANGED m_sync_state
      /\ UNCHANGED <<log, sent, connected, wire, nrequests, disconnects,
                     m_has_received_first_update>>
  BY DEF HandleSnapshot, exchange, counters
<1>2. TypeOK /\ StreamInv /\ Len(log) \in Nat /\ Len(log) =< MaxId /\ MaxId \in Nat
  BY BoundsNat DEF IInv, TypeOK, StreamInv
<1>3. v \in Nat /\ v =< Len(log) /\ v \in 0 .. MaxId
  <2>1. v \in Nat /\ v =< Len(log)
    BY <1>1, <1>2, BoundsNat DEF TypeOK, StreamInv
  <2> QED
    BY <1>2, <2>1
<1> HIDE DEF v
<1>4. m_buffered_updates' \in Seq(Messages)
      /\ \A i \in 1 .. Len(m_buffered_updates') : Sound(m_buffered_updates'[i])
  <2>1. m_buffered_updates \in Seq(Messages) /\ n \in Nat
        /\ \A i \in 1 .. n : Sound(m_buffered_updates[i])
    BY <1>2 DEF TypeOK, StreamInv
  <2>2. Stop(v) \in 1 .. n + 1
    BY <1>2, JoinedIs
  <2> DEFINE a == Stop(v) + 1
  <2>3. a \in Nat /\ 1 =< a /\ a \in 1 .. n + 2
    BY <2>1, <2>2
  <2> HIDE DEF a, n
  <2>4. /\ SubSeq(m_buffered_updates, a, n) \in Seq(Messages)
        /\ Len(SubSeq(m_buffered_updates, a, n)) = IF a =< n THEN n - a + 1 ELSE 0
        /\ \A i \in 1 .. n - a + 1 :
              SubSeq(m_buffered_updates, a, n)[i] = m_buffered_updates[a + i - 1]
    BY <2>1, <2>3, SubSeqProperties DEF n
  <2>5. m_buffered_updates' = SubSeq(m_buffered_updates, a, n)
    BY <1>1 DEF a, n
  <2>6. ASSUME NEW i \in 1 .. Len(m_buffered_updates') PROVE Sound(m_buffered_updates'[i])
    <3>1. i \in 1 .. n - a + 1 /\ a + i - 1 \in 1 .. n
      BY <2>1, <2>3, <2>4, <2>5
    <3>2. m_buffered_updates'[i] = m_buffered_updates[a + i - 1]
      BY <2>4, <2>5, <3>1
    <3> QED
      BY <2>1, <3>1, <3>2
  <2> QED
    BY <2>4, <2>5, <2>6
<1>5. CASE Joined(v) = {}
  <2>1. ids \in SUBSET Ids
    BY <1>5
  <2>2. m_package_last_update_id' \in 0 .. MaxId /\ ~bridged'
    BY <1>1, <1>2, <1>5 DEF TypeOK
  <2> QED
    <3>1. book' \in [Prices -> 0 .. MaxId]
      BY <1>1, <1>2, <1>3, <2>1, AfterType, BookAtType
    <3>2. BookInv'
      BY <2>2 DEF BookInv
    <3>3. re_fetch' \in Nat /\ bridged' \in BOOLEAN
          /\ requests' \subseteq [n : 1 .. MaxRequests, last : 0 .. NotServed]
      BY <1>1, <1>2 DEF TypeOK
    <3>4. TypeOK'
      BY <1>1, <1>2, <1>3, <1>4, <2>2, <3>1, <3>3 DEF TypeOK
    <3>5. StreamInv'
      BY <1>1, <1>2, <1>4 DEF StreamInv, Sound
    <3>6. RequestInv'
      BY <1>1, <1>2 DEF IInv, RequestInv, TypeOK
    <3> QED
      BY <3>2, <3>4, <3>5, <3>6 DEF IInv
<1>6. CASE Joined(v) # {}
  <2> DEFINE last == m_buffered_updates[Max(Joined(v))].u
  <2>1. /\ last \in 1 .. Len(log) /\ v =< last
        /\ \E a \in Nat : 1 =< a /\ a =< v /\ ids = a .. last
    BY <1>2, <1>3, <1>6, JoinedIds
  <2>2. PICK a \in Nat : 1 =< a /\ a =< v /\ ids = a .. last
    BY <2>1
  <2> HIDE DEF ids
  <2>3. m_package_last_update_id' = last /\ bridged'
    BY <1>1, <1>6
  <2> HIDE DEF last
  <2>4. last \in Nat /\ last \in 1 .. MaxId /\ last \in 0 .. MaxId
    BY <1>2, <2>1
  <2>5. book' = BookAt(last)
    <3>1. a =< v + 1
      BY <1>3, <2>2
    <3>2. After(BookAt(v), a .. last) = BookAt(last)
      BY <1>3, <2>1, <2>2, <2>4, <3>1, AfterJoin
    <3> QED
      BY <1>1, <2>2, <3>2
  <2>6. BookInv'
    <3>1. \A w : BookAt(w)' = BookAt(w)
      BY <1>1 DEF BookAt, After, Empty
    <3> QED
      BY <1>1, <2>1, <2>3, <2>5, <3>1 DEF BookInv
  <2>7. book' \in [Prices -> 0 .. MaxId]
    BY <1>2, <2>4, <2>5, BookAtType
  <2>8. re_fetch' \in Nat /\ bridged' \in BOOLEAN
        /\ requests' \subseteq [n : 1 .. MaxRequests, last : 0 .. NotServed]
    BY <1>1, <1>2 DEF TypeOK
  <2>9. TypeOK'
    BY <1>1, <1>2, <1>3, <1>4, <2>3, <2>4, <2>7, <2>8 DEF TypeOK
  <2>10. StreamInv'
    BY <1>1, <1>2, <1>4 DEF StreamInv, Sound
  <2>11. RequestInv'
    BY <1>1, <1>2 DEF IInv, RequestInv, TypeOK
  <2> QED
    BY <2>6, <2>9, <2>10, <2>11 DEF IInv
<1> QED
  BY <1>5, <1>6

LEMMA InitIInv == Init => IInv
<1> SUFFICES ASSUME Init PROVE IInv
  OBVIOUS
<1>1. /\ <<>> \in Seq(Prices) /\ <<>> \in Seq(Messages) /\ Len(<<>>) = 0
      /\ 0 \in 0 .. MaxId /\ MaxId \in Nat
  BY EmptySeq, BoundsNat
<1>2. book \in [Prices -> 0 .. MaxId]
  BY <1>1 DEF Init, Empty
<1>3. TypeOK
  <2>1. log \in Seq(Prices) /\ sent \in 0 .. Len(log)
    BY <1>1 DEF Init
  <2>2. /\ connected \in BOOLEAN /\ wire \in Seq(Messages) /\ re_fetch \in Nat
        /\ requests \subseteq [n : 1 .. MaxRequests, last : 0 .. NotServed]
        /\ m_buffered_updates \in Seq(Messages) /\ bridged \in BOOLEAN
    BY <1>1 DEF Init
  <2> QED
    BY <1>1, <1>2, <2>1, <2>2 DEF Init, TypeOK
<1>4. StreamInv
  BY <1>1 DEF Init, StreamInv
<1>5. BookInv /\ RequestInv
  BY DEF Init, BookInv, RequestInv
<1> QED
  BY <1>3, <1>4, <1>5 DEF IInv

\* The inductive invariant holds in every state of the feed, whatever the
\* stream loses or repeats and whenever requests fail or sessions end.
THEOREM Invariance == Spec => []IInv
<1>1. IInv /\ [Next]_vars => IInv'
  <2> SUFFICES ASSUME IInv, [Next]_vars PROVE IInv'
    OBVIOUS
  <2>1. CASE Network
    BY <2>1, ChangeStep, StreamStep, ConnectionStep DEF Network
  <2>2. CASE Rest
    BY <2>2, RestStep DEF Rest
  <2>3. CASE Handlers
    BY <2>3, FirstMessageStep, BufferMessageStep, LiveMessageStep, ReFetchStep DEF Handlers
  <2>4. CASE \E r \in requests : HandleSnapshot(r)
    BY <2>4, HandleSnapshotStep
  <2>5. CASE UNCHANGED vars
    <3>1. UNCHANGED <<log, sent, connected, wire, requests, nrequests, disconnects, re_fetch,
                      m_sync_state, m_has_received_first_update, m_snapshot_last_update_id,
                      m_package_last_update_id, m_buffered_updates, book, bridged>>
      BY <2>5 DEF vars, exchange, counters, state
    <3>2. TypeOK'
      BY <3>1 DEF IInv, TypeOK
    <3>3. StreamInv'
      BY <3>1 DEF IInv, StreamInv, Sound
    <3>4. BookInv'
      BY <3>1, SameBook DEF IInv
    <3>5. RequestInv'
      BY <3>1 DEF IInv, RequestInv
    <3> QED
      BY <3>2, <3>3, <3>4, <3>5 DEF IInv
  <2> QED
    BY <2>1, <2>2, <2>3, <2>4, <2>5 DEF Next
<1> QED
  BY <1>1, InitIInv, PTL DEF Spec

\* Type correctness: the identifiers stay in the range of the exchange's
\* numbering, and the buffer holds messages of the stream.
THEOREM TypeCorrect == Spec => []TypeOK
BY Invariance, PTL DEF IInv

\* The book that a buffered message has joined to the stream is the exchange's
\* book at the last message applied, a session that waits for a snapshot has
\* asked for it, and without a disconnect it has asked once.
THEOREM BookInSync == Spec => []SyncSound
<1>1. IInv => SyncSound
  <2> SUFFICES ASSUME IInv PROVE SyncSound
    OBVIOUS
  <2>1. InSync
    BY DEF IInv, BookInv, InSync
  <2>2. ASSUME disconnects = 0 PROVE Cardinality(requests) =< 1
    <3>1. CASE requests = {}
      <4>1. Cardinality(requests) = 0
        BY <3>1, FS_EmptySet, Zenon
      <4> QED
        BY <4>1
    <3>2. CASE requests # {}
      <4>1. \A r, s \in requests : r = s
        BY <2>2 DEF IInv, RequestInv
      <4>2. PICK r \in requests : TRUE
        BY <3>2
      <4>3. requests = {r}
        BY <4>1, <4>2
      <4>4. Cardinality(requests) = 1
        BY <4>3, FS_Singleton, Zenon
      <4> QED
        BY <4>4
    <3> QED
      BY <3>1, <3>2
  <2>3. OneRequest
    BY <2>2 DEF IInv, RequestInv, OneRequest
  <2> QED
    BY <2>1, <2>3 DEF SyncSound
<1> QED
  BY <1>1, Invariance, PTL
=============================================================================
