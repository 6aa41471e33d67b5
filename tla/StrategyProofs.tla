--------------------------- MODULE StrategyProofs ---------------------------
(***************************************************************************)
(* Theorems about Strategy: what the buy spot strategy keeps, what the     *)
(* market maker knows of its orders, what a stop leaves behind, and what   *)
(* the mean reversion strategy has at risk.                                *)
(***************************************************************************)
EXTENDS Strategy, FiniteSetTheorems, TLAPS

-----------------------------------------------------------------------------
(* Types *)

OrderSides == {"BUY", "SELL"}
Statuses == {"NEW", "PARTIALLY_FILLED", "FILLED", "CANCELED", "REJECTED"}

OrderSet == [side : OrderSides, st : {"sent", "open", "filled", "canceled", "rejected"},
             filled : Int]

\* The orders a strategy may have heard of while it has made n.
HeardOf(n) == {Foreign} \cup 1..n

\* What may be asked and told while n orders have been made.
RequestSet(n) ==
    [op : {"place"}, id : 1..n] \cup [op : {"cancel"}, id : HeardOf(n)]
        \cup {Request("cancel_all", 0)}
ReportSet(n) ==
    [t : {"order"}, id : 1..n, st : Statuses, side : OrderSides, filled : Int]

\* An update of an order, the strategy's own or another.
IsUpdate(o, n) ==
    /\ o.t = "order" /\ o.id \in HeardOf(n) /\ o.st \in Statuses
    /\ o.side \in OrderSides /\ o.filled \in Int

\* The other tasks of the event base of a strategy of kind kd.
TaskNames(kd) ==
    {x \in {"snapshot", "price", "other", "init", "close", "trades"} :
        /\ x = "snapshot" => kd \in {"MeanReversion", "MarketMaker"}
        /\ x = "price" => kd \in {"BuySpot", "PriceArbitrage"}
        /\ x = "init" => kd = "MeanReversion"
        /\ x \in {"close", "trades"} => kd = "MarketMaker"}

TaskSet(kd) == [t : TaskNames(kd)] \cup [t : {"config"}, run : BOOLEAN, moved : BOOLEAN]

Tasks(kd, n) == TaskSet(kd) \cup ReportSet(n)

\* An Order that the mean reversion strategy remembers; a NEW one was reported.
Remembered(n) ==
    {o \in [id : {0} \cup HeardOf(n), st : Statuses \cup {"NOT_AVAILABLE"}, side : OrderSides] :
        o.st = "NEW" => o.id # 0}

SpreadSet(n) ==
    [status : {"NONE", "PLACING_INITIAL_ORDER"} \cup HedgeStatuses,
     initial : Remembered(n), hedge : Remembered(n), prices : Nat]

ReversionSet(n) ==
    [spread : SpreadSet(n), m_initial_order : Remembered(n), m_hedge_order : Remembered(n),
     m_pnl : Int]

MakerSet(n) ==
    [m_open_orders : SUBSET HeardOf(n), m_inventory : Int, m_last_quoted_price : {0, 1},
     m_number_of_order_pair_per_quote : Nat \ {0}, m_is_closing_far_orders : BOOLEAN,
     sleeping : Int]

\* A buy point, with what HeldNeverOffered says of it.
PointSet ==
    {b \in [status : {"AVAILABLE", "PLACING", "PLACED", "HOLD", "CANCELING"},
            quantity : {0, 1}] :
        /\ b.status = "AVAILABLE" => b.quantity = 0
        /\ b.status = "HOLD" => b.quantity > 0}

SpotOK(m) == m \in [points : [DOMAIN m.points -> PointSet]]

MemOK(kd, m, n) ==
    /\ kd = "MeanReversion" => m \in ReversionSet(n)
    /\ kd = "MarketMaker" => m \in MakerSet(n)
    /\ kd = "BuySpot" => SpotOK(m)

Trading == kind \in {"MeanReversion", "MarketMaker"}

TypeOK ==
    /\ kind \in Kinds
    /\ simulated \in BOOLEAN
    /\ orders \in Seq(OrderSet)
    /\ requests \in Seq(RequestSet(Len(orders)))
    /\ disconnected \subseteq RequestSet(Len(orders))
    /\ inbox \in Seq(Tasks(kind, Len(orders)))
    /\ faults \in Nat /\ (disconnected # {} => "break" \in seen)
    /\ m_current_state \in {"STOP", "RUN"}
    /\ m_previous_state \in {"UNKNOWN", "STOP", "RUN"}
    /\ is_running \in BOOLEAN
    /\ MemOK(kind, mem, Len(orders))
    /\ ~Trading => orders = <<>> /\ requests = <<>> /\ disconnected = {}

-----------------------------------------------------------------------------
(* Requests *)

\* The orders that were sent are those with a place request, one each.
PlacesExact(ords, reqs) ==
    /\ \A k \in DOMAIN reqs : reqs[k].op = "place" => ords[reqs[k].id].st = "sent"
    /\ \A k, l \in DOMAIN reqs :
           reqs[k].op = "place" /\ reqs[l].op = "place" /\ reqs[k].id = reqs[l].id => k = l
    /\ \A id \in DOMAIN ords : ords[id].st = "sent" =>
           \E k \in DOMAIN reqs : reqs[k] = Request("place", id)

\* A cancel_all is on its way that no order is placed after.
WillCancel(reqs) ==
    \E j \in DOMAIN reqs :
        /\ reqs[j].op = "cancel_all"
        /\ \A k \in DOMAIN reqs : reqs[k].op = "place" => k < j

\* Once end() has run, what is left on the exchange is about to be canceled.
StopPending ==
    ~AtSimulator =>
        /\ PlacesExact(orders, requests)
        /\ "break" \notin seen /\ m_previous_state # "RUN" /\ Working # {}
               => WillCancel(requests)

-----------------------------------------------------------------------------
(* Reports *)

\* A report that order id is open or has ended.
IsAbout(msg, id) == msg.t = "order" /\ msg.id = id /\ msg.st # "PARTIALLY_FILLED"

\* What the market maker believes of order id once it has handled its tasks.
WillList(box, open, id) ==
    IF \E k \in DOMAIN box : IsAbout(box[k], id)
    THEN \E k \in DOMAIN box :
             /\ IsAbout(box[k], id) /\ box[k].st = "NEW"
             /\ \A l \in DOMAIN box : IsAbout(box[l], id) => l =< k
    ELSE id \in open

MirrorPending ==
    kind = "MarketMaker" /\ Undisturbed /\ m_current_state = "RUN" =>
        /\ m_previous_state # "STOP"
        /\ \A id \in DOMAIN orders :
               WillList(inbox, mem.m_open_orders, id) <=> orders[id].st = "open"

IInv == TypeOK /\ StopPending /\ MirrorPending

-----------------------------------------------------------------------------
(* Sequences of requests *)

\* SetToSeq lists a finite set, every element once.
LEMMA SetToSeqOK ==
    ASSUME NEW S, IsFiniteSet(S)
    PROVE  /\ Cardinality(S) \in Nat
           /\ SetToSeq(S) \in [1..Cardinality(S) -> S]
           /\ SetToSeq(S) \in Seq(S) /\ Len(SetToSeq(S)) = Cardinality(S)
           /\ \A x \in S : \E k \in 1..Cardinality(S) : SetToSeq(S)[k] = x
<1> DEFINE n == Cardinality(S)
<1>1. n \in Nat
  BY FS_CardinalityType
<1>2. \E f \in [1..n -> S] : IsInjective(f)
  <2>1. \E f : f \in Bijection(1..n, S)
    BY FS_CardinalityType, FS_NatBijection, Zenon DEF ExistsBijection
  <2>2. PICK f : f \in Bijection(1..n, S)
    BY <2>1
  <2>3. f \in [1..n -> S] /\ IsInjective(f)
    BY <2>2 DEF Bijection, Injection
  <2> QED
    BY <2>3
<1>3. PICK f : f = SetToSeq(S)
  OBVIOUS
<1>4. f \in [1..n -> S] /\ IsInjective(f)
  BY <1>2, <1>3 DEF SetToSeq
<1>5. f \in Injection(1..n, S)
  BY <1>4 DEF Injection
<1>6. IsFiniteSet(1..n) /\ Cardinality(1..n) = n
  <2> HIDE DEF n
  <2>1. 1 \in Int /\ n \in Int
    BY <1>1
  <2>2. IsFiniteSet(1..n) /\ Cardinality(1..n) = IF 1 > n THEN 0 ELSE n - 1 + 1
    BY <2>1, FS_Interval
  <2> QED
    BY <1>1, <2>2
<1>7. f \in Surjection(1..n, S)
  BY <1>5, <1>6, FS_Injection
<1>8. \A x \in S : \E k \in 1..n : f[k] = x
  BY <1>7 DEF Surjection
<1>9. f \in Seq(S) /\ Len(f) = n
  <2> HIDE DEF n
  <2> QED
    BY <1>1, <1>4
<1> QED
  BY <1>1, <1>3, <1>4, <1>8, <1>9

IsJoin(w, s, u, S) ==
    /\ w \in Seq(S) /\ Len(w) = Len(s) + Len(u)
    /\ \A k \in 1..Len(s) : w[k] = s[k]
    /\ \A k \in 1..Len(u) : w[Len(s) + k] = u[k]

LEMMA Joined ==
    ASSUME NEW S, NEW s \in Seq(S), NEW u \in Seq(S)
    PROVE  IsJoin(s \o u, s, u, S)
BY DEF IsJoin

IsJoinTwice(s, u, w, S) == (s \o u) \o w = s \o (u \o w) /\ u \o w \in Seq(S)

LEMMA JoinedTwice ==
    ASSUME NEW S, NEW s \in Seq(S), NEW u \in Seq(S), NEW w \in Seq(S)
    PROVE  IsJoinTwice(s, u, w, S)
BY DEF IsJoinTwice

LEMMA AppendIs ==
    ASSUME NEW S, NEW s \in Seq(S), NEW e \in S
    PROVE  Append(s, e) = s \o <<e>> /\ Append(s, e) \in Seq(S)
OBVIOUS

LEMMA RequestFacts ==
    ASSUME NEW n \in Nat
    PROVE  /\ \A m \in Nat : n =< m => RequestSet(n) \subseteq RequestSet(m)
           /\ \A r \in RequestSet(n) : /\ r = Request(r.op, r.id)
                                       /\ r.op \in {"place", "cancel", "cancel_all"}
                                       /\ r.op = "place" => r.id \in 1..n
                                       /\ r.op = "cancel" => r.id \in HeardOf(n)
           /\ \A id \in 1..n : Request("place", id) \in RequestSet(n)
           /\ \A id \in HeardOf(n) : Request("cancel", id) \in RequestSet(n)
           /\ Request("cancel_all", 0) \in RequestSet(n)
<1>1. \A m \in Nat : n =< m => RequestSet(n) \subseteq RequestSet(m)
  <2> SUFFICES ASSUME NEW m \in Nat, n =< m, NEW r \in RequestSet(n) PROVE r \in RequestSet(m)
    OBVIOUS
  <2>1. HeardOf(n) \subseteq HeardOf(m) /\ 1..n \subseteq 1..m
    BY DEF HeardOf
  <2>2. CASE r \in [op : {"place"}, id : 1..n]
    BY <2>1, <2>2 DEF RequestSet
  <2>3. CASE r \in [op : {"cancel"}, id : HeardOf(n)]
    BY <2>1, <2>3 DEF RequestSet
  <2>4. CASE r = Request("cancel_all", 0)
    BY <2>4 DEF RequestSet
  <2> QED
    BY <2>2, <2>3, <2>4 DEF RequestSet
<1>2. ASSUME NEW r \in RequestSet(n)
      PROVE  /\ r = Request(r.op, r.id)
             /\ r.op \in {"place", "cancel", "cancel_all"}
             /\ r.op = "place" => r.id \in 1..n
             /\ r.op = "cancel" => r.id \in HeardOf(n)
  <2>1. CASE r \in [op : {"place"}, id : 1..n]
    BY <2>1 DEF Request
  <2>2. CASE r \in [op : {"cancel"}, id : HeardOf(n)]
    BY <2>2 DEF Request
  <2>3. CASE r = Request("cancel_all", 0)
    BY <2>3 DEF Request
  <2> QED
    BY <2>1, <2>2, <2>3 DEF RequestSet
<1>3. /\ \A id \in 1..n : Request("place", id) \in RequestSet(n)
      /\ \A id \in HeardOf(n) : Request("cancel", id) \in RequestSet(n)
      /\ Request("cancel_all", 0) \in RequestSet(n)
  BY DEF RequestSet, Request
<1> QED
  BY <1>1, <1>2, <1>3

\* The requests of OrderEntry::place, cancel and cancel_all.
Placing(n, place) == [i \in DOMAIN place |-> Request("place", n + i)]
Canceling(cancel) == SetToSeq({Request("cancel", id) : id \in cancel})
CancelingAll(all) == IF all THEN <<Request("cancel_all", 0)>> ELSE <<>>
MadeOrders(place) == [i \in DOMAIN place |-> [side |-> place[i], st |-> "sent", filled |-> 0]]

LEMMA CancelingOK ==
    ASSUME NEW n \in Nat, NEW cancel \in SUBSET HeardOf(n)
    PROVE  /\ Canceling(cancel) \in Seq(RequestSet(n))
           /\ \A k \in 1..Len(Canceling(cancel)) : Canceling(cancel)[k].op = "cancel"
<1> DEFINE S == {Request("cancel", id) : id \in cancel}
           f == [id \in cancel |-> Request("cancel", id)]
<1>1. IsFiniteSet(cancel)
  <2>1. IsFiniteSet(1..n)
    BY FS_Interval
  <2>2. IsFiniteSet({Foreign} \cup 1..n)
    BY <2>1, FS_Singleton, FS_Union
  <2> QED
    BY <2>2, FS_Subset DEF HeardOf
<1>2. f \in Surjection(cancel, S)
  BY DEF Surjection
<1>3. IsFiniteSet(S)
  <2> HIDE DEF S, f
  <2> QED
    BY <1>1, <1>2, FS_Surjection
<1>4. S \subseteq RequestSet(n) /\ \A r \in S : r.op = "cancel"
  BY RequestFacts DEF Request
<1>5. PICK s : s = Canceling(cancel) /\ s = SetToSeq(S)
  BY DEF Canceling
<1> HIDE DEF S, f
<1>6. s \in Seq(S)
  BY <1>3, <1>5, SetToSeqOK
<1>7. s \in Seq(RequestSet(n)) /\ \A k \in 1..Len(s) : s[k] \in S
  BY <1>4, <1>6
<1> QED
  BY <1>4, <1>5, <1>7

\* What a handler sends: the new orders are placed, all else comes after them.
Sent(n, out, more) ==
    /\ more \in Seq(RequestSet(n + Len(out.place)))
    /\ Len(more) >= Len(out.place)
    /\ \A k \in 1..Len(out.place) : more[k] = Request("place", n + k)
    /\ \A k \in 1..Len(more) : k > Len(out.place) => more[k].op # "place"
    /\ out.all => Len(more) > Len(out.place) /\ more[Len(more)].op = "cancel_all"
    /\ (out.place = <<>> /\ out.cancel = {} /\ ~out.all) => more = <<>>

LEMMA SentIs ==
    ASSUME NEW n \in Nat, NEW out, out.place \in Seq(OrderSides), out.all \in BOOLEAN,
           out.cancel \in SUBSET HeardOf(n)
    PROVE  Sent(n, out, Placing(n, out.place) \o Canceling(out.cancel) \o CancelingAll(out.all))
<1>1. PICK p, c, a, place : /\ p = Placing(n, place) /\ c = Canceling(out.cancel)
                            /\ a = CancelingAll(out.all) /\ place = out.place
  OBVIOUS
<1>2. PICK len \in Nat : len = Len(place)
  BY <1>1
<1>3. /\ p \in Seq(RequestSet(n + len)) /\ Len(p) = len
      /\ \A k \in 1..len : p[k] = Request("place", n + k)
  <2>1. DOMAIN place = 1..len
    BY <1>1, <1>2
  <2>2. \A k \in 1..len : n + k \in 1..(n + len)
    OBVIOUS
  <2>3. \A k \in 1..len : Request("place", n + k) \in RequestSet(n + len)
    BY <2>2, RequestFacts
  <2>4. p = [i \in 1..len |-> Request("place", n + i)]
    BY <1>1, <2>1 DEF Placing
  <2>5. p \in [1..len -> RequestSet(n + len)]
    BY <2>3, <2>4
  <2>6. p \in Seq(RequestSet(n + len))
    BY <1>2, <2>5
  <2>7. Len(p) = len
    BY <1>2, <2>4
  <2> QED
    BY <2>4, <2>6, <2>7
<1>4. RequestSet(n) \subseteq RequestSet(n + len)
  BY RequestFacts
<1>5. /\ c \in Seq(RequestSet(n + len))
      /\ \A k \in 1..Len(c) : c[k].op = "cancel"
  <2>1. /\ c \in Seq(RequestSet(n))
        /\ \A k \in 1..Len(c) : c[k].op = "cancel"
    BY <1>1, CancelingOK
  <2> QED
    BY <1>4, <2>1
<1>6. /\ a \in Seq(RequestSet(n + len))
      /\ \A k \in 1..Len(a) : a[k].op = "cancel_all"
      /\ out.all => Len(a) = 1
      /\ ~out.all => a = <<>>
  <2>1. Request("cancel_all", 0) \in RequestSet(n + len) /\ Request("cancel_all", 0).op = "cancel_all"
    BY RequestFacts DEF Request
  <2>2. CASE out.all
    <3>1. a = <<Request("cancel_all", 0)>>
      BY <1>1, <2>2 DEF CancelingAll
    <3> QED
      BY <2>1, <2>2, <3>1
  <2>3. CASE ~out.all
    <3>1. a = <<>>
      BY <1>1, <2>3 DEF CancelingAll
    <3> QED
      BY <2>3, <3>1
  <2> QED
    BY <2>2, <2>3
<1>7. out.cancel = {} => c = <<>>
  <2> SUFFICES ASSUME out.cancel = {} PROVE c = <<>>
    OBVIOUS
  <2>1. c = SetToSeq({})
    BY <1>1 DEF Canceling
  <2>2. IsFiniteSet({}) /\ Cardinality({}) = 0
    BY FS_EmptySet
  <2>3. SetToSeq({}) \in Seq({}) /\ Len(SetToSeq({})) = 0
    BY <2>2, SetToSeqOK
  <2> QED
    BY <2>1, <2>3
<1>8. len = 0 => p = <<>>
  BY <1>3
<1>9. Sent(n, out, p \o c \o a)
  <2>1. PICK more : more = p \o c \o a
    OBVIOUS
  <2>2. /\ more \in Seq(RequestSet(n + len)) /\ Len(more) = len + Len(c) + Len(a)
        /\ \A k \in 1..len : more[k] = p[k]
        /\ \A k \in 1..Len(c) : more[len + k] = c[k]
        /\ \A k \in 1..Len(a) : more[len + Len(c) + k] = a[k]
    <3>1. PICK pc : pc = p \o c
      OBVIOUS
    <3>2. /\ pc \in Seq(RequestSet(n + len)) /\ Len(pc) = len + Len(c)
          /\ \A k \in 1..len : pc[k] = p[k]
          /\ \A k \in 1..Len(c) : pc[len + k] = c[k]
      <4>1. IsJoin(pc, p, c, RequestSet(n + len))
        BY <1>3, <1>5, <3>1, Joined
      <4> QED
        BY <1>3, <4>1 DEF IsJoin
    <3>3. /\ more \in Seq(RequestSet(n + len)) /\ Len(more) = Len(pc) + Len(a)
          /\ \A k \in 1..Len(pc) : more[k] = pc[k]
          /\ \A k \in 1..Len(a) : more[Len(pc) + k] = a[k]
      <4>1. IsJoin(more, pc, a, RequestSet(n + len))
        BY <1>6, <2>1, <3>1, <3>2, Joined
      <4> QED
        BY <4>1 DEF IsJoin
    <3>4. PICK lc \in Nat : lc = Len(c)
      BY <1>5
    <3>5. Len(pc) = len + lc
      BY <3>2, <3>4
    <3>6. \A k \in 1..Len(a) : more[len + lc + k] = a[k]
      BY <3>3, <3>5
    <3>7. ASSUME NEW k \in 1..lc PROVE more[len + k] = c[k]
      <4>1. len + k \in 1..Len(pc)
        BY <3>5
      <4> QED
        BY <3>2, <3>3, <3>4, <4>1
    <3>8. ASSUME NEW k \in 1..len PROVE more[k] = p[k]
      <4>1. k \in 1..Len(pc)
        BY <3>5
      <4> QED
        BY <3>2, <3>3, <4>1
    <3> QED
      BY <3>3, <3>4, <3>5, <3>6, <3>7, <3>8
  <2>3. Len(c) \in Nat /\ Len(a) \in Nat
    BY <1>5, <1>6
  <2>4. ASSUME NEW k \in 1..Len(more), k > len PROVE more[k].op # "place"
    <3>1. CASE k =< len + Len(c)
      <4>1. k - len \in 1..Len(c) /\ len + (k - len) = k
        BY <2>2, <2>3, <2>4, <3>1
      <4>2. more[k] = c[k - len]
        BY <2>2, <4>1
      <4> QED
        BY <1>5, <4>1, <4>2
    <3>2. CASE k > len + Len(c)
      <4>1. k - len - Len(c) \in 1..Len(a) /\ len + Len(c) + (k - len - Len(c)) = k
        BY <2>2, <2>3, <2>4, <3>2
      <4>2. more[k] = a[k - len - Len(c)]
        BY <2>2, <4>1
      <4> QED
        BY <1>6, <4>1, <4>2
    <3> QED
      BY <2>2, <2>3, <3>1, <3>2
  <2>5. out.all => Len(more) > len /\ more[Len(more)].op = "cancel_all"
    <3> SUFFICES ASSUME out.all PROVE Len(more) > len /\ more[Len(more)].op = "cancel_all"
      OBVIOUS
    <3>1. PICK lc \in Nat : lc = Len(c)
      BY <2>3
    <3>2. Len(a) = 1
      BY <1>6
    <3>3. Len(more) = len + lc + 1 /\ more[len + lc + 1] = a[1] /\ a[1].op = "cancel_all"
      <4>1. /\ Len(more) = len + lc + Len(a)
            /\ \A k \in 1..Len(a) : more[len + lc + k] = a[k]
        BY <2>2, <3>1
      <4>2. \A k \in 1..Len(a) : a[k].op = "cancel_all"
        BY <1>6
      <4> QED
        BY <3>2, <4>1, <4>2
    <3> QED
      BY <3>3
  <2>6. (out.place = <<>> /\ out.cancel = {} /\ ~out.all) => more = <<>>
    BY <1>1, <1>2, <1>6, <1>7, <1>8, <2>1
  <2>7. Len(more) >= len /\ \A k \in 1..len : more[k] = Request("place", n + k)
    BY <1>3, <2>2, <2>3
  <2> QED
    BY <1>1, <1>2, <2>1, <2>2, <2>4, <2>5, <2>6, <2>7 DEF Sent
<1> QED
  BY <1>1, <1>9

\* Orders and requests before and after a handler has asked for out.
SendKeeps(ords, reqs, out, ords2, reqs2) ==
    /\ ords2 \in Seq(OrderSet) /\ Len(ords2) = Len(ords) + Len(out.place)
    /\ \A id \in 1..Len(ords) : ords2[id] = ords[id]
    /\ \A id \in 1..Len(ords2) : id > Len(ords) => ords2[id].st = "sent"
    /\ reqs2 \in Seq(RequestSet(Len(ords2)))
    /\ PlacesExact(ords, reqs) => PlacesExact(ords2, reqs2)
    /\ out.place = <<>> /\ WillCancel(reqs) => WillCancel(reqs2)
    /\ out.all => WillCancel(reqs2)

\* Requests sent keep PlacesExact and a pending cancel_all.
LEMMA SentKeeps ==
    ASSUME NEW n \in Nat, NEW ords \in Seq(OrderSet), Len(ords) = n,
           NEW reqs \in Seq(RequestSet(n)), NEW out, out.place \in Seq(OrderSides),
           NEW more, Sent(n, out, more),
           NEW ords2, ords2 = ords \o MadeOrders(out.place), NEW reqs2, reqs2 = reqs \o more
    PROVE  SendKeeps(ords, reqs, out, ords2, reqs2)
<1>1. PICK len \in Nat : len = Len(out.place)
  OBVIOUS
<1>2. PICK made : made = MadeOrders(out.place)
  OBVIOUS
<1>3. made \in Seq(OrderSet) /\ Len(made) = len /\ \A i \in 1..len : made[i].st = "sent"
  <2>1. PICK place \in Seq(OrderSides) : place = out.place
    OBVIOUS
  <2>2. DOMAIN place = 1..len /\ \A i \in 1..len : place[i] \in OrderSides
    BY <1>1, <2>1
  <2>3. made = [i \in 1..len |-> [side |-> place[i], st |-> "sent", filled |-> 0]]
    BY <1>2, <2>1, <2>2 DEF MadeOrders
  <2>4. made \in [1..len -> OrderSet]
    BY <2>2, <2>3 DEF OrderSet
  <2> QED
    BY <2>3, <2>4
<1>4. /\ ords2 \in Seq(OrderSet) /\ Len(ords2) = n + len
      /\ \A id \in 1..n : ords2[id] = ords[id]
      /\ \A i \in 1..len : ords2[n + i] = made[i]
  <2>1. IsJoin(ords2, ords, made, OrderSet)
    BY <1>2, <1>3, Joined
  <2> QED
    BY <1>3, <2>1 DEF IsJoin
<1>5. \A id \in 1..(n + len) : id > n => ords2[id].st = "sent" /\ id - n \in 1..len
  <2> SUFFICES ASSUME NEW id \in 1..(n + len), id > n PROVE ords2[id].st = "sent" /\ id - n \in 1..len
    OBVIOUS
  <2>1. id - n \in 1..len /\ n + (id - n) = id
    OBVIOUS
  <2>2. ords2[id] = made[id - n]
    BY <1>4, <2>1
  <2> QED
    BY <1>3, <2>1, <2>2
<1>6. RequestSet(n) \subseteq RequestSet(n + len)
  BY RequestFacts
<1>7. reqs \in Seq(RequestSet(n + len))
  BY <1>6
<1>8. more \in Seq(RequestSet(n + len)) /\ Len(more) \in Nat /\ len =< Len(more)
      /\ (\A k \in 1..len : more[k] = Request("place", n + k))
      /\ (\A k \in 1..Len(more) : k > len => more[k].op # "place")
      /\ (out.all => Len(more) > len /\ more[Len(more)].op = "cancel_all")
  BY <1>1 DEF Sent
<1>9. PICK q \in Nat : q = Len(reqs)
  OBVIOUS
<1>10. /\ reqs2 \in Seq(RequestSet(n + len)) /\ Len(reqs2) = q + Len(more)
       /\ \A k \in 1..q : reqs2[k] = reqs[k]
       /\ \A k \in 1..Len(more) : reqs2[q + k] = more[k]
  <2>1. IsJoin(reqs2, reqs, more, RequestSet(n + len))
    BY <1>7, <1>8, Joined
  <2> QED
    BY <1>9, <2>1 DEF IsJoin
<1>11. /\ DOMAIN reqs2 = 1..(q + Len(more)) /\ DOMAIN reqs = 1..q
       /\ DOMAIN ords = 1..n /\ DOMAIN ords2 = 1..(n + len)
  BY <1>4, <1>9, <1>10
<1>12. \A k \in 1..q : reqs[k] \in RequestSet(n)
  BY <1>9
<1>13. ASSUME NEW k \in DOMAIN reqs2, reqs2[k].op = "place"
       PROVE  \/ /\ k \in 1..q /\ reqs2[k] = reqs[k] /\ reqs[k].op = "place"
                 /\ reqs2[k].id \in 1..n
              \/ \E i \in 1..len : k = q + i /\ reqs2[k].id = n + i
  <2>1. CASE k =< q
    <3>1. k \in 1..q /\ reqs2[k] = reqs[k]
      BY <1>10, <1>11, <2>1
    <3>2. reqs[k].id \in 1..n
      BY <1>12, <1>13, <3>1, RequestFacts
    <3> QED
      BY <1>13, <3>1, <3>2
  <2>2. CASE k > q
    <3>1. k - q \in 1..Len(more) /\ k = q + (k - q)
      BY <1>8, <1>11, <2>2
    <3>2. PICK i \in 1..Len(more) : k = q + i
      BY <3>1
    <3>3. reqs2[k] = more[i]
      BY <1>10, <3>2
    <3>4. ~(i > len)
      BY <1>8, <1>13, <3>3
    <3>5. i \in 1..len
      BY <1>8, <3>4
    <3>6. more[i] = Request("place", n + i)
      BY <1>8, <3>5
    <3>7. reqs2[k].id = n + i
      BY <3>3, <3>6 DEF Request
    <3> QED
      BY <3>2, <3>5, <3>7
  <2>3. k =< q \/ k > q
    BY <1>8, <1>11
  <2> QED
    BY <2>1, <2>2, <2>3
<1>14. ASSUME PlacesExact(ords, reqs) PROVE PlacesExact(ords2, reqs2)
  <2>1. ASSUME NEW k \in DOMAIN reqs2, reqs2[k].op = "place"
        PROVE  ords2[reqs2[k].id].st = "sent"
    <3>1. CASE k \in 1..q /\ reqs2[k] = reqs[k] /\ reqs[k].op = "place" /\ reqs2[k].id \in 1..n
      BY <1>4, <1>11, <1>14, <3>1 DEF PlacesExact
    <3>2. CASE \E i \in 1..len : k = q + i /\ reqs2[k].id = n + i
      <4>1. PICK i \in 1..len : reqs2[k].id = n + i
        BY <3>2
      <4>2. n + i \in 1..(n + len) /\ n + i > n
        OBVIOUS
      <4> QED
        BY <1>5, <4>1, <4>2
    <3> QED
      BY <1>13, <2>1, <3>1, <3>2
  <2>2. ASSUME NEW k \in DOMAIN reqs2, NEW l \in DOMAIN reqs2, reqs2[k].op = "place",
               reqs2[l].op = "place", reqs2[k].id = reqs2[l].id
        PROVE  k = l
    <3>1. k \in Int /\ l \in Int
      BY <1>8, <1>11
    <3>2. CASE k \in 1..q /\ l \in 1..q /\ reqs2[k] = reqs[k] /\ reqs2[l] = reqs[l]
      BY <1>11, <1>14, <2>2, <3>2 DEF PlacesExact
    <3>3. \/ k \in 1..q /\ reqs2[k] = reqs[k] /\ reqs2[k].id \in 1..n
          \/ \E i \in 1..len : k = q + i /\ reqs2[k].id = n + i
      BY <1>13, <2>2
    <3>4. \/ l \in 1..q /\ reqs2[l] = reqs[l] /\ reqs2[l].id \in 1..n
          \/ \E i \in 1..len : l = q + i /\ reqs2[l].id = n + i
      BY <1>13, <2>2
    <3>5. PICK id : id = reqs2[k].id /\ id = reqs2[l].id
      BY <2>2
    <3>6. CASE id > n
      BY <3>3, <3>4, <3>5, <3>6
    <3>7. CASE ~(id > n)
      <4>1. \A i \in 1..len : id # n + i
        BY <3>7
      <4> QED
        BY <3>2, <3>3, <3>4, <3>5, <4>1
    <3> QED
      BY <3>6, <3>7
  <2>3. ASSUME NEW id \in DOMAIN ords2, ords2[id].st = "sent"
        PROVE  \E k \in DOMAIN reqs2 : reqs2[k] = Request("place", id)
    <3>1. CASE id \in 1..n
      <4>1. PICK k \in DOMAIN reqs : reqs[k] = Request("place", id)
        BY <1>4, <1>11, <1>14, <2>3, <3>1 DEF PlacesExact
      <4> QED
        BY <1>8, <1>10, <1>11, <4>1
    <3>2. CASE id > n
      <4>1. id - n \in 1..len /\ id = n + (id - n)
        BY <1>5, <1>11, <3>2
      <4>2. PICK i \in 1..len : id = n + i
        BY <4>1
      <4>3. i \in 1..Len(more) /\ more[i] = Request("place", id)
        BY <1>8, <4>2
      <4>4. reqs2[q + i] = Request("place", id)
        BY <1>10, <4>3
      <4>5. q + i \in DOMAIN reqs2
        BY <1>8, <1>11, <4>3
      <4> QED
        BY <4>4, <4>5
    <3> QED
      BY <1>11, <3>1, <3>2
  <2> QED
    BY <2>1, <2>2, <2>3 DEF PlacesExact
<1>15. ASSUME out.place = <<>>, WillCancel(reqs) PROVE WillCancel(reqs2)
  <2>1. len = 0
    BY <1>1, <1>15
  <2>2. PICK j \in DOMAIN reqs : /\ reqs[j].op = "cancel_all"
                                 /\ \A k \in DOMAIN reqs : reqs[k].op = "place" => k < j
    BY <1>15 DEF WillCancel
  <2>3. j \in DOMAIN reqs2 /\ reqs2[j].op = "cancel_all"
    BY <1>8, <1>10, <1>11, <2>2
  <2>4. \A k \in DOMAIN reqs2 : reqs2[k].op = "place" => k < j
    BY <1>11, <1>13, <2>1, <2>2
  <2> QED
    BY <2>3, <2>4 DEF WillCancel
<1>16. ASSUME out.all PROVE WillCancel(reqs2)
  <2>1. q + Len(more) \in DOMAIN reqs2 /\ reqs2[q + Len(more)].op = "cancel_all"
    <3>1. Len(more) \in 1..Len(more) /\ more[Len(more)].op = "cancel_all"
      BY <1>8, <1>16
    <3>2. PICK i \in 1..Len(more) : i = Len(more) /\ more[i].op = "cancel_all"
      BY <3>1
    <3>3. reqs2[q + i].op = "cancel_all"
      BY <1>10, <3>2
    <3>4. q + i \in DOMAIN reqs2
      BY <1>8, <1>11, <3>2
    <3> QED
      BY <3>2, <3>3, <3>4
  <2>2. \A k \in DOMAIN reqs2 : reqs2[k].op = "place" => k < q + Len(more)
    <3> SUFFICES ASSUME NEW k \in DOMAIN reqs2, reqs2[k].op = "place" PROVE k < q + Len(more)
      OBVIOUS
    <3>1. CASE k \in 1..q
      BY <1>8, <1>16, <3>1
    <3>2. CASE \E i \in 1..len : k = q + i
      BY <1>8, <1>16, <3>2
    <3> QED
      BY <1>13, <3>1, <3>2
  <2> QED
    BY <2>1, <2>2 DEF WillCancel
<1> QED
  BY <1>1, <1>4, <1>5, <1>10, <1>14, <1>15, <1>16 DEF SendKeeps

\* What Sends leaves behind.
SendResult(out) ==
    /\ SendKeeps(orders, requests, out, orders', requests')
    /\ out.place = <<>> => orders' = orders
    /\ (out.place = <<>> /\ out.cancel = {} /\ ~out.all) => requests' = requests

LEMMA SendsOK ==
    ASSUME orders \in Seq(OrderSet), requests \in Seq(RequestSet(Len(orders))),
           NEW out, out.place \in Seq(OrderSides), out.all \in BOOLEAN,
           out.cancel \in SUBSET HeardOf(Len(orders)), Sends(out)
    PROVE  SendResult(out)
<1>1. PICK n \in Nat : n = Len(orders)
  OBVIOUS
<1>2. PICK ords, reqs : ords = orders /\ reqs = requests
  OBVIOUS
<1>3. PICK p, c, a : /\ p = Placing(n, out.place) /\ c = Canceling(out.cancel)
                     /\ a = CancelingAll(out.all)
  OBVIOUS
<1>4. orders' = ords \o MadeOrders(out.place)
  BY <1>2 DEF Sends, MadeOrders
<1>5. requests' = reqs \o p \o c \o a
  BY <1>1, <1>2, <1>3 DEF Sends, Placing, Canceling, CancelingAll
<1>6. PICK more : more = p \o c \o a
  OBVIOUS
<1>7. Sent(n, out, more)
  BY <1>1, <1>3, <1>6, SentIs
<1>8. requests' = reqs \o more
  <2>1. PICK R : R = RequestSet(n + Len(out.place))
    OBVIOUS
  <2>2. reqs \in Seq(R)
    BY <1>1, <1>2, <2>1, RequestFacts
  <2>3. p \in Seq(R) /\ c \in Seq(R) /\ a \in Seq(R)
    <3>1. c \in Seq(RequestSet(n)) /\ RequestSet(n) \subseteq R
      BY <1>1, <1>3, <2>1, CancelingOK, RequestFacts
    <3>2. Request("cancel_all", 0) \in R
      BY <2>1, RequestFacts
    <3>3. a \in Seq(R)
      BY <1>3, <3>2 DEF CancelingAll
    <3>4. PICK place, len : place = out.place /\ len = Len(place) /\ len \in Nat
      OBVIOUS
    <3>5. DOMAIN place = 1..len
      BY <3>4
    <3>6. \A i \in 1..len : n + i \in 1..(n + len)
      BY <3>4
    <3>7. \A i \in 1..len : Request("place", n + i) \in R
      BY <2>1, <3>4, <3>6, RequestFacts
    <3>8. p = [i \in 1..len |-> Request("place", n + i)]
      BY <1>3, <3>4, <3>5 DEF Placing
    <3>9. p \in Seq(R)
      BY <3>4, <3>7, <3>8
    <3> QED
      BY <3>1, <3>3, <3>9
  <2>4. (reqs \o p) \o c = reqs \o (p \o c) /\ p \o c \in Seq(R)
    <3>1. IsJoinTwice(reqs, p, c, R)
      BY <2>2, <2>3, JoinedTwice
    <3> QED
      BY <3>1 DEF IsJoinTwice
  <2>5. (reqs \o (p \o c)) \o a = reqs \o ((p \o c) \o a)
    <3>1. PICK pc : pc = p \o c
      OBVIOUS
    <3>2. pc \in Seq(R)
      BY <2>4, <3>1
    <3>3. IsJoinTwice(reqs, pc, a, R)
      BY <2>2, <2>3, <3>2, JoinedTwice
    <3>4. (reqs \o pc) \o a = reqs \o (pc \o a)
      BY <3>3 DEF IsJoinTwice
    <3> QED
      BY <3>1, <3>4
  <2> QED
    BY <1>5, <1>6, <2>4, <2>5
<1>9. PICK ords2, reqs2 : ords2 = orders' /\ reqs2 = requests'
  OBVIOUS
<1>10. SendKeeps(ords, reqs, out, ords2, reqs2)
  <2>1. ords \in Seq(OrderSet) /\ Len(ords) = n /\ reqs \in Seq(RequestSet(n))
    BY <1>1, <1>2
  <2>2. ords2 = ords \o MadeOrders(out.place) /\ reqs2 = reqs \o more
    BY <1>4, <1>8, <1>9
  <2> QED
    BY <1>7, <2>1, <2>2, SentKeeps
<1>11. out.place = <<>> => orders' = orders
  <2> SUFFICES ASSUME out.place = <<>> PROVE orders' = orders
    OBVIOUS
  <2>1. MadeOrders(out.place) = <<>>
    BY DEF MadeOrders
  <2> QED
    BY <1>2, <1>4, <2>1
<1>12. (out.place = <<>> /\ out.cancel = {} /\ ~out.all) => requests' = requests
  <2> SUFFICES ASSUME out.place = <<>>, out.cancel = {}, ~out.all PROVE requests' = requests
    OBVIOUS
  <2>1. more = <<>>
    BY <1>7 DEF Sent
  <2>2. reqs \o <<>> = reqs
    BY <1>2
  <2> QED
    BY <1>2, <1>8, <2>1, <2>2
<1> QED
  BY <1>1, <1>2, <1>9, <1>10, <1>11, <1>12 DEF SendResult

\* A request is taken.
LEMMA TailFacts ==
    ASSUME NEW S, NEW s \in Seq(S), s # <<>>
    PROVE  /\ Tail(s) \in Seq(S) /\ Len(s) \in Nat /\ Len(s) >= 1 /\ DOMAIN s = 1..Len(s)
           /\ DOMAIN Tail(s) = 1..(Len(s) - 1)
           /\ \A k \in 1..(Len(s) - 1) : Tail(s)[k] = s[k + 1]
           /\ Head(s) = s[1] /\ s[1] \in S
OBVIOUS

LEMMA PlaceTaken ==
    ASSUME NEW n \in Nat, NEW ords, NEW ords2, NEW reqs \in Seq(RequestSet(n)), reqs # <<>>,
           Head(reqs).op = "place", PlacesExact(ords, reqs), DOMAIN ords2 = DOMAIN ords,
           ords2[Head(reqs).id].st # "sent",
           \A id \in DOMAIN ords : id # Head(reqs).id => ords2[id] = ords[id],
           DOMAIN ords = 1..n
    PROVE  PlacesExact(ords2, Tail(reqs))
<1>1. PICK q, rest, hd : q = Len(reqs) /\ rest = Tail(reqs) /\ hd = Head(reqs).id
  OBVIOUS
<1>2. /\ DOMAIN reqs = 1..q /\ DOMAIN rest = 1..(q - 1) /\ q >= 1 /\ q \in Nat
      /\ \A k \in 1..(q - 1) : rest[k] = reqs[k + 1] /\ k + 1 \in 1..q /\ k + 1 # 1
      /\ 1 \in 1..q /\ reqs[1].op = "place" /\ reqs[1].id = hd
  BY <1>1, TailFacts
<1>3. \A k \in 1..q : reqs[k].op = "place" => reqs[k].id \in 1..n
  BY <1>1, RequestFacts
<1>4. \A k \in 1..(q - 1) : rest[k].op = "place" => rest[k].id # hd
  BY <1>2 DEF PlacesExact
<1>5. \A k \in 1..(q - 1) : rest[k].op = "place" => ords2[rest[k].id].st = "sent"
  BY <1>1, <1>2, <1>3, <1>4 DEF PlacesExact
<1>6. ASSUME NEW k \in 1..(q - 1), NEW l \in 1..(q - 1), rest[k].op = "place",
             rest[l].op = "place", rest[k].id = rest[l].id
      PROVE  k = l
  <2>1. /\ reqs[k + 1].op = "place" /\ reqs[l + 1].op = "place"
        /\ reqs[k + 1].id = reqs[l + 1].id
        /\ k + 1 \in DOMAIN reqs /\ l + 1 \in DOMAIN reqs
    BY <1>2, <1>6
  <2>2. PICK k1, l1 : k1 = k + 1 /\ l1 = l + 1
    OBVIOUS
  <2>3. k1 = l1
    BY <2>1, <2>2 DEF PlacesExact
  <2> QED
    BY <1>2, <2>2, <2>3
<1>7. ASSUME NEW id \in DOMAIN ords2, ords2[id].st = "sent"
      PROVE  \E k \in 1..(q - 1) : rest[k] = Request("place", id)
  <2>1. id # hd /\ ords[id].st = "sent" /\ id \in DOMAIN ords
    BY <1>1, <1>7
  <2>2. PICK k \in 1..q : reqs[k] = Request("place", id)
    BY <1>2, <2>1 DEF PlacesExact
  <2>3. k # 1
    BY <1>2, <2>1, <2>2 DEF Request
  <2>4. k - 1 \in 1..(q - 1) /\ (k - 1) + 1 = k
    BY <1>2, <2>3
  <2>5. PICK j \in 1..(q - 1) : j + 1 = k
    BY <2>4
  <2>6. rest[j] = Request("place", id)
    BY <1>2, <2>2, <2>5
  <2> QED
    BY <2>6
<1> QED
  BY <1>1, <1>2, <1>5, <1>6, <1>7 DEF PlacesExact

LEMMA OtherTaken ==
    ASSUME NEW n \in Nat, NEW ords, NEW ords2, NEW reqs \in Seq(RequestSet(n)), reqs # <<>>,
           Head(reqs).op # "place", PlacesExact(ords, reqs), DOMAIN ords2 = DOMAIN ords,
           \A id \in DOMAIN ords : ords2[id].st = "sent" <=> ords[id].st = "sent",
           DOMAIN ords = 1..n
    PROVE  PlacesExact(ords2, Tail(reqs))
<1>1. PICK q, rest : q = Len(reqs) /\ rest = Tail(reqs)
  OBVIOUS
<1>2. /\ DOMAIN reqs = 1..q /\ DOMAIN rest = 1..(q - 1) /\ q >= 1 /\ q \in Nat
      /\ \A k \in 1..(q - 1) : rest[k] = reqs[k + 1] /\ k + 1 \in 1..q
      /\ reqs[1].op # "place"
  BY <1>1, TailFacts
<1>3. \A k \in 1..q : reqs[k].op = "place" => reqs[k].id \in 1..n
  BY <1>1, RequestFacts
<1>4. ASSUME NEW k \in 1..(q - 1), rest[k].op = "place" PROVE ords2[rest[k].id].st = "sent"
  <2>1. k + 1 \in 1..q /\ rest[k] = reqs[k + 1] /\ reqs[k + 1].op = "place"
    BY <1>2, <1>4
  <2>2. ords[rest[k].id].st = "sent" /\ rest[k].id \in DOMAIN ords
    BY <1>2, <1>3, <2>1 DEF PlacesExact
  <2> QED
    BY <2>2
<1>5. ASSUME NEW k \in 1..(q - 1), NEW l \in 1..(q - 1), rest[k].op = "place",
             rest[l].op = "place", rest[k].id = rest[l].id
      PROVE  k = l
  <2>1. k + 1 = l + 1
    BY <1>2, <1>5 DEF PlacesExact
  <2> QED
    BY <1>2, <2>1
<1>6. ASSUME NEW id \in DOMAIN ords2, ords2[id].st = "sent"
      PROVE  \E k \in 1..(q - 1) : rest[k] = Request("place", id)
  <2>1. PICK k \in 1..q : reqs[k] = Request("place", id)
    BY <1>2, <1>6 DEF PlacesExact
  <2>2. k # 1
    BY <1>2, <2>1 DEF Request
  <2>3. k - 1 \in 1..(q - 1) /\ (k - 1) + 1 = k
    BY <1>2, <2>2
  <2>4. PICK j \in 1..(q - 1) : j + 1 = k
    BY <2>3
  <2>5. rest[j] = Request("place", id)
    BY <1>2, <2>1, <2>4
  <2> QED
    BY <2>5
<1> QED
  BY <1>1, <1>2, <1>4, <1>5, <1>6 DEF PlacesExact

LEMMA NoneTaken ==
    ASSUME NEW n \in Nat, NEW ords, NEW ords2, NEW reqs \in Seq(RequestSet(n)),
           PlacesExact(ords, reqs), DOMAIN ords2 = DOMAIN ords,
           \A id \in DOMAIN ords : ords2[id].st = "sent" <=> ords[id].st = "sent",
           DOMAIN ords = 1..n
    PROVE  PlacesExact(ords2, reqs)
<1>1. \A k \in DOMAIN reqs : reqs[k].op = "place" => reqs[k].id \in 1..n
  BY RequestFacts
<1> QED
  BY <1>1 DEF PlacesExact

\* A pending cancel_all stays pending until it is taken, and with it go all
\* orders that were sent before it.
LEMMA CancelTaken ==
    ASSUME NEW n \in Nat, NEW reqs \in Seq(RequestSet(n)), reqs # <<>>, WillCancel(reqs)
    PROVE  \/ WillCancel(Tail(reqs))
           \/ /\ Head(reqs).op = "cancel_all"
              /\ \A k \in DOMAIN Tail(reqs) : Tail(reqs)[k].op # "place"
<1>1. PICK q, rest : q = Len(reqs) /\ rest = Tail(reqs)
  OBVIOUS
<1>2. /\ DOMAIN reqs = 1..q /\ DOMAIN rest = 1..(q - 1) /\ q >= 1 /\ q \in Nat
      /\ \A k \in 1..(q - 1) : rest[k] = reqs[k + 1] /\ k + 1 \in 1..q
      /\ Head(reqs) = reqs[1]
  BY <1>1, TailFacts
<1>3. PICK j \in 1..q : /\ reqs[j].op = "cancel_all"
                        /\ \A k \in 1..q : reqs[k].op = "place" => k < j
  BY <1>2 DEF WillCancel
<1>4. CASE j = 1
  <2>1. \A k \in 1..(q - 1) : rest[k].op # "place"
    BY <1>2, <1>3, <1>4
  <2> QED
    BY <1>1, <1>2, <1>3, <1>4, <2>1
<1>5. CASE j # 1
  <2>1. j - 1 \in 1..(q - 1) /\ (j - 1) + 1 = j
    BY <1>2, <1>5
  <2>2. PICK i \in 1..(q - 1) : i + 1 = j
    BY <2>1
  <2>3. rest[i].op = "cancel_all"
    BY <1>2, <1>3, <2>2
  <2>4. \A k \in 1..(q - 1) : rest[k].op = "place" => k < i
    BY <1>2, <1>3, <2>2
  <2>5. WillCancel(rest)
    BY <1>2, <2>3, <2>4 DEF WillCancel
  <2> QED
    BY <1>1, <2>5
<1> QED
  BY <1>4, <1>5

-----------------------------------------------------------------------------
(* Tasks and reports *)

LEMMA TaskFacts ==
    ASSUME NEW n \in Nat, NEW kd
    PROVE  /\ \A m \in Nat : n =< m => Tasks(kd, n) \subseteq Tasks(kd, m)
           /\ \A msg \in Tasks(kd, n) :
                  /\ msg.t \in {"order", "config"} \cup TaskNames(kd)
                  /\ msg.t = "order" => msg \in ReportSet(n)
                  /\ msg.t = "config" => msg.run \in BOOLEAN /\ msg.moved \in BOOLEAN
           /\ \A x \in TaskNames(kd) : [t |-> x] \in Tasks(kd, n)
           /\ \A b, c \in BOOLEAN : [t |-> "config", run |-> b, moved |-> c] \in Tasks(kd, n)
           /\ ReportSet(n) \subseteq Tasks(kd, n)
<1>1. \A m \in Nat : n =< m => Tasks(kd, n) \subseteq Tasks(kd, m)
  <2> SUFFICES ASSUME NEW m \in Nat, n =< m PROVE Tasks(kd, n) \subseteq Tasks(kd, m)
    OBVIOUS
  <2>1. ReportSet(n) \subseteq ReportSet(m)
    BY DEF ReportSet
  <2> QED
    BY <2>1 DEF Tasks
<1>2. ASSUME NEW msg \in Tasks(kd, n)
      PROVE  /\ msg.t \in {"order", "config"} \cup TaskNames(kd)
             /\ msg.t = "order" => msg \in ReportSet(n)
             /\ msg.t = "config" => msg.run \in BOOLEAN /\ msg.moved \in BOOLEAN
  <2>1. CASE msg \in [t : TaskNames(kd)]
    BY <2>1 DEF TaskNames
  <2>2. CASE msg \in [t : {"config"}, run : BOOLEAN, moved : BOOLEAN]
    BY <2>2
  <2>3. CASE msg \in ReportSet(n)
    BY <2>3 DEF ReportSet
  <2> QED
    BY <2>1, <2>2, <2>3 DEF Tasks, TaskSet
<1>3. \A x \in TaskNames(kd) : [t |-> x] \in Tasks(kd, n)
  BY DEF Tasks, TaskSet
<1>4. \A b, c \in BOOLEAN : [t |-> "config", run |-> b, moved |-> c] \in Tasks(kd, n)
  BY DEF Tasks, TaskSet
<1>5. ReportSet(n) \subseteq Tasks(kd, n)
  BY DEF Tasks
<1> QED
  BY <1>1, <1>2, <1>3, <1>4, <1>5

\* Tasks that are not about an order change nothing of what will be listed.
LEMMA ListIgnores ==
    ASSUME NEW S, NEW box \in Seq(S), NEW more \in Seq(S), NEW open, NEW id,
           \A k \in 1..Len(more) : ~IsAbout(more[k], id)
    PROVE  WillList(box \o more, open, id) <=> WillList(box, open, id)
<1>1. PICK w, b, m : w = box \o more /\ b = Len(box) /\ m = Len(more)
  OBVIOUS
<1>2. b \in Nat /\ m \in Nat /\ DOMAIN box = 1..b /\ DOMAIN w = 1..(b + m)
      /\ (\A k \in 1..b : w[k] = box[k] /\ k \in 1..(b + m))
  BY <1>1
<1>3. \A k \in 1..(b + m) : IsAbout(w[k], id) => k \in 1..b
  <2> SUFFICES ASSUME NEW k \in 1..(b + m), k \notin 1..b PROVE ~IsAbout(w[k], id)
    OBVIOUS
  <2>1. k - b \in 1..m /\ b + (k - b) = k
    BY <1>2
  <2>2. PICK i \in 1..m : b + i = k
    BY <2>1
  <2>3. IsJoin(w, box, more, S)
    BY <1>1, Joined
  <2>4. w[k] = more[i]
    BY <1>1, <2>2, <2>3 DEF IsJoin
  <2> QED
    BY <1>1, <2>2, <2>4
<1>4. WillList(w, open, id) <=> WillList(box, open, id)
  BY <1>2, <1>3 DEF WillList
<1> QED
  BY <1>1, <1>4

\* The last reports of an order decide.
LEMMA ListTold ==
    ASSUME NEW S, NEW box \in Seq(S), NEW more \in Seq(S), NEW open, NEW id, NEW st,
           \A k \in 1..Len(more) : IsAbout(more[k], id) => more[k].st = st,
           \E k \in 1..Len(more) : IsAbout(more[k], id),
           st = "NEW" => Len(more) = 1
    PROVE  WillList(box \o more, open, id) <=> st = "NEW"
<1>1. PICK w, b, m : w = box \o more /\ b = Len(box) /\ m = Len(more)
  OBVIOUS
<1>2. b \in Nat /\ m \in Nat /\ DOMAIN box = 1..b /\ DOMAIN w = 1..(b + m)
  BY <1>1
<1>3. \A k \in 1..m : w[b + k] = more[k] /\ b + k \in 1..(b + m) /\ b + k > b
  BY <1>1, <1>2
<1>4. \A k \in 1..(b + m) : k > b => \E i \in 1..m : k = b + i
  <2> SUFFICES ASSUME NEW k \in 1..(b + m), k > b PROVE \E i \in 1..m : k = b + i
    OBVIOUS
  <2>1. k - b \in 1..m /\ k = b + (k - b)
    BY <1>2
  <2> QED
    BY <2>1
<1>5. PICK j \in 1..m : IsAbout(more[j], id)
  BY <1>1
<1>6. IsAbout(w[b + j], id) /\ b + j \in 1..(b + m) /\ b + j > b
  BY <1>3, <1>5
<1>7. CASE st = "NEW"
  <2>1. m = 1 /\ j = 1
    BY <1>1, <1>5, <1>7
  <2>2. w[b + j].st = "NEW"
    BY <1>1, <1>3, <1>5, <1>7
  <2>3. \A l \in 1..(b + m) : l =< b + j
    BY <1>2, <2>1
  <2>4. WillList(w, open, id)
    BY <1>2, <1>6, <2>2, <2>3 DEF WillList
  <2> QED
    BY <1>1, <1>7, <2>4
<1>8. CASE st # "NEW"
  <2>1. ASSUME NEW k \in 1..(b + m), IsAbout(w[k], id), w[k].st = "NEW",
               \A l \in 1..(b + m) : IsAbout(w[l], id) => l =< k
        PROVE  FALSE
    <3>1. k > b
      BY <1>2, <1>6, <2>1
    <3>2. PICK i \in 1..m : k = b + i
      BY <1>4, <3>1
    <3>3. w[k] = more[i]
      BY <1>3, <3>2
    <3> QED
      BY <1>1, <1>8, <2>1, <3>3
  <2>2. ~WillList(w, open, id)
    BY <1>2, <1>6, <2>1 DEF WillList
  <2> QED
    BY <1>1, <1>8, <2>2
<1> QED
  BY <1>7, <1>8

\* A task is handled: one that is not about the order, or a report of it.
LEMMA ListHandled ==
    ASSUME NEW S, NEW box \in Seq(S), box # <<>>, NEW open, NEW open2, NEW id,
           id \in open2 <=> IF IsAbout(Head(box), id) THEN Head(box).st = "NEW" ELSE id \in open
    PROVE  WillList(Tail(box), open2, id) <=> WillList(box, open, id)
<1>1. PICK b, rest, h : b = Len(box) /\ rest = Tail(box) /\ h = box[1]
  OBVIOUS
<1>2. /\ b \in Nat /\ b >= 1 /\ DOMAIN box = 1..b /\ DOMAIN rest = 1..(b - 1) /\ h = Head(box)
      /\ \A k \in 1..(b - 1) : rest[k] = box[k + 1] /\ k + 1 \in 1..b /\ k + 1 > 1
  BY <1>1, TailFacts
<1>3. \A k \in 1..b : k = 1 \/ \E j \in 1..(b - 1) : k = j + 1
  <2> SUFFICES ASSUME NEW k \in 1..b, k # 1 PROVE \E j \in 1..(b - 1) : k = j + 1
    OBVIOUS
  <2>1. k - 1 \in 1..(b - 1) /\ k = (k - 1) + 1
    BY <1>2
  <2> QED
    BY <2>1
<1>4. CASE \E k \in 1..(b - 1) : IsAbout(rest[k], id)
  <2>1. PICK k0 \in 1..(b - 1) : IsAbout(rest[k0], id)
    BY <1>4
  <2>2. IsAbout(box[k0 + 1], id) /\ k0 + 1 \in 1..b /\ k0 + 1 > 1
    BY <1>2, <2>1
  <2>3. ASSUME WillList(rest, open2, id) PROVE WillList(box, open, id)
    <3>1. PICK k \in 1..(b - 1) : /\ IsAbout(rest[k], id) /\ rest[k].st = "NEW"
                                  /\ \A l \in 1..(b - 1) : IsAbout(rest[l], id) => l =< k
      BY <1>2, <1>4, <2>3 DEF WillList
    <3>2. k + 1 \in 1..b /\ IsAbout(box[k + 1], id) /\ box[k + 1].st = "NEW"
      BY <1>2, <3>1
    <3>3. \A l \in 1..b : IsAbout(box[l], id) => l =< k + 1
      <4> SUFFICES ASSUME NEW l \in 1..b, IsAbout(box[l], id) PROVE l =< k + 1
        OBVIOUS
      <4>1. CASE l = 1
        BY <4>1
      <4>2. CASE \E j \in 1..(b - 1) : l = j + 1
        <5>1. PICK j \in 1..(b - 1) : l = j + 1
          BY <4>2
        <5>2. j =< k
          BY <1>2, <3>1, <5>1
        <5> QED
          BY <5>1, <5>2
      <4> QED
        BY <1>3, <4>1, <4>2
    <3> QED
      BY <1>2, <3>2, <3>3 DEF WillList
  <2>4. ASSUME WillList(box, open, id) PROVE WillList(rest, open2, id)
    <3>1. PICK k \in 1..b : /\ IsAbout(box[k], id) /\ box[k].st = "NEW"
                            /\ \A l \in 1..b : IsAbout(box[l], id) => l =< k
      BY <1>2, <2>2, <2>4 DEF WillList
    <3>2. k0 + 1 =< k
      BY <2>2, <3>1
    <3>3. PICK j \in 1..(b - 1) : k = j + 1
      BY <1>3, <2>2, <3>2
    <3>4. IsAbout(rest[j], id) /\ rest[j].st = "NEW"
      BY <1>2, <3>1, <3>3
    <3>5. \A l \in 1..(b - 1) : IsAbout(rest[l], id) => l =< j
      <4> SUFFICES ASSUME NEW l \in 1..(b - 1), IsAbout(rest[l], id) PROVE l =< j
        OBVIOUS
      <4>1. l + 1 \in 1..b /\ IsAbout(box[l + 1], id)
        BY <1>2
      <4>2. l + 1 =< k
        BY <3>1, <4>1
      <4> QED
        BY <3>3, <4>2
    <3> QED
      BY <1>2, <3>4, <3>5 DEF WillList
  <2> QED
    BY <1>1, <2>3, <2>4
<1>5. CASE ~\E k \in 1..(b - 1) : IsAbout(rest[k], id)
  <2>1. WillList(rest, open2, id) <=> id \in open2
    BY <1>2, <1>5 DEF WillList
  <2>2. \A k \in 1..b : IsAbout(box[k], id) => k = 1
    BY <1>2, <1>3, <1>5
  <2>3. CASE IsAbout(h, id)
    <3>1. 1 \in 1..b /\ IsAbout(box[1], id)
      BY <1>1, <1>2, <2>3
    <3>2. \A l \in 1..b : IsAbout(box[l], id) => l =< 1
      BY <2>2
    <3>3. WillList(box, open, id) <=> box[1].st = "NEW"
      BY <1>2, <2>2, <3>1, <3>2 DEF WillList
    <3> QED
      BY <1>1, <1>2, <2>1, <2>3, <3>3
  <2>4. CASE ~IsAbout(h, id)
    <3>1. \A k \in 1..b : ~IsAbout(box[k], id)
      BY <1>1, <2>2, <2>4
    <3>2. WillList(box, open, id) <=> id \in open
      BY <1>2, <3>1 DEF WillList
    <3> QED
      BY <1>1, <1>2, <2>1, <2>4, <3>2
  <2> QED
    BY <2>3, <2>4
<1> QED
  BY <1>4, <1>5

-----------------------------------------------------------------------------
(* The handlers *)

\* What a handler leaves: members of the right type, and calls it may make.
DoneOK(kd, n, done) ==
    /\ done.out.place \in Seq(OrderSides)
    /\ done.out.cancel \in SUBSET HeardOf(n)
    /\ done.out = [place |-> done.out.place, cancel |-> done.out.cancel, all |-> FALSE]
    /\ MemOK(kd, done.mem, n + Len(done.out.place))

LEMMA DoneIs ==
    ASSUME NEW kd, NEW n \in Nat, NEW done, NEW place \in Seq(OrderSides),
           NEW cancel \in SUBSET HeardOf(n), MemOK(kd, done.mem, n + Len(place)),
           done.out = [place |-> place, cancel |-> cancel, all |-> FALSE]
    PROVE  DoneOK(kd, n, done)
<1>1. done.out.place = place /\ done.out.cancel = cancel
  OBVIOUS
<1> QED
  BY <1>1 DEF DoneOK

LEMMA RememberedFacts ==
    ASSUME NEW n \in Nat
    PROVE  /\ \A m \in Nat : n =< m => Remembered(n) \subseteq Remembered(m)
           /\ NullOrder \in Remembered(n)
           /\ \A side \in OrderSides : /\ [NullOrder EXCEPT !.side = side] \in Remembered(n)
                                       /\ get_limit_order(n + 1, side) \in Remembered(n + 1)
           /\ \A o : IsUpdate(o, n) => AsOrder(o) \in Remembered(n)
           /\ \A o \in Remembered(n) :
                  /\ [o EXCEPT !.st = "NOT_AVAILABLE"] \in Remembered(n)
                  /\ o.side \in OrderSides /\ Opposite(o.side) \in OrderSides
                  /\ o.st = "NEW" => o.id \in HeardOf(n)
                  /\ \A side \in OrderSides :
                         [o EXCEPT !.st = "NOT_AVAILABLE", !.side = side] \in Remembered(n)
<1>1. \A m \in Nat : n =< m => Remembered(n) \subseteq Remembered(m)
  <2>1. \A m \in Nat : n =< m => HeardOf(n) \subseteq HeardOf(m)
    BY DEF HeardOf
  <2> QED
    BY <2>1 DEF Remembered
<1>2. NullOrder \in Remembered(n)
  BY DEF Remembered, NullOrder, OrderSides
<1>3. \A side \in OrderSides : /\ [NullOrder EXCEPT !.side = side] \in Remembered(n)
                               /\ get_limit_order(n + 1, side) \in Remembered(n + 1)
  <2>1. n + 1 \in HeardOf(n + 1)
    BY DEF HeardOf
  <2> QED
    BY <2>1 DEF Remembered, NullOrder, OrderSides, get_limit_order
<1>4. \A o : IsUpdate(o, n) => AsOrder(o) \in Remembered(n)
  <2>1. 0 \notin HeardOf(n)
    BY DEF HeardOf, Foreign
  <2> QED
    BY <2>1 DEF Remembered, IsUpdate, AsOrder
<1>5. ASSUME NEW o \in Remembered(n)
      PROVE  /\ [o EXCEPT !.st = "NOT_AVAILABLE"] \in Remembered(n)
             /\ o.side \in OrderSides /\ Opposite(o.side) \in OrderSides
             /\ o.st = "NEW" => o.id \in HeardOf(n)
             /\ \A side \in OrderSides :
                    [o EXCEPT !.st = "NOT_AVAILABLE", !.side = side] \in Remembered(n)
  <2>1. PICK i \in {0} \cup HeardOf(n), st \in Statuses \cup {"NOT_AVAILABLE"}, sd \in OrderSides :
            o = [id |-> i, st |-> st, side |-> sd] /\ (st = "NEW" => i # 0)
    BY DEF Remembered
  <2>2. ASSUME NEW side \in OrderSides
        PROVE  [id |-> i, st |-> "NOT_AVAILABLE", side |-> side] \in Remembered(n)
    BY DEF Remembered
  <2>3. [o EXCEPT !.st = "NOT_AVAILABLE"] \in Remembered(n)
    <3>1. [o EXCEPT !.st = "NOT_AVAILABLE"] = [id |-> i, st |-> "NOT_AVAILABLE", side |-> sd]
      BY <2>1
    <3> QED
      BY <2>2, <3>1
  <2>4. ASSUME NEW side \in OrderSides
        PROVE  [o EXCEPT !.st = "NOT_AVAILABLE", !.side = side] \in Remembered(n)
    <3>1. [o EXCEPT !.st = "NOT_AVAILABLE", !.side = side]
              = [id |-> i, st |-> "NOT_AVAILABLE", side |-> side]
      <4>1. PICK o1 : o1 = [o EXCEPT !.st = "NOT_AVAILABLE"]
        OBVIOUS
      <4>2. o1 = [id |-> i, st |-> "NOT_AVAILABLE", side |-> sd]
        BY <2>1, <4>1
      <4>3. [o1 EXCEPT !.side = side] = [id |-> i, st |-> "NOT_AVAILABLE", side |-> side]
        BY <4>2
      <4>4. [o EXCEPT !.st = "NOT_AVAILABLE", !.side = side] = [o1 EXCEPT !.side = side]
        BY <4>1
      <4> QED
        BY <4>3, <4>4
    <3> QED
      BY <2>2, <3>1
  <2>5. o.st = "NEW" => o.id \in HeardOf(n)
    BY <2>1
  <2>6. o.side \in OrderSides /\ Opposite(o.side) \in OrderSides
    BY <2>1 DEF Opposite, OrderSides
  <2> QED
    BY <2>3, <2>4, <2>5, <2>6
<1> QED
  BY <1>1, <1>2, <1>3, <1>4, <1>5

LEMMA ReportIsUpdate ==
    ASSUME NEW n \in Nat, NEW o \in ReportSet(n)
    PROVE  IsUpdate(o, n)
BY DEF ReportSet, IsUpdate, HeardOf

LEMMA SpreadFacts ==
    ASSUME NEW n \in Nat, NEW s \in SpreadSet(n)
    PROVE  /\ \A x : SpreadSnapshot(s, x) \in SpreadSet(n)
           /\ \A o : IsUpdate(o, n) => SpreadOrderUpdate(s, o) \in SpreadSet(n)
           /\ SpreadReset \in SpreadSet(n)
           /\ s.initial.side \in OrderSides /\ s.hedge.side \in OrderSides
<1>1. PICK R : R = Remembered(n)
  OBVIOUS
<1>2. SpreadSet(n) = [status : {"NONE", "PLACING_INITIAL_ORDER"} \cup HedgeStatuses,
                      initial : R, hedge : R, prices : Nat]
  BY <1>1 DEF SpreadSet
<1>3. NullOrder \in R /\ s.initial \in R /\ s.hedge \in R
  <2>1. NullOrder \in R
    BY <1>1, RememberedFacts
  <2>2. s.initial \in R /\ s.hedge \in R
    BY <1>2
  <2> QED
    BY <2>1, <2>2
<1>4. s.initial.side \in OrderSides /\ s.hedge.side \in OrderSides
  BY <1>1, <1>3, RememberedFacts
<1>5. SpreadReset \in SpreadSet(n)
  BY <1>2, <1>3 DEF SpreadReset
<1>6. ASSUME NEW o, IsUpdate(o, n) PROVE SpreadOrderUpdate(s, o) \in SpreadSet(n)
  <2>1. AsOrder(o) \in R
    BY <1>1, <1>6, RememberedFacts
  <2> QED
    BY <1>2, <2>1 DEF SpreadOrderUpdate
<1>7. ASSUME NEW x PROVE SpreadSnapshot(s, x) \in SpreadSet(n)
  <2>1. PICK s1 : s1 = [s EXCEPT !.prices = IF @ < Window THEN @ + 1 ELSE @]
    OBVIOUS
  <2>2. s1 \in SpreadSet(n)
    BY <1>2, <2>1
  <2> PICK st1, in1, he1, pr1 :
          /\ s1 = [status |-> st1, initial |-> in1, hedge |-> he1, prices |-> pr1]
          /\ in1 \in R /\ he1 \in R /\ pr1 \in Nat
    BY <1>2, <2>2
  <2>3. Targets(s1, x) \in SpreadSet(n)
    <3>1. s1.initial \in R
      BY <1>2, <2>2
    <3>2. [s1.initial EXCEPT !.st = "NOT_AVAILABLE", !.side = IF x.above THEN "SELL" ELSE "BUY"] \in R
      <4>1. (IF x.above THEN "SELL" ELSE "BUY") \in OrderSides
        BY DEF OrderSides
      <4> QED
        BY <1>1, <3>1, <4>1, RememberedFacts
    <3>3. [NullOrder EXCEPT !.side = Opposite(s1.initial.side)] \in R
      BY <1>1, <3>1, RememberedFacts
    <3>4. s1.prices \in Nat
      BY <1>2, <2>2
    <3>5. PICK i1, h1 :
              /\ i1 = [s1.initial EXCEPT !.st = "NOT_AVAILABLE",
                                         !.side = IF x.above THEN "SELL" ELSE "BUY"]
              /\ h1 = [NullOrder EXCEPT !.side = Opposite(s1.initial.side)]
      OBVIOUS
    <3>6. CASE s1.initial.st # "FILLED"
      <4>1. Targets(s1, x) = [status |-> "PLACING_INITIAL_ORDER", initial |-> i1,
                              hedge |-> NullOrder, prices |-> s1.prices]
        BY <3>5, <3>6 DEF Targets
      <4> QED
        BY <1>2, <1>3, <3>2, <3>4, <3>5, <4>1
    <3>7. CASE s1.initial.st = "FILLED"
      <4>1. Targets(s1, x) = [status |-> "PLACING_HEDGE_ORDER", initial |-> s1.initial,
                              hedge |-> h1, prices |-> s1.prices]
        BY <3>5, <3>7 DEF Targets
      <4>2. "PLACING_HEDGE_ORDER" \in HedgeStatuses
        BY DEF HedgeStatuses
      <4> QED
        BY <1>2, <3>1, <3>3, <3>4, <3>5, <4>1, <4>2
    <3> QED
      BY <3>6, <3>7
  <2>4. RoundOver(s1) \in SpreadSet(n)
    <3>1. RoundOver(s1) = [status |-> "NONE", initial |-> NullOrder, hedge |-> NullOrder,
                           prices |-> s1.prices]
      <4>1. PICK s2 : s2 = [s1 EXCEPT !.initial = NullOrder]
        OBVIOUS
      <4>2. PICK s3 : s3 = [s2 EXCEPT !.hedge = NullOrder]
        OBVIOUS
      <4>3. s3 = [status |-> st1, initial |-> NullOrder, hedge |-> NullOrder, prices |-> pr1]
        <5>1. s2 = [status |-> st1, initial |-> NullOrder, hedge |-> he1, prices |-> pr1]
          BY <4>1
        <5> QED
          BY <4>2, <5>1
      <4>4. [s3 EXCEPT !.status = "NONE"]
                = [status |-> "NONE", initial |-> NullOrder, hedge |-> NullOrder, prices |-> pr1]
        BY <4>3
      <4>5. RoundOver(s1) = [s3 EXCEPT !.status = "NONE"]
        BY <4>1, <4>2 DEF RoundOver
      <4> QED
        BY <4>4, <4>5
    <3>2. s1.prices \in Nat
      BY <1>2, <2>2
    <3> QED
      BY <1>2, <1>3, <3>1, <3>2
  <2>5. \A st \in HedgeStatuses : [s1 EXCEPT !.status = st] \in SpreadSet(n)
    BY <1>2, <2>2
  <2>6. \/ SpreadSnapshot(s, x) = s1
        \/ SpreadSnapshot(s, x) = Targets(s1, x)
        \/ SpreadSnapshot(s, x) = RoundOver(s1)
        \/ \E st \in HedgeStatuses : SpreadSnapshot(s, x) = [s1 EXCEPT !.status = st]
    BY <2>1 DEF SpreadSnapshot, HedgeStatuses
  <2> QED
    BY <2>2, <2>3, <2>4, <2>5, <2>6
<1> QED
  BY <1>4, <1>5, <1>6, <1>7

LEMMA ReversionFacts ==
    ASSUME NEW n \in Nat, NEW m \in ReversionSet(n)
    PROVE  /\ \A k \in Nat : n =< k => m \in ReversionSet(k)
           /\ m.spread \in SpreadSet(n) /\ m.m_initial_order \in Remembered(n)
           /\ m.m_hedge_order \in Remembered(n)
           /\ \A s \in SpreadSet(n) : [m EXCEPT !.spread = s] \in ReversionSet(n)
           /\ \A o \in Remembered(n) : /\ [m EXCEPT !.m_initial_order = o] \in ReversionSet(n)
                                       /\ [m EXCEPT !.m_hedge_order = o] \in ReversionSet(n)
           /\ [m EXCEPT !.m_pnl = 0] \in ReversionSet(n)
           /\ \A i \in Int : [m EXCEPT !.m_pnl = @ + i] \in ReversionSet(n)
<1>1. ASSUME NEW k \in Nat, n =< k PROVE m \in ReversionSet(k)
  <2>1. Remembered(n) \subseteq Remembered(k)
    BY <1>1, RememberedFacts
  <2>2. SpreadSet(n) \subseteq SpreadSet(k)
    BY <2>1 DEF SpreadSet
  <2> QED
    BY <2>1, <2>2 DEF ReversionSet
<1> QED
  BY <1>1 DEF ReversionSet

LEMMA ReversionGrows ==
    ASSUME NEW n \in Nat, NEW m \in ReversionSet(n)
    PROVE  /\ m \in ReversionSet(n + 1)
           /\ \A side \in OrderSides :
                  /\ [m EXCEPT !.m_initial_order = get_limit_order(n + 1, side)]
                         \in ReversionSet(n + 1)
                  /\ [m EXCEPT !.m_hedge_order = get_limit_order(n + 1, side)]
                         \in ReversionSet(n + 1)
<1>1. PICK n1 \in Nat : n1 = n + 1 /\ n =< n1
  OBVIOUS
<1>2. m \in ReversionSet(n1)
  BY <1>1, ReversionFacts
<1>3. ASSUME NEW side \in OrderSides
      PROVE  /\ [m EXCEPT !.m_initial_order = get_limit_order(n1, side)] \in ReversionSet(n1)
             /\ [m EXCEPT !.m_hedge_order = get_limit_order(n1, side)] \in ReversionSet(n1)
  <2>1. get_limit_order(n1, side) \in Remembered(n1)
    BY <1>1, RememberedFacts
  <2> QED
    BY <1>2, <2>1, ReversionFacts
<1> QED
  BY <1>1, <1>2, <1>3

\* One order is placed, one canceled, or nothing is asked.
LEMMA CallsOK ==
    ASSUME NEW n \in Nat
    PROVE  /\ \A m \in ReversionSet(n) : DoneOK("MeanReversion", n, Does(m, Quiet))
           /\ \A m \in ReversionSet(n + 1), side \in OrderSides :
                  DoneOK("MeanReversion", n, Does(m, [Quiet EXCEPT !.place = <<side>>]))
           /\ \A m \in ReversionSet(n), id \in HeardOf(n) :
                  DoneOK("MeanReversion", n, Does(m, [Quiet EXCEPT !.cancel = {id}]))
<1>1. ASSUME NEW m \in ReversionSet(n) PROVE DoneOK("MeanReversion", n, Does(m, Quiet))
  <2>1. Does(m, Quiet).mem = m /\ Does(m, Quiet).out = [place |-> <<>>, cancel |-> {}, all |-> FALSE]
    BY DEF Does, Quiet
  <2>2. <<>> \in Seq(OrderSides) /\ Len(<<>>) = 0 /\ n + 0 = n
    OBVIOUS
  <2>3. MemOK("MeanReversion", m, n)
    BY DEF MemOK
  <2> QED
    BY <2>1, <2>2, <2>3 DEF DoneOK
<1>2. ASSUME NEW m \in ReversionSet(n + 1), NEW side \in OrderSides
      PROVE  DoneOK("MeanReversion", n, Does(m, [Quiet EXCEPT !.place = <<side>>]))
  <2>1. PICK d : d = Does(m, [Quiet EXCEPT !.place = <<side>>])
    OBVIOUS
  <2>2. d.mem = m /\ d.out = [place |-> <<side>>, cancel |-> {}, all |-> FALSE]
    BY <2>1 DEF Does, Quiet
  <2>3. <<side>> \in Seq(OrderSides) /\ Len(<<side>>) = 1
    OBVIOUS
  <2>4. MemOK("MeanReversion", m, n + 1)
    BY DEF MemOK
  <2> QED
    <3>1. PICK place \in Seq(OrderSides) : place = <<side>> /\ Len(place) = 1
      BY <2>3
    <3>2. PICK cancel \in SUBSET HeardOf(n) : cancel = {}
      OBVIOUS
    <3>3. DoneOK("MeanReversion", n, d)
      BY <2>2, <2>4, <3>1, <3>2, DoneIs
    <3> QED
      BY <2>1, <3>3
<1>3. ASSUME NEW m \in ReversionSet(n), NEW id \in HeardOf(n)
      PROVE  DoneOK("MeanReversion", n, Does(m, [Quiet EXCEPT !.cancel = {id}]))
  <2>1. PICK d : d = Does(m, [Quiet EXCEPT !.cancel = {id}])
    OBVIOUS
  <2>2. d.mem = m /\ d.out = [place |-> <<>>, cancel |-> {id}, all |-> FALSE]
    BY <2>1 DEF Does, Quiet
  <2>3. <<>> \in Seq(OrderSides) /\ Len(<<>>) = 0 /\ n + 0 = n
    OBVIOUS
  <2>4. MemOK("MeanReversion", m, n)
    BY DEF MemOK
  <2> QED
    <3>1. PICK place \in Seq(OrderSides) : place = <<>> /\ n + Len(place) = n
      BY <2>3
    <3>2. PICK cancel \in SUBSET HeardOf(n) : cancel = {id}
      OBVIOUS
    <3>3. DoneOK("MeanReversion", n, d)
      BY <2>2, <2>4, <3>1, <3>2, DoneIs
    <3> QED
      BY <2>1, <3>3
<1> QED
  BY <1>1, <1>2, <1>3

LEMMA ReversionSnapshotOK ==
    ASSUME NEW n \in Nat, NEW m0 \in ReversionSet(n), NEW x
    PROVE  DoneOK("MeanReversion", n, ReversionSnapshot(m0, x, n + 1))
<1>1. PICK m : m = [m0 EXCEPT !.spread = SpreadSnapshot(@, x)]
  OBVIOUS
<1>2. m \in ReversionSet(n)
  BY <1>1, ReversionFacts, SpreadFacts
<1>3. PICK forgotten, done :
          /\ forgotten = [m EXCEPT !.m_initial_order = NullOrder, !.m_hedge_order = NullOrder]
          /\ done = ReversionSnapshot(m0, x, n + 1)
  OBVIOUS
<1>4. forgotten \in ReversionSet(n)
  <2>1. PICK m1 : m1 = [m EXCEPT !.m_initial_order = NullOrder]
    OBVIOUS
  <2>2. NullOrder \in Remembered(n)
    BY RememberedFacts
  <2>3. m1 \in ReversionSet(n)
    BY <1>2, <2>1, <2>2, ReversionFacts
  <2>4. forgotten = [m1 EXCEPT !.m_hedge_order = NullOrder]
    BY <1>3, <2>1
  <2> QED
    BY <2>2, <2>3, <2>4, ReversionFacts
<1>5. /\ m.m_initial_order \in Remembered(n) /\ m.m_hedge_order \in Remembered(n)
      /\ m.spread \in SpreadSet(n) /\ m \in ReversionSet(n + 1)
      /\ m.spread.hedge.side \in OrderSides
  <2>1. /\ m.m_initial_order \in Remembered(n) /\ m.m_hedge_order \in Remembered(n)
        /\ m.spread \in SpreadSet(n)
    BY <1>2, ReversionFacts
  <2>2. m \in ReversionSet(n + 1)
    BY <1>2, ReversionGrows
  <2> QED
    BY <2>1, <2>2, SpreadFacts
<1>7. CASE m.spread.status = "PLACING_INITIAL_ORDER"
  <2>1. done = PlacesInitial(m, x, n + 1)
    BY <1>1, <1>3, <1>7 DEF ReversionSnapshot
  <2>2. "BUY" \in OrderSides
    BY DEF OrderSides
  <2>3. [m EXCEPT !.m_initial_order = get_limit_order(n + 1, "BUY")] \in ReversionSet(n + 1)
    BY <1>2, <2>2, ReversionGrows
  <2>4. PICK o : o = m.m_initial_order
    OBVIOUS
  <2>5. [m EXCEPT !.m_initial_order.st = "NOT_AVAILABLE"] \in ReversionSet(n)
    <3>1. [o EXCEPT !.st = "NOT_AVAILABLE"] \in Remembered(n)
      BY <1>5, <2>4, RememberedFacts
    <3>2. [m EXCEPT !.m_initial_order = [o EXCEPT !.st = "NOT_AVAILABLE"]] \in ReversionSet(n)
      BY <1>2, <3>1, ReversionFacts
    <3> QED
      BY <2>4, <3>2
  <2>6. o.st = "NEW" => o.id \in HeardOf(n)
    BY <1>5, <2>4, RememberedFacts
  <2>7. \/ done = Does([m EXCEPT !.m_initial_order = get_limit_order(n + 1, "BUY")],
                       [Quiet EXCEPT !.place = <<"BUY">>])
        \/ o.st = "NEW" /\ done = Does([m EXCEPT !.m_initial_order.st = "NOT_AVAILABLE"],
                                       [Quiet EXCEPT !.cancel = {o.id}])
        \/ done = Does(m, Quiet)
    BY <2>1, <2>4 DEF PlacesInitial
  <2> QED
    BY <1>2, <1>3, <2>2, <2>3, <2>5, <2>6, <2>7, CallsOK
<1>8. CASE m.spread.status = "PLACING_HEDGE_ORDER"
  <2>1. PICK side \in OrderSides : side = m.spread.hedge.side
    BY <1>5
  <2>2. done = Does([m EXCEPT !.m_hedge_order = get_limit_order(n + 1, side)],
                    [Quiet EXCEPT !.place = <<side>>])
    BY <1>1, <1>3, <1>8, <2>1 DEF ReversionSnapshot
  <2>3. [m EXCEPT !.m_hedge_order = get_limit_order(n + 1, side)] \in ReversionSet(n + 1)
    BY <1>2, ReversionGrows
  <2> QED
    BY <1>3, <2>2, <2>3, CallsOK
<1>9. CASE m.spread.status = "WAITING_FOR_HEDGE_ORDER_FILLED"
  <2>1. done = Does(forgotten, Quiet) \/ done = Does(m, Quiet)
    BY <1>1, <1>3, <1>9 DEF ReversionSnapshot
  <2> QED
    BY <1>2, <1>3, <1>4, <2>1, CallsOK
<1>10. CASE m.spread.status = "STOP_LOSS"
  <2>1. PICK o : o = m.m_hedge_order
    OBVIOUS
  <2>2. [m EXCEPT !.m_hedge_order.st = "NOT_AVAILABLE"] \in ReversionSet(n)
    <3>1. [o EXCEPT !.st = "NOT_AVAILABLE"] \in Remembered(n)
      BY <1>5, <2>1, RememberedFacts
    <3>2. [m EXCEPT !.m_hedge_order = [o EXCEPT !.st = "NOT_AVAILABLE"]] \in ReversionSet(n)
      BY <1>2, <3>1, ReversionFacts
    <3> QED
      BY <2>1, <3>2
  <2>3. o.st = "NEW" => o.id \in HeardOf(n)
    BY <1>5, <2>1, RememberedFacts
  <2>4. \/ o.st = "NEW" /\ done = Does([m EXCEPT !.m_hedge_order.st = "NOT_AVAILABLE"],
                                       [Quiet EXCEPT !.cancel = {o.id}])
        \/ done = Does(m, Quiet)
    BY <1>1, <1>3, <1>10, <2>1 DEF ReversionSnapshot
  <2> QED
    BY <1>2, <1>3, <2>2, <2>3, <2>4, CallsOK
<1>11. CASE m.spread.status \notin {"PLACING_INITIAL_ORDER", "PLACING_HEDGE_ORDER",
                                    "WAITING_FOR_HEDGE_ORDER_FILLED", "STOP_LOSS"}
  <2>1. done = Does(forgotten, Quiet)
    BY <1>1, <1>3, <1>11 DEF ReversionSnapshot
  <2> QED
    BY <1>3, <1>4, <2>1, CallsOK
<1> QED
  BY <1>7, <1>8, <1>9, <1>10, <1>11

LEMMA ReversionOrderOK ==
    ASSUME NEW n \in Nat, NEW m0 \in ReversionSet(n), NEW o, IsUpdate(o, n)
    PROVE  DoneOK("MeanReversion", n, ReversionOrderUpdate(m0, o, n + 1))
<1>1. PICK m : m = [m0 EXCEPT !.spread = SpreadOrderUpdate(@, o)]
  OBVIOUS
<1>2. m \in ReversionSet(n)
  BY <1>1, ReversionFacts, SpreadFacts
<1>3. PICK done : done = ReversionOrderUpdate(m0, o, n + 1)
  OBVIOUS
<1>4. o.st \in Statuses /\ o.side \in OrderSides /\ o.filled \in Int
  BY DEF IsUpdate
<1>5. \A mm \in ReversionSet(n) : Keeps(mm, o) \in ReversionSet(n)
  <2> SUFFICES ASSUME NEW mm \in ReversionSet(n) PROVE Keeps(mm, o) \in ReversionSet(n)
    OBVIOUS
  <2>1. AsOrder(o) \in Remembered(n)
    BY RememberedFacts
  <2>2. /\ [mm EXCEPT !.m_initial_order = AsOrder(o)] \in ReversionSet(n)
        /\ [mm EXCEPT !.m_hedge_order = AsOrder(o)] \in ReversionSet(n)
    BY <2>1, ReversionFacts
  <2> QED
    BY <2>2 DEF Keeps
<1>6. m \in ReversionSet(n + 1) /\ m.spread.initial.side \in OrderSides
  <2>1. m.spread \in SpreadSet(n) /\ m \in ReversionSet(n + 1)
    BY <1>2, ReversionFacts, ReversionGrows
  <2> QED
    BY <2>1, SpreadFacts
<1>7. CASE o.st = "NEW"
  <2>1. done = Does(Keeps(m, o), Quiet)
    BY <1>1, <1>3, <1>7 DEF ReversionOrderUpdate
  <2> QED
    BY <1>2, <1>3, <1>5, <2>1, CallsOK
<1>8. CASE o.st = "REJECTED"
  <2>1. done = Does(m, [Quiet EXCEPT !.place = <<o.side>>])
    BY <1>1, <1>3, <1>8 DEF ReversionOrderUpdate
  <2> QED
    BY <1>3, <1>4, <1>6, <2>1, CallsOK
<1>9. CASE o.st = "FILLED"
  <2>1. PICK i \in Int : i = Signed(o.side, o.filled)
    BY <1>4 DEF Signed
  <2>2. PICK m1 : m1 = [m EXCEPT !.m_pnl = @ + i]
    OBVIOUS
  <2>3. m1 \in ReversionSet(n)
    BY <1>2, <2>2, ReversionFacts
  <2>4. done = Does(Keeps(m1, o), Quiet)
    BY <1>1, <1>3, <1>9, <2>1, <2>2 DEF ReversionOrderUpdate
  <2> QED
    BY <1>3, <1>5, <2>3, <2>4, CallsOK
<1>10. CASE o.st = "CANCELED"
  <2>1. PICK side \in OrderSides : side = m.spread.initial.side
    BY <1>6
  <2>3. /\ [m EXCEPT !.m_initial_order = get_limit_order(n + 1, side)] \in ReversionSet(n + 1)
        /\ [m EXCEPT !.m_hedge_order = get_limit_order(n + 1, o.side)] \in ReversionSet(n + 1)
    BY <1>2, <1>4, ReversionGrows
  <2>4. done = Replaces(m, o, n + 1)
    BY <1>1, <1>3, <1>10 DEF ReversionOrderUpdate
  <2>5. \/ done = Does([m EXCEPT !.m_initial_order = get_limit_order(n + 1, side)],
                       [Quiet EXCEPT !.place = <<side>>])
        \/ done = Does([m EXCEPT !.m_hedge_order = get_limit_order(n + 1, o.side)],
                       [Quiet EXCEPT !.place = <<o.side>>])
        \/ done = Does(m, Quiet)
    BY <2>1, <2>4 DEF Replaces
  <2> QED
    BY <1>2, <1>3, <1>4, <2>3, <2>5, CallsOK
<1>11. CASE o.st \notin {"NEW", "REJECTED", "FILLED", "CANCELED"}
  <2>1. done = Does(m, Quiet)
    BY <1>1, <1>3, <1>11 DEF ReversionOrderUpdate
  <2> QED
    BY <1>2, <1>3, <2>1, CallsOK
<1> QED
  BY <1>7, <1>8, <1>9, <1>10, <1>11

LEMMA QuietOK ==
    ASSUME NEW kd, NEW n \in Nat, NEW m, MemOK(kd, m, n)
    PROVE  DoneOK(kd, n, Does(m, Quiet))
<1>1. PICK d : d = Does(m, Quiet)
  OBVIOUS
<1>2. d.mem = m /\ d.out = [place |-> <<>>, cancel |-> {}, all |-> FALSE]
  BY <1>1 DEF Does, Quiet
<1>3. PICK place \in Seq(OrderSides) : place = <<>> /\ n + Len(place) = n
  <2>1. <<>> \in Seq(OrderSides) /\ Len(<<>>) = 0 /\ n + 0 = n
    OBVIOUS
  <2> QED
    BY <2>1
<1>4. PICK cancel \in SUBSET HeardOf(n) : cancel = {}
  OBVIOUS
<1>5. DoneOK(kd, n, d)
  BY <1>2, <1>3, <1>4, DoneIs
<1> QED
  BY <1>1, <1>5

LEMMA MakerFacts ==
    ASSUME NEW n \in Nat, NEW m \in MakerSet(n)
    PROVE  /\ \A k \in Nat : n =< k => m \in MakerSet(k)
           /\ MakerEnd(m) \in MakerSet(n) /\ MakerInit \in MakerSet(n)
           /\ m.m_open_orders \in SUBSET HeardOf(n)
           /\ [m EXCEPT !.m_last_quoted_price = 1] \in MakerSet(n)
           /\ [m EXCEPT !.m_last_quoted_price = 1].m_open_orders = m.m_open_orders
           /\ MakerWakes(m) \in MakerSet(n) /\ MakerWakes(m).m_open_orders = m.m_open_orders
<1>1. PICK op, inv, last, pairs, closing, sl :
          /\ m = [m_open_orders |-> op, m_inventory |-> inv, m_last_quoted_price |-> last,
                  m_number_of_order_pair_per_quote |-> pairs,
                  m_is_closing_far_orders |-> closing, sleeping |-> sl]
          /\ op \in SUBSET HeardOf(n) /\ inv \in Int /\ last \in {0, 1} /\ pairs \in Nat \ {0}
          /\ closing \in BOOLEAN /\ sl \in Int
  BY DEF MakerSet
<1>2. \A k \in Nat : n =< k => m \in MakerSet(k)
  <2>1. \A k \in Nat : n =< k => HeardOf(n) \subseteq HeardOf(k)
    BY DEF HeardOf
  <2> QED
    BY <1>1, <2>1 DEF MakerSet
<1>3. MakerInit \in MakerSet(n)
  BY DEF MakerInit, MakerSet
<1>4. MakerEnd(m) \in MakerSet(n)
  <2>1. PICK m1 : m1 = [m EXCEPT !.m_open_orders = {}, !.m_inventory = 0]
    OBVIOUS
  <2>2. m1 \in MakerSet(n)
    <3>1. PICK m0 : m0 = [m EXCEPT !.m_open_orders = {}]
      OBVIOUS
    <3>2. m0 \in MakerSet(n)
      BY <3>1 DEF MakerSet
    <3>3. m1 = [m0 EXCEPT !.m_inventory = 0]
      BY <2>1, <3>1
    <3> QED
      BY <3>2, <3>3 DEF MakerSet
  <2>3. PICK m2 : m2 = [m1 EXCEPT !.m_last_quoted_price = 0]
    OBVIOUS
  <2>4. m2 \in MakerSet(n)
    BY <2>2, <2>3 DEF MakerSet
  <2>5. [m2 EXCEPT !.m_number_of_order_pair_per_quote = 1] \in MakerSet(n)
    BY <2>4 DEF MakerSet
  <2>6. MakerEnd(m) = [m2 EXCEPT !.m_number_of_order_pair_per_quote = 1]
    BY <2>1, <2>3 DEF MakerEnd
  <2> QED
    BY <2>5, <2>6
<1>5. MakerWakes(m) \in MakerSet(n) /\ MakerWakes(m).m_open_orders = m.m_open_orders
  <2>1. PICK m1 : m1 = [m EXCEPT !.m_is_closing_far_orders = FALSE]
    OBVIOUS
  <2>2. m1 \in MakerSet(n) /\ m1.m_open_orders = m.m_open_orders
    BY <2>1 DEF MakerSet
  <2>3. /\ [m1 EXCEPT !.sleeping = @ - 1] \in MakerSet(n)
        /\ [m1 EXCEPT !.sleeping = @ - 1].m_open_orders = m.m_open_orders
    BY <2>2 DEF MakerSet
  <2>4. MakerWakes(m) = [m1 EXCEPT !.sleeping = @ - 1]
    BY <2>1 DEF MakerWakes
  <2> QED
    BY <2>3, <2>4
<1>6. m.m_open_orders \in SUBSET HeardOf(n)
  BY <1>1
<1>7. /\ [m EXCEPT !.m_last_quoted_price = 1] \in MakerSet(n)
      /\ [m EXCEPT !.m_last_quoted_price = 1].m_open_orders = m.m_open_orders
  BY DEF MakerSet
<1> QED
  BY <1>2, <1>3, <1>4, <1>5, <1>6, <1>7

LEMMA MakerSnapshotOK ==
    ASSUME NEW n \in Nat, NEW m \in MakerSet(n), NEW x, x.depth \in Nat
    PROVE  /\ DoneOK("MarketMaker", n, MakerSnapshot(m, x))
           /\ MakerSnapshot(m, x).mem.m_open_orders = m.m_open_orders
<1>1. CASE MakerSnapshot(m, x) = MakerDoes(m, MakerIdle)
  <2>1. MakerDoes(m, MakerIdle) = Does(m, Quiet) /\ Does(m, Quiet).mem = m
    BY DEF MakerDoes, MakerIdle, Does, Quiet
  <2>2. MemOK("MarketMaker", m, n)
    BY DEF MemOK
  <2> QED
    BY <1>1, <2>1, <2>2, QuietOK
<1>2. CASE MakerSnapshot(m, x) # MakerDoes(m, MakerIdle)
  <2>1. PICK pairs : pairs = IF x.depth < m.m_number_of_order_pair_per_quote THEN x.depth
                             ELSE m.m_number_of_order_pair_per_quote
    OBVIOUS
  <2>2. PICK m1, place, d :
            /\ m1 = [m EXCEPT !.m_last_quoted_price = 1]
            /\ place = [i \in 1..(2 * pairs) |-> IF i % 2 = 1 THEN "BUY" ELSE "SELL"]
            /\ d = MakerSnapshot(m, x)
    OBVIOUS
  <2>3. d = MakerDoes(m1, [MakerIdle EXCEPT !.place = place]) /\ x.depth # 0
    BY <1>2, <2>1, <2>2 DEF MakerSnapshot, quote_orders_at_price
  <2>4. pairs \in Nat \ {0}
    BY <2>1, <2>3 DEF MakerSet
  <2>5. PICK len \in Nat : len = 2 * pairs
    BY <2>4
  <2>6. place \in Seq(OrderSides) /\ Len(place) = len
    <3>1. \A i \in 1..len : (IF i % 2 = 1 THEN "BUY" ELSE "SELL") \in OrderSides
      BY DEF OrderSides
    <3>2. place \in [1..len -> OrderSides]
      BY <2>2, <2>5, <3>1
    <3> QED
      BY <2>5, <3>2
  <2>7. m1 \in MakerSet(n) /\ m1.m_open_orders = m.m_open_orders
    BY <2>2, MakerFacts
  <2>8. d.mem = m1 /\ d.out = [place |-> place, cancel |-> {}, all |-> FALSE]
    BY <2>3 DEF MakerDoes, MakerIdle
  <2>9. PICK n1 \in Nat : n1 = n + len /\ n =< n1
    BY <2>5
  <2>10. m1 \in MakerSet(n1)
    BY <2>7, <2>9, MakerFacts
  <2>11. MemOK("MarketMaker", d.mem, n + Len(place))
    BY <2>6, <2>8, <2>9, <2>10 DEF MemOK
  <2>12. PICK cancel \in SUBSET HeardOf(n) : cancel = {}
    OBVIOUS
  <2>13. DoneOK("MarketMaker", n, d)
    BY <2>6, <2>8, <2>11, <2>12, DoneIs
  <2> QED
    BY <2>2, <2>7, <2>8, <2>13
<1> QED
  BY <1>1, <1>2

LEMMA MakerOrderOK ==
    ASSUME NEW n \in Nat, NEW m \in MakerSet(n), NEW o, IsUpdate(o, n)
    PROVE  /\ MakerOrderUpdate(m, o) \in MakerSet(n)
           /\ \A id : id \in MakerOrderUpdate(m, o).m_open_orders
                        <=> IF IsAbout(o, id) THEN o.st = "NEW" ELSE id \in m.m_open_orders
<1>1. PICK op, inv, last, pairs, closing, sl :
          /\ m = [m_open_orders |-> op, m_inventory |-> inv, m_last_quoted_price |-> last,
                  m_number_of_order_pair_per_quote |-> pairs,
                  m_is_closing_far_orders |-> closing, sleeping |-> sl]
          /\ op \in SUBSET HeardOf(n) /\ inv \in Int /\ last \in {0, 1} /\ pairs \in Nat \ {0}
          /\ closing \in BOOLEAN /\ sl \in Int
  BY DEF MakerSet
<1>2. o.t = "order" /\ o.id \in HeardOf(n) /\ o.st \in Statuses
  BY DEF IsUpdate
<1>3. PICK r : r = MakerOrderUpdate(m, o)
  OBVIOUS
<1>4. CASE o.st = "NEW"
  <2>1. r = [m EXCEPT !.m_open_orders = @ \cup {o.id}]
    BY <1>3, <1>4 DEF MakerOrderUpdate
  <2>2. r \in MakerSet(n) /\ r.m_open_orders = m.m_open_orders \cup {o.id}
    BY <1>1, <1>2, <2>1 DEF MakerSet
  <2> QED
    BY <1>2, <1>3, <1>4, <2>2 DEF IsAbout
<1>5. CASE o.st = "FILLED"
  <2>1. PICK inv2 : inv2 = IF o.side = "BUY" THEN inv + 1 ELSE inv - 1
    OBVIOUS
  <2>2. inv2 \in Int
    BY <1>1, <2>1
  <2>3. r = [m EXCEPT !.m_open_orders = @ \ {o.id}, !.m_inventory = inv2]
    BY <1>1, <1>3, <1>5, <2>1 DEF MakerOrderUpdate
  <2>4. r \in MakerSet(n) /\ r.m_open_orders = m.m_open_orders \ {o.id}
    BY <1>1, <1>2, <2>2, <2>3 DEF MakerSet
  <2> QED
    BY <1>2, <1>3, <1>5, <2>4 DEF IsAbout
<1>6. CASE o.st \in {"CANCELED", "REJECTED"}
  <2>1. r = [m EXCEPT !.m_open_orders = @ \ {o.id}]
    BY <1>3, <1>6 DEF MakerOrderUpdate
  <2>2. r \in MakerSet(n) /\ r.m_open_orders = m.m_open_orders \ {o.id}
    BY <1>1, <1>2, <2>1 DEF MakerSet
  <2> QED
    BY <1>2, <1>3, <1>6, <2>2 DEF IsAbout
<1>7. CASE o.st = "PARTIALLY_FILLED"
  <2>1. r = m
    BY <1>3, <1>7 DEF MakerOrderUpdate
  <2> QED
    BY <1>3, <1>7, <2>1 DEF IsAbout
<1> QED
  BY <1>2, <1>4, <1>5, <1>6, <1>7 DEF Statuses

LEMMA MakerCloseOK ==
    ASSUME NEW n \in Nat, NEW m \in MakerSet(n), NEW far \in SUBSET m.m_open_orders
    PROVE  /\ MakerCloseFar(m, far).mem \in MakerSet(n)
           /\ MakerCloseFar(m, far).mem.m_open_orders = m.m_open_orders
           /\ MakerCloseFar(m, far).out = [place |-> <<>>, cancel |-> far, all |-> FALSE]
<1>1. PICK m1 : m1 = [m EXCEPT !.m_is_closing_far_orders = TRUE, !.sleeping = @ + 1]
  OBVIOUS
<1>2. m1 \in MakerSet(n) /\ m1.m_open_orders = m.m_open_orders
  <2>1. PICK m2 : m2 = [m EXCEPT !.m_is_closing_far_orders = TRUE]
    OBVIOUS
  <2>2. m2 \in MakerSet(n) /\ m2.m_open_orders = m.m_open_orders
    BY <2>1 DEF MakerSet
  <2>3. m1 = [m2 EXCEPT !.sleeping = @ + 1]
    BY <1>1, <2>1
  <2> QED
    BY <2>2, <2>3 DEF MakerSet
<1>3. MakerCloseFar(m, far).mem = m1
      /\ MakerCloseFar(m, far).out = [place |-> <<>>, cancel |-> far, all |-> FALSE]
  BY <1>1 DEF MakerCloseFar, MakerDoes, MakerIdle
<1> QED
  BY <1>2, <1>3

LEMMA MakerTradesOK ==
    ASSUME NEW n \in Nat, NEW m \in MakerSet(n), NEW pairs \in Nat \ {0}
    PROVE  /\ MakerRemoveOldTrades(m, pairs) \in MakerSet(n)
           /\ MakerRemoveOldTrades(m, pairs).m_open_orders = m.m_open_orders
BY DEF MakerSet, MakerRemoveOldTrades

\* The buy points.
LEMMA PointFacts ==
    ASSUME NEW b \in PointSet
    PROVE  /\ \A st \in {"PLACING", "PLACED", "CANCELING"} : [b EXCEPT !.status = st] \in PointSet
           /\ Released(b) \in PointSet /\ NewPoint \in PointSet
           /\ \A o : PointUpdate(b, o) \in PointSet
<1>1. PICK st \in {"AVAILABLE", "PLACING", "PLACED", "HOLD", "CANCELING"}, q \in {0, 1} :
          b = [status |-> st, quantity |-> q]
  BY DEF PointSet
<1>2. \A s \in {"PLACING", "PLACED", "CANCELING"} : [b EXCEPT !.status = s] \in PointSet
  BY <1>1 DEF PointSet
<1>3. Released(b) \in PointSet
  BY <1>1 DEF PointSet, Released
<1>4. NewPoint \in PointSet
  BY DEF PointSet, NewPoint
<1>5. [status |-> "HOLD", quantity |-> 1] \in PointSet
  BY DEF PointSet
<1>6. ASSUME NEW o PROVE PointUpdate(b, o) \in PointSet
  <2>1. \/ PointUpdate(b, o) = [b EXCEPT !.status = "PLACED"]
        \/ PointUpdate(b, o) = [status |-> "HOLD", quantity |-> 1]
        \/ PointUpdate(b, o) = NewPoint
        \/ PointUpdate(b, o) = Released(b)
        \/ PointUpdate(b, o) = b
    BY DEF PointUpdate
  <2> QED
    BY <1>2, <1>3, <1>4, <1>5, <2>1
<1> QED
  BY <1>2, <1>3, <1>4, <1>6

LEMMA SpotFacts ==
    ASSUME NEW m, SpotOK(m)
    PROVE  /\ SpotOK(SpotEnd(m))
           /\ \A price : SpotOK(SpotPriceUpdate(m, price))
           /\ \A o : HasPoint(m, o) => SpotOK(SpotOrderUpdate(m, o))
<1>1. PICK pts : m = [points |-> pts] /\ pts \in [DOMAIN pts -> PointSet]
  BY DEF SpotOK
<1>2. \A q : q \in [DOMAIN q -> PointSet] => SpotOK([points |-> q])
  BY DEF SpotOK
<1>3. SpotOK(SpotEnd(m))
  <2>1. PICK q : q = [p \in DOMAIN pts |->
                         IF pts[p].status # "HOLD" THEN Released(pts[p]) ELSE pts[p]]
    OBVIOUS
  <2>2. \A p \in DOMAIN pts : Released(pts[p]) \in PointSet /\ pts[p] \in PointSet
    BY <1>1, PointFacts
  <2>3. q \in [DOMAIN q -> PointSet]
    BY <2>1, <2>2
  <2>4. SpotEnd(m) = [points |-> q]
    BY <1>1, <2>1 DEF SpotEnd
  <2> QED
    BY <1>2, <2>3, <2>4
<1>5. ASSUME NEW price PROVE SpotOK(SpotPriceUpdate(m, price))
  <2>1. PICK lower, q1, q2, q3 :
            /\ lower = get_lower_nearest_price(price) /\ q1 = add_new_buy_points(pts, lower)
            /\ q2 = update_buy_orders(q1, lower) /\ q3 = update_sell_orders(q2)
    OBVIOUS
  <2>2. q1 \in [DOMAIN q1 -> PointSet]
    <3>1. \A p \in DOMAIN pts : pts[p] \in PointSet /\ NewPoint \in PointSet
      BY <1>1, PointFacts
    <3>2. NewPoint \in PointSet
      BY DEF NewPoint, PointSet
    <3> QED
      BY <2>1, <3>1, <3>2 DEF add_new_buy_points
  <2>3. q2 \in [DOMAIN q2 -> PointSet]
    <3>1. \A p \in DOMAIN q1 : /\ q1[p] \in PointSet
                               /\ [q1[p] EXCEPT !.status = "PLACING"] \in PointSet
                               /\ [q1[p] EXCEPT !.status = "CANCELING"] \in PointSet
      BY <2>2, PointFacts
    <3> QED
      BY <2>1, <3>1 DEF update_buy_orders
  <2>4. q3 \in [DOMAIN q3 -> PointSet]
    <3>1. \A p \in DOMAIN q2 : /\ q2[p] \in PointSet
                               /\ [q2[p] EXCEPT !.status = "PLACING"] \in PointSet
                               /\ [q2[p] EXCEPT !.status = "CANCELING"] \in PointSet
      BY <2>3, PointFacts
    <3>2. PICK hold : hold = Lowest({p \in DOMAIN q2 : q2[p].status = "HOLD"})
      OBVIOUS
    <3>3. CASE hold = {}
      <4>1. q3 = q2
        BY <2>1, <3>2, <3>3 DEF update_sell_orders
      <4> QED
        BY <2>3, <4>1
    <3>4. CASE hold # {}
      <4>1. PICK lo, hi : lo = Min(hold) /\ hi = Max(hold)
        OBVIOUS
      <4>2. q3 = [p \in DOMAIN q2 |->
                    IF q2[p].status = "HOLD" /\ p >= lo /\ p =< hi
                    THEN [q2[p] EXCEPT !.status = "PLACING"]
                    ELSE IF \/ /\ q2[p].status = "PLACED" /\ q2[p].quantity > 0
                               /\ p < lo
                            \/ p > hi
                    THEN [q2[p] EXCEPT !.status = "CANCELING"]
                    ELSE q2[p]]
        BY <2>1, <3>2, <3>4, <4>1, Zenon DEF update_sell_orders
      <4> QED
        BY <3>1, <4>2
    <3> QED
      BY <3>3, <3>4
  <2>5. SpotPriceUpdate(m, price) = [points |-> q3]
    BY <1>1, <2>1 DEF SpotPriceUpdate
  <2> QED
    BY <1>2, <2>4, <2>5
<1>6. ASSUME NEW o, HasPoint(m, o) PROVE SpotOK(SpotOrderUpdate(m, o))
  <2>1. o.price \in DOMAIN pts
    BY <1>1, <1>6 DEF HasPoint
  <2>2. PICK b : b = PointUpdate(pts[o.price], o)
    OBVIOUS
  <2>3. b \in PointSet
    BY <1>1, <2>1, <2>2, PointFacts
  <2>4. PICK q : q = [pts EXCEPT ![o.price] = b]
    OBVIOUS
  <2>5. q \in [DOMAIN q -> PointSet]
    BY <1>1, <2>3, <2>4
  <2>6. SpotOrderUpdate(m, o) = [points |-> q]
    BY <1>1, <2>2, <2>4 DEF SpotOrderUpdate
  <2> QED
    BY <1>2, <2>5, <2>6
<1> QED
  BY <1>3, <1>5, <1>6

\* The saved buy points.
LEMMA SpotInitsOK == \A m \in SpotInits : SpotOK(m)
<1> SUFFICES ASSUME NEW m \in SpotInits PROVE SpotOK(m)
  OBVIOUS
<1>1. PICK q : /\ m = [points |-> q]
               /\ \/ q = [p \in {} |-> NewPoint]
                  \/ \E p \in Prices :
                         q \in [{p} -> [status : {"AVAILABLE", "PLACING", "PLACED", "CANCELING"},
                                        quantity : {0}]
                                       \cup [status : {"PLACING", "PLACED", "HOLD", "CANCELING"},
                                             quantity : {1}]]
  BY DEF SpotInits
<1>2. /\ [status : {"AVAILABLE", "PLACING", "PLACED", "CANCELING"}, quantity : {0}] \subseteq PointSet
      /\ [status : {"PLACING", "PLACED", "HOLD", "CANCELING"}, quantity : {1}] \subseteq PointSet
  BY DEF PointSet
<1>3. q \in [DOMAIN q -> PointSet]
  BY <1>1, <1>2
<1> QED
  BY <1>1, <1>3 DEF SpotOK

-----------------------------------------------------------------------------
(* The exchange *)

LEMMA TypeFacts ==
    ASSUME TypeOK
    PROVE  /\ Len(orders) \in Nat /\ DOMAIN orders = 1..Len(orders)
           /\ \A id \in 1..Len(orders) : orders[id] \in OrderSet
           /\ requests # <<>> => /\ Head(requests) \in RequestSet(Len(orders))
                                 /\ Tail(requests) \in Seq(RequestSet(Len(orders)))
           /\ requests # <<>> /\ Head(requests).op = "place"
                  => Head(requests).id \in 1..Len(orders)
           /\ inbox # <<>> => /\ Head(inbox) \in Tasks(kind, Len(orders))
                              /\ Tail(inbox) \in Seq(Tasks(kind, Len(orders)))
<1>1. orders \in Seq(OrderSet) /\ requests \in Seq(RequestSet(Len(orders)))
      /\ inbox \in Seq(Tasks(kind, Len(orders)))
  BY DEF TypeOK
<1>2. /\ Len(orders) \in Nat /\ DOMAIN orders = 1..Len(orders)
      /\ \A id \in 1..Len(orders) : orders[id] \in OrderSet
  BY <1>1
<1>3. requests # <<>> => /\ Head(requests) \in RequestSet(Len(orders))
                         /\ Tail(requests) \in Seq(RequestSet(Len(orders)))
  BY <1>1, TailFacts
<1>4. inbox # <<>> => /\ Head(inbox) \in Tasks(kind, Len(orders))
                      /\ Tail(inbox) \in Seq(Tasks(kind, Len(orders)))
  BY <1>1, TailFacts
<1>5. requests # <<>> /\ Head(requests).op = "place"
          => Head(requests).id \in 1..Len(orders)
  BY <1>2, <1>3, RequestFacts
<1> QED
  BY <1>2, <1>3, <1>4, <1>5

\* box is the inbox with one more report.
Told(box, id, status) ==
    /\ box \in Seq(Tasks(kind, Len(orders)))
    /\ \A open : \A i \in 1..Len(orders) :
           i # id \/ status = "PARTIALLY_FILLED"
               => (WillList(box, open, i) <=> WillList(inbox, open, i))
    /\ status # "PARTIALLY_FILLED" =>
           \A open : WillList(box, open, id) <=> status = "NEW"

\* What Changes leaves behind.
ChangeResult(id, st, status) ==
    /\ orders' \in Seq(OrderSet) /\ Len(orders') = Len(orders)
    /\ DOMAIN orders' = 1..Len(orders) /\ DOMAIN orders = 1..Len(orders)
    /\ orders'[id].st = st
    /\ \A i \in 1..Len(orders) : i # id => orders'[i] = orders[i]
    /\ Told(inbox', id, status)

LEMMA ReportOK ==
    ASSUME TypeOK, NEW id \in 1..Len(orders), NEW status \in Statuses, NEW f \in Int,
           NEW box, box = Append(inbox, Report(id, status, f))
    PROVE  Told(box, id, status)
<1>1. PICK n, S, msg : n = Len(orders) /\ S = Tasks(kind, n) /\ msg = Report(id, status, f)
  OBVIOUS
<1>2. n \in Nat /\ orders[id] \in OrderSet
  BY <1>1, TypeFacts
<1>3. msg \in ReportSet(n) /\ msg.t = "order" /\ msg.id = id /\ msg.st = status
  BY <1>1, <1>2 DEF Report, ReportSet, OrderSet
<1>4. msg \in S
  BY <1>1, <1>2, <1>3, TaskFacts
<1>5. inbox \in Seq(S)
  BY <1>1 DEF TypeOK
<1>6. PICK more : more = <<msg>>
  OBVIOUS
<1>7. more \in Seq(S) /\ Len(more) = 1 /\ more[1] = msg
  BY <1>4, <1>6
<1>8. box = inbox \o more
  <2>1. Append(inbox, msg) = inbox \o <<msg>>
    BY <1>4, <1>5, AppendIs
  <2> QED
    BY <1>1, <1>6, <2>1
<1>9. box \in Seq(S)
  BY <1>5, <1>7, <1>8
<1>10. ASSUME NEW open, NEW i \in 1..n, i # id \/ status = "PARTIALLY_FILLED"
       PROVE  WillList(box, open, i) <=> WillList(inbox, open, i)
  <2>1. \A k \in 1..Len(more) : ~IsAbout(more[k], i)
    BY <1>3, <1>7, <1>10 DEF IsAbout
  <2>2. PICK in : in = inbox
    OBVIOUS
  <2>3. in \in Seq(S) /\ box = in \o more
    BY <1>5, <1>8, <2>2
  <2>4. WillList(in \o more, open, i) <=> WillList(in, open, i)
    BY <1>7, <2>1, <2>3, ListIgnores
  <2> QED
    BY <2>2, <2>3, <2>4
<1>11. ASSUME NEW open, status # "PARTIALLY_FILLED"
       PROVE  WillList(box, open, id) <=> status = "NEW"
  <2>1. 1 \in 1..Len(more) /\ IsAbout(more[1], id)
    BY <1>3, <1>7, <1>11 DEF IsAbout
  <2>2. \A k \in 1..Len(more) : IsAbout(more[k], id) => more[k].st = status
    BY <1>3, <1>7
  <2>3. \E k \in 1..Len(more) : IsAbout(more[k], id)
    BY <2>1
  <2>4. PICK in : in = inbox
    OBVIOUS
  <2>5. in \in Seq(S) /\ box = in \o more
    BY <1>5, <1>8, <2>4
  <2>6. WillList(in \o more, open, id) <=> status = "NEW"
    BY <1>7, <2>2, <2>3, <2>5, ListTold
  <2> QED
    BY <2>5, <2>6
<1> QED
  BY <1>1, <1>9, <1>10, <1>11 DEF Told

LEMMA ChangesOK ==
    ASSUME TypeOK, NEW id \in 1..Len(orders),
           NEW st \in {"sent", "open", "filled", "canceled", "rejected"},
           NEW f \in Int, NEW status \in Statuses, Changes(id, st, f, status)
    PROVE  ChangeResult(id, st, status)
<1>1. Len(orders) \in Nat /\ DOMAIN orders = 1..Len(orders) /\ orders \in Seq(OrderSet)
  BY TypeFacts DEF TypeOK
<1>2. PICK ords, o : ords = orders /\ o = orders[id]
  OBVIOUS
<1>3. o \in OrderSet
  BY <1>1, <1>2
<1>4. PICK o2 : o2 = [o EXCEPT !.st = st, !.filled = @ + f]
  OBVIOUS
<1>5. o2 \in OrderSet /\ o2.st = st
  <2>1. PICK o1 : o1 = [o EXCEPT !.st = st]
    OBVIOUS
  <2>2. o1 \in OrderSet /\ o1.st = st
    BY <1>3, <2>1 DEF OrderSet
  <2>3. o2 = [o1 EXCEPT !.filled = @ + f]
    BY <1>4, <2>1
  <2> QED
    BY <2>2, <2>3 DEF OrderSet
<1>6. orders' = [ords EXCEPT ![id] = o2]
  <2>1. PICK ords1 : ords1 = [ords EXCEPT ![id].st = st]
    OBVIOUS
  <2>2. orders' = [ords1 EXCEPT ![id].filled = @ + f]
    BY <1>2, <2>1 DEF Changes
  <2>3. ords1 = [ords EXCEPT ![id] = [o EXCEPT !.st = st]] /\ ords1[id] = [o EXCEPT !.st = st]
    BY <1>1, <1>2, <2>1
  <2>4. orders' = [ords1 EXCEPT ![id] = [ords1[id] EXCEPT !.filled = @ + f]]
    BY <2>2
  <2>5. [ords1[id] EXCEPT !.filled = @ + f] = o2
    BY <1>4, <2>3
  <2>6. orders' = [ords1 EXCEPT ![id] = o2]
    BY <2>4, <2>5
  <2> QED
    BY <2>3, <2>6
<1>7. /\ orders' \in Seq(OrderSet) /\ Len(orders') = Len(orders)
      /\ DOMAIN orders' = 1..Len(orders)
      /\ orders'[id].st = st
      /\ \A i \in 1..Len(orders) : i # id => orders'[i] = orders[i]
  BY <1>1, <1>2, <1>5, <1>6
<1>8. PICK g \in Int : g = IF f > 0 THEN orders[id].filled + f ELSE 0
  BY <1>2, <1>3 DEF OrderSet
<1>9. PICK box : box = inbox'
  OBVIOUS
<1>10. Told(box, id, status)
  <2>1. box = Append(inbox, Report(id, status, g))
    BY <1>8, <1>9 DEF Changes
  <2> QED
    BY <2>1, ReportOK
<1> QED
  BY <1>1, <1>7, <1>9, <1>10 DEF ChangeResult

\* Types after a step of the exchange.
EntryTyped ==
    /\ simulated' = simulated /\ UNCHANGED strategy_vars
    /\ orders' \in Seq(OrderSet) /\ Len(orders') = Len(orders)
    /\ requests' \in Seq(RequestSet(Len(orders)))
    /\ disconnected' \subseteq RequestSet(Len(orders))
    /\ inbox' \in Seq(Tasks(kind, Len(orders)))
    /\ faults' \in Nat
    /\ disconnected' # {} => "break" \in seen'

LEMMA EntryType ==
    ASSUME TypeOK, Trading, EntryTyped
    PROVE  TypeOK'
<1>1. kind' = kind /\ mem' = mem /\ m_current_state' = m_current_state
      /\ m_previous_state' = m_previous_state /\ is_running' = is_running
  BY DEF EntryTyped, strategy_vars
<1>2. Trading'
  BY <1>1 DEF Trading
<1>3. MemOK(kind, mem, Len(orders))'
  BY <1>1 DEF EntryTyped, TypeOK
<1>4. (requests \in Seq(RequestSet(Len(orders))))'
      /\ (inbox \in Seq(Tasks(kind, Len(orders))))'
      /\ (disconnected \subseteq RequestSet(Len(orders)))'
  BY <1>1 DEF EntryTyped
<1> QED
  BY <1>1, <1>2, <1>3, <1>4 DEF EntryTyped, TypeOK

\* A request is taken, or none is, and no order begins to work.
LEMMA StopAfter ==
    ASSUME TypeOK, StopPending, simulated' = simulated,
           m_previous_state' = m_previous_state, seen \subseteq seen',
           ~AtSimulator /\ Working' # {} => Working # {},
           ~AtSimulator => PlacesExact(orders, requests)',
           \/ requests' = requests
           \/ requests # <<>> /\ requests' = Tail(requests) /\ Head(requests).op # "cancel_all"
    PROVE  StopPending'
<1> SUFFICES ASSUME ~AtSimulator, "break" \notin seen', m_previous_state # "RUN", Working' # {}
             PROVE  WillCancel(requests)'
  BY DEF StopPending, AtSimulator, Elsewhere
<1>1. WillCancel(requests)
  BY DEF StopPending
<1>2. CASE requests' = requests
  BY <1>1, <1>2 DEF WillCancel
<1>3. CASE requests # <<>> /\ requests' = Tail(requests) /\ Head(requests).op # "cancel_all"
  <2>1. PICK n, r : n \in Nat /\ r \in Seq(RequestSet(n)) /\ r = requests
    BY TypeFacts DEF TypeOK
  <2>2. WillCancel(Tail(r))
    BY <1>1, <1>3, <2>1, CancelTaken
  <2>3. requests' = Tail(r)
    BY <1>3, <2>1
  <2> QED
    BY <2>2, <2>3 DEF WillCancel
<1> QED
  BY <1>2, <1>3

\* What is reported of order id is what it is now.
Agrees(id, st, status) ==
    /\ status # "PARTIALLY_FILLED" => (status = "NEW" <=> st = "open")
    /\ status = "PARTIALLY_FILLED" => (orders[id].st = "open" <=> st = "open")

\* The market maker will list order id if and only if the exchange has it.
LEMMA MirrorAfter ==
    ASSUME TypeOK, MirrorPending, UNCHANGED strategy_vars, seen \subseteq seen',
           NEW id \in 1..Len(orders), NEW st, NEW status, ChangeResult(id, st, status),
           Undisturbed' => Agrees(id, st, status)
    PROVE  MirrorPending'
<1>1. kind' = kind /\ mem' = mem /\ m_current_state' = m_current_state
      /\ m_previous_state' = m_previous_state
  BY DEF strategy_vars
<1> SUFFICES ASSUME kind = "MarketMaker", Undisturbed', m_current_state = "RUN"
             PROVE  /\ m_previous_state # "STOP"
                    /\ \A i \in DOMAIN orders' :
                           WillList(inbox', mem.m_open_orders, i) <=> orders'[i].st = "open"
  BY <1>1, Zenon DEF MirrorPending
<1>2. /\ m_previous_state # "STOP"
      /\ \A i \in DOMAIN orders :
             WillList(inbox, mem.m_open_orders, i) <=> orders[i].st = "open"
  <2>1. Undisturbed
    BY DEF Undisturbed
  <2> QED
    BY <2>1 DEF MirrorPending
<1>3. PICK open, box, ords2, ords, n :
          /\ open = mem.m_open_orders /\ box = inbox' /\ ords2 = orders' /\ ords = orders
          /\ n = Len(orders)
  OBVIOUS
<1>4. Told(box, id, status) /\ DOMAIN ords2 = 1..n /\ DOMAIN ords = 1..n /\ ords2[id].st = st
      /\ \A i \in 1..n : i # id => ords2[i] = ords[i]
  BY <1>3 DEF ChangeResult
<1>5. ASSUME NEW i \in 1..n PROVE WillList(box, open, i) <=> ords2[i].st = "open"
  <2>1. WillList(inbox, open, i) <=> ords[i].st = "open"
    BY <1>2, <1>3, <1>4
  <2>2. CASE i # id
    <3>1. WillList(box, open, i) <=> WillList(inbox, open, i)
      BY <1>3, <1>4, <2>2 DEF Told
    <3> QED
      BY <1>4, <2>1, <2>2, <3>1
  <2>3. CASE i = id /\ status = "PARTIALLY_FILLED"
    <3>1. WillList(box, open, i) <=> WillList(inbox, open, i)
      BY <1>3, <1>4, <2>3 DEF Told
    <3> QED
      BY <1>3, <1>4, <2>1, <2>3, <3>1 DEF Agrees
  <2>4. CASE i = id /\ status # "PARTIALLY_FILLED"
    <3>1. WillList(box, open, i) <=> status = "NEW"
      BY <1>4, <2>4 DEF Told
    <3> QED
      BY <1>4, <2>4, <3>1 DEF Agrees
  <2> QED
    BY <2>2, <2>3, <2>4
<1> QED
  BY <1>2, <1>3, <1>4, <1>5

\* A step of the exchange that changes order id and reports it.
OrderChanges(id, st, status) ==
    /\ ChangeResult(id, st, status)
    /\ simulated' = simulated /\ UNCHANGED strategy_vars /\ seen \subseteq seen'
    /\ disconnected' \subseteq RequestSet(Len(orders))
    /\ faults' \in Nat
    /\ disconnected' # {} => "break" \in seen'
    /\ Undisturbed' => Agrees(id, st, status)
    /\ st # "sent"
    /\ ~AtSimulator /\ st = "open" => orders[id].st \in {"sent", "open"}
    /\ \/ requests' = requests /\ orders[id].st = "open"
       \/ /\ requests # <<>> /\ requests' = Tail(requests)
          /\ \/ Head(requests).op = "place" /\ id = Head(requests).id
             \/ Head(requests).op = "cancel" /\ orders[id].st = "open"

LEMMA OrderChangesOK ==
    ASSUME IInv, NEW id \in 1..Len(orders), NEW st, NEW status, OrderChanges(id, st, status)
    PROVE  IInv'
<1>1. TypeOK /\ StopPending /\ MirrorPending
  BY DEF IInv
<1>2. PICK n, ords, ords2, reqs :
          n = Len(orders) /\ ords = orders /\ ords2 = orders' /\ reqs = requests
  OBVIOUS
<1>3. /\ n \in Nat /\ DOMAIN ords = 1..n /\ DOMAIN ords2 = 1..n /\ ords2[id].st = st
      /\ (\A i \in 1..n : i # id => ords2[i] = ords[i])
      /\ reqs \in Seq(RequestSet(n))
  BY <1>1, <1>2, TypeFacts DEF OrderChanges, ChangeResult, TypeOK
<1>4. Trading
  <2>1. orders # <<>>
    BY <1>2, <1>3
  <2> QED
    BY <1>1, <2>1 DEF TypeOK
<1>5. requests' = reqs \/ (reqs # <<>> /\ requests' = Tail(reqs) /\ Head(reqs).op # "cancel_all")
  BY <1>2 DEF OrderChanges
<1>6. TypeOK'
  <2>1. requests' \in Seq(RequestSet(n))
    BY <1>3, <1>5, TailFacts
  <2>2. EntryTyped
    BY <1>2, <2>1 DEF OrderChanges, ChangeResult, Told, EntryTyped
  <2> QED
    BY <1>1, <1>4, <2>2, EntryType
<1>7. ~AtSimulator => PlacesExact(ords2, requests')
  <2> SUFFICES ASSUME ~AtSimulator PROVE PlacesExact(ords2, requests')
    OBVIOUS
  <2>1. PlacesExact(ords, reqs)
    BY <1>1, <1>2 DEF StopPending
  <2>2. st # "sent"
    BY DEF OrderChanges
  <2>3. ords[id].st = "open" =>
            \A i \in DOMAIN ords : ords2[i].st = "sent" <=> ords[i].st = "sent"
    BY <1>3, <2>2
  <2>4. CASE requests' = requests /\ orders[id].st = "open"
    <3>1. PlacesExact(ords2, reqs)
      BY <1>2, <1>3, <2>1, <2>3, <2>4, NoneTaken
    <3> QED
      BY <1>2, <2>4, <3>1
  <2>5. CASE /\ requests # <<>> /\ requests' = Tail(requests)
             /\ Head(requests).op = "place" /\ id = Head(requests).id
    <3>1. PlacesExact(ords2, Tail(reqs))
      BY <1>2, <1>3, <2>1, <2>2, <2>5, PlaceTaken
    <3> QED
      BY <1>2, <2>5, <3>1
  <2>6. CASE /\ requests # <<>> /\ requests' = Tail(requests)
             /\ Head(requests).op = "cancel" /\ orders[id].st = "open"
    <3>1. PlacesExact(ords2, Tail(reqs))
      BY <1>2, <1>3, <2>1, <2>3, <2>6, OtherTaken
    <3> QED
      BY <1>2, <2>6, <3>1
  <2> QED
    BY <2>4, <2>5, <2>6 DEF OrderChanges
<1>8. ~AtSimulator /\ Working' # {} => Working # {}
  <2> SUFFICES ASSUME ~AtSimulator, NEW i \in DOMAIN ords2, ords2[i].st \in {"sent", "open"}
               PROVE  \E j \in DOMAIN ords : ords[j].st \in {"sent", "open"}
    BY <1>2 DEF Working
  <2>1. CASE i = id
    <3>1. st = "open"
      BY <1>3, <2>1 DEF OrderChanges
    <3> QED
      BY <1>2, <1>3, <3>1 DEF OrderChanges
  <2>2. CASE i # id
    BY <1>3, <2>2
  <2> QED
    BY <2>1, <2>2
<1>9. StopPending'
  <2>1. m_previous_state' = m_previous_state /\ simulated' = simulated /\ seen \subseteq seen'
    BY DEF OrderChanges, strategy_vars
  <2>2. ~AtSimulator => PlacesExact(orders, requests)'
    BY <1>2, <1>7
  <2> QED
    BY <1>1, <1>2, <1>5, <1>8, <2>1, <2>2, StopAfter
<1>10. MirrorPending'
  <2>1. /\ UNCHANGED strategy_vars /\ seen \subseteq seen' /\ ChangeResult(id, st, status)
        /\ Undisturbed' => Agrees(id, st, status)
    BY DEF OrderChanges
  <2> QED
    BY <1>1, <2>1, MirrorAfter
<1> QED
  BY <1>6, <1>9, <1>10 DEF IInv

\* What every step of the exchange leaves alone.
EntryStep == UNCHANGED strategy_vars

\* A cancel or a cancel_all is taken and nothing comes of it.
LEMMA IgnoredOK ==
    ASSUME IInv, EntryStep, requests # <<>>, Head(requests).op # "place",
           requests' = Tail(requests), Head(requests).op = "cancel_all" => AtSimulator,
           UNCHANGED <<simulated, orders, disconnected, inbox, faults, seen>>
    PROVE  IInv'
<1>1. TypeOK /\ StopPending /\ MirrorPending
  BY DEF IInv
<1>2. requests' \in Seq(RequestSet(Len(orders))) /\ Trading
  BY <1>1, TypeFacts DEF TypeOK
<1>3. EntryTyped
  BY <1>1, <1>2 DEF EntryTyped, EntryStep, TypeOK
<1>4. TypeOK'
  BY <1>1, <1>2, <1>3, EntryType
<1>5. ~AtSimulator => PlacesExact(orders, requests)'
  <2> SUFFICES ASSUME ~AtSimulator PROVE PlacesExact(orders, requests)'
    OBVIOUS
  <2>1. PICK n, ords, reqs : n = Len(orders) /\ ords = orders /\ reqs = requests
    OBVIOUS
  <2>2. n \in Nat /\ DOMAIN ords = 1..n /\ reqs \in Seq(RequestSet(n))
        /\ PlacesExact(ords, reqs) /\ reqs # <<>> /\ Head(reqs).op # "place"
    BY <1>1, <2>1, TypeFacts DEF TypeOK, StopPending
  <2>3. PlacesExact(ords, Tail(reqs))
    BY <2>2, OtherTaken
  <2> QED
    BY <2>1, <2>3
<1>6. StopPending'
  <2>1. m_previous_state' = m_previous_state /\ Working' = Working
    BY DEF EntryStep, strategy_vars, Working
  <2>2. CASE AtSimulator
    BY <2>2 DEF StopPending, AtSimulator, Elsewhere
  <2>3. CASE ~AtSimulator
    BY <1>1, <1>5, <2>1, <2>3, StopAfter
  <2> QED
    BY <2>2, <2>3
<1>7. MirrorPending'
  BY <1>1 DEF MirrorPending, Undisturbed, EntryStep, strategy_vars
<1> QED
  BY <1>4, <1>6, <1>7 DEF IInv

LEMMA AcceptedOK ==
    ASSUME IInv, EntryStep, Accepted \/ Rejected
    PROVE  IInv'
<1>1. TypeOK
  BY DEF IInv
<1>2. /\ requests # <<>> /\ Head(requests).op = "place" /\ requests' = Tail(requests)
      /\ UNCHANGED <<simulated, disconnected, faults, seen>>
  BY DEF Accepted, Rejected, Takes
<1>3. PICK id \in 1..Len(orders) : id = Head(requests).id
  BY <1>1, <1>2, TypeFacts
<1>4. ~AtSimulator => orders[id].st = "sent"
  <2>1. 1 \in DOMAIN requests /\ requests[1] = Head(requests)
    <3>1. requests \in Seq(RequestSet(Len(orders)))
      BY <1>1 DEF TypeOK
    <3> QED
      BY <1>2, <3>1, TailFacts
  <2> QED
    BY <1>2, <1>3, <2>1 DEF IInv, StopPending, PlacesExact
<1>5. /\ disconnected' \subseteq RequestSet(Len(orders)) /\ faults' \in Nat
      /\ disconnected' # {} => "break" \in seen'
  BY <1>1, <1>2 DEF TypeOK
<1>6. ASSUME NEW st \in {"open", "rejected"}, NEW status \in {"NEW", "REJECTED"},
             status = "NEW" <=> st = "open", Changes(id, st, 0, status)
      PROVE  IInv'
  <2>1. ChangeResult(id, st, status)
    BY <1>1, <1>6, ChangesOK DEF Statuses
  <2>2. OrderChanges(id, st, status)
    BY <1>2, <1>3, <1>4, <1>5, <1>6, <2>1 DEF OrderChanges, EntryStep, Agrees
  <2> QED
    BY <2>2, OrderChangesOK
<1>7. Changes(id, "open", 0, "NEW") \/ Changes(id, "rejected", 0, "REJECTED")
  BY <1>3 DEF Accepted, Rejected
<1> QED
  BY <1>6, <1>7

LEMMA CanceledOnExchangeOK ==
    ASSUME IInv, EntryStep, CanceledOnExchange
    PROVE  IInv'
<1>1. TypeOK /\ StopPending /\ MirrorPending
  BY DEF IInv
<1>2. /\ requests # <<>> /\ Head(requests).op = "cancel" /\ requests' = Tail(requests)
      /\ UNCHANGED <<simulated, disconnected, faults>> /\ seen \subseteq seen'
  BY DEF CanceledOnExchange, Takes
<1>3. PICK id : id = Head(requests).id
  OBVIOUS
<1>4. /\ disconnected' \subseteq RequestSet(Len(orders)) /\ faults' \in Nat
      /\ disconnected' # {} => "break" \in seen'
  BY <1>1, <1>2 DEF TypeOK
<1>5. CASE id \in DOMAIN orders /\ orders[id].st = "open" /\ Changes(id, "canceled", 0, "CANCELED")
  <2>1. Changes(id, "canceled", 0, "CANCELED") /\ id \in 1..Len(orders)
    BY <1>1, <1>5, TypeFacts
  <2>2. ChangeResult(id, "canceled", "CANCELED")
    BY <1>1, <2>1, ChangesOK DEF Statuses
  <2>3. OrderChanges(id, "canceled", "CANCELED")
    BY <1>2, <1>3, <1>4, <1>5, <2>1, <2>2 DEF OrderChanges, EntryStep, Agrees
  <2> QED
    BY <2>1, <2>3, OrderChangesOK
<1>6. CASE UNCHANGED <<orders, inbox, seen>>
  BY <1>2, <1>6, IgnoredOK
<1> QED
  BY <1>3, <1>5, <1>6 DEF CanceledOnExchange

LEMMA FilledOK ==
    ASSUME IInv, EntryStep, NEW id \in DOMAIN orders,
           Filled(id) \/ PartiallyFilled(id) \/ Expired(id)
    PROVE  IInv'
<1>1. TypeOK /\ id \in 1..Len(orders) /\ orders[id] \in OrderSet
  BY TypeFacts DEF IInv
<1>2. UNCHANGED <<simulated, requests, disconnected>> /\ orders[id].st = "open"
  BY DEF Filled, PartiallyFilled, Expired
<1>3. disconnected' \subseteq RequestSet(Len(orders))
  BY <1>1, <1>2 DEF TypeOK
<1>4. CASE Filled(id)
  <2>1. PICK f \in Int : f = 2 - orders[id].filled
    BY <1>1 DEF OrderSet
  <2>2. Changes(id, "filled", f, "FILLED") /\ faults' = faults /\ seen' = seen
    BY <1>4, <2>1 DEF Filled
  <2>3. ChangeResult(id, "filled", "FILLED")
    BY <1>1, <2>2, ChangesOK DEF Statuses
  <2>4. OrderChanges(id, "filled", "FILLED")
    BY <1>1, <1>2, <1>3, <2>2, <2>3 DEF OrderChanges, EntryStep, TypeOK, Agrees
  <2> QED
    BY <1>1, <2>4, OrderChangesOK
<1>5. CASE PartiallyFilled(id)
  <2>1. faults' \in Nat
    BY <1>1, <1>5 DEF PartiallyFilled, Fault, TypeOK
  <2>2. Changes(id, "open", 1, "PARTIALLY_FILLED") /\ seen' = seen
    BY <1>5 DEF PartiallyFilled
  <2>3. ChangeResult(id, "open", "PARTIALLY_FILLED")
    BY <1>1, <2>2, ChangesOK DEF Statuses
  <2>4. OrderChanges(id, "open", "PARTIALLY_FILLED")
    BY <1>1, <1>2, <1>3, <2>1, <2>2, <2>3 DEF OrderChanges, EntryStep, TypeOK, Agrees
  <2> QED
    BY <1>1, <2>4, OrderChangesOK
<1>6. CASE Expired(id)
  <2>1. faults' \in Nat
    BY <1>1, <1>6 DEF Expired, Fault, TypeOK
  <2>2. Changes(id, "canceled", 0, "NEW") /\ seen' = seen \cup {"expired"}
    BY <1>6 DEF Expired
  <2>3. ChangeResult(id, "canceled", "NEW")
    BY <1>1, <2>2, ChangesOK DEF Statuses
  <2>4. ~Undisturbed'
    BY <2>2 DEF Undisturbed
  <2>5. OrderChanges(id, "canceled", "NEW")
    BY <1>1, <1>2, <1>3, <2>1, <2>2, <2>3, <2>4 DEF OrderChanges, EntryStep, TypeOK
  <2> QED
    BY <1>1, <2>5, OrderChangesOK
<1> QED
  BY <1>4, <1>5, <1>6

LEMMA execute_cancelOK ==
    ASSUME IInv, EntryStep, execute_cancel
    PROVE  IInv'
<1>1. TypeOK /\ MirrorPending
  BY DEF IInv
<1>2. /\ requests # <<>> /\ Head(requests).op = "cancel" /\ requests' = Tail(requests)
      /\ UNCHANGED <<simulated, disconnected, faults>> /\ AtSimulator /\ seen \subseteq seen'
  BY DEF execute_cancel, Takes
<1>3. PICK id : id = Head(requests).id
  OBVIOUS
<1>4. CASE id \in DOMAIN orders
  <2>1. id \in 1..Len(orders) /\ Trading
    BY <1>1, <1>2, <1>4, TypeFacts DEF TypeOK
  <2>2. PICK ords, o, st : /\ ords = orders /\ o = orders[id]
                           /\ st = IF o.st = "filled" THEN o.st ELSE "canceled"
    OBVIOUS
  <2>3. ords \in Seq(OrderSet) /\ o \in OrderSet
    BY <1>1, <2>1, <2>2, TypeFacts DEF TypeOK
  <2>4. PICK o2 : o2 = [o EXCEPT !.st = st]
    OBVIOUS
  <2>5. o2 \in OrderSet /\ o2.st = st
    BY <2>2, <2>3, <2>4 DEF OrderSet
  <2>6. orders' = [ords EXCEPT ![id] = o2]
    BY <1>3, <1>4, <2>2, <2>4 DEF execute_cancel
  <2>7. /\ orders' \in Seq(OrderSet) /\ Len(orders') = Len(orders)
        /\ DOMAIN orders' = 1..Len(orders) /\ DOMAIN orders = 1..Len(orders)
        /\ orders'[id].st = st
        /\ \A i \in 1..Len(orders) : i # id => orders'[i] = orders[i]
    BY <2>1, <2>2, <2>3, <2>5, <2>6
  <2>8. PICK box : box = inbox'
    OBVIOUS
  <2>9. Told(box, id, "CANCELED")
    <3>1. box = Append(inbox, Report(id, "CANCELED", 0))
      BY <1>3, <1>4, <2>8 DEF execute_cancel
    <3>2. PICK f \in Int, status \in Statuses : f = 0 /\ status = "CANCELED"
      BY DEF Statuses
    <3>3. box = Append(inbox, Report(id, status, f))
      BY <3>1, <3>2
    <3> QED
      BY <1>1, <2>1, <3>2, <3>3, ReportOK
  <2>10. ChangeResult(id, st, "CANCELED")
    BY <2>7, <2>8, <2>9 DEF ChangeResult
  <2>11. TypeOK'
    <3>1. requests' \in Seq(RequestSet(Len(orders)))
      BY <1>1, <1>2, TypeFacts
    <3>2. inbox' \in Seq(Tasks(kind, Len(orders)))
      BY <2>8, <2>9 DEF Told
    <3>3. EntryTyped
      BY <1>1, <1>2, <2>7, <3>1, <3>2 DEF EntryTyped, EntryStep, TypeOK
    <3> QED
      BY <1>1, <2>1, <3>3, EntryType
  <2>12. StopPending'
    BY <1>2 DEF StopPending, AtSimulator, Elsewhere
  <2>13. MirrorPending'
    <3>1. Agrees(id, st, "CANCELED")
      BY <2>2 DEF Agrees
    <3> QED
      BY <1>1, <1>2, <2>1, <2>10, <3>1, MirrorAfter DEF EntryStep
  <2> QED
    BY <2>11, <2>12, <2>13 DEF IInv
<1>5. CASE id \notin DOMAIN orders
  <2>1. UNCHANGED <<orders, inbox, seen>>
    BY <1>3, <1>5 DEF execute_cancel
  <2> QED
    BY <1>2, <2>1, IgnoredOK
<1> QED
  BY <1>4, <1>5

LEMMA execute_cancel_allOK ==
    ASSUME IInv, EntryStep, execute_cancel_all
    PROVE  IInv'
BY IgnoredOK DEF execute_cancel_all, Takes

LEMMA ConnectionBreaksOK ==
    ASSUME IInv, EntryStep, NEW executed \in BOOLEAN, ConnectionBreaks(executed)
    PROVE  IInv'
<1>1. TypeOK /\ StopPending
  BY DEF IInv
<1>2. /\ requests # <<>> /\ requests' = Tail(requests) /\ simulated' = simulated
      /\ disconnected' = disconnected \cup {Head(requests)} /\ seen' = seen \cup {"break"}
  BY DEF ConnectionBreaks
<1>3. faults' \in Nat /\ Trading
  BY <1>1, <1>2 DEF ConnectionBreaks, Fault, TypeOK
<1>4. PICK r : r = Head(requests)
  OBVIOUS
<1>5. PICK n, ords, reqs : n = Len(orders) /\ ords = orders /\ reqs = requests
  OBVIOUS
<1>6. /\ n \in Nat /\ DOMAIN ords = 1..n /\ reqs \in Seq(RequestSet(n))
      /\ (~AtSimulator => PlacesExact(ords, reqs)) /\ reqs # <<>> /\ r = Head(reqs)
      /\ r \in RequestSet(n) /\ ords \in Seq(OrderSet) /\ (r.op = "place" => r.id \in 1..n)
  BY <1>1, <1>2, <1>4, <1>5, TypeFacts DEF TypeOK, StopPending
<1>7. disconnected' \subseteq RequestSet(n) /\ requests' \in Seq(RequestSet(n))
  BY <1>1, <1>2, <1>4, <1>5, <1>6, TypeFacts DEF TypeOK
<1>8. ASSUME orders' \in Seq(OrderSet), Len(orders') = n, inbox' \in Seq(Tasks(kind, n)),
             ~AtSimulator => PlacesExact(orders, requests)'
      PROVE  IInv'
  <2>1. EntryTyped
    BY <1>2, <1>3, <1>5, <1>7, <1>8 DEF EntryTyped, EntryStep
  <2>2. TypeOK'
    BY <1>1, <1>3, <2>1, EntryType
  <2>3. StopPending' /\ MirrorPending'
    BY <1>2, <1>3, <1>8 DEF StopPending, MirrorPending, AtSimulator, Elsewhere, Undisturbed
  <2> QED
    BY <2>2, <2>3 DEF IInv
<1>9. CASE r.op = "place" /\ executed
  <2>1. PICK id \in 1..n : id = r.id
    BY <1>6, <1>9
  <2>2. Changes(id, "open", 0, "NEW")
    BY <1>4, <1>9, <2>1 DEF ConnectionBreaks
  <2>3. ChangeResult(id, "open", "NEW")
    BY <1>1, <1>5, <2>2, ChangesOK DEF Statuses
  <2>4. PICK ords2 : ords2 = orders'
    OBVIOUS
  <2>5. /\ DOMAIN ords2 = 1..n /\ ords2[id].st = "open"
        /\ \A i \in 1..n : i # id => ords2[i] = ords[i]
    BY <1>5, <2>3, <2>4 DEF ChangeResult
  <2>6. ~AtSimulator => PlacesExact(ords2, Tail(reqs))
    BY <1>6, <1>9, <2>1, <2>5, PlaceTaken
  <2>7. ~AtSimulator => PlacesExact(orders, requests)'
    BY <1>2, <1>5, <2>4, <2>6
  <2> QED
    BY <1>5, <1>8, <2>3, <2>7 DEF ChangeResult, Told
<1>10. CASE r.op = "place" /\ ~executed
  <2>1. PICK id \in 1..n : id = r.id
    BY <1>6, <1>10
  <2>2. PICK o, o2, ords2 : o = ords[id] /\ o2 = [o EXCEPT !.st = "rejected"] /\ ords2 = orders'
    OBVIOUS
  <2>3. o \in OrderSet
    BY <1>6, <2>2
  <2>4. o2 \in OrderSet /\ o2.st = "rejected"
    BY <2>2, <2>3 DEF OrderSet
  <2>5. ords2 = [ords EXCEPT ![id] = o2] /\ inbox' = inbox
    BY <1>4, <1>5, <1>10, <2>1, <2>2 DEF ConnectionBreaks
  <2>6. /\ ords2 \in Seq(OrderSet) /\ Len(ords2) = n
        /\ DOMAIN ords2 = 1..n /\ ords2[id].st = "rejected"
        /\ \A i \in 1..n : i # id => ords2[i] = ords[i]
    BY <1>5, <1>6, <2>4, <2>5
  <2>7. ~AtSimulator => PlacesExact(ords2, Tail(reqs))
    BY <1>6, <1>10, <2>1, <2>6, PlaceTaken
  <2>8. ~AtSimulator => PlacesExact(orders, requests)'
    BY <1>2, <1>5, <2>2, <2>7
  <2>9. inbox' \in Seq(Tasks(kind, n))
    BY <1>1, <1>5, <2>5 DEF TypeOK
  <2> QED
    BY <1>8, <2>2, <2>6, <2>8, <2>9
<1>11. CASE r.op # "place"
  <2>1. orders' = orders /\ inbox' = inbox
    BY <1>4, <1>11 DEF ConnectionBreaks
  <2>2. ~AtSimulator => PlacesExact(ords, Tail(reqs))
    BY <1>6, <1>11, OtherTaken
  <2>3. ~AtSimulator => PlacesExact(orders, requests)'
    BY <1>2, <1>5, <2>1, <2>2
  <2>4. orders' \in Seq(OrderSet) /\ Len(orders') = n /\ inbox' \in Seq(Tasks(kind, n))
    BY <1>1, <1>5, <2>1 DEF TypeOK
  <2> QED
    BY <1>8, <2>3, <2>4
<1> QED
  BY <1>9, <1>10, <1>11

LEMMA AnswerDisconnectedOK ==
    ASSUME IInv, EntryStep, NEW r \in disconnected, AnswerDisconnected(r)
    PROVE  IInv'
<1>1. TypeOK /\ StopPending
  BY DEF IInv
<1>2. UNCHANGED <<simulated, orders, requests, faults, seen>>
      /\ disconnected' = disconnected \ {r}
  BY DEF AnswerDisconnected
<1>3. Trading /\ "break" \in seen
  BY <1>1 DEF TypeOK
<1>4. inbox' \in Seq(Tasks(kind, Len(orders)))
  <2>1. CASE r.op = "place"
    <3>1. PICK id \in 1..Len(orders) : id = r.id
      <4>1. r \in RequestSet(Len(orders)) /\ Len(orders) \in Nat
        BY <1>1, TypeFacts DEF TypeOK
      <4> QED
        BY <2>1, <4>1, RequestFacts
    <3>2. PICK box : box = inbox'
      OBVIOUS
    <3>3. box = Append(inbox, Report(id, "REJECTED", 0))
      BY <2>1, <3>1, <3>2 DEF AnswerDisconnected
    <3>4. Told(box, id, "REJECTED")
      <4>1. PICK f \in Int, status \in Statuses : f = 0 /\ status = "REJECTED"
        BY DEF Statuses
      <4>2. box = Append(inbox, Report(id, status, f))
        BY <3>3, <4>1
      <4> QED
        BY <1>1, <4>1, <4>2, ReportOK
    <3> QED
      BY <3>2, <3>4 DEF Told
  <2>2. CASE r.op # "place"
    BY <1>1, <2>2 DEF AnswerDisconnected, TypeOK
  <2> QED
    BY <2>1, <2>2
<1>5. EntryTyped
  BY <1>1, <1>2, <1>3, <1>4 DEF EntryTyped, EntryStep, TypeOK
<1>6. TypeOK'
  BY <1>1, <1>3, <1>5, EntryType
<1>7. StopPending'
  BY <1>1, <1>2 DEF StopPending, PlacesExact, WillCancel, Working, EntryStep, strategy_vars,
                    AtSimulator, Elsewhere
<1>8. MirrorPending'
  BY <1>2, <1>3 DEF MirrorPending, Undisturbed
<1> QED
  BY <1>6, <1>7, <1>8 DEF IInv

\* cancel_all_on_exchange has canceled and reported the open orders: all, but
\* for those elsewhere.
AllCanceled(n, ords, ords2, box2) ==
    /\ ords2 \in Seq(OrderSet) /\ Len(ords2) = n /\ DOMAIN ords2 = 1..n
    /\ \A i \in 1..n : /\ ords2[i].st = "open" => ords[i].st = "open" /\ Elsewhere
                       /\ ords2[i].st = "sent" <=> ords[i].st = "sent"
    /\ box2 \in Seq(Tasks(kind, n))
    /\ \A list : \A i \in 1..n :
           IF ords[i].st = "open" /\ ords2[i].st # "open" THEN ~WillList(box2, list, i)
           ELSE WillList(box2, list, i) <=> WillList(inbox, list, i)

LEMMA AllCanceledIs ==
    ASSUME TypeOK, CanceledAll
    PROVE  AllCanceled(Len(orders), orders, orders', inbox')
<1>1. PICK n, ords, S :
          /\ n = Len(orders) /\ ords = orders /\ S = Tasks(kind, n)
  OBVIOUS
<1> PICK open \in SUBSET {id \in DOMAIN orders : orders[id].st = "open"} :
        /\ open # {id \in DOMAIN orders : orders[id].st = "open"} => Elsewhere
        /\ orders' = [id \in DOMAIN orders |->
                        IF id \in open THEN [orders[id] EXCEPT !.st = "canceled"]
                        ELSE orders[id]]
        /\ inbox' = inbox \o [i \in 1..Cardinality(open) |->
                                Report(SetToSeq(open)[i], "CANCELED", 0)]
  BY Zenon DEF CanceledAll
<1>2. n \in Nat /\ DOMAIN ords = 1..n /\ inbox \in Seq(S) /\ \A i \in 1..n : ords[i] \in OrderSet
  BY <1>1, TypeFacts DEF TypeOK
<1>3. open \subseteq 1..n /\ \A i \in 1..n : /\ i \in open => ords[i].st = "open"
                                             /\ ords[i].st = "open" /\ i \notin open => Elsewhere
  BY <1>1, <1>2
<1>4. IsFiniteSet(open)
  <2>1. IsFiniteSet(1..n)
    BY <1>2, FS_Interval
  <2> QED
    BY <1>3, <2>1, FS_Subset
<1>5. PICK c, s : c = Cardinality(open) /\ s = SetToSeq(open)
  OBVIOUS
<1>6. /\ c \in Nat /\ s \in [1..c -> open]
      /\ \A x \in open : \E k \in 1..c : s[k] = x
  BY <1>4, <1>5, SetToSeqOK
<1>7. PICK more : more = [i \in 1..c |-> Report(s[i], "CANCELED", 0)]
  OBVIOUS
<1>8. \A i \in 1..c : /\ more[i] \in ReportSet(n) /\ more[i].t = "order"
                      /\ more[i].st = "CANCELED" /\ more[i].id = s[i]
  <2> SUFFICES ASSUME NEW i \in 1..c
               PROVE  /\ more[i] \in ReportSet(n) /\ more[i].t = "order"
                      /\ more[i].st = "CANCELED" /\ more[i].id = s[i]
    OBVIOUS
  <2>1. PICK id \in 1..n : id = s[i]
    BY <1>3, <1>6
  <2>2. more[i] = Report(id, "CANCELED", 0)
    BY <1>7, <2>1
  <2>3. orders[id] \in OrderSet
    BY <1>1, <1>2
  <2>4. Report(id, "CANCELED", 0) =
           [t |-> "order", id |-> id, st |-> "CANCELED", side |-> orders[id].side, filled |-> 0]
    BY DEF Report
  <2>5. orders[id].side \in OrderSides
    BY <2>3 DEF OrderSet
  <2> QED
    BY <2>1, <2>2, <2>4, <2>5 DEF ReportSet, Statuses
<1>9. more \in Seq(S) /\ Len(more) = c
  <2>1. \A i \in 1..c : more[i] \in S
    BY <1>1, <1>2, <1>8, TaskFacts
  <2>2. more \in [1..c -> S]
    BY <1>7, <2>1
  <2> QED
    BY <1>6, <2>2
<1>10. PICK box2, ords2 : box2 = inbox \o more /\ ords2 = orders'
  OBVIOUS
<1>11. inbox' = box2
  BY <1>1, <1>5, <1>7, <1>10
<1>12. ords2 = [id \in 1..n |-> IF id \in open THEN [ords[id] EXCEPT !.st = "canceled"] ELSE ords[id]]
  BY <1>1, <1>2, <1>10
<1>13. \A i \in 1..n : /\ ords2[i] \in OrderSet /\ (i \in open => ords2[i].st # "open")
                       /\ ords2[i].st = "open" => ords[i].st = "open" /\ Elsewhere
                       /\ ords2[i].st = "sent" <=> ords[i].st = "sent"
                       /\ i \notin open => ords2[i] = ords[i]
  <2> SUFFICES ASSUME NEW i \in 1..n
               PROVE  /\ ords2[i] \in OrderSet /\ (i \in open => ords2[i].st # "open")
                      /\ ords2[i].st = "open" => ords[i].st = "open" /\ Elsewhere
                      /\ ords2[i].st = "sent" <=> ords[i].st = "sent"
                      /\ i \notin open => ords2[i] = ords[i]
    OBVIOUS
  <2>1. ords[i] \in OrderSet
    BY <1>2
  <2>2. CASE i \in open
    <3>1. ords2[i] = [ords[i] EXCEPT !.st = "canceled"] /\ ords[i].st = "open"
      BY <1>3, <1>12, <2>2
    <3>2. [ords[i] EXCEPT !.st = "canceled"] \in OrderSet
      BY <2>1 DEF OrderSet
    <3>3. ords2[i].st = "canceled"
      BY <2>1, <3>1 DEF OrderSet
    <3> QED
      BY <2>2, <3>1, <3>2, <3>3
  <2>3. CASE i \notin open
    BY <1>3, <1>12, <2>1, <2>3
  <2> QED
    BY <2>2, <2>3
<1>14. ords2 \in Seq(OrderSet) /\ Len(ords2) = n /\ DOMAIN ords2 = 1..n
  <2>1. ords2 \in [1..n -> OrderSet]
    BY <1>12, <1>13
  <2> QED
    BY <1>2, <2>1
<1>15. box2 \in Seq(S)
  BY <1>2, <1>9, <1>10
<1>16. ASSUME NEW list, NEW i \in 1..n
       PROVE  IF ords[i].st = "open" /\ ords2[i].st # "open" THEN ~WillList(box2, list, i)
              ELSE WillList(box2, list, i) <=> WillList(inbox, list, i)
  <2>1. CASE i \in open
    <3>1. \A k \in 1..Len(more) : IsAbout(more[k], i) => more[k].st = "CANCELED"
      BY <1>8, <1>9
    <3>2. \E k \in 1..Len(more) : IsAbout(more[k], i)
      BY <1>6, <1>8, <1>9, <2>1 DEF IsAbout
    <3>3. PICK st : st = "CANCELED"
      OBVIOUS
    <3>4. WillList(box2, list, i) <=> st = "NEW"
      BY <1>2, <1>9, <1>10, <3>1, <3>2, <3>3, ListTold
    <3> QED
      BY <1>3, <1>13, <2>1, <3>3, <3>4
  <2>2. CASE i \notin open
    <3>1. \A k \in 1..Len(more) : ~IsAbout(more[k], i)
      BY <1>6, <1>8, <1>9, <2>2 DEF IsAbout
    <3>2. WillList(box2, list, i) <=> WillList(inbox, list, i)
      BY <1>2, <1>9, <1>10, <3>1, ListIgnores
    <3> QED
      BY <1>13, <2>2, <3>2
  <2> QED
    BY <2>1, <2>2
<1>17. AllCanceled(n, ords, ords2, box2)
  <2>1. \A i \in 1..n : /\ ords2[i].st = "open" => ords[i].st = "open" /\ Elsewhere
                        /\ ords2[i].st = "sent" <=> ords[i].st = "sent"
    BY <1>13
  <2>2. box2 \in Seq(Tasks(kind, n))
    BY <1>1, <1>15
  <2>3. \A list : \A i \in 1..n :
            IF ords[i].st = "open" /\ ords2[i].st # "open" THEN ~WillList(box2, list, i)
            ELSE WillList(box2, list, i) <=> WillList(inbox, list, i)
    BY <1>16
  <2> QED
    BY <1>14, <2>1, <2>2, <2>3 DEF AllCanceled
<1> QED
  BY <1>1, <1>10, <1>11, <1>17

LEMMA CanceledAllOK ==
    ASSUME IInv, EntryStep, CanceledAll
    PROVE  IInv'
<1>1. TypeOK /\ StopPending /\ MirrorPending
  BY DEF IInv
<1>2. /\ requests # <<>> /\ Head(requests).op = "cancel_all" /\ requests' = Tail(requests)
      /\ UNCHANGED <<simulated, disconnected, faults, seen>>
  BY DEF CanceledAll, Takes
<1>3. Trading /\ requests' \in Seq(RequestSet(Len(orders)))
  BY <1>1, <1>2, TypeFacts DEF TypeOK
<1>4. kind' = kind /\ mem' = mem /\ m_current_state' = m_current_state
      /\ m_previous_state' = m_previous_state
  BY DEF EntryStep, strategy_vars
<1>5. PICK n, ords, ords2, box2, reqs :
          /\ n = Len(orders) /\ ords = orders /\ ords2 = orders' /\ box2 = inbox'
          /\ reqs = requests
  OBVIOUS
<1>6. AllCanceled(n, ords, ords2, box2)
  BY <1>1, <1>5, AllCanceledIs
<1>7. TypeOK'
  <2>1. EntryTyped
    BY <1>1, <1>2, <1>3, <1>5, <1>6 DEF EntryTyped, EntryStep, TypeOK, AllCanceled
  <2> QED
    BY <1>1, <1>3, <2>1, EntryType
<1>8. /\ n \in Nat /\ DOMAIN ords = 1..n /\ reqs \in Seq(RequestSet(n))
      /\ reqs # <<>> /\ Head(reqs).op = "cancel_all" /\ DOMAIN ords2 = 1..n
      /\ \A i \in 1..n : /\ ords2[i].st = "open" => ords[i].st = "open" /\ Elsewhere
                         /\ ords2[i].st = "sent" <=> ords[i].st = "sent"
  BY <1>1, <1>2, <1>5, <1>6, TypeFacts DEF TypeOK, AllCanceled
<1>9. StopPending'
  <2> SUFFICES ASSUME ~AtSimulator
               PROVE  /\ PlacesExact(orders, requests)'
                      /\ "break" \notin seen /\ m_previous_state # "RUN" /\ Working' # {}
                             => WillCancel(requests)'
    BY <1>2, <1>4 DEF StopPending, AtSimulator, Elsewhere
  <2>1. PlacesExact(ords, reqs)
    BY <1>1, <1>5 DEF StopPending
  <2>2. PlacesExact(ords2, Tail(reqs))
    BY <1>8, <2>1, OtherTaken
  <2>3. ASSUME "break" \notin seen, m_previous_state # "RUN", Working' # {}
        PROVE  WillCancel(Tail(reqs))
    <3>1. PICK i \in 1..n : ords2[i].st = "sent"
      BY <1>5, <1>8, <2>3 DEF Working, AtSimulator
    <3>2. Working # {}
      BY <1>5, <1>8, <3>1 DEF Working
    <3>3. WillCancel(reqs)
      BY <1>1, <1>5, <2>3, <3>2 DEF StopPending
    <3>4. \E k \in DOMAIN Tail(reqs) : Tail(reqs)[k] = Request("place", i)
      BY <1>8, <2>2, <3>1 DEF PlacesExact
    <3>5. \E k \in DOMAIN Tail(reqs) : Tail(reqs)[k].op = "place"
      BY <3>4 DEF Request
    <3> QED
      BY <1>8, <3>3, <3>5, CancelTaken
  <2>4. requests' = Tail(reqs) /\ orders' = ords2
    BY <1>2, <1>5
  <2> QED
    BY <2>2, <2>3, <2>4
<1>10. MirrorPending'
  <2> SUFFICES ASSUME kind = "MarketMaker", Undisturbed, m_current_state = "RUN"
               PROVE  /\ m_previous_state # "STOP"
                      /\ \A i \in DOMAIN ords2 :
                             WillList(box2, mem.m_open_orders, i) <=> ords2[i].st = "open"
    <3>1. Undisturbed' <=> Undisturbed
      BY <1>2 DEF Undisturbed
    <3> QED
      BY <1>4, <1>5, <3>1, Zenon DEF MirrorPending
  <2>1. /\ m_previous_state # "STOP"
        /\ \A i \in DOMAIN ords :
               WillList(inbox, mem.m_open_orders, i) <=> ords[i].st = "open"
    BY <1>1, <1>5 DEF MirrorPending
  <2>2. PICK open : open = mem.m_open_orders
    OBVIOUS
  <2>3. ASSUME NEW i \in 1..n PROVE WillList(box2, open, i) <=> ords2[i].st = "open"
    <3>1. WillList(inbox, open, i) <=> ords[i].st = "open"
      BY <1>8, <2>1, <2>2
    <3>2. IF ords[i].st = "open" /\ ords2[i].st # "open" THEN ~WillList(box2, open, i)
          ELSE WillList(box2, open, i) <=> WillList(inbox, open, i)
      BY <1>6 DEF AllCanceled
    <3> QED
      BY <1>8, <3>1, <3>2
  <2> QED
    BY <1>8, <2>1, <2>2, <2>3
<1> QED
  BY <1>7, <1>9, <1>10 DEF IInv

LEMMA EntryNextOK ==
    ASSUME IInv, EntryStep, EntryNext
    PROVE  IInv'
BY AcceptedOK, CanceledOnExchangeOK, execute_cancelOK, CanceledAllOK, execute_cancel_allOK, FilledOK,
   ConnectionBreaksOK, AnswerDisconnectedOK DEF EntryNext

-----------------------------------------------------------------------------
(* The strategy's event base *)

\* Nothing changes but the tasks and the strategy.
TaskStep ==
    /\ UNCHANGED <<orders, requests, disconnected, faults, kind, m_previous_state>>
    /\ simulated' \in BOOLEAN /\ (simulated' # simulated => "moved" \in seen')
    /\ seen \subseteq seen' /\ m_current_state' \in {"STOP", "RUN"} /\ is_running' \in BOOLEAN
    /\ MemOK(kind, mem', Len(orders)) /\ inbox' \in Seq(Tasks(kind, Len(orders)))
    /\ \/ kind # "MarketMaker" \/ ~Undisturbed'
       \/ /\ m_current_state' = m_current_state
          /\ \A id \in 1..Len(orders) :
                 WillList(inbox', mem'.m_open_orders, id)
                    <=> WillList(inbox, mem.m_open_orders, id)

LEMMA TaskStepOK ==
    ASSUME IInv, TaskStep
    PROVE  IInv'
<1>1. TypeOK /\ StopPending /\ MirrorPending
  BY DEF IInv
<1>2. TypeOK'
  BY <1>1 DEF TypeOK, TaskStep, Trading
<1>3. StopPending'
  BY <1>1 DEF StopPending, TaskStep, PlacesExact, WillCancel, Working, AtSimulator, Elsewhere
<1>4. MirrorPending'
  <2> SUFFICES ASSUME kind = "MarketMaker", Undisturbed', m_current_state' = "RUN"
               PROVE  /\ m_previous_state # "STOP"
                      /\ \A id \in DOMAIN orders :
                             WillList(inbox', mem'.m_open_orders, id) <=> orders[id].st = "open"
    BY DEF MirrorPending, TaskStep
  <2>1. /\ m_current_state = "RUN" /\ Undisturbed
        /\ \A id \in 1..Len(orders) :
               WillList(inbox', mem'.m_open_orders, id)
                  <=> WillList(inbox, mem.m_open_orders, id)
    <3>1. Undisturbed
      BY DEF TaskStep, Undisturbed
    <3> QED
      BY <3>1 DEF TaskStep
  <2>2. /\ m_previous_state # "STOP"
        /\ \A id \in DOMAIN orders :
               WillList(inbox, mem.m_open_orders, id) <=> orders[id].st = "open"
    BY <1>1, <2>1 DEF MirrorPending
  <2>3. DOMAIN orders = 1..Len(orders)
    BY <1>1, TypeFacts
  <2> QED
    BY <2>1, <2>2, <2>3
<1> QED
  BY <1>2, <1>3, <1>4 DEF IInv

\* Tasks that are no reports change nothing of what will be listed.
LEMMA PostsOK ==
    ASSUME NEW n \in Nat, NEW kd, NEW box \in Seq(Tasks(kd, n)), NEW x,
           x \in TaskNames(kd) \/ x = "config", NEW msg \in Tasks(kd, n), msg.t = x
    PROVE  /\ Append(box, msg) \in Seq(Tasks(kd, n)) /\ box \o <<msg>> \in Seq(Tasks(kd, n))
           /\ Append(box, msg) = box \o <<msg>>
           /\ \A open, id : WillList(box \o <<msg>>, open, id) <=> WillList(box, open, id)
<1>1. PICK more : more = <<msg>>
  OBVIOUS
<1>2. more \in Seq(Tasks(kd, n)) /\ Len(more) = 1 /\ more[1] = msg
  BY <1>1
<1>3. x # "order"
  BY DEF TaskNames
<1>4. ASSUME NEW open, NEW id PROVE WillList(box \o more, open, id) <=> WillList(box, open, id)
  <2>1. \A k \in 1..Len(more) : ~IsAbout(more[k], id)
    BY <1>2, <1>3 DEF IsAbout
  <2> QED
    BY <1>2, <2>1, ListIgnores
<1>5. Append(box, msg) = box \o <<msg>> /\ Append(box, msg) \in Seq(Tasks(kd, n))
  BY AppendIs
<1> QED
  BY <1>1, <1>4, <1>5

\* So do task_close_far_orders and remove_old_trades.
LEMMA StartsOK ==
    ASSUME NEW n \in Nat, NEW kd, kd = "MarketMaker", NEW box \in Seq(Tasks(kd, n)),
           NEW m, NEW run
    PROVE  /\ box \o start_close_far_orders(m, run) \in Seq(Tasks(kd, n))
           /\ \A open, id : WillList(box \o start_close_far_orders(m, run), open, id)
                               <=> WillList(box, open, id)
<1>1. PICK more : more = start_close_far_orders(m, run)
  OBVIOUS
<1>2. [t |-> "close"] \in Tasks(kd, n) /\ [t |-> "trades"] \in Tasks(kd, n)
  <2>1. "close" \in TaskNames(kd) /\ "trades" \in TaskNames(kd)
    BY DEF TaskNames
  <2> QED
    BY <2>1, TaskFacts
<1>3. more \in Seq(Tasks(kd, n)) /\ \A k \in 1..Len(more) : more[k].t # "order"
  <2>1. PICK a, b : a = [t |-> "close"] /\ b = [t |-> "trades"]
    OBVIOUS
  <2>2. a.t # "order" /\ b.t # "order"
    BY <2>1
  <2>3. more = <<a, b>> \/ more = <<>>
    BY <1>1, <2>1 DEF start_close_far_orders
  <2>4. CASE more = <<a, b>>
    <3>1. /\ <<a, b>> \in Seq(Tasks(kd, n)) /\ Len(<<a, b>>) = 2
          /\ <<a, b>>[1] = a /\ <<a, b>>[2] = b
      BY <1>2, <2>1
    <3> QED
      BY <2>2, <2>4, <3>1
  <2>5. CASE more = <<>>
    BY <2>5
  <2> QED
    BY <2>3, <2>4, <2>5
<1>4. box \o more \in Seq(Tasks(kd, n))
  BY <1>3
<1>5. ASSUME NEW open, NEW id PROVE WillList(box \o more, open, id) <=> WillList(box, open, id)
  <2>1. \A k \in 1..Len(more) : ~IsAbout(more[k], id)
    BY <1>3 DEF IsAbout
  <2> QED
    BY <1>3, <2>1, ListIgnores
<1> QED
  BY <1>1, <1>4, <1>5

LEMMA PublishOK ==
    ASSUME IInv, NEW x \in {"snapshot", "price", "other"}, Publish(x)
    PROVE  IInv'
<1>1. TypeOK
  BY DEF IInv
<1>2. UNCHANGED <<simulated, orders, requests, disconnected, faults, kind,
                  m_current_state, m_previous_state, is_running, mem, configs>>
      /\ inbox' = Append(inbox, [t |-> x]) /\ seen \subseteq seen'
  BY DEF Publish, Posts
<1>3. PICK n : n = Len(orders)
  OBVIOUS
<1>4. n \in Nat /\ inbox \in Seq(Tasks(kind, n))
  BY <1>1, <1>3, TypeFacts DEF TypeOK
<1>5. x \in TaskNames(kind)
  BY DEF Publish, TaskNames
<1>6. PICK msg : msg = [t |-> x]
  OBVIOUS
<1>7. msg \in Tasks(kind, n) /\ msg.t = x
  BY <1>4, <1>5, <1>6, TaskFacts
<1>8. /\ inbox' \in Seq(Tasks(kind, n))
      /\ \A open, id : WillList(inbox', open, id) <=> WillList(inbox, open, id)
  <2>1. inbox' = inbox \o <<msg>>
    BY <1>2, <1>4, <1>6, <1>7, AppendIs
  <2> QED
    BY <1>4, <1>5, <1>7, <2>1, PostsOK
<1>9. TaskStep
  BY <1>1, <1>2, <1>3, <1>8 DEF TaskStep, TypeOK
<1> QED
  BY <1>9, TaskStepOK

LEMMA UpdateConfigOK ==
    ASSUME IInv, UpdateConfig
    PROVE  IInv'
<1>1. TypeOK
  BY DEF IInv
<1>2. PICK run, moved \in BOOLEAN :
          inbox' = Append(inbox, [t |-> "config", run |-> run, moved |-> moved])
  BY DEF UpdateConfig, Posts
<1>3. UNCHANGED <<simulated, orders, requests, disconnected, faults, seen, kind,
                  m_current_state, m_previous_state, is_running, mem, others>>
  BY DEF UpdateConfig
<1>4. PICK n : n = Len(orders)
  OBVIOUS
<1>5. n \in Nat /\ inbox \in Seq(Tasks(kind, n))
  BY <1>1, <1>4, TypeFacts DEF TypeOK
<1>6. PICK msg : msg = [t |-> "config", run |-> run, moved |-> moved]
  OBVIOUS
<1>7. msg \in Tasks(kind, n) /\ msg.t = "config"
  BY <1>5, <1>6, TaskFacts
<1>8. /\ inbox' \in Seq(Tasks(kind, n))
      /\ \A open, id : WillList(inbox', open, id) <=> WillList(inbox, open, id)
  <2>1. inbox' = inbox \o <<msg>>
    BY <1>2, <1>5, <1>6, <1>7, AppendIs
  <2> QED
    BY <1>5, <1>7, <2>1, PostsOK
<1>9. TaskStep
  BY <1>1, <1>3, <1>4, <1>8 DEF TaskStep, TypeOK
<1> QED
  BY <1>9, TaskStepOK

\* The task at the head of the event base.
LEMMA RunsFacts ==
    ASSUME TypeOK, NEW x, Runs(x)
    PROVE  /\ Tail(inbox) \in Seq(Tasks(kind, Len(orders)))
           /\ x = "config" => Head(inbox).run \in BOOLEAN /\ Head(inbox).moved \in BOOLEAN
           /\ x = "init" => kind = "MeanReversion"
           /\ x \in {"close", "trades"} => kind = "MarketMaker"
<1>1. inbox # <<>> /\ Head(inbox).t = x
  BY DEF Runs
<1>2. PICK n, msg : n = Len(orders) /\ msg = Head(inbox)
  OBVIOUS
<1>3. n \in Nat /\ msg \in Tasks(kind, n) /\ Tail(inbox) \in Seq(Tasks(kind, n)) /\ msg.t = x
  BY <1>1, <1>2, TypeFacts
<1>4. /\ msg.t \in {"order", "config"} \cup TaskNames(kind)
      /\ msg.t = "config" => msg.run \in BOOLEAN /\ msg.moved \in BOOLEAN
  BY <1>3, TaskFacts
<1> QED
  BY <1>2, <1>3, <1>4 DEF TaskNames

LEMMA ApplyConfigOK ==
    ASSUME IInv, ApplyConfig
    PROVE  IInv'
<1>1. TypeOK /\ Runs("config")
  BY DEF IInv, ApplyConfig
<1>2. Tail(inbox) \in Seq(Tasks(kind, Len(orders))) /\ Head(inbox).run \in BOOLEAN
      /\ Head(inbox).moved \in BOOLEAN
  BY <1>1, RunsFacts
<1>3. /\ UNCHANGED <<orders, requests, disconnected, faults, kind, m_previous_state>>
      /\ is_running' = Head(inbox).run /\ m_current_state' = StateOf(Head(inbox).run)
      /\ seen \subseteq seen' /\ "config" \in seen'
      /\ simulated' \in BOOLEAN /\ (simulated' # simulated => "moved" \in seen')
  <2>1. simulated \in BOOLEAN
    BY <1>1 DEF TypeOK
  <2>2. CASE Head(inbox).moved
    BY <2>2 DEF ApplyConfig
  <2>3. CASE ~Head(inbox).moved
    BY <2>1, <2>3 DEF ApplyConfig
  <2> QED
    BY <2>2, <2>3
<1>4. MemOK(kind, mem', Len(orders))
  <2>1. CASE kind = "TrendFollow"
    BY <2>1 DEF MemOK
  <2>2. CASE kind # "TrendFollow"
    <3>1. mem' = mem
      BY <2>2 DEF ApplyConfig
    <3> QED
      BY <1>1, <3>1 DEF TypeOK
  <2> QED
    BY <2>1, <2>2
<1>5. inbox' \in Seq(Tasks(kind, Len(orders)))
  <2>1. PICK n, box, kd : n = Len(orders) /\ box = Tail(inbox) /\ kd = kind
    OBVIOUS
  <2>2. n \in Nat /\ box \in Seq(Tasks(kd, n))
    BY <1>1, <1>2, <2>1, TypeFacts
  <2>3. \/ inbox' = box \o <<[t |-> "init"]>> /\ kd = "MeanReversion"
        \/ \E m, run : inbox' = box \o start_close_far_orders(m, run) /\ kd = "MarketMaker"
        \/ inbox' = box \o <<>>
    <3>1. CASE kind = "MeanReversion"
      BY <2>1, <3>1 DEF ApplyConfig
    <3>2. CASE kind = "MarketMaker" /\ Head(inbox).run
      <4>1. inbox' = box \o start_close_far_orders(mem, is_running')
        BY <2>1, <3>2 DEF ApplyConfig
      <4> QED
        BY <2>1, <3>2, <4>1
    <3>3. CASE kind # "MeanReversion" /\ ~(kind = "MarketMaker" /\ Head(inbox).run)
      BY <2>1, <3>3 DEF ApplyConfig
    <3> QED
      BY <3>1, <3>2, <3>3
  <2>4. kd = "MeanReversion" => <<[t |-> "init"]>> \in Seq(Tasks(kd, n))
    BY <2>2, TaskFacts DEF TaskNames
  <2>5. \A m, run : kd = "MarketMaker" => box \o start_close_far_orders(m, run) \in Seq(Tasks(kd, n))
    BY <2>2, StartsOK
  <2>6. \A more \in Seq(Tasks(kd, n)) : box \o more \in Seq(Tasks(kd, n))
    BY <2>2
  <2>7. <<>> \in Seq(Tasks(kd, n))
    OBVIOUS
  <2> QED
    BY <2>1, <2>3, <2>4, <2>5, <2>6, <2>7
<1>6. TaskStep
  BY <1>2, <1>3, <1>4, <1>5 DEF TaskStep, StateOf, Undisturbed
<1> QED
  BY <1>6, TaskStepOK

LEMMA ReversionInitOK ==
    ASSUME NEW n \in Nat
    PROVE  ReversionInit \in ReversionSet(n)
<1>1. NullOrder \in Remembered(n)
  BY RememberedFacts
<1>2. SpreadReset \in SpreadSet(n)
  BY <1>1 DEF SpreadReset, SpreadSet
<1> QED
  BY <1>1, <1>2 DEF ReversionInit, ReversionSet

LEMMA RunInitOK ==
    ASSUME IInv, RunInit
    PROVE  IInv'
<1>1. TypeOK /\ Runs("init")
  BY DEF IInv, RunInit
<1>2. Tail(inbox) \in Seq(Tasks(kind, Len(orders))) /\ kind = "MeanReversion"
  BY <1>1, RunsFacts
<1>3. mem' = ReversionInit
  BY <1>2 DEF RunInit, init_states
<1>4. MemOK(kind, mem', Len(orders))
  <2>1. PICK n \in Nat : n = Len(orders)
    BY <1>1, TypeFacts
  <2> QED
    BY <1>2, <1>3, <2>1, ReversionInitOK DEF MemOK
<1>5. TaskStep
  BY <1>1, <1>2, <1>4 DEF TaskStep, TypeOK, RunInit
<1> QED
  BY <1>5, TaskStepOK

LEMMA CloseTimerOK ==
    ASSUME IInv, CloseTimer
    PROVE  IInv'
<1>1. TypeOK /\ kind = "MarketMaker" /\ mem' = MakerWakes(mem)
  BY DEF IInv, CloseTimer
<1>2. PICK n \in Nat : n = Len(orders)
  BY <1>1, TypeFacts
<1>3. mem \in MakerSet(n) /\ inbox \in Seq(Tasks(kind, n))
  BY <1>1, <1>2 DEF TypeOK, MemOK
<1>4. mem' \in MakerSet(n) /\ mem'.m_open_orders = mem.m_open_orders
  BY <1>1, <1>3, MakerFacts
<1>5. MemOK(kind, mem', n)
  BY <1>1, <1>4 DEF MemOK
<1>9. /\ inbox' \in Seq(Tasks(kind, n))
      /\ \A open, id : WillList(inbox', open, id) <=> WillList(inbox, open, id)
  <2>1. PICK m, box : m = mem' /\ box = inbox
    OBVIOUS
  <2>2. inbox' = box \o start_close_far_orders(m, is_running)
    BY <2>1 DEF CloseTimer
  <2>3. box \in Seq(Tasks(kind, n))
    BY <1>3, <2>1
  <2> QED
    BY <1>1, <2>1, <2>2, <2>3, StartsOK
<1>10. UNCHANGED <<simulated, orders, requests, disconnected, faults, seen, kind,
                   m_current_state, m_previous_state, is_running>>
  BY DEF CloseTimer
<1>11. TaskStep
  BY <1>1, <1>2, <1>4, <1>5, <1>9, <1>10 DEF TaskStep, TypeOK
<1> QED
  BY <1>11, TaskStepOK

\* A task of the strategy that asks for out.
SendStep(out) ==
    /\ SendResult(out) /\ out.place \in Seq(OrderSides)
    /\ UNCHANGED <<simulated, disconnected, faults, kind, m_current_state, is_running>>
    /\ seen \subseteq seen' /\ m_previous_state' \in {"UNKNOWN", "STOP", "RUN"}
    /\ ~Trading => out.place = <<>> /\ out.cancel = {} /\ ~out.all
    /\ MemOK(kind, mem', Len(orders')) /\ inbox' \in Seq(Tasks(kind, Len(orders)))
    /\ m_previous_state' # "RUN"
           => out.place = <<>> /\ (m_previous_state # "RUN" \/ out.all \/ ~Trading)
    /\ (/\ kind = "MarketMaker" /\ m_current_state = "RUN" /\ m_previous_state # "STOP"
        /\ Undisturbed)
           => /\ m_previous_state' # "STOP" /\ mem'.m_open_orders \subseteq HeardOf(Len(orders))
              /\ \A id \in 1..Len(orders) :
                     WillList(inbox', mem'.m_open_orders, id)
                        <=> WillList(inbox, mem.m_open_orders, id)

LEMMA SendStepOK ==
    ASSUME IInv, NEW out, SendStep(out)
    PROVE  IInv'
<1>1. TypeOK /\ StopPending /\ MirrorPending
  BY DEF IInv
<1>2. PICK n, len, ords, ords2, reqs, reqs2 :
          /\ n = Len(orders) /\ len = Len(out.place) /\ ords = orders /\ ords2 = orders'
          /\ reqs = requests /\ reqs2 = requests'
  OBVIOUS
<1>3. n \in Nat /\ DOMAIN ords = 1..n /\ len \in Nat
  BY <1>1, <1>2, TypeFacts DEF SendStep
<1>4. SendKeeps(ords, reqs, out, ords2, reqs2) /\ (out.place = <<>> => ords2 = ords)
      /\ ((out.place = <<>> /\ out.cancel = {} /\ ~out.all) => reqs2 = reqs)
  BY <1>2 DEF SendStep, SendResult
<1>5. /\ ords2 \in Seq(OrderSet) /\ Len(ords2) = n + len /\ reqs2 \in Seq(RequestSet(n + len))
      /\ (\A id \in 1..n : ords2[id] = ords[id])
      /\ (\A id \in 1..(n + len) : id > n => ords2[id].st = "sent")
  BY <1>2, <1>4 DEF SendKeeps
<1>6. PICK n2 \in Nat : n2 = n + len /\ n =< n2
  BY <1>3
<1>7. kind' = kind /\ Trading' = Trading
  BY DEF SendStep, Trading
<1>8. TypeOK'
  <2>1. inbox' \in Seq(Tasks(kind, n2))
    <3>1. Tasks(kind, n) \subseteq Tasks(kind, n2)
      BY <1>3, <1>6, TaskFacts
    <3>2. inbox' \in Seq(Tasks(kind, n))
      BY <1>2 DEF SendStep
    <3> QED
      BY <3>1, <3>2
  <2>2. disconnected' \subseteq RequestSet(n2)
    <3>1. RequestSet(n) \subseteq RequestSet(n2)
      BY <1>3, <1>6, RequestFacts
    <3>2. disconnected' \subseteq RequestSet(n)
      BY <1>1, <1>2 DEF SendStep, TypeOK
    <3> QED
      BY <3>1, <3>2
  <2>3. Len(orders') = n2 /\ orders' \in Seq(OrderSet) /\ requests' \in Seq(RequestSet(n2))
    BY <1>2, <1>5, <1>6
  <2>4. ~Trading => orders' = <<>> /\ requests' = <<>>
    BY <1>1, <1>2, <1>4 DEF SendStep, TypeOK
  <2>5. MemOK(kind, mem', n2)
    BY <2>3 DEF SendStep
  <2>6. (requests \in Seq(RequestSet(Len(orders))))'
        /\ (disconnected \subseteq RequestSet(Len(orders)))'
        /\ (inbox \in Seq(Tasks(kind, Len(orders))))' /\ MemOK(kind, mem, Len(orders))'
    BY <1>7, <2>1, <2>2, <2>3, <2>5
  <2> QED
    BY <1>1, <1>7, <2>3, <2>4, <2>6 DEF SendStep, TypeOK
<1>9. StopPending'
  <2> SUFFICES ASSUME ~AtSimulator
               PROVE  /\ PlacesExact(ords2, reqs2)
                      /\ "break" \notin seen' /\ m_previous_state' # "RUN" /\ Working' # {}
                             => WillCancel(reqs2)
    BY <1>2 DEF StopPending, SendStep, AtSimulator, Elsewhere
  <2>1. PlacesExact(ords2, reqs2)
    BY <1>1, <1>2, <1>4 DEF StopPending, SendKeeps
  <2>2. ASSUME "break" \notin seen', m_previous_state' # "RUN", Working' # {}
        PROVE  WillCancel(reqs2)
    <3>1. out.place = <<>> /\ ords2 = ords /\ "break" \notin seen
      BY <1>4, <2>2 DEF SendStep
    <3>2. Working' = Working
      BY <1>2, <3>1 DEF Working
    <3>3. Trading
      BY <1>1, <1>2, <1>3, <2>2, <3>2 DEF TypeOK, Working
    <3>4. CASE out.all
      BY <1>4, <3>4 DEF SendKeeps
    <3>5. CASE m_previous_state # "RUN"
      <4>1. WillCancel(reqs)
        BY <1>1, <1>2, <2>2, <3>1, <3>2, <3>5 DEF StopPending
      <4> QED
        BY <1>4, <3>1, <4>1 DEF SendKeeps
    <3> QED
      BY <2>2, <3>3, <3>4, <3>5 DEF SendStep
  <2> QED
    BY <2>1, <2>2
<1>10. MirrorPending'
  <2> SUFFICES ASSUME kind = "MarketMaker", Undisturbed', m_current_state = "RUN"
               PROVE  /\ m_previous_state' # "STOP"
                      /\ \A id \in DOMAIN ords2 :
                             WillList(inbox', mem'.m_open_orders, id) <=> ords2[id].st = "open"
    BY <1>2, <1>7, Zenon DEF MirrorPending, SendStep
  <2>1. /\ Undisturbed /\ m_previous_state # "STOP"
        /\ \A id \in DOMAIN ords :
               WillList(inbox, mem.m_open_orders, id) <=> ords[id].st = "open"
    <3>1. Undisturbed
      BY DEF Undisturbed, SendStep
    <3> QED
      BY <1>1, <1>2, <3>1 DEF MirrorPending
  <2>2. PICK open, open2, box2 :
            open = mem.m_open_orders /\ open2 = mem'.m_open_orders /\ box2 = inbox'
    OBVIOUS
  <2>3. /\ m_previous_state' # "STOP" /\ open2 \subseteq HeardOf(n)
        /\ \A id \in 1..n : WillList(box2, open2, id) <=> WillList(inbox, open, id)
    BY <1>2, <2>1, <2>2 DEF SendStep
  <2>4. ASSUME NEW id \in 1..(n + len) PROVE WillList(box2, open2, id) <=> ords2[id].st = "open"
    <3>1. CASE id =< n
      <4>1. id \in 1..n
        BY <1>3, <2>4, <3>1
      <4> QED
        BY <1>3, <1>5, <2>1, <2>2, <2>3, <4>1
    <3>2. CASE id > n
      <4>1. box2 \in Seq(Tasks(kind, n))
        BY <1>2, <2>2 DEF SendStep
      <4>2. ASSUME NEW k \in DOMAIN box2 PROVE ~IsAbout(box2[k], id)
        <5>1. box2[k] \in Tasks(kind, n)
          BY <4>1, <4>2
        <5>2. box2[k].t = "order" => box2[k] \in ReportSet(n)
          BY <1>3, <5>1, TaskFacts
        <5>3. box2[k].t = "order" => box2[k].id \in 1..n
          BY <5>2 DEF ReportSet
        <5> QED
          BY <1>3, <2>4, <3>2, <5>3 DEF IsAbout
      <4>3. id \notin open2
        BY <1>3, <2>3, <2>4, <3>2 DEF HeardOf, Foreign
      <4>4. ~WillList(box2, open2, id)
        BY <4>2, <4>3 DEF WillList
      <4> QED
        BY <1>5, <2>4, <3>2, <4>4
    <3> QED
      BY <1>3, <3>1, <3>2
  <2>5. DOMAIN ords2 = 1..(n + len)
    BY <1>5
  <2> QED
    BY <2>2, <2>3, <2>4, <2>5
<1> QED
  BY <1>8, <1>9, <1>10 DEF IInv

LEMMA CloseFarOrdersOK ==
    ASSUME IInv, CloseFarOrders
    PROVE  IInv'
<1>1. TypeOK /\ Runs("close")
  BY DEF IInv, CloseFarOrders
<1>2. PICK far \in SUBSET mem.m_open_orders :
          /\ mem' = MakerCloseFar(mem, far).mem
          /\ Sends(MakerCloseFar(mem, far).out)
  BY DEF CloseFarOrders
<1>3. kind = "MarketMaker" /\ inbox # <<>> /\ Head(inbox).t = "close"
      /\ Tail(inbox) \in Seq(Tasks(kind, Len(orders)))
  BY <1>1, RunsFacts DEF Runs
<1>4. PICK n \in Nat : n = Len(orders)
  BY <1>1, TypeFacts
<1>5. mem \in MakerSet(n)
  BY <1>1, <1>3, <1>4 DEF TypeOK, MemOK
<1>6. PICK out : out = MakerCloseFar(mem, far).out
  OBVIOUS
<1>7. /\ mem' \in MakerSet(n) /\ mem'.m_open_orders = mem.m_open_orders
      /\ out = [place |-> <<>>, cancel |-> far, all |-> FALSE]
      /\ mem.m_open_orders \in SUBSET HeardOf(n)
  <2>1. PICK m, m2 : m = mem /\ m2 = MakerCloseFar(m, far).mem
    OBVIOUS
  <2>2. m \in MakerSet(n) /\ far \in SUBSET m.m_open_orders
    BY <1>5, <2>1
  <2>3. m.m_open_orders \in SUBSET HeardOf(n)
    BY <2>2, MakerFacts
  <2>4. /\ m2 \in MakerSet(n) /\ m2.m_open_orders = m.m_open_orders
        /\ MakerCloseFar(m, far).out = [place |-> <<>>, cancel |-> far, all |-> FALSE]
    BY <2>1, <2>2, MakerCloseOK
  <2>5. mem' = m2
    BY <1>2, <2>1
  <2> QED
    BY <1>6, <2>1, <2>3, <2>4, <2>5
<1>8. out.place = <<>> /\ out.place \in Seq(OrderSides) /\ out.all = FALSE
      /\ out.cancel \in SUBSET HeardOf(n)
  BY <1>7
<1>9. SendResult(out)
  BY <1>1, <1>2, <1>4, <1>6, <1>8, SendsOK DEF TypeOK
<1>10. orders' = orders
  BY <1>8, <1>9 DEF SendResult
<1>11. UNCHANGED <<simulated, disconnected, faults, seen, kind, m_current_state,
                   m_previous_state, is_running>> /\ inbox' = Tail(inbox)
  BY DEF CloseFarOrders
<1>12. \A id \in 1..n : WillList(inbox', mem'.m_open_orders, id)
                           <=> WillList(inbox, mem.m_open_orders, id)
  <2> SUFFICES ASSUME NEW id \in 1..n
               PROVE  WillList(inbox', mem'.m_open_orders, id)
                         <=> WillList(inbox, mem.m_open_orders, id)
    OBVIOUS
  <2>1. PICK S, box, open : /\ S = Tasks(kind, n) /\ box = inbox /\ open = mem.m_open_orders
    OBVIOUS
  <2>2. box \in Seq(S) /\ box # <<>> /\ ~IsAbout(Head(box), id)
    BY <1>1, <1>3, <1>4, <2>1 DEF TypeOK, IsAbout
  <2>3. WillList(Tail(box), open, id) <=> WillList(box, open, id)
    BY <2>2, ListHandled
  <2> QED
    BY <1>7, <1>11, <2>1, <2>3
<1>13. MemOK(kind, mem', Len(orders'))
  BY <1>3, <1>4, <1>7, <1>10 DEF MemOK
<1>14. Trading
  BY <1>3 DEF Trading
<1>15. m_previous_state' # "RUN"
           => out.place = <<>> /\ (m_previous_state # "RUN" \/ out.all \/ ~Trading)
  BY <1>8, <1>11
<1>16. m_previous_state' \in {"UNKNOWN", "STOP", "RUN"} /\ seen \subseteq seen'
       /\ inbox' \in Seq(Tasks(kind, Len(orders)))
  BY <1>1, <1>3, <1>11 DEF TypeOK
<1>17. SendStep(out)
  BY <1>4, <1>7, <1>8, <1>9, <1>11, <1>12, <1>13, <1>14, <1>15, <1>16 DEF SendStep
<1> QED
  BY <1>17, SendStepOK

LEMMA RemoveOldTradesOK ==
    ASSUME IInv, RemoveOldTrades
    PROVE  IInv'
<1>1. TypeOK /\ Runs("trades")
  BY DEF IInv, RemoveOldTrades
<1>2. kind = "MarketMaker" /\ inbox # <<>> /\ Head(inbox).t = "trades"
      /\ Tail(inbox) \in Seq(Tasks(kind, Len(orders)))
  BY <1>1, RunsFacts DEF Runs
<1>3. PICK n \in Nat : n = Len(orders)
  BY <1>1, TypeFacts
<1>4. mem' \in MakerSet(n) /\ mem'.m_open_orders = mem.m_open_orders
  <2>1. PICK pairs \in Nat \ {0} : mem' = MakerRemoveOldTrades(mem, pairs)
    BY StrategyAssumption DEF RemoveOldTrades
  <2>2. mem \in MakerSet(n)
    BY <1>1, <1>2, <1>3 DEF TypeOK, MemOK
  <2> QED
    BY <2>1, <2>2, MakerTradesOK
<1>5. \A id \in 1..n : WillList(inbox', mem'.m_open_orders, id)
                          <=> WillList(inbox, mem.m_open_orders, id)
  <2> SUFFICES ASSUME NEW id \in 1..n
               PROVE  WillList(inbox', mem'.m_open_orders, id)
                         <=> WillList(inbox, mem.m_open_orders, id)
    OBVIOUS
  <2>1. PICK S, box, open : /\ S = Tasks(kind, n) /\ box = inbox /\ open = mem.m_open_orders
    OBVIOUS
  <2>2. box \in Seq(S) /\ box # <<>> /\ ~IsAbout(Head(box), id)
    BY <1>1, <1>2, <1>3, <2>1 DEF TypeOK, IsAbout
  <2>3. WillList(Tail(box), open, id) <=> WillList(box, open, id)
    BY <2>2, ListHandled
  <2>4. inbox' = Tail(box)
    BY <2>1 DEF RemoveOldTrades
  <2> QED
    BY <1>4, <2>1, <2>3, <2>4
<1>6. MemOK(kind, mem', n)
  BY <1>2, <1>4 DEF MemOK
<1>7. UNCHANGED <<simulated, orders, requests, disconnected, faults, seen, kind,
                  m_current_state, m_previous_state, is_running>> /\ inbox' = Tail(inbox)
  BY DEF RemoveOldTrades
<1>8. TaskStep
  BY <1>1, <1>2, <1>3, <1>5, <1>6, <1>7 DEF TaskStep, TypeOK
<1> QED
  BY <1>8, TaskStepOK

\* What the first task may be, for each strategy.
LEMMA UpdateFacts ==
    ASSUME TypeOK, inbox # <<>>, NEW u \in Updates
    PROVE  /\ kind = "BuySpot" => u.t \in {"price", "order"}
           /\ Trading => \/ /\ u.t = "snapshot" /\ u.depth \in Nat /\ Head(inbox).t # "order"
                         \/ u.t = "order" /\ u \in ReportSet(Len(orders)) /\ u = Head(inbox)
                         \/ /\ u.t = "order" /\ u.id = Foreign /\ Head(inbox).t # "order"
                            /\ IsUpdate(u, Len(orders))
<1>1. PICK n, msg : n = Len(orders) /\ msg = Head(inbox)
  OBVIOUS
<1>2. n \in Nat /\ msg \in Tasks(kind, n)
  BY <1>1, TypeFacts
<1>3. msg.t \in {"order", "config"} \cup TaskNames(kind) /\ (msg.t = "order" => msg \in ReportSet(n))
  BY <1>2, TaskFacts
<1>4. /\ msg.t = "snapshot" => kind \in {"MeanReversion", "MarketMaker"}
      /\ msg.t = "price" => kind \in {"BuySpot", "PriceArbitrage"}
  BY <1>3 DEF TaskNames
<1>5. msg.t \in {"snapshot", "price", "other", "order"}
  BY <1>1 DEF Updates
<1>6. CASE msg.t = "snapshot"
  <2>1. u \in Snapshots \cup MakerSnapshots
    BY <1>1, <1>6 DEF Updates
  <2>2. u.t = "snapshot" /\ u.depth \in Nat
    <3>1. CASE u \in Snapshots
      <4>1. u.t = "snapshot" /\ u.depth = 0
        BY <3>1 DEF Snapshots
      <4> QED
        BY <4>1
    <3>2. CASE u \in MakerSnapshots
      BY <3>2, StrategyAssumption DEF MakerSnapshots, Depths
    <3> QED
      BY <2>1, <3>1, <3>2
  <2> QED
    BY <1>1, <1>4, <1>6, <2>2
<1>7. CASE msg.t = "price"
  <2>1. u.t = "price"
    BY <1>1, <1>7 DEF Updates
  <2> QED
    BY <1>4, <1>7, <2>1 DEF Trading
<1>8. CASE msg.t = "other"
  <2>1. u \in ForeignUpdates
    BY <1>1, <1>8 DEF Updates
  <2>2. /\ u.t = "order" /\ u.id = Foreign /\ u.st \in Statuses /\ u.side \in OrderSides
        /\ u.filled = 1
    BY <2>1 DEF ForeignUpdates, Statuses, OrderSides
  <2>3. IsUpdate(u, n)
    BY <2>2 DEF IsUpdate, HeardOf
  <2> QED
    BY <1>1, <1>8, <2>2, <2>3
<1>9. CASE msg.t = "order"
  <2>1. u = msg
    BY <1>1, <1>9 DEF Updates
  <2> QED
    BY <1>1, <1>3, <1>9, <2>1
<1> QED
  BY <1>5, <1>6, <1>7, <1>8, <1>9

\* end() and begin().
LEMMA ChangedOK ==
    ASSUME TypeOK
    PROVE  /\ MemOK(kind, Changed(mem).mem, Len(orders))
           /\ Changed(mem).all \in BOOLEAN
           /\ Changed(mem).all => Trading /\ m_previous_state = "RUN"
           /\ Trading /\ m_previous_state = "RUN" /\ m_current_state # "RUN" => Changed(mem).all
           /\ m_current_state = "RUN" => ~Changed(mem).all
           /\ kind = "MarketMaker" /\ m_current_state = "RUN" => Changed(mem).mem = mem
<1>1. PICK n \in Nat : n = Len(orders)
  BY TypeFacts
<1>2. PICK m : m = mem
  OBVIOUS
<1>3. MemOK(kind, m, n)
  BY <1>1, <1>2 DEF TypeOK
<1>4. MemOK(kind, Begin(m), n) /\ (kind = "MarketMaker" => Begin(m) = m)
  <2>1. CASE kind = "MeanReversion"
    <3>1. PICK m1, m2 : m1 = [m EXCEPT !.m_pnl = 0] /\ m2 = [m1 EXCEPT !.spread = SpreadReset]
      OBVIOUS
    <3>2. m \in ReversionSet(n)
      BY <1>3, <2>1 DEF MemOK
    <3>3. m1 \in ReversionSet(n) /\ m.spread \in SpreadSet(n)
      BY <3>1, <3>2, ReversionFacts
    <3>4. SpreadReset \in SpreadSet(n)
      BY <3>3, SpreadFacts
    <3>5. m2 \in ReversionSet(n)
      BY <3>1, <3>3, <3>4, ReversionFacts
    <3>6. Begin(m) = m2
      BY <2>1, <3>1 DEF Begin, ReversionBegin
    <3> QED
      BY <2>1, <3>5, <3>6 DEF MemOK
  <2>2. CASE kind = "TrendFollow"
    BY <2>2 DEF MemOK
  <2>3. CASE kind \notin {"MeanReversion", "TrendFollow"}
    BY <1>3, <2>3 DEF Begin
  <2> QED
    BY <2>1, <2>2, <2>3
<1>5. MemOK(kind, End(m).mem, n) /\ End(m).all \in BOOLEAN /\ (End(m).all <=> Trading)
  <2>1. CASE kind = "MeanReversion"
    <3>1. m \in ReversionSet(n)
      BY <1>3, <2>1 DEF MemOK
    <3>2. End(m) = [mem |-> [m EXCEPT !.m_pnl = 0], all |-> TRUE]
      BY <2>1 DEF End, ReversionEnd
    <3>3. [m EXCEPT !.m_pnl = 0] \in ReversionSet(n)
      BY <3>1, ReversionFacts
    <3> QED
      BY <2>1, <3>2, <3>3 DEF MemOK, Trading
  <2>2. CASE kind = "MarketMaker"
    <3>1. m \in MakerSet(n)
      BY <1>3, <2>2 DEF MemOK
    <3>2. End(m) = [mem |-> MakerEnd(m), all |-> TRUE]
      BY <2>2 DEF End
    <3>3. MakerEnd(m) \in MakerSet(n)
      BY <3>1, MakerFacts
    <3> QED
      BY <2>2, <3>2, <3>3 DEF MemOK, Trading
  <2>3. CASE kind = "BuySpot"
    <3>1. SpotOK(m)
      BY <1>3, <2>3 DEF MemOK
    <3>2. End(m) = [mem |-> SpotEnd(m), all |-> FALSE]
      BY <2>3 DEF End
    <3>3. SpotOK(SpotEnd(m))
      BY <3>1, SpotFacts
    <3> QED
      BY <2>3, <3>2, <3>3 DEF MemOK, Trading
  <2>4. CASE kind \notin {"MeanReversion", "MarketMaker", "BuySpot"}
    <3>1. End(m).all = FALSE
      BY <2>4 DEF End
    <3> QED
      BY <2>4, <3>1 DEF MemOK, Trading
  <2> QED
    BY <2>1, <2>2, <2>3, <2>4
<1>6. m_current_state \in {"STOP", "RUN"} /\ m_previous_state \in {"UNKNOWN", "STOP", "RUN"}
  BY DEF TypeOK
<1>7. PICK c : c = Changed(m)
  OBVIOUS
<1>8. \/ c = [mem |-> m, all |-> FALSE] /\ m_previous_state = m_current_state
      \/ c = End(m) /\ m_previous_state = "RUN" /\ m_current_state # "RUN"
      \/ c = [mem |-> Begin(m), all |-> FALSE] /\ m_previous_state # "RUN"
      \/ c = [mem |-> m, all |-> FALSE] /\ m_previous_state # "RUN"
  BY <1>6, <1>7 DEF Changed
<1>9. /\ MemOK(kind, c.mem, n) /\ c.all \in BOOLEAN
      /\ c.all => Trading /\ m_previous_state = "RUN"
      /\ Trading /\ m_previous_state = "RUN" /\ m_current_state # "RUN" => c.all
      /\ m_current_state = "RUN" => ~c.all
      /\ kind = "MarketMaker" /\ m_current_state = "RUN" => c.mem = m
  <2>1. CASE c = [mem |-> m, all |-> FALSE] /\ m_previous_state = m_current_state
    BY <1>3, <2>1
  <2>2. CASE c = End(m) /\ m_previous_state = "RUN" /\ m_current_state # "RUN"
    BY <1>5, <2>2
  <2>3. CASE c = [mem |-> Begin(m), all |-> FALSE] /\ m_previous_state # "RUN"
    <3>1. c.mem = Begin(m) /\ c.all = FALSE
      BY <2>3
    <3> QED
      BY <1>4, <2>3, <3>1
  <2>4. CASE c = [mem |-> m, all |-> FALSE] /\ m_previous_state # "RUN"
    BY <1>3, <2>4
  <2> QED
    BY <1>8, <2>1, <2>2, <2>3, <2>4
<1> QED
  BY <1>1, <1>2, <1>7, <1>9

\* What the state's handler asks for, and what the market maker lists then.
Handled(n, m, u, done) ==
    /\ DoneOK(kind, n, done)
    /\ m_current_state = "STOP" \/ ~Trading => done.out = Quiet
    /\ kind = "MarketMaker" /\ m_current_state = "RUN" =>
           /\ done.mem.m_open_orders \subseteq HeardOf(n)
           /\ \A id \in 1..n : id \in done.mem.m_open_orders
                     <=> IF IsAbout(Head(inbox), id) THEN Head(inbox).st = "NEW"
                         ELSE id \in m.m_open_orders

LEMMA HandleOK ==
    ASSUME TypeOK, inbox # <<>>, NEW u \in Updates, NEW m, MemOK(kind, m, Len(orders)),
           kind = "BuySpot" /\ u.t = "order" /\ m_current_state = "RUN" => HasPoint(m, u)
    PROVE  Handled(Len(orders), m, u, Handle(m, u))
<1>1. PICK n \in Nat : n = Len(orders)
  BY TypeFacts
<1>2. PICK done : done = Handle(m, u)
  OBVIOUS
<1>3. MemOK(kind, m, n)
  BY <1>1
<1>4. m_current_state \in {"STOP", "RUN"}
  BY DEF TypeOK
<1>5. CASE m_current_state = "STOP"
  <2>1. PICK m2 : m2 = IF kind = "MeanReversion" /\ u.t = "snapshot"
                       THEN ReversionStopSnapshot(m, u) ELSE m
    OBVIOUS
  <2>2. done = Does(m2, Quiet)
    BY <1>2, <1>5, <2>1 DEF Handle
  <2>3. MemOK(kind, m2, n)
    <3>1. CASE kind = "MeanReversion"
      <4>1. m \in ReversionSet(n)
        BY <1>3, <3>1 DEF MemOK
      <4>2. PICK s : s = SpreadSnapshot(m.spread, u)
        OBVIOUS
      <4>3. m.spread \in SpreadSet(n)
        BY <4>1, ReversionFacts
      <4>4. s \in SpreadSet(n)
        BY <4>2, <4>3, SpreadFacts
      <4>5. [m EXCEPT !.spread = s] \in ReversionSet(n)
        BY <4>1, <4>4, ReversionFacts
      <4>6. ReversionStopSnapshot(m, u) = [m EXCEPT !.spread = s]
        BY <4>2 DEF ReversionStopSnapshot
      <4>7. m2 \in ReversionSet(n)
        BY <2>1, <4>1, <4>5, <4>6
      <4> QED
        BY <3>1, <4>7 DEF MemOK
    <3>2. CASE kind # "MeanReversion"
      BY <1>3, <2>1, <3>2
    <3> QED
      BY <3>1, <3>2
  <2>4. DoneOK(kind, n, done)
    BY <2>2, <2>3, QuietOK
  <2>5. done.out = Quiet
    BY <2>2 DEF Does
  <2> QED
    BY <1>1, <1>2, <1>5, <2>4, <2>5 DEF Handled
<1>6. CASE m_current_state = "RUN"
  <2>1. CASE kind = "MeanReversion"
    <3>1. m \in ReversionSet(n) /\ Trading
      BY <1>3, <2>1 DEF MemOK, Trading
    <3>2. done = IF u.t = "snapshot" THEN ReversionSnapshot(m, u, n + 1)
                 ELSE ReversionOrderUpdate(m, u, n + 1)
      BY <1>1, <1>2, <1>6, <2>1 DEF Handle
    <3>3. DoneOK("MeanReversion", n, ReversionSnapshot(m, u, n + 1))
      BY <3>1, ReversionSnapshotOK
    <3>4. u.t # "snapshot" => IsUpdate(u, n)
      BY <1>1, <3>1, UpdateFacts, ReportIsUpdate
    <3>5. u.t # "snapshot" => DoneOK("MeanReversion", n, ReversionOrderUpdate(m, u, n + 1))
      BY <3>1, <3>4, ReversionOrderOK
    <3>6. DoneOK(kind, n, done)
      BY <2>1, <3>2, <3>3, <3>5
    <3> QED
      BY <1>1, <1>2, <1>6, <2>1, <3>1, <3>6 DEF Handled
  <2>2. CASE kind = "MarketMaker"
    <3>1. m \in MakerSet(n) /\ Trading
      BY <1>3, <2>2 DEF MemOK, Trading
    <3>2. CASE u.t = "snapshot"
      <4>1. done = MakerSnapshot(m, u)
        BY <1>2, <1>6, <2>2, <3>2 DEF Handle
      <4>2. u.depth \in Nat /\ Head(inbox).t # "order"
        BY <1>1, <3>1, <3>2, UpdateFacts
      <4>3. DoneOK(kind, n, done) /\ done.mem.m_open_orders = m.m_open_orders
        BY <1>1, <2>2, <3>1, <4>1, <4>2, MakerSnapshotOK
      <4>4. \A id : ~IsAbout(Head(inbox), id)
        BY <4>2 DEF IsAbout
      <4>5. m.m_open_orders \subseteq HeardOf(n)
        BY <1>1, <3>1, MakerFacts
      <4> QED
        BY <1>1, <1>2, <1>6, <3>1, <4>3, <4>4, <4>5 DEF Handled
    <3>3. CASE u.t # "snapshot"
      <4>1. PICK m2 : m2 = MakerOrderUpdate(m, u)
        OBVIOUS
      <4>2. done = Does(m2, Quiet)
        BY <1>2, <1>6, <2>2, <3>3, <4>1 DEF Handle
      <4>3. /\ IsUpdate(u, n)
            /\ u = Head(inbox) \/ (u.id = Foreign /\ Head(inbox).t # "order")
        BY <1>1, <3>1, <3>3, UpdateFacts, ReportIsUpdate
      <4>4. /\ m2 \in MakerSet(n)
            /\ \A id : id \in m2.m_open_orders
                         <=> IF IsAbout(u, id) THEN u.st = "NEW" ELSE id \in m.m_open_orders
        BY <3>1, <4>1, <4>3, MakerOrderOK
      <4>5. MemOK(kind, m2, n) /\ m2.m_open_orders \subseteq HeardOf(n)
        BY <2>2, <4>4, MakerFacts DEF MemOK
      <4>6. DoneOK(kind, n, done) /\ done.mem = m2
        BY <4>2, <4>5, QuietOK DEF Does
      <4>7. \A id \in 1..n : id \in m2.m_open_orders
                <=> IF IsAbout(Head(inbox), id) THEN Head(inbox).st = "NEW"
                    ELSE id \in m.m_open_orders
        <5>1. CASE u = Head(inbox)
          BY <4>4, <5>1
        <5>2. CASE u.id = Foreign /\ Head(inbox).t # "order"
          <6>1. \A id \in 1..n : ~IsAbout(u, id) /\ ~IsAbout(Head(inbox), id)
            BY <5>2 DEF IsAbout, Foreign
          <6> QED
            BY <4>4, <6>1
        <5> QED
          BY <4>3, <5>1, <5>2
      <4> QED
        BY <1>1, <1>2, <1>6, <3>1, <4>5, <4>6, <4>7 DEF Handled
    <3> QED
      BY <3>2, <3>3
  <2>3. CASE kind = "BuySpot"
    <3>1. SpotOK(m) /\ ~Trading
      BY <1>3, <2>3 DEF MemOK, Trading
    <3>2. PICK m2 : m2 = IF u.t = "price" THEN SpotPriceUpdate(m, u.price) ELSE SpotOrderUpdate(m, u)
      OBVIOUS
    <3>3. done = Does(m2, Quiet)
      BY <1>2, <1>6, <2>3, <3>2 DEF Handle
    <3>4. u.t # "price" => HasPoint(m, u)
      BY <1>6, <2>3, UpdateFacts
    <3>5. SpotOK(m2)
      BY <3>1, <3>2, <3>4, SpotFacts
    <3>6. MemOK(kind, m2, n)
      BY <2>3, <3>5 DEF MemOK
    <3>7. DoneOK(kind, n, done) /\ done.out = Quiet
      BY <3>3, <3>6, QuietOK DEF Does
    <3> QED
      BY <1>1, <1>2, <2>3, <3>7 DEF Handled
  <2>4. CASE kind \notin {"MeanReversion", "MarketMaker", "BuySpot"}
    <3>1. PICK m2 : done = Does(m2, Quiet)
      BY <1>2, <1>6, <2>4 DEF Handle
    <3>2. MemOK(kind, m2, n)
      BY <2>4 DEF MemOK
    <3>3. DoneOK(kind, n, done) /\ done.out = Quiet
      BY <3>1, <3>2, QuietOK DEF Does
    <3> QED
      BY <1>1, <1>2, <2>4, <3>3 DEF Handled
  <2> QED
    BY <2>1, <2>2, <2>3, <2>4
<1> QED
  BY <1>4, <1>5, <1>6

LEMMA UpdateOK ==
    ASSUME IInv, inbox # <<>>, NEW u \in Updates, Update(u)
    PROVE  IInv'
<1>1. TypeOK
  BY DEF IInv
<1>2. PICK n \in Nat : n = Len(orders)
  BY <1>1, TypeFacts
<1>3. PICK c, done : c = Changed(mem) /\ done = Handle(c.mem, u)
  OBVIOUS
<1>4. /\ kind = "BuySpot" /\ u.t = "order" /\ m_current_state = "RUN" => HasPoint(c.mem, u)
      /\ Sends([done.out EXCEPT !.all = c.all]) /\ mem' = done.mem
      /\ m_previous_state' = m_current_state /\ seen \subseteq seen'
      /\ UNCHANGED <<simulated, disconnected, faults, kind, m_current_state, is_running>>
  BY <1>3 DEF Update
<1>5. /\ MemOK(kind, c.mem, n) /\ c.all \in BOOLEAN
      /\ c.all => Trading /\ m_previous_state = "RUN"
      /\ Trading /\ m_previous_state = "RUN" /\ m_current_state # "RUN" => c.all
      /\ m_current_state = "RUN" => ~c.all
      /\ kind = "MarketMaker" /\ m_current_state = "RUN" => c.mem = mem
  BY <1>1, <1>2, <1>3, ChangedOK
<1>6. Handled(n, c.mem, u, done)
  BY <1>1, <1>2, <1>3, <1>4, <1>5, HandleOK
<1>7. PICK place, cancel, out : /\ place = done.out.place /\ cancel = done.out.cancel
                                /\ out = [done.out EXCEPT !.all = c.all]
  OBVIOUS
<1>8. /\ place \in Seq(OrderSides) /\ cancel \in SUBSET HeardOf(n)
      /\ out = [place |-> place, cancel |-> cancel, all |-> c.all]
      /\ MemOK(kind, mem', n + Len(place))
  BY <1>4, <1>6, <1>7 DEF Handled, DoneOK
<1>9. out.place = place /\ out.cancel = cancel /\ out.all = c.all
  BY <1>8
<1>10. m_current_state = "STOP" \/ ~Trading => place = <<>> /\ cancel = {}
  BY <1>6, <1>7 DEF Handled, Quiet
<1>11. SendResult(out)
  BY <1>1, <1>2, <1>4, <1>5, <1>7, <1>8, <1>9, SendsOK DEF TypeOK
<1>12. MemOK(kind, mem', Len(orders'))
  <2>1. Len(orders') = n + Len(place)
    BY <1>2, <1>9, <1>11 DEF SendResult, SendKeeps
  <2> QED
    BY <1>8, <2>1
<1>13. PICK box, box1, S : box = inbox /\ box1 = Tail(inbox) /\ S = Tasks(kind, n)
  OBVIOUS
<1>14. box \in Seq(S) /\ box # <<>> /\ box1 \in Seq(S) /\ box1 = Tail(box) /\ Head(box) \in S
  BY <1>1, <1>2, <1>13, TypeFacts DEF TypeOK
<1>15. inbox' \in Seq(S) /\ \A open, id : WillList(inbox', open, id) <=> WillList(box1, open, id)
  <2>1. PICK start : start = start_close_far_orders(mem, is_running)
    OBVIOUS
  <2>2. \/ inbox' = box1 \o start /\ kind = "MarketMaker"
        \/ inbox' = box1 \o <<>>
    BY <1>13, <2>1 DEF Update
  <2>3. CASE inbox' = box1 \o start /\ kind = "MarketMaker"
    BY <1>13, <1>14, <2>1, <2>3, StartsOK
  <2>4. CASE inbox' = box1 \o <<>>
    <3>1. inbox' = box1
      BY <1>14, <2>4
    <3> QED
      BY <1>14, <3>1
  <2> QED
    BY <2>2, <2>3, <2>4
<1>16. ASSUME kind = "MarketMaker", m_current_state = "RUN"
       PROVE  /\ mem'.m_open_orders \subseteq HeardOf(n)
              /\ \A id \in 1..n : WillList(inbox', mem'.m_open_orders, id)
                                     <=> WillList(inbox, mem.m_open_orders, id)
  <2>1. PICK open, open2 : open = mem.m_open_orders /\ open2 = done.mem.m_open_orders
    OBVIOUS
  <2>2. /\ open2 \subseteq HeardOf(n)
        /\ \A id \in 1..n :
               id \in open2 <=> IF IsAbout(Head(box), id) THEN Head(box).st = "NEW" ELSE id \in open
    BY <1>5, <1>6, <1>13, <1>16, <2>1 DEF Handled
  <2>5. ASSUME NEW id \in 1..n PROVE WillList(inbox', open2, id) <=> WillList(box, open, id)
    <3>1. id \in open2 <=> IF IsAbout(Head(box), id) THEN Head(box).st = "NEW" ELSE id \in open
      BY <2>2
    <3>2. WillList(box1, open2, id) <=> WillList(box, open, id)
      BY <1>14, <3>1, ListHandled
    <3> QED
      BY <1>15, <3>2
  <2> QED
    BY <1>4, <1>13, <2>1, <2>2, <2>5
<1>17. m_current_state \in {"STOP", "RUN"}
  BY <1>1 DEF TypeOK
<1>18. m_previous_state' # "RUN"
           => out.place = <<>> /\ (m_previous_state # "RUN" \/ out.all \/ ~Trading)
  BY <1>4, <1>5, <1>9, <1>10, <1>17
<1>19. ~Trading => out.place = <<>> /\ out.cancel = {} /\ ~out.all
  BY <1>5, <1>9, <1>10
<1>20. m_current_state = "RUN" => m_previous_state' # "STOP"
  BY <1>4
<1>21. SendStep(out)
  BY <1>2, <1>4, <1>8, <1>9, <1>11, <1>12, <1>13, <1>15, <1>16, <1>17, <1>18, <1>19, <1>20
     DEF SendStep
<1> QED
  BY <1>21, SendStepOK

-----------------------------------------------------------------------------
(* The theorems *)

LEMMA InitOK == Init => IInv
<1> SUFFICES ASSUME Init PROVE IInv
  OBVIOUS
<1>1. /\ orders = <<>> /\ requests = <<>> /\ disconnected = {} /\ inbox = <<>> /\ faults = 0
      /\ seen = {} /\ simulated \in BOOLEAN /\ kind \in Kinds
      /\ m_current_state \in {"STOP", "RUN"} /\ m_previous_state = "UNKNOWN"
      /\ IF kind = "BuySpot" THEN mem \in SpotInits ELSE mem = init_states
  BY DEF Init, EntryInit
<1>2. is_running \in BOOLEAN
  <2>1. is_running = (m_current_state = "RUN")
    BY DEF Init
  <2> QED
    BY <2>1
<1>3. Len(orders) = 0 /\ DOMAIN orders = {} /\ DOMAIN requests = {}
  BY <1>1
<1>4. MemOK(kind, mem, 0)
  <2>1. kind = "MeanReversion" => mem \in ReversionSet(0)
    <3>1. kind = "MeanReversion" => mem = ReversionInit
      BY <1>1 DEF init_states
    <3>2. ReversionInit \in ReversionSet(0)
      <4>1. PICK z \in Nat : z = 0
        OBVIOUS
      <4> QED
        BY <4>1, ReversionInitOK
    <3> QED
      BY <3>1, <3>2
  <2>2. kind = "MarketMaker" => mem \in MakerSet(0)
    <3>1. kind = "MarketMaker" => mem = MakerInit
      BY <1>1 DEF init_states
    <3>2. MakerInit \in MakerSet(0)
      BY DEF MakerInit, MakerSet
    <3> QED
      BY <3>1, <3>2
  <2>3. kind = "BuySpot" => SpotOK(mem)
    BY <1>1, SpotInitsOK
  <2> QED
    BY <2>1, <2>2, <2>3 DEF MemOK
<1>5. TypeOK
  <2>1. /\ requests \in Seq(RequestSet(Len(orders))) /\ orders \in Seq(OrderSet)
        /\ inbox \in Seq(Tasks(kind, Len(orders)))
        /\ disconnected \subseteq RequestSet(Len(orders))
    BY <1>1
  <2>2. MemOK(kind, mem, Len(orders))
    BY <1>3, <1>4
  <2> QED
    BY <1>1, <1>2, <2>1, <2>2 DEF TypeOK
<1>6. StopPending
  <2>1. PlacesExact(orders, requests)
    BY <1>3 DEF PlacesExact
  <2>2. Working = {}
    BY <1>3 DEF Working
  <2> QED
    BY <2>1, <2>2 DEF StopPending
<1>7. MirrorPending
  BY <1>1, <1>3 DEF MirrorPending
<1> QED
  BY <1>5, <1>6, <1>7 DEF IInv

LEMMA NextOK ==
    ASSUME IInv, [Next]_vars
    PROVE  IInv'
<1>1. CASE UNCHANGED vars
  BY <1>1 DEF vars, entry_vars, strategy_vars, IInv, TypeOK, Trading, StopPending,
     MirrorPending, Working, AtSimulator, Elsewhere, Undisturbed
<1>2. ASSUME NEW x \in {"snapshot", "price", "other"}, Publish(x) PROVE IInv'
  BY <1>2, PublishOK
<1>3. CASE UpdateConfig
  BY <1>3, UpdateConfigOK
<1>4. CASE ApplyConfig
  BY <1>4, ApplyConfigOK
<1>5. CASE RunInit
  BY <1>5, RunInitOK
<1>6. ASSUME inbox # <<>>, NEW u \in Updates, Update(u) PROVE IInv'
  BY <1>6, UpdateOK
<1>7. CASE CloseFarOrders
  BY <1>7, CloseFarOrdersOK
<1>8. CASE RemoveOldTrades
  BY <1>8, RemoveOldTradesOK
<1>9. CASE CloseTimer
  BY <1>9, CloseTimerOK
<1>10. CASE EntryNext /\ UNCHANGED strategy_vars
  BY <1>10, EntryNextOK DEF EntryStep
<1> QED
  BY <1>1, <1>2, <1>3, <1>4, <1>5, <1>6, <1>7, <1>8, <1>9, <1>10 DEF Next, Acts

\* StrategyBase::update, the handlers of the five strategies and the order
\* entry keep the inductive invariant, whatever updates of other orders of the
\* account come in between and wherever a configuration moves the trading.
THEOREM Invariance == Spec => []IInv
<1>1. IInv /\ [Next]_vars => IInv'
  BY NextOK
<1> QED
  BY <1>1, InitOK, PTL DEF Spec

\* Every strategy, the requests it sends and the tasks of its event base
\* stay within their types; only the mean reversion strategy and the market
\* maker send requests at all.
THEOREM TypeCorrect == Spec => []TypeOK
<1>1. IInv => TypeOK
  BY DEF IInv
<1> QED
  BY <1>1, Invariance, PTL

\* strategy_mm_state_run.cpp, handle_order_update: whenever every update is
\* handled, the strategy's own orders in m_open_orders are those the exchange
\* has open, for any number of orders, snapshots, rejections, partial and whole
\* fills, cancels and updates of foreign orders, until a connection breaks, an
\* order expires or a configuration is applied.
THEOREM OpenOrdersKnown == Spec => []OpenOrdersMirrored
<1>1. IInv => OpenOrdersMirrored
  <2> SUFFICES ASSUME IInv, kind = "MarketMaker", Undisturbed, inbox = <<>>,
                      m_current_state = "RUN"
               PROVE  mem.m_open_orders \ {Foreign} = {id \in DOMAIN orders : orders[id].st = "open"}
    BY DEF OpenOrdersMirrored
  <2>1. PICK open : open = mem.m_open_orders
    OBVIOUS
  <2>2. \A id \in DOMAIN orders : WillList(inbox, open, id) <=> orders[id].st = "open"
    BY <2>1 DEF IInv, MirrorPending
  <2>3. \A id : WillList(inbox, open, id) <=> id \in open
    <3>1. DOMAIN inbox = {}
      OBVIOUS
    <3> QED
      BY <3>1 DEF WillList
  <2>4. open \subseteq {Foreign} \cup DOMAIN orders /\ Foreign \notin DOMAIN orders
    <3>1. TypeOK /\ DOMAIN orders = 1..Len(orders)
      BY TypeFacts DEF IInv
    <3>2. mem \in MakerSet(Len(orders))
      BY <3>1 DEF TypeOK, MemOK
    <3> QED
      BY <2>1, <3>1, <3>2 DEF MakerSet, HeardOf, Foreign
  <2> QED
    BY <2>1, <2>2, <2>3, <2>4
<1> QED
  BY <1>1, Invariance, PTL

\* strategy_bs_state_run.cpp: whatever prices, order updates, stops and
\* configurations come, for any prices, any max_open_orders and any points
\* loaded, a buy point that is AVAILABLE records no coins and one that is HOLD
\* records some.  What a partial fill bought is recorded by no point.
THEOREM HeldKept == Spec => []HeldNeverOffered
<1>1. IInv => HeldNeverOffered
  <2> SUFFICES ASSUME IInv, kind = "BuySpot", NEW p \in DOMAIN mem.points
               PROVE  /\ mem.points[p].status = "AVAILABLE" => mem.points[p].quantity = 0
                      /\ mem.points[p].status = "HOLD" => mem.points[p].quantity > 0
    BY DEF HeldNeverOffered
  <2>1. SpotOK(mem)
    BY DEF IInv, TypeOK, MemOK
  <2>2. mem.points \in [DOMAIN mem.points -> PointSet]
    BY <2>1 DEF SpotOK
  <2>3. mem.points[p] \in PointSet
    BY <2>2
  <2> QED
    BY <2>3 DEF PointSet
<1> QED
  BY <1>1, Invariance, PTL

\* strategy_base.h, update and end(): however many orders and requests were
\* under way when a strategy was stopped, none is left on the exchange once
\* its requests are executed, unless a connection broke, the trading was
\* simulated or a configuration moved it to another account, instrument or
\* is_real_trading.
THEOREM StopLeavesNothing == Spec => []StopsClean
<1>1. IInv => StopsClean
  <2> SUFFICES ASSUME IInv, m_current_state = "STOP", m_previous_state = "STOP", ~AtSimulator,
                      "break" \notin seen, requests = <<>>
               PROVE  Working = {}
    BY DEF StopsClean, AtSimulator
  <2>1. ~WillCancel(requests)
    BY DEF WillCancel
  <2> QED
    BY <2>1 DEF IInv, StopPending
<1> QED
  BY <1>1, Invariance, PTL

-----------------------------------------------------------------------------
(* One order at a time.  The mean reversion strategy places an order when the
   one before has ended and it has been told so; until then, what is asked of
   the exchange, what it has told and what the strategy remembers are about the
   last order made. *)

NoReports(box) == \A k \in DOMAIN box : box[k].t # "order"
Reports(box, status) == \E k \in DOMAIN box : box[k].t = "order" /\ box[k].st = status
Cancels(reqs, id) == \E k \in DOMAIN reqs : reqs[k].op = "cancel" /\ reqs[k].id = id

\* What an order has filled: nothing, a part while it is open, or all.
Amount(sim, o) ==
    /\ o.st \in {"sent", "canceled", "rejected"} => o.filled = 0
    /\ o.st = "open" => o.filled \in {0, 1} /\ (sim => o.filled = 0)
    /\ o.st = "filled" => o.filled = 2

Made(sim, ords) ==
    \A id \in 1..Len(ords) :
        /\ Amount(sim, ords[id])
        /\ id < Len(ords) => ords[id].st \in {"filled", "canceled", "rejected"}

\* The last order is placed once and canceled once at most; a cancel of an
\* earlier one comes too late.
Asked(ords, reqs) ==
    /\ \A k \in DOMAIN reqs :
          /\ reqs[k].op \in {"place", "cancel"}
          /\ reqs[k].op = "place" => reqs[k].id = Len(ords) /\ ords[Len(ords)].st = "sent"
          /\ reqs[k].op = "cancel" => /\ reqs[k].id \in 1..Len(ords)
                                      /\ \/ ords[reqs[k].id].st = "filled"
                                         \/ reqs[k].id = Len(ords) /\ ords[Len(ords)].st = "open"
    /\ \A k, l \in DOMAIN reqs : reqs[k] = reqs[l] /\ reqs[k].id = Len(ords) => k = l

\* Reports are about the last order, the first one that it is open or refused,
\* the last one how it ended.
ToldLast(o, n, msg) ==
    /\ msg.id = n /\ msg.side = o.side /\ o.st # "sent"
    /\ msg.st = "NEW" => o.st \in {"open", "filled"}
    /\ msg.st = "FILLED" => o.st = "filled"
    /\ msg.st = "CANCELED" => o.st = "canceled"
    /\ msg.st = "REJECTED" => o.st = "rejected"

InOrder(box) ==
    \A k, l \in DOMAIN box : box[k].t = "order" /\ box[l].t = "order" =>
        /\ box[k].st = "NEW" => k =< l
        /\ box[k].st \in {"FILLED", "CANCELED", "REJECTED"} => l =< k

ToldOf(ords, reqs, box) ==
    /\ \A k \in DOMAIN box : box[k].t = "order" => ToldLast(ords[Len(ords)], Len(ords), box[k])
    /\ Reports(box, "NEW") => ~Cancels(reqs, Len(ords))
    /\ InOrder(box)

World(sim, ords, reqs, box) == Made(sim, ords) /\ Asked(ords, reqs) /\ ToldOf(ords, reqs, box)

\* The copy w of the last order and the target t, against the order itself.
Knows(ords, reqs, box, w, t) ==
    LET n == Len(ords) IN
    /\ t.st = "FILLED" => ords[n].st = "filled" /\ t.side = ords[n].side /\ NoReports(box)
    /\ ords[n].st = "filled" => t.st = "FILLED" \/ Reports(box, "FILLED")
    /\ w.st = "FILLED" => t.st = "FILLED"
    /\ w.st = "NEW" => /\ w.id = n /\ ords[n].st \in {"open", "filled"}
                       /\ ~Cancels(reqs, n) /\ ~Reports(box, "NEW")

\* Between two rounds.
Idle(ords, box, m) ==
    /\ m.spread.initial.st # "FILLED" /\ m.m_initial_order = NullOrder /\ NoReports(box)
    /\ Len(ords) > 0 => ords[Len(ords)].st = "filled"
    /\ PositionOf(ords) = 0

\* The last order is an initial one.
Opening(ords, reqs, box, m) ==
    /\ Len(ords) > 0 /\ m.spread.prices >= Window /\ m.m_initial_order.id # 0
    /\ m.spread.hedge.st # "FILLED"
    /\ Knows(ords, reqs, box, m.m_initial_order, m.spread.initial)
    /\ PositionOf(ords) = Signed(ords[Len(ords)].side, ords[Len(ords)].filled)

\* The initial order is filled, and the last order is its hedge.
Hedging(ords, reqs, box, m) ==
    LET n == Len(ords) IN
    /\ n > 0 /\ m.spread.prices >= Window
    /\ m.spread.initial.st = "FILLED" /\ ords[n].side = Opposite(m.spread.initial.side)
    /\ Knows(ords, reqs, box, m.m_hedge_order, m.spread.hedge)
    /\ PositionOf(ords) = Signed(m.spread.initial.side, 2 - ords[n].filled)
    /\ m.spread.status # "STOP_LOSS" =>
           ords[n].st # "canceled" /\ (Cancels(reqs, n) => ords[n].st = "filled")

Mind(ords, reqs, box, m) ==
    /\ m.spread.status = "NONE" => Idle(ords, box, m)
    /\ m.spread.status = "PLACING_INITIAL_ORDER" => Opening(ords, reqs, box, m)
    /\ m.spread.status \in HedgeStatuses => Hedging(ords, reqs, box, m)

Round ==
    /\ disconnected = {} /\ m_previous_state \in {"UNKNOWN", m_current_state}
    /\ \A k \in DOMAIN inbox : inbox[k].t \notin {"init", "other"}
    /\ m_current_state = "STOP" => orders = <<>> /\ requests = <<>>
    /\ m_current_state = "RUN" =>
           /\ World(simulated, orders, requests, inbox) /\ Mind(orders, requests, inbox, mem)
           /\ m_previous_state = "UNKNOWN" => mem = ReversionInit

RiskInv == kind = "MeanReversion" /\ seen = {} => Round

-----------------------------------------------------------------------------
(* Positions *)

LEMMA SignedZero == \A side : Signed(side, 0) = 0
<1>1. PICK z \in Int : z = 0 /\ -z = 0
  OBVIOUS
<1>2. \A side : Signed(side, z) = 0
  BY <1>1 DEF Signed
<1> QED
  BY <1>1, <1>2

PositionsFinite(ords) ==
    \A side \in OrderSides : /\ IsFiniteSet(Traded(ords, side))
                             /\ Cardinality(Traded(ords, side)) \in Nat

LEMMA TradedFinite ==
    ASSUME NEW ords \in Seq(OrderSet)
    PROVE  PositionsFinite(ords)
<1>1. PICK D : D = DOMAIN ords /\ IsFiniteSet(D)
  <2>1. DOMAIN ords = 1..Len(ords) /\ Len(ords) \in Nat
    OBVIOUS
  <2> QED
    BY <2>1, FS_Interval
<1>2. IsFiniteSet(1..2)
  <2>1. PICK i \in Int, j \in Int : i = 1 /\ j = 2
    OBVIOUS
  <2>2. IsFiniteSet(i..j)
    BY FS_Interval
  <2> QED
    BY <2>1, <2>2
<1>3. IsFiniteSet(D \X (1..2))
  BY <1>1, <1>2, FS_Product
<1>4. ASSUME NEW side \in OrderSides
      PROVE  IsFiniteSet(Traded(ords, side)) /\ Cardinality(Traded(ords, side)) \in Nat
  <2>1. Traded(ords, side) \subseteq D \X (1..2)
    BY <1>1 DEF Traded
  <2>2. IsFiniteSet(Traded(ords, side))
    BY <1>3, <2>1, FS_Subset
  <2> QED
    BY <2>2, FS_CardinalityType
<1> QED
  BY <1>4 DEF PositionsFinite

\* An order that has filled nothing counts for nothing.
LEMMA PositionPlaced ==
    ASSUME NEW ords \in Seq(OrderSet), NEW o, o.filled = 0, NEW ords2, ords2 = Append(ords, o)
    PROVE  PositionOf(ords2) = PositionOf(ords)
<1>1. PICK n \in Nat : n = Len(ords) /\ DOMAIN ords = 1..n
  OBVIOUS
<1>2. /\ DOMAIN ords2 = 1..(n + 1) /\ ords2[n + 1] = o
      /\ \A k \in 1..n : ords2[k] = ords[k]
  BY <1>1
<1>3. ASSUME NEW side PROVE Traded(ords2, side) = Traded(ords, side)
  <2>1. ASSUME NEW k \in 1..(n + 1), NEW j \in 1..2
        PROVE  <<k, j>> \in Traded(ords2, side) <=> <<k, j>> \in Traded(ords, side)
    <3>1. CASE k \in 1..n
      BY <1>1, <1>2, <3>1 DEF Traded
    <3>2. CASE k = n + 1
      <4>1. ~(j =< o.filled) /\ k \notin 1..n
        BY <1>1, <3>2
      <4> QED
        BY <1>1, <1>2, <3>2, <4>1 DEF Traded
    <3> QED
      BY <3>1, <3>2
  <2>2. \A u \in Traded(ords2, side) : u \in (1..(n + 1)) \X (1..2)
    BY <1>2 DEF Traded
  <2>3. \A u \in Traded(ords, side) : u \in (1..(n + 1)) \X (1..2)
    BY <1>1 DEF Traded
  <2>4. ASSUME NEW u \in (1..(n + 1)) \X (1..2)
        PROVE  u \in Traded(ords2, side) <=> u \in Traded(ords, side)
    <3>1. PICK k \in 1..(n + 1), j \in 1..2 : u = <<k, j>>
      OBVIOUS
    <3> QED
      BY <2>1, <3>1
  <2> QED
    BY <2>2, <2>3, <2>4
<1> QED
  BY <1>3 DEF PositionOf

\* An order fills one unit more.
LEMMA TradedOne ==
    ASSUME NEW ords, NEW ords2, NEW i \in DOMAIN ords, DOMAIN ords2 = DOMAIN ords,
           \A k \in DOMAIN ords : k # i => ords2[k] = ords[k],
           ords[i].filled \in {0, 1}, ords2[i].filled = ords[i].filled + 1,
           ords2[i].side = ords[i].side
    PROVE  /\ \A side : side # ords[i].side => Traded(ords2, side) = Traded(ords, side)
           /\ <<i, ords2[i].filled>> \notin Traded(ords, ords[i].side)
           /\ Traded(ords2, ords[i].side) = Traded(ords, ords[i].side) \cup {<<i, ords2[i].filled>>}
<1>1. PICK D, f, sd : D = DOMAIN ords /\ f = ords[i].filled /\ sd = ords[i].side
  OBVIOUS
<1>2. f \in {0, 1} /\ f + 1 \in 1..2 /\ ~(f + 1 =< f)
  BY <1>1
<1>3. ASSUME NEW side, NEW k \in D, NEW j \in 1..2
      PROVE  <<k, j>> \in Traded(ords2, side)
                 <=> <<k, j>> \in Traded(ords, side) \/ (side = sd /\ k = i /\ j = f + 1)
  <2>1. <<k, j>> \in Traded(ords2, side) <=> ords2[k].side = side /\ j =< ords2[k].filled
    BY <1>1 DEF Traded
  <2>2. <<k, j>> \in Traded(ords, side) <=> ords[k].side = side /\ j =< ords[k].filled
    BY <1>1 DEF Traded
  <2>3. CASE k # i
    BY <1>1, <2>1, <2>2, <2>3
  <2>4. CASE k = i
    BY <1>1, <1>2, <2>1, <2>2, <2>4
  <2> QED
    BY <2>3, <2>4
<1>4. \A side : Traded(ords2, side) \subseteq D \X (1..2) /\ Traded(ords, side) \subseteq D \X (1..2)
  BY <1>1 DEF Traded
<1>5. ASSUME NEW side, side # sd PROVE Traded(ords2, side) = Traded(ords, side)
  <2>1. ASSUME NEW u \in D \X (1..2) PROVE u \in Traded(ords2, side) <=> u \in Traded(ords, side)
    <3>1. PICK k \in D, j \in 1..2 : u = <<k, j>>
      OBVIOUS
    <3> QED
      BY <1>3, <1>5, <3>1
  <2> QED
    BY <1>4, <2>1
<1>6. <<i, f + 1>> \notin Traded(ords, sd)
  BY <1>1, <1>2 DEF Traded
<1>7. Traded(ords2, sd) = Traded(ords, sd) \cup {<<i, f + 1>>}
  <2>1. ASSUME NEW u \in D \X (1..2)
        PROVE  u \in Traded(ords2, sd) <=> u \in Traded(ords, sd) \cup {<<i, f + 1>>}
    <3>1. PICK k \in D, j \in 1..2 : u = <<k, j>>
      OBVIOUS
    <3>2. u = <<i, f + 1>> <=> k = i /\ j = f + 1
      BY <3>1
    <3> QED
      BY <1>3, <3>1, <3>2
  <2>2. <<i, f + 1>> \in D \X (1..2)
    BY <1>1, <1>2
  <2> QED
    BY <1>4, <2>1, <2>2
<1> QED
  BY <1>1, <1>5, <1>6, <1>7

LEMMA PositionOne ==
    ASSUME NEW ords \in Seq(OrderSet), NEW ords2 \in Seq(OrderSet), NEW i \in DOMAIN ords,
           DOMAIN ords2 = DOMAIN ords,
           \A k \in DOMAIN ords : k # i => ords2[k] = ords[k],
           ords[i].filled \in {0, 1}, ords2[i].filled = ords[i].filled + 1,
           ords2[i].side = ords[i].side
    PROVE  PositionOf(ords2) = PositionOf(ords) + Signed(ords[i].side, 1)
<1>1. PICK sd, x, b, s, b2, s2 :
          /\ sd = ords[i].side /\ x = <<i, ords2[i].filled>>
          /\ b = Traded(ords, "BUY") /\ s = Traded(ords, "SELL")
          /\ b2 = Traded(ords2, "BUY") /\ s2 = Traded(ords2, "SELL")
  OBVIOUS
<1>2. sd \in {"BUY", "SELL"}
  <2>1. ords[i] \in OrderSet
    OBVIOUS
  <2> QED
    BY <1>1, <2>1 DEF OrderSet, OrderSides
<1>3. /\ \A side : side # sd => Traded(ords2, side) = Traded(ords, side)
      /\ x \notin Traded(ords, sd)
      /\ Traded(ords2, sd) = Traded(ords, sd) \cup {x}
  BY <1>1, TradedOne
<1>4. IsFiniteSet(b) /\ Cardinality(b) \in Nat /\ IsFiniteSet(s) /\ Cardinality(s) \in Nat
  BY <1>1, TradedFinite DEF PositionsFinite, OrderSides
<1>5. CASE sd = "BUY"
  <2>1. s2 = s /\ b2 = b \cup {x} /\ x \notin b
    BY <1>1, <1>3, <1>5
  <2>2. Cardinality(b2) = Cardinality(b) + 1
    BY <1>4, <2>1, FS_AddElement
  <2> QED
    BY <1>1, <1>4, <1>5, <2>1, <2>2 DEF PositionOf, Signed
<1>6. CASE sd = "SELL"
  <2>1. b2 = b /\ s2 = s \cup {x} /\ x \notin s
    BY <1>1, <1>3, <1>6
  <2>2. Cardinality(s2) = Cardinality(s) + 1
    BY <1>4, <2>1, FS_AddElement
  <2> QED
    BY <1>1, <1>4, <1>6, <2>1, <2>2 DEF PositionOf, Signed
<1> QED
  BY <1>2, <1>5, <1>6

\* An order i fills d more, or only changes its state.
FillsMore(ords, ords2, i, d) ==
    /\ ords \in Seq(OrderSet) /\ ords2 \in Seq(OrderSet) /\ i \in DOMAIN ords
    /\ DOMAIN ords2 = DOMAIN ords
    /\ \A k \in DOMAIN ords : k # i => ords2[k] = ords[k]
    /\ ords[i].filled \in 0..2 /\ d \in 0..2
    /\ ords2[i].filled = ords[i].filled + d /\ ords2[i].filled \in 0..2
    /\ ords2[i].side = ords[i].side

LEMMA PositionMore ==
    ASSUME NEW ords, NEW ords2, NEW i, NEW d, FillsMore(ords, ords2, i, d)
    PROVE  PositionOf(ords2) = PositionOf(ords) + Signed(ords[i].side, d)
<1>1. PICK sd : sd = ords[i].side /\ sd \in {"BUY", "SELL"}
  <2>1. ords[i] \in OrderSet
    BY DEF FillsMore
  <2> QED
    BY <2>1 DEF OrderSet, OrderSides
<1>2. PositionOf(ords) \in Int
  BY TradedFinite DEF FillsMore, PositionsFinite, OrderSides, PositionOf
<1>3. CASE d = 0
  <2>1. \A k \in DOMAIN ords : ords2[k].side = ords[k].side /\ ords2[k].filled = ords[k].filled
    BY <1>3 DEF FillsMore
  <2>2. \A side : Traded(ords2, side) = Traded(ords, side)
    BY <2>1 DEF FillsMore, Traded
  <2>3. PositionOf(ords2) = PositionOf(ords)
    BY <2>2 DEF PositionOf
  <2> QED
    BY <1>1, <1>2, <1>3, <2>3 DEF Signed
<1>4. CASE d = 1
  <2>1. ords[i].filled \in {0, 1} /\ ords2[i].filled = ords[i].filled + 1
    BY <1>4 DEF FillsMore
  <2> QED
    BY <1>4, <2>1, PositionOne DEF FillsMore
<1>5. CASE d = 2
  <2>1. ords[i].filled = 0 /\ ords2[i].filled = 2 /\ i \in DOMAIN ords
    BY <1>5 DEF FillsMore
  <2>2. PICK o, mid : o = [ords[i] EXCEPT !.filled = 1] /\ mid = [ords EXCEPT ![i] = o]
    OBVIOUS
  <2>3. o \in OrderSet /\ o.filled = 1 /\ o.side = ords[i].side
    <3>1. ords[i] \in OrderSet
      BY DEF FillsMore
    <3> QED
      BY <2>2, <3>1 DEF OrderSet
  <2>4. /\ mid \in Seq(OrderSet) /\ DOMAIN mid = DOMAIN ords /\ mid[i] = o
        /\ \A k \in DOMAIN ords : k # i => mid[k] = ords[k]
    BY <2>1, <2>2, <2>3 DEF FillsMore
  <2>5. PositionOf(mid) = PositionOf(ords) + Signed(sd, 1)
    BY <1>1, <2>1, <2>3, <2>4, PositionOne DEF FillsMore
  <2>6. /\ \A k \in DOMAIN mid : k # i => ords2[k] = mid[k]
        /\ mid[i].filled \in {0, 1} /\ ords2[i].filled = mid[i].filled + 1
        /\ ords2[i].side = mid[i].side /\ DOMAIN ords2 = DOMAIN mid /\ i \in DOMAIN mid
    BY <2>1, <2>3, <2>4 DEF FillsMore
  <2>7. PositionOf(ords2) = PositionOf(mid) + Signed(mid[i].side, 1)
    BY <2>4, <2>6, PositionOne DEF FillsMore
  <2> QED
    BY <1>1, <1>2, <1>5, <2>3, <2>4, <2>5, <2>7 DEF Signed
<1> QED
  BY <1>3, <1>4, <1>5 DEF FillsMore

-----------------------------------------------------------------------------
(* Queues of reports and of requests *)

Endings == {"FILLED", "CANCELED", "REJECTED"}

\* rest is what is left of box once its first task, hd, is handled.
BoxHandled(box, hd, rest) ==
    /\ \A k \in DOMAIN rest : \E j \in DOMAIN box : rest[k] = box[j]
    /\ InOrder(rest)
    /\ NoReports(box) => NoReports(rest)
    /\ \A st : Reports(rest, st) => Reports(box, st)
    /\ \A st : Reports(box, st) => Reports(rest, st) \/ (hd.t = "order" /\ hd.st = st)
    /\ hd.t = "order" /\ hd.st \in Endings => NoReports(rest)
    /\ hd.t = "order" /\ hd.st = "NEW" => ~Reports(rest, "NEW")

LEMMA BoxTail ==
    ASSUME NEW S, NEW box \in Seq(S), box # <<>>, InOrder(box)
    PROVE  BoxHandled(box, Head(box), Tail(box))
<1>1. PICK q, rest, hd : q = Len(box) /\ rest = Tail(box) /\ hd = Head(box)
  OBVIOUS
<1>2. /\ DOMAIN box = 1..q /\ DOMAIN rest = 1..(q - 1) /\ q >= 1 /\ q \in Nat
      /\ \A k \in 1..(q - 1) : rest[k] = box[k + 1] /\ k + 1 \in 1..q
      /\ 1 \in 1..q /\ box[1] = hd
  BY <1>1, TailFacts
<1>3. \A j \in 1..q : j = 1 \/ \E k \in 1..(q - 1) : j = k + 1
  <2> SUFFICES ASSUME NEW j \in 1..q, j # 1 PROVE \E k \in 1..(q - 1) : j = k + 1
    OBVIOUS
  <2>1. j - 1 \in 1..(q - 1) /\ j = (j - 1) + 1
    BY <1>2
  <2> QED
    BY <2>1
<1>4. \A k \in DOMAIN rest : \E j \in DOMAIN box : rest[k] = box[j]
  BY <1>2
<1>5. InOrder(rest)
  <2> SUFFICES ASSUME NEW k \in 1..(q - 1), NEW l \in 1..(q - 1), rest[k].t = "order",
                      rest[l].t = "order"
               PROVE  /\ rest[k].st = "NEW" => k =< l
                      /\ rest[k].st \in {"FILLED", "CANCELED", "REJECTED"} => l =< k
    BY <1>2 DEF InOrder
  <2>1. PICK k1 \in 1..q, l1 \in 1..q : k1 = k + 1 /\ l1 = l + 1
    BY <1>2
  <2>2. /\ box[k1].st = "NEW" => k1 =< l1
        /\ box[k1].st \in {"FILLED", "CANCELED", "REJECTED"} => l1 =< k1
    BY <1>2, <2>1 DEF InOrder
  <2> QED
    BY <1>2, <2>1, <2>2
<1>6. NoReports(box) => NoReports(rest)
  BY <1>2 DEF NoReports
<1>7. ASSUME NEW st
      PROVE  /\ Reports(rest, st) => Reports(box, st)
             /\ Reports(box, st) => Reports(rest, st) \/ (hd.t = "order" /\ hd.st = st)
  <2>1. Reports(rest, st) => Reports(box, st)
    BY <1>4 DEF Reports
  <2>2. ASSUME Reports(box, st) PROVE Reports(rest, st) \/ (hd.t = "order" /\ hd.st = st)
    <3>1. PICK j \in 1..q : box[j].t = "order" /\ box[j].st = st
      BY <1>2, <2>2 DEF Reports
    <3>2. CASE j = 1
      BY <1>2, <3>1, <3>2
    <3>3. CASE \E k \in 1..(q - 1) : j = k + 1
      BY <1>2, <3>1, <3>3 DEF Reports
    <3> QED
      BY <1>3, <3>2, <3>3
  <2> QED
    BY <2>1, <2>2
<1>8. ASSUME hd.t = "order", hd.st \in Endings PROVE NoReports(rest)
  <2> SUFFICES ASSUME NEW k \in 1..(q - 1), rest[k].t = "order" PROVE FALSE
    BY <1>2 DEF NoReports
  <2>1. PICK j \in 1..q : j = k + 1 /\ box[j].t = "order"
    BY <1>2
  <2>2. j =< 1
    BY <1>2, <1>8, <2>1 DEF InOrder, Endings
  <2> QED
    BY <2>1, <2>2
<1>9. ASSUME hd.t = "order", hd.st = "NEW" PROVE ~Reports(rest, "NEW")
  <2> SUFFICES ASSUME NEW k \in 1..(q - 1), rest[k].t = "order", rest[k].st = "NEW" PROVE FALSE
    BY <1>2 DEF Reports
  <2>1. PICK j \in 1..q : j = k + 1 /\ box[j].t = "order" /\ box[j].st = "NEW"
    BY <1>2
  <2>2. j =< 1
    BY <1>2, <1>9, <2>1 DEF InOrder
  <2> QED
    BY <2>1, <2>2
<1> QED
  BY <1>1, <1>4, <1>5, <1>6, <1>7, <1>8, <1>9 DEF BoxHandled

\* box2 is box with msg behind it.
BoxPosted(box, msg, box2) ==
    /\ \A k \in DOMAIN box2 : box2[k] = msg \/ \E j \in DOMAIN box : box2[k] = box[j]
    /\ \A st : Reports(box2, st) <=> Reports(box, st) \/ (msg.t = "order" /\ msg.st = st)
    /\ msg.t # "order" => InOrder(box2) /\ (NoReports(box) => NoReports(box2))
    /\ (msg.st = "NEW" => NoReports(box)) /\ (\A st \in Endings : ~Reports(box, st)) => InOrder(box2)

LEMMA BoxAppend ==
    ASSUME NEW S, NEW box \in Seq(S), NEW msg, InOrder(box)
    PROVE  BoxPosted(box, msg, Append(box, msg))
<1>1. PICK q, box2 : q = Len(box) /\ box2 = Append(box, msg)
  OBVIOUS
<1>2. /\ DOMAIN box = 1..q /\ DOMAIN box2 = 1..(q + 1) /\ q \in Nat
      /\ \A k \in 1..q : box2[k] = box[k] /\ k \in 1..(q + 1)
      /\ box2[q + 1] = msg /\ q + 1 \in 1..(q + 1)
      /\ \A k \in 1..(q + 1) : k = q + 1 \/ k \in 1..q
  BY <1>1
<1>3. \A k \in DOMAIN box2 : box2[k] = msg \/ \E j \in DOMAIN box : box2[k] = box[j]
  BY <1>2
<1>4. \A st : Reports(box2, st) <=> Reports(box, st) \/ (msg.t = "order" /\ msg.st = st)
  BY <1>2 DEF Reports
<1>5. msg.t # "order" => (NoReports(box) => NoReports(box2))
  BY <1>2 DEF NoReports
<1>6. ASSUME msg.t # "order" PROVE InOrder(box2)
  BY <1>2, <1>6 DEF InOrder
<1>7. ASSUME msg.st = "NEW" => NoReports(box), \A st \in Endings : ~Reports(box, st)
      PROVE  InOrder(box2)
  <2> SUFFICES ASSUME NEW k \in 1..(q + 1), NEW l \in 1..(q + 1), box2[k].t = "order",
                      box2[l].t = "order"
               PROVE  /\ box2[k].st = "NEW" => k =< l
                      /\ box2[k].st \in {"FILLED", "CANCELED", "REJECTED"} => l =< k
    BY <1>2 DEF InOrder
  <2>1. CASE k = q + 1
    <3>1. box2[k].st = "NEW" => l = q + 1
      BY <1>2, <1>7, <2>1 DEF NoReports
    <3> QED
      BY <1>2, <2>1, <3>1
  <2>2. CASE k \in 1..q
    <3>1. box2[k].st \notin {"FILLED", "CANCELED", "REJECTED"}
      BY <1>2, <1>7, <2>2 DEF Reports, Endings
    <3>2. box2[k].st = "NEW" => k =< l
      BY <1>2, <2>2 DEF InOrder
    <3> QED
      BY <3>1, <3>2
  <2> QED
    BY <1>2, <2>1, <2>2
<1> QED
  BY <1>1, <1>3, <1>4, <1>5, <1>6, <1>7 DEF BoxPosted

\* rest is what is left of reqs once its first request is taken.
ReqsTaken(n, reqs, hd, rest) ==
    /\ \A k \in DOMAIN rest : \E j \in DOMAIN reqs : rest[k] = reqs[j]
    /\ \A id : Cancels(rest, id) => Cancels(reqs, id)
    /\ \A k, l \in DOMAIN rest : rest[k] = rest[l] /\ rest[k].id = n => k = l
    /\ hd.id = n => \A k \in DOMAIN rest : rest[k] # hd
    /\ hd.op = "cancel" => Cancels(reqs, hd.id)
    /\ hd.op = "cancel" /\ hd.id = n => ~Cancels(rest, n)
    /\ \E j \in DOMAIN reqs : reqs[j] = hd

LEMMA ReqsTail ==
    ASSUME NEW n \in Nat, NEW reqs \in Seq(RequestSet(n)), reqs # <<>>, NEW ords, Len(ords) = n,
           Asked(ords, reqs)
    PROVE  ReqsTaken(n, reqs, Head(reqs), Tail(reqs))
<1>1. PICK q, rest, hd : q = Len(reqs) /\ rest = Tail(reqs) /\ hd = Head(reqs)
  OBVIOUS
<1>2. /\ DOMAIN reqs = 1..q /\ DOMAIN rest = 1..(q - 1) /\ q >= 1 /\ q \in Nat
      /\ \A k \in 1..(q - 1) : rest[k] = reqs[k + 1] /\ k + 1 \in 1..q
      /\ 1 \in 1..q /\ reqs[1] = hd
  BY <1>1, TailFacts
<1>3. \A k, l \in 1..q : reqs[k] = reqs[l] /\ reqs[k].id = n => k = l
  BY <1>2 DEF Asked
<1>4. \A k \in DOMAIN rest : \E j \in DOMAIN reqs : rest[k] = reqs[j]
  BY <1>2
<1>5. \A id : Cancels(rest, id) => Cancels(reqs, id)
  BY <1>4 DEF Cancels
<1>6. ASSUME NEW k \in 1..(q - 1), NEW l \in 1..(q - 1), rest[k] = rest[l], rest[k].id = n
      PROVE  k = l
  <2>1. PICK k1 \in 1..q, l1 \in 1..q : k1 = k + 1 /\ l1 = l + 1
    BY <1>2
  <2>2. k1 = l1
    BY <1>2, <1>3, <1>6, <2>1
  <2> QED
    BY <2>1, <2>2
<1>7. ASSUME hd.id = n, NEW k \in 1..(q - 1) PROVE rest[k] # hd
  <2>1. PICK k1 \in 1..q : k1 = k + 1 /\ k1 # 1
    BY <1>2
  <2> QED
    BY <1>2, <1>3, <1>7, <2>1
<1>8. hd.op = "cancel" => Cancels(reqs, hd.id)
  BY <1>2 DEF Cancels
<1>9. ASSUME hd.op = "cancel", hd.id = n PROVE ~Cancels(rest, n)
  <2> SUFFICES ASSUME NEW k \in 1..(q - 1), rest[k].op = "cancel", rest[k].id = n PROVE FALSE
    BY <1>2 DEF Cancels
  <2>1. rest[k] \in RequestSet(n) /\ hd \in RequestSet(n)
    BY <1>2
  <2>2. rest[k] = Request("cancel", n) /\ hd = Request("cancel", n)
    BY <1>9, <2>1, RequestFacts
  <2> QED
    BY <1>7, <1>9, <2>2
<1>10. \E j \in DOMAIN reqs : reqs[j] = hd
  BY <1>2
<1> QED
  BY <1>1, <1>2, <1>4, <1>5, <1>6, <1>7, <1>8, <1>9, <1>10 DEF ReqsTaken

\* reqs2 is reqs with r behind it.
ReqsPosted(reqs, r, reqs2) ==
    /\ \A k \in DOMAIN reqs2 : reqs2[k] = r \/ \E j \in DOMAIN reqs : reqs2[k] = reqs[j]
    /\ \A id : Cancels(reqs2, id) <=> Cancels(reqs, id) \/ (r.op = "cancel" /\ r.id = id)
    /\ (\A k, l \in DOMAIN reqs : reqs[k] = reqs[l] /\ reqs[k].id = r.id => k = l)
          /\ (\A k \in DOMAIN reqs : reqs[k] # r)
          => \A k, l \in DOMAIN reqs2 : reqs2[k] = reqs2[l] /\ reqs2[k].id = r.id => k = l

LEMMA ReqsAppend ==
    ASSUME NEW S, NEW reqs \in Seq(S), NEW r
    PROVE  ReqsPosted(reqs, r, Append(reqs, r))
<1>1. PICK q, reqs2 : q = Len(reqs) /\ reqs2 = Append(reqs, r)
  OBVIOUS
<1>2. /\ DOMAIN reqs = 1..q /\ DOMAIN reqs2 = 1..(q + 1) /\ q \in Nat
      /\ \A k \in 1..q : reqs2[k] = reqs[k] /\ k \in 1..(q + 1)
      /\ reqs2[q + 1] = r /\ q + 1 \in 1..(q + 1)
      /\ \A k \in 1..(q + 1) : k = q + 1 \/ k \in 1..q
  BY <1>1
<1>3. \A k \in DOMAIN reqs2 : reqs2[k] = r \/ \E j \in DOMAIN reqs : reqs2[k] = reqs[j]
  BY <1>2
<1>4. \A id : Cancels(reqs2, id) <=> Cancels(reqs, id) \/ (r.op = "cancel" /\ r.id = id)
  BY <1>2 DEF Cancels
<1>5. ASSUME \A k, l \in DOMAIN reqs : reqs[k] = reqs[l] /\ reqs[k].id = r.id => k = l,
             \A k \in DOMAIN reqs : reqs[k] # r,
             NEW k \in DOMAIN reqs2, NEW l \in DOMAIN reqs2, reqs2[k] = reqs2[l],
             reqs2[k].id = r.id
      PROVE  k = l
  BY <1>2, <1>5
<1> QED
  BY <1>1, <1>3, <1>4, <1>5 DEF ReqsPosted

-----------------------------------------------------------------------------
(* The exchange changes the last order *)

\* The last order changes and msg says so: it is accepted, refused, canceled,
\* filled, or filled in part.
LastStep(sim, ords, reqs, box, ords2, reqs2, msg) ==
    LET n == Len(ords) IN
    /\ n > 0 /\ Len(ords2) = n /\ FillsMore(ords, ords2, n, ords2[n].filled - ords[n].filled)
    /\ reqs \in Seq(RequestSet(n)) /\ box \in Seq(Tasks("MeanReversion", n))
    /\ Amount(sim, ords2[n])
    /\ msg.t = "order" /\ msg.id = n /\ msg.side = ords[n].side
    /\ \/ /\ reqs # <<>> /\ Head(reqs) = Request("place", n) /\ reqs2 = Tail(reqs)
          /\ \/ ords2[n].st = "open" /\ msg.st = "NEW"
             \/ ords2[n].st = "rejected" /\ msg.st = "REJECTED"
       \/ /\ reqs # <<>> /\ Head(reqs) = Request("cancel", n) /\ reqs2 = Tail(reqs)
          /\ ords[n].st = "open" /\ ords2[n].st = "canceled" /\ msg.st = "CANCELED"
       \/ /\ reqs2 = reqs /\ ords[n].st = "open"
          /\ \/ ords2[n].st = "filled" /\ msg.st = "FILLED"
             \/ ords2[n].st = "open" /\ msg.st = "PARTIALLY_FILLED"

\* What the three kinds of change have in common.
LastFacts(n, reqs, box, old, new, reqs2, msg) ==
    /\ old \in {"sent", "open"} /\ new # "sent"
    /\ \A k \in DOMAIN reqs2 : reqs2[k].op # "place" /\ \E j \in DOMAIN reqs : reqs2[k] = reqs[j]
    /\ \A id : Cancels(reqs2, id) => Cancels(reqs, id)
    /\ \A k, l \in DOMAIN reqs2 : reqs2[k] = reqs2[l] /\ reqs2[k].id = n => k = l
    /\ Cancels(reqs2, n) => new \in {"open", "filled"}
    /\ \A k \in DOMAIN box : box[k].t = "order" =>
           box[k].st \notin Endings /\ (box[k].st = "NEW" => new \in {"open", "filled"})
    /\ old = "sent" => NoReports(box)
    /\ msg.st = "NEW" => old = "sent" /\ ~Cancels(reqs2, n)
    /\ new = "canceled" => Cancels(reqs, n) /\ old = "open"
    /\ new = "rejected" => old = "sent"
    /\ new = "filled" => msg.st = "FILLED"
    /\ msg.st = "NEW" => new = "open"
    /\ msg.st = "FILLED" => new = "filled"
    /\ msg.st = "CANCELED" => new = "canceled"
    /\ msg.st = "REJECTED" => new = "rejected"

LEMMA LastFactsOK ==
    ASSUME NEW sim, NEW ords, NEW reqs, NEW box, NEW ords2, NEW reqs2, NEW msg,
           World(sim, ords, reqs, box), LastStep(sim, ords, reqs, box, ords2, reqs2, msg)
    PROVE  LastFacts(Len(ords), reqs, box, ords[Len(ords)].st, ords2[Len(ords)].st, reqs2, msg)
<1>1. PICK n, old, new : n = Len(ords) /\ old = ords[n].st /\ new = ords2[n].st
  OBVIOUS
<1>2. n \in Nat /\ Asked(ords, reqs) /\ ToldOf(ords, reqs, box)
  BY <1>1 DEF World, LastStep, FillsMore
<1>3. \A k \in DOMAIN box : box[k].t = "order" =>
          /\ old # "sent"
          /\ box[k].st = "NEW" => old \in {"open", "filled"} /\ ~Cancels(reqs, n)
          /\ box[k].st = "FILLED" => old = "filled"
          /\ box[k].st = "CANCELED" => old = "canceled"
          /\ box[k].st = "REJECTED" => old = "rejected"
  BY <1>1, <1>2 DEF ToldOf, ToldLast, Reports
<1>4. \A k \in DOMAIN reqs : /\ reqs[k].op \in {"place", "cancel"}
                             /\ reqs[k].op = "place" => reqs[k].id = n /\ old = "sent"
                             /\ reqs[k].op = "cancel" /\ reqs[k].id = n => old \in {"open", "filled"}
  BY <1>1, <1>2 DEF Asked
<1>5. \A k, l \in DOMAIN reqs : reqs[k] = reqs[l] /\ reqs[k].id = n => k = l
  BY <1>1, <1>2 DEF Asked
<1>6. reqs \in Seq(RequestSet(n))
  BY <1>1 DEF LastStep
<1>7. ASSUME reqs # <<>>, NEW rest, rest = Tail(reqs), NEW hd, hd = Head(reqs)
      PROVE  ReqsTaken(n, reqs, hd, rest)
  BY <1>1, <1>2, <1>6, <1>7, ReqsTail
<1>8. CASE /\ reqs # <<>> /\ Head(reqs) = Request("place", n) /\ reqs2 = Tail(reqs)
           /\ \/ new = "open" /\ msg.st = "NEW"
              \/ new = "rejected" /\ msg.st = "REJECTED"
  <2>1. PICK hd : hd = Head(reqs) /\ hd.op = "place" /\ hd.id = n /\ hd = Request("place", n)
    BY <1>8 DEF Request
  <2>2. ReqsTaken(n, reqs, hd, reqs2)
    BY <1>7, <1>8, <2>1
  <2>3. old = "sent"
    BY <1>4, <2>1, <2>2 DEF ReqsTaken
  <2>4. NoReports(box)
    BY <1>3, <2>3 DEF NoReports
  <2>5. ASSUME NEW k \in DOMAIN reqs2 PROVE reqs2[k].op # "place" /\ \E j \in DOMAIN reqs : reqs2[k] = reqs[j]
    <3>1. PICK j \in DOMAIN reqs : reqs2[k] = reqs[j]
      BY <2>2 DEF ReqsTaken
    <3>2. reqs[j].op = "place" => reqs[j] = hd
      <4>1. reqs[j] \in RequestSet(n)
        BY <1>6
      <4>2. reqs[j] = Request(reqs[j].op, reqs[j].id)
        BY <1>2, <4>1, RequestFacts
      <4> QED
        BY <1>4, <2>1, <4>2
    <3> QED
      BY <2>1, <2>2, <3>1, <3>2 DEF ReqsTaken
  <2>6. ~Cancels(reqs2, n)
    BY <1>4, <2>2, <2>3 DEF ReqsTaken, Cancels
  <2> QED
    BY <1>1, <1>8, <2>2, <2>3, <2>4, <2>5, <2>6 DEF LastFacts, ReqsTaken, NoReports
<1>9. CASE /\ reqs # <<>> /\ Head(reqs) = Request("cancel", n) /\ reqs2 = Tail(reqs)
           /\ old = "open" /\ new = "canceled" /\ msg.st = "CANCELED"
  <2>1. PICK hd : hd = Head(reqs) /\ hd.op = "cancel" /\ hd.id = n
    BY <1>9 DEF Request
  <2>2. ReqsTaken(n, reqs, hd, reqs2)
    BY <1>7, <1>9, <2>1
  <2>3. Cancels(reqs, n) /\ ~Cancels(reqs2, n)
    BY <2>1, <2>2 DEF ReqsTaken
  <2>4. \A k \in DOMAIN reqs2 : reqs2[k].op # "place" /\ \E j \in DOMAIN reqs : reqs2[k] = reqs[j]
    BY <1>4, <1>9, <2>2 DEF ReqsTaken
  <2>5. \A k \in DOMAIN box : box[k].t = "order" => box[k].st \notin Endings \cup {"NEW"}
    BY <1>3, <1>9, <2>3 DEF Endings
  <2> QED
    BY <1>1, <1>9, <2>2, <2>3, <2>4, <2>5 DEF LastFacts, ReqsTaken
<1>10. CASE /\ reqs2 = reqs /\ old = "open"
            /\ \/ new = "filled" /\ msg.st = "FILLED"
               \/ new = "open" /\ msg.st = "PARTIALLY_FILLED"
  <2>1. \A k \in DOMAIN reqs2 : reqs2[k].op # "place" /\ \E j \in DOMAIN reqs : reqs2[k] = reqs[j]
    BY <1>4, <1>10
  <2>2. \A k \in DOMAIN box : box[k].t = "order" => box[k].st \notin Endings
    BY <1>3, <1>10 DEF Endings
  <2> QED
    BY <1>1, <1>5, <1>10, <2>1, <2>2 DEF LastFacts
<1> QED
  BY <1>1, <1>8, <1>9, <1>10 DEF LastStep

LEMMA WorldStep ==
    ASSUME NEW sim, NEW ords, NEW reqs, NEW box, NEW ords2, NEW reqs2, NEW msg,
           World(sim, ords, reqs, box), LastStep(sim, ords, reqs, box, ords2, reqs2, msg)
    PROVE  World(sim, ords2, reqs2, Append(box, msg))
<1>1. PICK n, old, new, box2 : /\ n = Len(ords) /\ old = ords[n].st /\ new = ords2[n].st
                               /\ box2 = Append(box, msg)
  OBVIOUS
<1>2. LastFacts(n, reqs, box, old, new, reqs2, msg)
  BY <1>1, LastFactsOK
<1>3. /\ n \in Nat /\ n > 0 /\ Len(ords2) = n /\ DOMAIN ords = 1..n /\ DOMAIN ords2 = 1..n
      /\ \A id \in 1..n : id # n => ords2[id] = ords[id]
      /\ ords2[n].side = ords[n].side /\ Amount(sim, ords2[n])
      /\ box \in Seq(Tasks("MeanReversion", n)) /\ reqs \in Seq(RequestSet(n))
      /\ msg.t = "order" /\ msg.id = n /\ msg.side = ords[n].side
  <2>1. /\ n > 0 /\ Len(ords2) = n /\ Amount(sim, ords2[n])
        /\ FillsMore(ords, ords2, n, ords2[n].filled - ords[n].filled)
        /\ box \in Seq(Tasks("MeanReversion", n)) /\ reqs \in Seq(RequestSet(n))
        /\ msg.t = "order" /\ msg.id = n /\ msg.side = ords[n].side
    BY <1>1 DEF LastStep
  <2>2. /\ ords \in Seq(OrderSet) /\ ords2 \in Seq(OrderSet) /\ ords2[n].side = ords[n].side
        /\ \A id \in DOMAIN ords : id # n => ords2[id] = ords[id]
    BY <2>1 DEF FillsMore
  <2>3. n \in Nat /\ DOMAIN ords = 1..n /\ DOMAIN ords2 = 1..n
    BY <1>1, <2>1, <2>2
  <2> QED
    BY <2>1, <2>2, <2>3
<1>4. Made(sim, ords) /\ Asked(ords, reqs) /\ ToldOf(ords, reqs, box) /\ InOrder(box)
  BY DEF World, ToldOf
<1>5. Made(sim, ords2)
  BY <1>1, <1>3, <1>4 DEF Made
<1>6. Asked(ords2, reqs2)
  <2>1. ASSUME NEW k \in DOMAIN reqs2
        PROVE  /\ reqs2[k].op = "cancel" /\ reqs2[k].id \in 1..n
               /\ \/ ords2[reqs2[k].id].st = "filled"
                  \/ reqs2[k].id = n /\ new = "open"
    <3>1. PICK j \in DOMAIN reqs : reqs2[k] = reqs[j]
      BY <1>2 DEF LastFacts
    <3>2. reqs2[k].op = "cancel"
      BY <1>2, <1>4, <3>1 DEF LastFacts, Asked
    <3>3. reqs2[k].id \in 1..n
      BY <1>1, <1>4, <3>1, <3>2 DEF Asked
    <3>4. CASE reqs2[k].id = n
      <4>1. Cancels(reqs2, n)
        BY <3>2, <3>4 DEF Cancels
      <4> QED
        BY <1>1, <1>2, <3>2, <3>3, <3>4, <4>1 DEF LastFacts
    <3>5. CASE reqs2[k].id # n
      <4>1. ords[reqs2[k].id].st = "filled"
        BY <1>1, <1>4, <3>1, <3>2, <3>5 DEF Asked
      <4> QED
        BY <1>3, <3>2, <3>3, <3>5, <4>1
    <3> QED
      BY <3>4, <3>5
  <2>2. \A k, l \in DOMAIN reqs2 : reqs2[k] = reqs2[l] /\ reqs2[k].id = n => k = l
    BY <1>2 DEF LastFacts
  <2> QED
    BY <1>1, <1>3, <2>1, <2>2 DEF Asked
<1>7. BoxPosted(box, msg, box2)
  BY <1>1, <1>3, <1>4, BoxAppend
<1>8. ASSUME NEW k \in DOMAIN box2, box2[k].t = "order" PROVE ToldLast(ords2[n], n, box2[k])
  <2>1. CASE box2[k] = msg
    BY <1>1, <1>2, <1>3, <2>1 DEF LastFacts, ToldLast
  <2>2. CASE \E j \in DOMAIN box : box2[k] = box[j]
    <3>1. PICK j \in DOMAIN box : box2[k] = box[j]
      BY <2>2
    <3>2. ToldLast(ords[n], n, box[j])
      BY <1>1, <1>4, <1>8, <3>1 DEF ToldOf
    <3> QED
      BY <1>1, <1>2, <1>3, <1>8, <3>1, <3>2 DEF LastFacts, ToldLast, Endings
  <2> QED
    BY <1>7, <2>1, <2>2 DEF BoxPosted
<1>9. Reports(box2, "NEW") => ~Cancels(reqs2, n)
  BY <1>1, <1>2, <1>4, <1>7 DEF BoxPosted, LastFacts, ToldOf
<1>10. InOrder(box2)
  <2>1. \A st \in Endings : ~Reports(box, st)
    BY <1>2 DEF LastFacts, Reports
  <2> QED
    BY <1>2, <1>7, <2>1 DEF BoxPosted, LastFacts
<1>11. ToldOf(ords2, reqs2, box2)
  BY <1>3, <1>8, <1>9, <1>10 DEF ToldOf
<1> QED
  BY <1>1, <1>5, <1>6, <1>11 DEF World

LEMMA KnowsStep ==
    ASSUME NEW sim, NEW ords, NEW reqs, NEW box, NEW ords2, NEW reqs2, NEW msg,
           World(sim, ords, reqs, box), LastStep(sim, ords, reqs, box, ords2, reqs2, msg),
           NEW w, NEW t, Knows(ords, reqs, box, w, t)
    PROVE  Knows(ords2, reqs2, Append(box, msg), w, t)
<1>1. PICK n, old, new, box2 : /\ n = Len(ords) /\ old = ords[n].st /\ new = ords2[n].st
                               /\ box2 = Append(box, msg)
  OBVIOUS
<1>2. LastFacts(n, reqs, box, old, new, reqs2, msg)
  BY <1>1, LastFactsOK
<1>3. Len(ords2) = n /\ box \in Seq(Tasks("MeanReversion", n)) /\ InOrder(box) /\ msg.t = "order"
  BY <1>1 DEF LastStep, World, ToldOf
<1>4. BoxPosted(box, msg, box2)
  BY <1>1, <1>3, BoxAppend
<1>5. t.st # "FILLED" /\ w.st # "FILLED"
  BY <1>1, <1>2 DEF Knows, LastFacts
<1>6. new = "filled" => Reports(box2, "FILLED")
  BY <1>2, <1>3, <1>4 DEF LastFacts, BoxPosted
<1>7. ASSUME w.st = "NEW"
      PROVE  w.id = n /\ new \in {"open", "filled"} /\ ~Cancels(reqs2, n) /\ ~Reports(box2, "NEW")
  <2>1. w.id = n /\ old = "open" /\ ~Cancels(reqs, n) /\ ~Reports(box, "NEW")
    BY <1>1, <1>2, <1>7 DEF Knows, LastFacts
  <2>2. msg.st # "NEW" /\ ~Cancels(reqs2, n)
    BY <1>2, <2>1 DEF LastFacts
  <2>3. ~Reports(box2, "NEW")
    BY <1>4, <2>1, <2>2 DEF BoxPosted
  <2>4. new \in {"open", "filled"}
    <3>1. new \in {"open", "filled", "rejected", "canceled"}
      BY <1>1 DEF LastStep
    <3> QED
      BY <1>2, <2>1, <3>1 DEF LastFacts
  <2> QED
    BY <2>1, <2>2, <2>3, <2>4
<1> QED
  BY <1>1, <1>3, <1>5, <1>6, <1>7 DEF Knows

LEMMA MindStep ==
    ASSUME NEW sim, NEW ords, NEW reqs, NEW box, NEW ords2, NEW reqs2, NEW msg,
           World(sim, ords, reqs, box), LastStep(sim, ords, reqs, box, ords2, reqs2, msg),
           NEW m, Mind(ords, reqs, box, m), m.spread.initial.side \in OrderSides
    PROVE  Mind(ords2, reqs2, Append(box, msg), m)
<1>1. PICK n, old, new, box2, d : /\ n = Len(ords) /\ old = ords[n].st /\ new = ords2[n].st
                                  /\ box2 = Append(box, msg) /\ d = ords2[n].filled - ords[n].filled
  OBVIOUS
<1>2. LastFacts(n, reqs, box, old, new, reqs2, msg)
  BY <1>1, LastFactsOK
<1>3. /\ n > 0 /\ Len(ords2) = n /\ ords2[n].side = ords[n].side /\ FillsMore(ords, ords2, n, d)
      /\ d \in 0..2 /\ ords[n].filled \in 0..2 /\ ords2[n].filled = ords[n].filled + d
      /\ ords[n] \in OrderSet
  BY <1>1 DEF LastStep, FillsMore
<1>4. PositionOf(ords2) = PositionOf(ords) + Signed(ords[n].side, d)
  BY <1>3, PositionMore
<1>5. ords[n].side \in {"BUY", "SELL"}
  BY <1>3 DEF OrderSet, OrderSides
<1>6. m.spread.status # "NONE"
  BY <1>1, <1>2, <1>3 DEF Mind, Idle, LastFacts
<1>7. ASSUME m.spread.status = "PLACING_INITIAL_ORDER" PROVE Opening(ords2, reqs2, box2, m)
  <2>1. Opening(ords, reqs, box, m)
    BY <1>7 DEF Mind
  <2>2. Knows(ords2, reqs2, box2, m.m_initial_order, m.spread.initial)
    <3>1. Knows(ords, reqs, box, m.m_initial_order, m.spread.initial)
      BY <2>1 DEF Opening
    <3> QED
      BY <1>1, <3>1, KnowsStep
  <2>3. PositionOf(ords2) = Signed(ords2[n].side, ords2[n].filled)
    <3>1. PositionOf(ords) = Signed(ords[n].side, ords[n].filled)
      BY <1>1, <2>1 DEF Opening
    <3> QED
      BY <1>3, <1>4, <1>5, <3>1 DEF Signed
  <2> QED
    BY <1>3, <2>1, <2>2, <2>3 DEF Opening
<1>8. ASSUME m.spread.status \in HedgeStatuses PROVE Hedging(ords2, reqs2, box2, m)
  <2>1. Hedging(ords, reqs, box, m)
    BY <1>8 DEF Mind
  <2>2. Knows(ords2, reqs2, box2, m.m_hedge_order, m.spread.hedge)
    <3>1. Knows(ords, reqs, box, m.m_hedge_order, m.spread.hedge)
      BY <2>1 DEF Hedging
    <3> QED
      BY <1>1, <3>1, KnowsStep
  <2>3. PositionOf(ords2) = Signed(m.spread.initial.side, 2 - ords2[n].filled)
    <3>1. PositionOf(ords) = Signed(m.spread.initial.side, 2 - ords[n].filled)
          /\ ords[n].side = Opposite(m.spread.initial.side)
      BY <1>1, <2>1 DEF Hedging
    <3>2. PICK sd \in {"BUY", "SELL"} : sd = m.spread.initial.side
      BY DEF OrderSides
    <3> QED
      BY <1>3, <1>4, <1>5, <3>1, <3>2 DEF Signed, Opposite
  <2>4. ASSUME m.spread.status # "STOP_LOSS"
        PROVE  new # "canceled" /\ (Cancels(reqs2, n) => new = "filled")
    <3>1. Cancels(reqs, n) => old = "filled"
      BY <1>1, <2>1, <2>4 DEF Hedging
    <3>2. ~Cancels(reqs, n)
      BY <1>2, <3>1 DEF LastFacts
    <3> QED
      BY <1>2, <3>2 DEF LastFacts
  <2> QED
    BY <1>1, <1>3, <2>1, <2>2, <2>3, <2>4 DEF Hedging
<1> QED
  BY <1>1, <1>6, <1>7, <1>8 DEF Mind

-----------------------------------------------------------------------------
(* What the strategy asks for *)

\* A handler asks for nothing, for one order, or for one cancel.
AskedFor(ords, reqs, out, ords2, reqs2) ==
    /\ out = Quiet => ords2 = ords /\ reqs2 = reqs
    /\ \A side \in OrderSides : out = [Quiet EXCEPT !.place = <<side>>] =>
           /\ ords2 = Append(ords, [side |-> side, st |-> "sent", filled |-> 0])
           /\ reqs2 = Append(reqs, Request("place", Len(ords) + 1))
    /\ \A id \in 1..Len(ords) : out = [Quiet EXCEPT !.cancel = {id}] =>
           ords2 = ords /\ reqs2 = Append(reqs, Request("cancel", id))

LEMMA CancelOne ==
    ASSUME NEW id
    PROVE  Canceling({id}) = <<Request("cancel", id)>>
<1>1. PICK r, S : r = Request("cancel", id) /\ S = {r}
  OBVIOUS
<1>2. {Request("cancel", i) : i \in {id}} = S
  BY <1>1
<1>3. IsFiniteSet(S) /\ Cardinality(S) = 1
  BY <1>1, FS_Singleton
<1>4. SetToSeq(S) \in [1..1 -> S]
  BY <1>3, SetToSeqOK
<1>5. SetToSeq(S) = <<r>>
  BY <1>1, <1>4
<1> QED
  BY <1>1, <1>2, <1>5 DEF Canceling

LEMMA AskedForOK ==
    ASSUME TypeOK, NEW out, Sends(out)
    PROVE  AskedFor(orders, requests, out, orders', requests')
<1>1. PICK n, ords, reqs : n = Len(orders) /\ ords = orders /\ reqs = requests
  OBVIOUS
<1>2. n \in Nat /\ ords \in Seq(OrderSet) /\ reqs \in Seq(RequestSet(n))
  BY <1>1 DEF TypeOK
<1>3. orders' = ords \o MadeOrders(out.place)
  BY <1>1 DEF Sends, MadeOrders
<1>4. requests' = reqs \o Placing(n, out.place) \o Canceling(out.cancel) \o CancelingAll(out.all)
  BY <1>1 DEF Sends, Placing, Canceling, CancelingAll
<1>5. ASSUME out.all = FALSE PROVE CancelingAll(out.all) = <<>>
  BY <1>5 DEF CancelingAll
<1>6. ASSUME out.place = <<>> PROVE orders' = ords /\ Placing(n, out.place) = <<>>
  <2>1. MadeOrders(<<>>) = <<>> /\ Placing(n, <<>>) = <<>>
    BY DEF MadeOrders, Placing
  <2>2. ords \o <<>> = ords
    BY <1>2
  <2> QED
    BY <1>3, <1>6, <2>1, <2>2
<1>7. Canceling({}) = <<>>
  <2>1. IsFiniteSet({}) /\ Cardinality({}) = 0
    BY FS_EmptySet
  <2>2. SetToSeq({}) \in Seq({}) /\ Len(SetToSeq({})) = 0
    BY <2>1, SetToSeqOK
  <2>3. SetToSeq({}) = <<>>
    BY <2>2
  <2>4. {Request("cancel", i) : i \in {}} = {}
    OBVIOUS
  <2> QED
    BY <2>3, <2>4 DEF Canceling
<1>8. ASSUME out = Quiet PROVE orders' = ords /\ requests' = reqs
  <2>1. out.place = <<>> /\ out.cancel = {} /\ out.all = FALSE
    BY <1>8 DEF Quiet
  <2>2. requests' = reqs \o <<>> \o <<>> \o <<>>
    BY <1>4, <1>5, <1>6, <1>7, <2>1
  <2>3. reqs \o <<>> = reqs
    BY <1>2
  <2> QED
    BY <1>6, <2>1, <2>2, <2>3
<1>9. ASSUME NEW side \in OrderSides, out = [Quiet EXCEPT !.place = <<side>>]
      PROVE  /\ orders' = Append(ords, [side |-> side, st |-> "sent", filled |-> 0])
             /\ requests' = Append(reqs, Request("place", n + 1))
  <2>1. out.place = <<side>> /\ out.cancel = {} /\ out.all = FALSE
    BY <1>9 DEF Quiet
  <2>2. PICK o, r : o = [side |-> side, st |-> "sent", filled |-> 0] /\ r = Request("place", n + 1)
    OBVIOUS
  <2>3. MadeOrders(<<side>>) = <<o>>
    BY <2>2 DEF MadeOrders
  <2>4. Placing(n, <<side>>) = <<r>>
    BY <1>2, <2>2 DEF Placing
  <2>5. o \in OrderSet
    BY <2>2 DEF OrderSet
  <2>6. orders' = Append(ords, o)
    BY <1>2, <1>3, <2>1, <2>3, <2>5, AppendIs
  <2>7. requests' = reqs \o <<r>> \o <<>> \o <<>>
    BY <1>4, <1>5, <1>7, <2>1, <2>4
  <2>8. reqs \in Seq(RequestSet(n + 1)) /\ r \in RequestSet(n + 1)
    <3>1. PICK n1 \in Nat : n1 = n + 1 /\ n =< n1 /\ n1 \in 1..n1
      BY <1>2
    <3>2. RequestSet(n) \subseteq RequestSet(n1) /\ r \in RequestSet(n1)
      BY <1>2, <2>2, <3>1, RequestFacts
    <3> QED
      BY <1>2, <3>1, <3>2
  <2>9. PICK more : more = Append(reqs, r) /\ more = reqs \o <<r>> /\ more \in Seq(RequestSet(n + 1))
    BY <2>8, AppendIs
  <2>10. more \o <<>> = more
    BY <2>9
  <2> QED
    BY <2>2, <2>6, <2>7, <2>9, <2>10
<1>10. ASSUME NEW id \in 1..n, out = [Quiet EXCEPT !.cancel = {id}]
       PROVE  orders' = ords /\ requests' = Append(reqs, Request("cancel", id))
  <2>1. out.place = <<>> /\ out.cancel = {id} /\ out.all = FALSE
    BY <1>10 DEF Quiet
  <2>2. PICK r : r = Request("cancel", id) /\ r \in RequestSet(n)
    <3>1. id \in HeardOf(n)
      BY DEF HeardOf
    <3> QED
      BY <1>2, <3>1, RequestFacts
  <2>3. Canceling({id}) = <<r>>
    BY <2>2, CancelOne
  <2>4. requests' = reqs \o <<>> \o <<r>> \o <<>>
    BY <1>4, <1>5, <1>6, <2>1, <2>3
  <2>5. reqs \o <<>> = reqs
    BY <1>2
  <2>6. PICK more : more = Append(reqs, r) /\ more = reqs \o <<r>> /\ more \in Seq(RequestSet(n))
    BY <1>2, <2>2, AppendIs
  <2>7. more \o <<>> = more
    BY <2>6
  <2> QED
    BY <1>6, <2>1, <2>2, <2>4, <2>5, <2>6, <2>7
<1> QED
  BY <1>1, <1>8, <1>9, <1>10 DEF AskedFor

\* The order in ords2 behind the ords, all of which have ended.
Placed(ords, reqs, rest, side, ords2, reqs2) ==
    LET n == Len(ords) IN
    /\ ords \in Seq(OrderSet) /\ reqs \in Seq(RequestSet(n))
    /\ n > 0 => ords[n].st \in {"filled", "canceled", "rejected"}
    /\ NoReports(rest) /\ side \in OrderSides
    /\ ords2 = Append(ords, [side |-> side, st |-> "sent", filled |-> 0])
    /\ reqs2 = Append(reqs, Request("place", n + 1))

PlacedLast(ords, ords2, reqs2, side) ==
    /\ Len(ords2) = Len(ords) + 1 /\ Len(ords2) > 0
    /\ ords2[Len(ords2)] = [side |-> side, st |-> "sent", filled |-> 0]
    /\ PositionOf(ords2) = PositionOf(ords) /\ ~Cancels(reqs2, Len(ords2))

LEMMA PlacedWorld ==
    ASSUME NEW sim, NEW ords, NEW reqs, NEW rest, NEW side, NEW ords2, NEW reqs2,
           World(sim, ords, reqs, rest), Placed(ords, reqs, rest, side, ords2, reqs2)
    PROVE  World(sim, ords2, reqs2, rest) /\ PlacedLast(ords, ords2, reqs2, side)
<1>1. PICK n, o, r : /\ n = Len(ords) /\ o = [side |-> side, st |-> "sent", filled |-> 0]
                     /\ r = Request("place", n + 1)
  OBVIOUS
<1>2. /\ ords \in Seq(OrderSet) /\ reqs \in Seq(RequestSet(n)) /\ NoReports(rest)
      /\ n > 0 => ords[n].st \in {"filled", "canceled", "rejected"}
      /\ ords2 = Append(ords, o) /\ reqs2 = Append(reqs, r)
  BY <1>1 DEF Placed
<1>3. o.side = side /\ o.st = "sent" /\ o.filled = 0 /\ r.op = "place" /\ r.id = n + 1
  BY <1>1 DEF Request
<1>4. n \in Nat /\ Len(ords2) = n + 1 /\ ords2[n + 1] = o /\ \A id \in 1..n : ords2[id] = ords[id]
  BY <1>1, <1>2
<1>5. Made(sim, ords) /\ Asked(ords, reqs)
  BY DEF World
<1>6. Made(sim, ords2)
  <2> SUFFICES ASSUME NEW id \in 1..(n + 1)
               PROVE  /\ Amount(sim, ords2[id])
                      /\ id < n + 1 => ords2[id].st \in {"filled", "canceled", "rejected"}
    BY <1>4 DEF Made
  <2>1. CASE id = n + 1
    BY <1>3, <1>4, <2>1 DEF Amount
  <2>2. CASE id \in 1..n
    <3>1. Amount(sim, ords[id]) /\ (id < n => ords[id].st \in {"filled", "canceled", "rejected"})
      BY <1>1, <1>5, <2>2 DEF Made
    <3> QED
      BY <1>2, <1>4, <2>2, <3>1
  <2> QED
    BY <1>4, <2>1, <2>2
<1>7. ReqsPosted(reqs, r, reqs2)
  BY <1>2, ReqsAppend
<1>8. ASSUME NEW k \in DOMAIN reqs
      PROVE  reqs[k].op = "cancel" /\ reqs[k].id \in 1..n /\ ords[reqs[k].id].st = "filled"
  <2>1. reqs[k] \in RequestSet(n)
    BY <1>2, <1>8
  <2>2. reqs[k].op \in {"place", "cancel"}
    BY <1>5, <1>8 DEF Asked
  <2>3. reqs[k].id \in 1..n
    <3>1. reqs[k].op = "place" => reqs[k].id \in 1..n
      BY <1>4, <2>1, RequestFacts
    <3> QED
      BY <1>1, <1>5, <1>8, <2>2, <3>1 DEF Asked
  <2>4. ords[n].st \in {"filled", "canceled", "rejected"}
    BY <1>2, <1>4, <2>3
  <2> QED
    BY <1>1, <1>5, <1>8, <2>2, <2>3, <2>4 DEF Asked
<1>9. \A k \in DOMAIN reqs : reqs[k].id # n + 1 /\ reqs[k] # r
  BY <1>3, <1>4, <1>8
<1>10. \A k, l \in DOMAIN reqs2 : reqs2[k] = reqs2[l] /\ reqs2[k].id = n + 1 => k = l
  BY <1>3, <1>7, <1>9 DEF ReqsPosted
<1>11. ASSUME NEW k \in DOMAIN reqs2
       PROVE  /\ reqs2[k].op \in {"place", "cancel"}
              /\ reqs2[k].op = "place" => reqs2[k].id = n + 1
              /\ reqs2[k].op = "cancel" => /\ reqs2[k].id \in 1..(n + 1)
                                           /\ ords2[reqs2[k].id].st = "filled"
  <2>1. CASE reqs2[k] = r
    BY <1>3, <2>1
  <2>2. CASE \E j \in DOMAIN reqs : reqs2[k] = reqs[j]
    <3>1. PICK j \in DOMAIN reqs : reqs2[k] = reqs[j]
      BY <2>2
    <3> QED
      BY <1>4, <1>8, <3>1
  <2> QED
    BY <1>7, <2>1, <2>2 DEF ReqsPosted
<1>12. Asked(ords2, reqs2)
  BY <1>3, <1>4, <1>10, <1>11 DEF Asked
<1>13. ToldOf(ords2, reqs2, rest)
  BY <1>2 DEF ToldOf, NoReports, Reports, InOrder
<1>14. ~Cancels(reqs2, n + 1)
  BY <1>3, <1>7, <1>9 DEF ReqsPosted, Cancels
<1>15. PositionOf(ords2) = PositionOf(ords)
  BY <1>2, <1>3, PositionPlaced
<1> QED
  BY <1>1, <1>4, <1>6, <1>12, <1>13, <1>14, <1>15 DEF World, PlacedLast

LEMMA CanceledWorld ==
    ASSUME NEW sim, NEW ords, NEW reqs, NEW rest, NEW reqs2, World(sim, ords, reqs, rest),
           Len(ords) \in Nat, Len(ords) > 0, reqs \in Seq(RequestSet(Len(ords))),
           ords[Len(ords)].st \in {"open", "filled"}, ~Cancels(reqs, Len(ords)),
           ~Reports(rest, "NEW"), reqs2 = Append(reqs, Request("cancel", Len(ords)))
    PROVE  World(sim, ords, reqs2, rest)
<1>1. PICK n, r : n = Len(ords) /\ r = Request("cancel", n) /\ r.op = "cancel" /\ r.id = n
  BY DEF Request
<1>2. ReqsPosted(reqs, r, reqs2)
  BY <1>1, ReqsAppend
<1>3. Made(sim, ords) /\ Asked(ords, reqs) /\ ToldOf(ords, reqs, rest)
  BY DEF World
<1>4. \A k \in DOMAIN reqs : reqs[k] # r
  BY <1>1 DEF Cancels
<1>5. \A k, l \in DOMAIN reqs2 : reqs2[k] = reqs2[l] /\ reqs2[k].id = n => k = l
  BY <1>1, <1>2, <1>3, <1>4 DEF ReqsPosted, Asked
<1>6. ASSUME NEW k \in DOMAIN reqs2
      PROVE  /\ reqs2[k].op \in {"place", "cancel"}
             /\ reqs2[k].op = "place" => reqs2[k].id = n /\ ords[n].st = "sent"
             /\ reqs2[k].op = "cancel" => /\ reqs2[k].id \in 1..n
                                          /\ \/ ords[reqs2[k].id].st = "filled"
                                             \/ reqs2[k].id = n /\ ords[n].st = "open"
  <2>1. CASE reqs2[k] = r
    BY <1>1, <2>1
  <2>2. CASE \E j \in DOMAIN reqs : reqs2[k] = reqs[j]
    BY <1>1, <1>3, <2>2 DEF Asked
  <2> QED
    BY <1>2, <2>1, <2>2 DEF ReqsPosted
<1>7. Asked(ords, reqs2)
  BY <1>1, <1>5, <1>6 DEF Asked
<1>8. ToldOf(ords, reqs2, rest)
  BY <1>3 DEF ToldOf
<1> QED
  BY <1>3, <1>7, <1>8 DEF World

\* A task is handled, and the strategy has not learned that an order is filled.
LEMMA WorldTail ==
    ASSUME NEW sim, NEW ords, NEW reqs, NEW box, NEW hd, NEW rest,
           World(sim, ords, reqs, box), BoxHandled(box, hd, rest)
    PROVE  World(sim, ords, reqs, rest)
<1>1. Made(sim, ords) /\ Asked(ords, reqs) /\ ToldOf(ords, reqs, box)
  BY DEF World
<1>2. \A k \in DOMAIN rest : rest[k].t = "order" => ToldLast(ords[Len(ords)], Len(ords), rest[k])
  BY <1>1 DEF ToldOf, BoxHandled
<1>3. Reports(rest, "NEW") => ~Cancels(reqs, Len(ords))
  BY <1>1 DEF ToldOf, BoxHandled
<1>4. InOrder(rest)
  BY DEF BoxHandled
<1> QED
  BY <1>1, <1>2, <1>3, <1>4 DEF World, ToldOf

LEMMA KnowsTail ==
    ASSUME NEW ords, NEW reqs, NEW box, NEW hd, NEW rest, NEW w, NEW t,
           Knows(ords, reqs, box, w, t), BoxHandled(box, hd, rest),
           hd.t = "order" => hd.st # "FILLED"
    PROVE  Knows(ords, reqs, rest, w, t)
<1>1. Reports(box, "FILLED") => Reports(rest, "FILLED")
  BY DEF BoxHandled
<1>2. Reports(rest, "NEW") => Reports(box, "NEW")
  BY DEF BoxHandled
<1>3. NoReports(box) => NoReports(rest)
  BY DEF BoxHandled
<1> QED
  BY <1>1, <1>2, <1>3 DEF Knows

LEMMA MindTail ==
    ASSUME NEW ords, NEW reqs, NEW box, NEW hd, NEW rest, NEW m,
           Mind(ords, reqs, box, m), BoxHandled(box, hd, rest),
           hd.t = "order" => hd.st # "FILLED"
    PROVE  Mind(ords, reqs, rest, m)
<1>1. ASSUME m.spread.status = "NONE" PROVE Idle(ords, rest, m)
  BY <1>1 DEF Mind, Idle, BoxHandled
<1>2. ASSUME m.spread.status = "PLACING_INITIAL_ORDER" PROVE Opening(ords, reqs, rest, m)
  <2>1. Opening(ords, reqs, box, m)
    BY <1>2 DEF Mind
  <2>2. Knows(ords, reqs, rest, m.m_initial_order, m.spread.initial)
    BY <2>1, KnowsTail DEF Opening
  <2> QED
    BY <2>1, <2>2 DEF Opening
<1>3. ASSUME m.spread.status \in HedgeStatuses PROVE Hedging(ords, reqs, rest, m)
  <2>1. Hedging(ords, reqs, box, m)
    BY <1>3 DEF Mind
  <2>2. Knows(ords, reqs, rest, m.m_hedge_order, m.spread.hedge)
    BY <2>1, KnowsTail DEF Hedging
  <2> QED
    BY <2>1, <2>2 DEF Hedging
<1> QED
  BY <1>1, <1>2, <1>3 DEF Mind

-----------------------------------------------------------------------------
(* The handlers of a snapshot *)

\* What a snapshot makes of the spread capture s.
SpreadMoves(s, s2) ==
    /\ s.prices >= Window => s2.prices = s.prices
    /\ s.status = "NONE" /\ s.initial.st # "FILLED" =>
           \/ s2.status = "NONE" /\ s2.initial = s.initial
           \/ /\ s2.status = "PLACING_INITIAL_ORDER" /\ s2.initial.st = "NOT_AVAILABLE"
              /\ s2.hedge = NullOrder /\ s2.prices >= Window
    /\ s.status = "PLACING_INITIAL_ORDER" /\ s.prices >= Window /\ s.initial.st # "FILLED" =>
           /\ s2.status = "PLACING_INITIAL_ORDER" /\ s2.initial.st = "NOT_AVAILABLE"
           /\ s2.hedge = NullOrder
    /\ s.status = "PLACING_INITIAL_ORDER" /\ s.prices >= Window /\ s.initial.st = "FILLED" =>
           /\ s2.status = "PLACING_HEDGE_ORDER" /\ s2.initial = s.initial
           /\ s2.hedge.st = "NOT_AVAILABLE" /\ s2.hedge.side = Opposite(s.initial.side)
    /\ s.status = "PLACING_HEDGE_ORDER" /\ s.prices >= Window /\ s.hedge.st = "NEW" =>
           /\ s2.status = "WAITING_FOR_HEDGE_ORDER_FILLED"
           /\ s2.initial = s.initial /\ s2.hedge = s.hedge
    /\ s.status \in {"WAITING_FOR_HEDGE_ORDER_FILLED", "STOP_LOSS"} /\ s.prices >= Window =>
           IF s.hedge.st = "FILLED"
           THEN s2.status = "NONE" /\ s2.initial = NullOrder
           ELSE /\ s2.status \in {"WAITING_FOR_HEDGE_ORDER_FILLED", "STOP_LOSS"}
                /\ s.status = "STOP_LOSS" => s2.status = "STOP_LOSS"
                /\ s2.initial = s.initial /\ s2.hedge = s.hedge

LEMMA SpreadMovesOK ==
    ASSUME NEW n \in Nat, NEW s \in SpreadSet(n), NEW x
    PROVE  SpreadMoves(s, SpreadSnapshot(s, x))
<1>1. PICK s1, s2 : /\ s1 = [s EXCEPT !.prices = IF @ < Window THEN @ + 1 ELSE @]
                    /\ s2 = SpreadSnapshot(s, x)
  OBVIOUS
<1>2. Window \in Nat
  BY StrategyAssumption
<1>3. PICK st, in, he, pr :
          /\ s = [status |-> st, initial |-> in, hedge |-> he, prices |-> pr]
          /\ pr \in Nat /\ in \in Remembered(n)
  BY DEF SpreadSet
<1>4. PICK p1 : p1 = (IF pr < Window THEN pr + 1 ELSE pr)
  OBVIOUS
<1>5. s1 = [status |-> st, initial |-> in, hedge |-> he, prices |-> p1]
  BY <1>1, <1>3, <1>4
<1>6. p1 \in Nat /\ (pr >= Window => p1 = pr)
  BY <1>2, <1>3, <1>4
<1>7. s.status = st /\ s.initial = in /\ s.hedge = he /\ s.prices = pr
  BY <1>3
<1>8. s1.status = st /\ s1.initial = in /\ s1.hedge = he /\ s1.prices = p1
  BY <1>5
<1>9. PICK o : o = [in EXCEPT !.st = "NOT_AVAILABLE", !.side = IF x.above THEN "SELL" ELSE "BUY"]
  OBVIOUS
<1>10. o.st = "NOT_AVAILABLE"
  <2>1. PICK i, t, sd : in = [id |-> i, st |-> t, side |-> sd]
    BY <1>3 DEF Remembered
  <2> QED
    BY <1>9, <2>1
<1>11. PICK h : h = [NullOrder EXCEPT !.side = Opposite(in.side)]
  OBVIOUS
<1>12. h.st = "NOT_AVAILABLE" /\ h.side = Opposite(in.side)
  BY <1>11 DEF NullOrder
<1>13. p1 < Window => s2 = s1
  BY <1>1, <1>8 DEF SpreadSnapshot
<1>14. Targets(s1, x) = IF in.st # "FILLED"
           THEN [status |-> "PLACING_INITIAL_ORDER", initial |-> o, hedge |-> NullOrder, prices |-> p1]
           ELSE [status |-> "PLACING_HEDGE_ORDER", initial |-> in, hedge |-> h, prices |-> p1]
  <2>1. CASE in.st # "FILLED"
    <3>1. Targets(s1, x) = [s1 EXCEPT !.hedge = NullOrder, !.initial = o,
                                      !.status = "PLACING_INITIAL_ORDER"]
      BY <1>8, <1>9, <2>1 DEF Targets
    <3>2. PICK s3 : s3 = [s1 EXCEPT !.hedge = NullOrder]
      OBVIOUS
    <3>3. PICK s4 : s4 = [s3 EXCEPT !.initial = o]
      OBVIOUS
    <3>4. s3 = [status |-> st, initial |-> in, hedge |-> NullOrder, prices |-> p1]
      BY <1>5, <3>2
    <3>5. s4 = [status |-> st, initial |-> o, hedge |-> NullOrder, prices |-> p1]
      BY <3>4, <3>3
    <3>6. Targets(s1, x) = [s4 EXCEPT !.status = "PLACING_INITIAL_ORDER"]
      BY <3>1, <3>2, <3>3
    <3>7. [s4 EXCEPT !.status = "PLACING_INITIAL_ORDER"]
              = [status |-> "PLACING_INITIAL_ORDER", initial |-> o, hedge |-> NullOrder, prices |-> p1]
      BY <3>5
    <3> QED
      BY <2>1, <3>6, <3>7
  <2>2. CASE in.st = "FILLED"
    <3>1. Targets(s1, x) = [s1 EXCEPT !.hedge = h, !.status = "PLACING_HEDGE_ORDER"]
      BY <1>8, <1>11, <2>2 DEF Targets
    <3>2. PICK s3 : s3 = [s1 EXCEPT !.hedge = h]
      OBVIOUS
    <3>3. s3 = [status |-> st, initial |-> in, hedge |-> h, prices |-> p1]
      BY <1>5, <3>2
    <3>4. Targets(s1, x) = [s3 EXCEPT !.status = "PLACING_HEDGE_ORDER"]
      BY <3>1, <3>2
    <3>5. [s3 EXCEPT !.status = "PLACING_HEDGE_ORDER"]
              = [status |-> "PLACING_HEDGE_ORDER", initial |-> in, hedge |-> h, prices |-> p1]
      BY <3>3
    <3> QED
      BY <2>2, <3>4, <3>5
  <2> QED
    BY <2>1, <2>2
<1>15. RoundOver(s1) = [status |-> "NONE", initial |-> NullOrder, hedge |-> NullOrder, prices |-> p1]
  <2>1. PICK s3 : s3 = [s1 EXCEPT !.initial = NullOrder]
    OBVIOUS
  <2>2. PICK s4 : s4 = [s3 EXCEPT !.hedge = NullOrder]
    OBVIOUS
  <2>3. s3 = [status |-> st, initial |-> NullOrder, hedge |-> he, prices |-> p1]
    BY <1>5, <2>1
  <2>4. s4 = [status |-> st, initial |-> NullOrder, hedge |-> NullOrder, prices |-> p1]
    BY <2>3, <2>2
  <2>5. RoundOver(s1) = [s4 EXCEPT !.status = "NONE"]
    BY <2>1, <2>2 DEF RoundOver
  <2>6. [s4 EXCEPT !.status = "NONE"]
            = [status |-> "NONE", initial |-> NullOrder, hedge |-> NullOrder, prices |-> p1]
    BY <2>4
  <2> QED
    BY <2>5, <2>6
<1>16. p1 >= Window => ~(p1 < Window)
  BY <1>2, <1>6
<1>17. CASE p1 < Window
  <2>1. ~(pr >= Window)
    BY <1>2, <1>3, <1>6, <1>17
  <2> QED
    BY <1>1, <1>7, <1>8, <1>13, <1>17, <2>1 DEF SpreadMoves
<1>18. CASE ~(p1 < Window)
  <2>1. p1 >= Window
    BY <1>2, <1>6, <1>18
  <2>2. CASE st \in {"NONE", "PLACING_INITIAL_ORDER"}
    <3>1. s2 = Targets(s1, x)
      BY <1>1, <1>8, <1>18, <2>2 DEF SpreadSnapshot
    <3>2. CASE in.st # "FILLED"
      <4>1. s2.status = "PLACING_INITIAL_ORDER" /\ s2.initial = o /\ s2.hedge = NullOrder /\ s2.prices = p1
        BY <1>14, <3>1, <3>2
      <4> QED
        BY <1>1, <1>6, <1>7, <1>10, <2>1, <2>2, <3>2, <4>1 DEF SpreadMoves
    <3>3. CASE in.st = "FILLED"
      <4>1. s2.status = "PLACING_HEDGE_ORDER" /\ s2.initial = in /\ s2.hedge = h /\ s2.prices = p1
        BY <1>14, <3>1, <3>3
      <4> QED
        BY <1>1, <1>6, <1>7, <1>12, <2>1, <2>2, <3>3, <4>1 DEF SpreadMoves
    <3> QED
      BY <3>2, <3>3
  <2>3. CASE st = "PLACING_HEDGE_ORDER"
    <3>1. s2 = IF he.st = "NEW" THEN [s1 EXCEPT !.status = "WAITING_FOR_HEDGE_ORDER_FILLED"] ELSE s1
      BY <1>1, <1>8, <1>18, <2>3 DEF SpreadSnapshot
    <3>2. /\ s2.prices = p1 /\ s2.initial = in /\ s2.hedge = he
          /\ he.st = "NEW" => s2.status = "WAITING_FOR_HEDGE_ORDER_FILLED"
      BY <1>5, <1>8, <3>1
    <3> QED
      BY <1>1, <1>6, <1>7, <2>3, <3>2 DEF SpreadMoves
  <2>4. CASE st \in {"WAITING_FOR_HEDGE_ORDER_FILLED", "STOP_LOSS"}
    <3>1. s2 = IF he.st = "FILLED" THEN RoundOver(s1)
               ELSE IF st = "WAITING_FOR_HEDGE_ORDER_FILLED" /\ x.loss
               THEN [s1 EXCEPT !.status = "STOP_LOSS"] ELSE s1
      BY <1>1, <1>8, <1>18, <2>4 DEF SpreadSnapshot
    <3>2. CASE he.st = "FILLED"
      <4>1. s2.status = "NONE" /\ s2.initial = NullOrder /\ s2.prices = p1
        BY <1>15, <3>1, <3>2
      <4> QED
        BY <1>1, <1>6, <1>7, <2>4, <3>2, <4>1 DEF SpreadMoves
    <3>3. CASE he.st # "FILLED"
      <4>1. /\ s2.prices = p1 /\ s2.initial = in /\ s2.hedge = he
            /\ s2.status = st \/ s2.status = "STOP_LOSS"
        BY <1>5, <1>8, <3>1, <3>3
      <4> QED
        BY <1>1, <1>6, <1>7, <2>4, <3>3, <4>1 DEF SpreadMoves
    <3> QED
      BY <3>2, <3>3
  <2>5. st \in {"NONE", "PLACING_INITIAL_ORDER"} \cup HedgeStatuses
    BY <1>7 DEF SpreadSet
  <2> QED
    BY <2>2, <2>3, <2>4, <2>5 DEF HedgeStatuses
<1> QED
  BY <1>17, <1>18

\* The members of the RUN state, as Mind sees them.
Member(m, s, w, h) == m.spread = s /\ m.m_initial_order = w /\ m.m_hedge_order = h

LEMMA MemberChanges ==
    ASSUME NEW n, NEW m \in ReversionSet(n), NEW s, NEW w, NEW h, Member(m, s, w, h)
    PROVE  /\ \A s2 : Member([m EXCEPT !.spread = s2], s2, w, h)
           /\ \A w2 : Member([m EXCEPT !.m_initial_order = w2], s, w2, h)
           /\ \A h2 : Member([m EXCEPT !.m_hedge_order = h2], s, w, h2)
           /\ \A i : Member([m EXCEPT !.m_pnl = i], s, w, h)
<1>1. m = [spread |-> s, m_initial_order |-> w, m_hedge_order |-> h, m_pnl |-> m.m_pnl]
  BY DEF ReversionSet, Member
<1>2. PICK p : m = [spread |-> s, m_initial_order |-> w, m_hedge_order |-> h, m_pnl |-> p]
  BY <1>1
<1> QED
  BY <1>2 DEF Member

\* What handle_order_book_snapshot makes of its members, and what it asks for.
SnapshotDoes(n, s2, w, h, done) ==
    /\ s2.status = "NONE" => Member(done.mem, s2, NullOrder, NullOrder) /\ done.out = Quiet
    /\ s2.status = "PLACING_INITIAL_ORDER" =>
           \/ /\ w.id = 0 /\ done.out = [Quiet EXCEPT !.place = <<"BUY">>]
              /\ Member(done.mem, s2, get_limit_order(n + 1, "BUY"), h)
           \/ /\ w # NullOrder /\ w.st = "NEW" /\ done.out = [Quiet EXCEPT !.cancel = {w.id}]
              /\ Member(done.mem, s2, [w EXCEPT !.st = "NOT_AVAILABLE"], h)
           \/ w # NullOrder /\ Member(done.mem, s2, w, h) /\ done.out = Quiet
    /\ s2.status = "PLACING_HEDGE_ORDER" =>
           /\ Member(done.mem, s2, w, get_limit_order(n + 1, s2.hedge.side))
           /\ done.out = [Quiet EXCEPT !.place = <<s2.hedge.side>>]
    /\ s2.status = "WAITING_FOR_HEDGE_ORDER_FILLED" =>
           done.out = Quiet /\ (h.st # "FILLED" => Member(done.mem, s2, w, h))
    /\ s2.status = "STOP_LOSS" =>
           \/ /\ h.st = "NEW" /\ done.out = [Quiet EXCEPT !.cancel = {h.id}]
              /\ Member(done.mem, s2, w, [h EXCEPT !.st = "NOT_AVAILABLE"])
           \/ Member(done.mem, s2, w, h) /\ done.out = Quiet

LEMMA SnapshotDoesOK ==
    ASSUME NEW n \in Nat, NEW m0 \in ReversionSet(n), NEW x
    PROVE  SnapshotDoes(n, SpreadSnapshot(m0.spread, x), m0.m_initial_order, m0.m_hedge_order,
                        ReversionSnapshot(m0, x, n + 1))
<1>1. PICK s0, s2, w, h, done, m, f :
          /\ s0 = m0.spread /\ s2 = SpreadSnapshot(m0.spread, x) /\ w = m0.m_initial_order
          /\ h = m0.m_hedge_order /\ done = ReversionSnapshot(m0, x, n + 1)
          /\ m = [m0 EXCEPT !.spread = SpreadSnapshot(@, x)]
          /\ f = [m EXCEPT !.m_initial_order = NullOrder, !.m_hedge_order = NullOrder]
  OBVIOUS
<1>2. Member(m0, s0, w, h)
  BY <1>1 DEF Member
<1>3. m = [m0 EXCEPT !.spread = s2]
  BY <1>1
<1>4. Member(m, s2, w, h)
  BY <1>2, <1>3, MemberChanges
<1>5. m \in ReversionSet(n) /\ w \in Remembered(n)
  BY <1>1, ReversionFacts, SpreadFacts
<1>6. Member(f, s2, NullOrder, NullOrder)
  <2>1. PICK m1 : m1 = [m EXCEPT !.m_initial_order = NullOrder]
    OBVIOUS
  <2>2. NullOrder \in Remembered(n)
    BY RememberedFacts
  <2>3. m1 \in ReversionSet(n)
    BY <1>5, <2>1, <2>2, ReversionFacts
  <2>4. Member(m1, s2, NullOrder, h)
    BY <1>4, <1>5, <2>1, MemberChanges
  <2>5. f = [m1 EXCEPT !.m_hedge_order = NullOrder]
    BY <1>1, <2>1
  <2> QED
    BY <2>3, <2>4, <2>5, MemberChanges
<1>7. \A w2 : Member([m EXCEPT !.m_initial_order = w2], s2, w2, h)
      /\ \A h2 : Member([m EXCEPT !.m_hedge_order = h2], s2, w, h2)
  BY <1>4, <1>5, MemberChanges
<1>8. m.spread = s2 /\ m.m_initial_order = w /\ m.m_hedge_order = h
  BY <1>4 DEF Member
<1>9. \A mm, out : Does(mm, out).mem = mm /\ Does(mm, out).out = out
  BY DEF Does
<1>10. CASE s2.status = "PLACING_INITIAL_ORDER"
  <2>1. done = PlacesInitial(m, x, n + 1)
    BY <1>1, <1>8, <1>10 DEF ReversionSnapshot
  <2>2. [m EXCEPT !.m_initial_order.st = "NOT_AVAILABLE"]
            = [m EXCEPT !.m_initial_order = [w EXCEPT !.st = "NOT_AVAILABLE"]]
    BY <1>8
  <2>3. w = NullOrder => w.id = 0 /\ w.st = "NOT_AVAILABLE"
    BY DEF NullOrder
  <2>4. \/ /\ w.id = 0
           /\ done = Does([m EXCEPT !.m_initial_order = get_limit_order(n + 1, "BUY")],
                          [Quiet EXCEPT !.place = <<"BUY">>])
        \/ /\ w # NullOrder /\ w.st = "NEW"
           /\ done = Does([m EXCEPT !.m_initial_order = [w EXCEPT !.st = "NOT_AVAILABLE"]],
                          [Quiet EXCEPT !.cancel = {w.id}])
        \/ w # NullOrder /\ done = Does(m, Quiet)
    BY <1>8, <2>1, <2>2, <2>3 DEF PlacesInitial
  <2>5. \/ /\ w.id = 0 /\ done.out = [Quiet EXCEPT !.place = <<"BUY">>]
           /\ Member(done.mem, s2, get_limit_order(n + 1, "BUY"), h)
        \/ /\ w # NullOrder /\ w.st = "NEW" /\ done.out = [Quiet EXCEPT !.cancel = {w.id}]
           /\ Member(done.mem, s2, [w EXCEPT !.st = "NOT_AVAILABLE"], h)
        \/ w # NullOrder /\ Member(done.mem, s2, w, h) /\ done.out = Quiet
    BY <1>4, <1>7, <1>9, <2>4
  <2> QED
    BY <1>1, <1>10, <2>5 DEF SnapshotDoes
<1>11. CASE s2.status = "PLACING_HEDGE_ORDER"
  <2>1. done = Does([m EXCEPT !.m_hedge_order = get_limit_order(n + 1, s2.hedge.side)],
                    [Quiet EXCEPT !.place = <<s2.hedge.side>>])
    BY <1>1, <1>8, <1>11 DEF ReversionSnapshot
  <2>2. /\ Member(done.mem, s2, w, get_limit_order(n + 1, s2.hedge.side))
        /\ done.out = [Quiet EXCEPT !.place = <<s2.hedge.side>>]
    BY <1>7, <1>9, <2>1
  <2> QED
    BY <1>1, <1>11, <2>2 DEF SnapshotDoes
<1>12. CASE s2.status = "WAITING_FOR_HEDGE_ORDER_FILLED"
  <2>1. done = Does(IF h.st = "FILLED" THEN f ELSE m, Quiet)
    BY <1>1, <1>8, <1>12 DEF ReversionSnapshot
  <2> QED
    BY <1>1, <1>4, <1>9, <1>12, <2>1 DEF SnapshotDoes
<1>13. CASE s2.status = "STOP_LOSS"
  <2>1. [m EXCEPT !.m_hedge_order.st = "NOT_AVAILABLE"]
            = [m EXCEPT !.m_hedge_order = [h EXCEPT !.st = "NOT_AVAILABLE"]]
    BY <1>8
  <2>2. \/ /\ h.st = "NEW"
           /\ done = Does([m EXCEPT !.m_hedge_order = [h EXCEPT !.st = "NOT_AVAILABLE"]],
                          [Quiet EXCEPT !.cancel = {h.id}])
        \/ done = Does(m, Quiet)
    BY <1>1, <1>8, <1>13, <2>1 DEF ReversionSnapshot
  <2>3. \/ /\ h.st = "NEW" /\ done.out = [Quiet EXCEPT !.cancel = {h.id}]
           /\ Member(done.mem, s2, w, [h EXCEPT !.st = "NOT_AVAILABLE"])
        \/ Member(done.mem, s2, w, h) /\ done.out = Quiet
    <3>1. PICK h2 : h2 = [h EXCEPT !.st = "NOT_AVAILABLE"]
      OBVIOUS
    <3>2. Member([m EXCEPT !.m_hedge_order = h2], s2, w, h2)
      BY <1>7
    <3> QED
      BY <1>4, <1>9, <2>2, <3>1, <3>2
  <2> QED
    BY <1>1, <1>13, <2>3 DEF SnapshotDoes
<1>14. CASE s2.status \notin HedgeStatuses \cup {"PLACING_INITIAL_ORDER"}
  <2>1. done = Does(f, Quiet)
    BY <1>1, <1>8, <1>14 DEF ReversionSnapshot, HedgeStatuses
  <2> QED
    BY <1>1, <1>6, <1>9, <1>14, <2>1 DEF SnapshotDoes, HedgeStatuses
<1> QED
  BY <1>10, <1>11, <1>12, <1>13, <1>14 DEF HedgeStatuses

\* A state of a round, before the task that is handled.
Ready(sim, ords, reqs, rest, m) ==
    /\ ords \in Seq(OrderSet) /\ reqs \in Seq(RequestSet(Len(ords)))
    /\ m \in ReversionSet(Len(ords)) /\ World(sim, ords, reqs, rest)

\* An order of the known fill of t is asked for, after one that has ended.
LEMMA KnowsPlaced ==
    ASSUME NEW ords, NEW ords2, NEW reqs2, NEW rest, NEW w, NEW t, NEW side,
           PlacedLast(ords, ords2, reqs2, side), t.st # "FILLED", w.st \notin {"FILLED", "NEW"}
    PROVE  Knows(ords2, reqs2, rest, w, t)
<1>1. ords2[Len(ords2)].st = "sent"
  BY DEF PlacedLast
<1> QED
  BY <1>1 DEF Knows

LEMMA SnapshotMind ==
    ASSUME NEW sim, NEW ords, NEW reqs, NEW rest, NEW m, Ready(sim, ords, reqs, rest, m),
           Mind(ords, reqs, rest, m), NEW x, NEW done, NEW ords2, NEW reqs2,
           m.spread.status = "PLACING_HEDGE_ORDER" => m.spread.hedge.st = "NEW",
           done = ReversionSnapshot(m, x, Len(ords) + 1),
           AskedFor(ords, reqs, done.out, ords2, reqs2)
    PROVE  World(sim, ords2, reqs2, rest) /\ Mind(ords2, reqs2, rest, done.mem)
<1>1. PICK n, s, s2, w, h, m2 :
          /\ n = Len(ords) /\ s = m.spread /\ s2 = SpreadSnapshot(m.spread, x)
          /\ w = m.m_initial_order /\ h = m.m_hedge_order /\ m2 = done.mem
  OBVIOUS
<1>2. /\ ords \in Seq(OrderSet) /\ reqs \in Seq(RequestSet(n)) /\ m \in ReversionSet(n)
      /\ World(sim, ords, reqs, rest) /\ n \in Nat
  BY <1>1 DEF Ready
<1>3. s \in SpreadSet(n) /\ w \in Remembered(n) /\ h \in Remembered(n)
  BY <1>1, <1>2, ReversionFacts
<1>4. SpreadMoves(s, s2)
  BY <1>1, <1>2, <1>3, SpreadMovesOK
<1>5. SnapshotDoes(n, s2, w, h, done)
  BY <1>1, <1>2, SnapshotDoesOK
<1>6. /\ s.status = "NONE" => Idle(ords, rest, m)
      /\ s.status = "PLACING_INITIAL_ORDER" => Opening(ords, reqs, rest, m)
      /\ s.status \in HedgeStatuses => Hedging(ords, reqs, rest, m)
  BY <1>1 DEF Mind
<1>7. /\ s.status = "PLACING_HEDGE_ORDER" => s.hedge.st = "NEW"
      /\ s.status \in {"NONE", "PLACING_INITIAL_ORDER"} \cup HedgeStatuses
  BY <1>1, <1>3 DEF SpreadSet
<1>8. Made(sim, ords)
  BY <1>2 DEF World
<1>9. CASE s.status = "NONE"
  <2>1. /\ s.initial.st # "FILLED" /\ w = NullOrder /\ NoReports(rest)
        /\ (n > 0 => ords[n].st = "filled") /\ PositionOf(ords) = 0
    BY <1>1, <1>6, <1>9 DEF Idle
  <2>2. CASE s2.status = "NONE" /\ s2.initial = s.initial
    <3>1. Member(m2, s2, NullOrder, NullOrder) /\ ords2 = ords /\ reqs2 = reqs
      BY <1>1, <1>5, <2>2 DEF SnapshotDoes, AskedFor
    <3>2. Idle(ords, rest, m2)
      BY <1>1, <2>1, <2>2, <3>1 DEF Idle, Member
    <3>3. m2.spread.status = "NONE"
      BY <2>2, <3>1 DEF Member
    <3> QED
      BY <1>1, <1>2, <3>1, <3>2, <3>3 DEF Mind, HedgeStatuses
  <2>3. CASE /\ s2.status = "PLACING_INITIAL_ORDER" /\ s2.initial.st = "NOT_AVAILABLE"
             /\ s2.hedge = NullOrder /\ s2.prices >= Window
    <3>1. done.out = [Quiet EXCEPT !.place = <<"BUY">>]
          /\ Member(m2, s2, get_limit_order(n + 1, "BUY"), h)
      BY <1>1, <1>5, <2>1, <2>3 DEF SnapshotDoes
    <3>2. PICK side \in OrderSides : side = "BUY"
      BY DEF OrderSides
    <3>3. Placed(ords, reqs, rest, side, ords2, reqs2)
      BY <1>1, <1>2, <2>1, <3>1, <3>2 DEF AskedFor, Placed
    <3>4. World(sim, ords2, reqs2, rest) /\ PlacedLast(ords, ords2, reqs2, side)
      BY <1>2, <3>3, PlacedWorld
    <3>5. PICK w2 : w2 = get_limit_order(n + 1, "BUY") /\ w2.id = n + 1 /\ w2.st = "NOT_AVAILABLE"
      <4>1. PICK w2 : w2 = get_limit_order(n + 1, "BUY")
        OBVIOUS
      <4>2. w2.id = n + 1 /\ w2.st = "NOT_AVAILABLE"
        BY <4>1 DEF get_limit_order
      <4> QED
        BY <4>1, <4>2
    <3>6. Knows(ords2, reqs2, rest, w2, s2.initial)
      BY <2>3, <3>4, <3>5, KnowsPlaced
    <3>7. PositionOf(ords2) = Signed(ords2[Len(ords2)].side, ords2[Len(ords2)].filled)
      BY <2>1, <3>2, <3>4 DEF PlacedLast, Signed
    <3>8. m2.spread = s2 /\ m2.m_initial_order = w2
      BY <3>1, <3>5 DEF Member
    <3>9. s2.hedge.st # "FILLED" /\ w2.id # 0 /\ Len(ords2) > 0
      BY <1>2, <2>3, <3>4, <3>5 DEF NullOrder, PlacedLast
    <3>10. Opening(ords2, reqs2, rest, m2)
      BY <2>3, <3>6, <3>7, <3>8, <3>9 DEF Opening
    <3> QED
      BY <1>1, <2>3, <3>4, <3>8, <3>10 DEF Mind, HedgeStatuses
  <2> QED
    BY <1>4, <1>9, <2>1, <2>2, <2>3 DEF SpreadMoves
<1>10. CASE s.status = "PLACING_INITIAL_ORDER" /\ s.initial.st # "FILLED"
  <2>1. Opening(ords, reqs, rest, m)
    BY <1>6, <1>10
  <2>2. /\ n > 0 /\ s.prices >= Window /\ w.id # 0 /\ Knows(ords, reqs, rest, w, s.initial)
        /\ PositionOf(ords) = Signed(ords[n].side, ords[n].filled)
    BY <1>1, <2>1 DEF Opening
  <2>3. /\ s2.status = "PLACING_INITIAL_ORDER" /\ s2.initial.st = "NOT_AVAILABLE"
        /\ s2.hedge = NullOrder /\ s2.prices = s.prices
    BY <1>4, <1>10, <2>2 DEF SpreadMoves
  <2>4. s2.hedge.st # "FILLED"
    BY <2>3 DEF NullOrder
  <2>5. w.st # "FILLED"
    BY <1>10, <2>2 DEF Knows
  <2>6. ASSUME NEW reqs3, NEW w2, w2.id = w.id, w2.st \in {w.st, "NOT_AVAILABLE"},
               w2.st = "NEW" => reqs3 = reqs, Member(m2, s2, w2, h)
        PROVE  Mind(ords, reqs3, rest, m2)
    <3>1. Knows(ords, reqs3, rest, w2, s2.initial)
      BY <1>10, <2>2, <2>3, <2>5, <2>6 DEF Knows
    <3>2. m2.spread = s2 /\ m2.m_initial_order = w2
      BY <2>6 DEF Member
    <3>3. Opening(ords, reqs3, rest, m2)
      BY <1>1, <2>2, <2>3, <2>4, <2>6, <3>1, <3>2 DEF Opening
    <3> QED
      BY <2>3, <3>2, <3>3 DEF Mind, HedgeStatuses
  <2>7. CASE /\ w.st = "NEW" /\ done.out = [Quiet EXCEPT !.cancel = {w.id}]
             /\ Member(m2, s2, [w EXCEPT !.st = "NOT_AVAILABLE"], h)
    <3>1. /\ w.id = n /\ ords[n].st \in {"open", "filled"} /\ ~Cancels(reqs, n)
          /\ ~Reports(rest, "NEW")
      BY <1>1, <2>2, <2>7 DEF Knows
    <3>2. w.id \in 1..n
      BY <1>2, <2>2, <3>1
    <3>3. ords2 = ords /\ reqs2 = Append(reqs, Request("cancel", n))
      BY <1>1, <2>7, <3>1, <3>2 DEF AskedFor
    <3>4. World(sim, ords, reqs2, rest)
      BY <1>1, <1>2, <2>2, <3>1, <3>3, CanceledWorld
    <3>5. PICK w2 : w2 = [w EXCEPT !.st = "NOT_AVAILABLE"]
      OBVIOUS
    <3>6. w2.id = w.id /\ w2.st = "NOT_AVAILABLE"
      BY <1>3, <3>5 DEF Remembered
    <3>7. Mind(ords, reqs2, rest, m2)
      BY <2>6, <2>7, <3>5, <3>6
    <3> QED
      BY <1>1, <3>3, <3>4, <3>7
  <2>8. CASE Member(m2, s2, w, h) /\ done.out = Quiet
    <3>1. ords2 = ords /\ reqs2 = reqs
      BY <2>8 DEF AskedFor
    <3>2. Mind(ords, reqs, rest, m2)
      BY <2>6, <2>8
    <3> QED
      BY <1>1, <1>2, <3>1, <3>2
  <2> QED
    BY <1>1, <1>5, <2>2, <2>3, <2>7, <2>8 DEF SnapshotDoes
<1>11. CASE s.status = "PLACING_INITIAL_ORDER" /\ s.initial.st = "FILLED"
  <2>1. Opening(ords, reqs, rest, m)
    BY <1>6, <1>11
  <2>2. /\ n > 0 /\ s.prices >= Window /\ Knows(ords, reqs, rest, w, s.initial)
        /\ PositionOf(ords) = Signed(ords[n].side, ords[n].filled)
    BY <1>1, <2>1 DEF Opening
  <2>3. ords[n].st = "filled" /\ s.initial.side = ords[n].side /\ NoReports(rest)
    BY <1>1, <1>11, <2>2 DEF Knows
  <2>4. ords[n].filled = 2
    BY <1>1, <1>2, <1>8, <2>2, <2>3 DEF Made, Amount
  <2>5. /\ s2.status = "PLACING_HEDGE_ORDER" /\ s2.initial = s.initial
        /\ s2.hedge.st = "NOT_AVAILABLE" /\ s2.hedge.side = Opposite(s.initial.side)
        /\ s2.prices = s.prices
    BY <1>4, <1>11, <2>2 DEF SpreadMoves
  <2>6. PICK side \in OrderSides : side = s2.hedge.side
    BY <2>5 DEF Opposite, OrderSides
  <2>7. /\ Member(m2, s2, w, get_limit_order(n + 1, side))
        /\ done.out = [Quiet EXCEPT !.place = <<side>>]
    BY <1>1, <1>5, <2>5, <2>6 DEF SnapshotDoes
  <2>8. Placed(ords, reqs, rest, side, ords2, reqs2)
    BY <1>1, <1>2, <2>3, <2>7 DEF AskedFor, Placed
  <2>9. World(sim, ords2, reqs2, rest) /\ PlacedLast(ords, ords2, reqs2, side)
    BY <1>2, <2>8, PlacedWorld
  <2>10. PICK h2 : h2 = get_limit_order(n + 1, side) /\ h2.st = "NOT_AVAILABLE"
    <3>1. PICK h2 : h2 = get_limit_order(n + 1, side)
      OBVIOUS
    <3>2. h2.st = "NOT_AVAILABLE"
      BY <3>1 DEF get_limit_order
    <3> QED
      BY <3>1, <3>2
  <2>11. Knows(ords2, reqs2, rest, h2, s2.hedge)
    BY <2>5, <2>9, <2>10, KnowsPlaced
  <2>12. PICK o2 : o2 = ords2[Len(ords2)] /\ o2.side = side /\ o2.filled = 0 /\ o2.st = "sent"
    BY <2>9 DEF PlacedLast
  <2>13. PositionOf(ords2) = Signed(s2.initial.side, 2 - o2.filled)
    <3>1. 2 - 0 = 2
      OBVIOUS
    <3> QED
      BY <2>2, <2>3, <2>4, <2>5, <2>9, <2>12, <3>1 DEF PlacedLast
  <2>14. m2.spread = s2 /\ m2.m_hedge_order = h2
    BY <2>7, <2>10 DEF Member
  <2>15. Len(ords2) > 0 /\ ~Cancels(reqs2, Len(ords2))
    BY <2>9 DEF PlacedLast
  <2>16. Hedging(ords2, reqs2, rest, m2)
    BY <1>11, <2>2, <2>5, <2>6, <2>11, <2>12, <2>13, <2>14, <2>15 DEF Hedging
  <2> QED
    BY <1>1, <2>5, <2>9, <2>14, <2>16 DEF Mind, HedgeStatuses
<1>12. CASE s.status \in HedgeStatuses
  <2>1. Hedging(ords, reqs, rest, m)
    BY <1>6, <1>12
  <2>2. /\ n > 0 /\ s.prices >= Window /\ Knows(ords, reqs, rest, h, s.hedge)
        /\ s.initial.st = "FILLED" /\ ords[n].side = Opposite(s.initial.side)
        /\ PositionOf(ords) = Signed(s.initial.side, 2 - ords[n].filled)
        /\ s.status # "STOP_LOSS" =>
               ords[n].st # "canceled" /\ (Cancels(reqs, n) => ords[n].st = "filled")
    BY <1>1, <2>1 DEF Hedging
  <2>3. CASE s.hedge.st = "FILLED"
    <3>1. s2.status = "NONE" /\ s2.initial = NullOrder
      BY <1>4, <1>7, <1>12, <2>2, <2>3 DEF SpreadMoves, HedgeStatuses
    <3>2. Member(m2, s2, NullOrder, NullOrder) /\ ords2 = ords /\ reqs2 = reqs
      BY <1>1, <1>5, <3>1 DEF SnapshotDoes, AskedFor
    <3>3. ords[n].st = "filled" /\ NoReports(rest)
      BY <1>1, <2>2, <2>3 DEF Knows
    <3>4. ords[n].filled = 2
      BY <1>1, <1>2, <1>8, <2>2, <3>3 DEF Made, Amount
    <3>5. PositionOf(ords) = 0
      <4>1. PositionOf(ords) = Signed(s.initial.side, 0)
        <5>1. 2 - 2 = 0
          OBVIOUS
        <5> QED
          BY <2>2, <3>4, <5>1
      <4> QED
        BY <4>1, SignedZero
    <3>6. m2.spread = s2 /\ m2.m_initial_order = NullOrder
      BY <3>2 DEF Member
    <3>7. Idle(ords, rest, m2)
      BY <1>1, <3>1, <3>3, <3>5, <3>6 DEF Idle, NullOrder
    <3> QED
      BY <1>1, <1>2, <3>1, <3>2, <3>6, <3>7 DEF Mind, HedgeStatuses
  <2>4. CASE s.hedge.st # "FILLED"
    <3>1. /\ s2.status \in {"WAITING_FOR_HEDGE_ORDER_FILLED", "STOP_LOSS"}
          /\ s.status = "STOP_LOSS" => s2.status = "STOP_LOSS"
          /\ s2.initial = s.initial /\ s2.hedge = s.hedge /\ s2.prices = s.prices
      BY <1>4, <1>7, <1>12, <2>2, <2>4 DEF SpreadMoves, HedgeStatuses
    <3>2. h.st # "FILLED"
      BY <2>2, <2>4 DEF Knows
    <3>3. ASSUME NEW reqs3, NEW h2, h2.id = h.id, h2.st \in {h.st, "NOT_AVAILABLE"},
                 reqs3 = reqs \/ (h2.st # "NEW" /\ s2.status = "STOP_LOSS"),
                 Member(m2, s2, w, h2)
          PROVE  Mind(ords, reqs3, rest, m2)
      <4>1. Knows(ords, reqs3, rest, h2, s2.hedge)
        BY <2>2, <2>4, <3>1, <3>2, <3>3 DEF Knows
      <4>2. m2.spread = s2 /\ m2.m_hedge_order = h2
        BY <3>3 DEF Member
      <4>3. s2.status # "STOP_LOSS" =>
                ords[n].st # "canceled" /\ (Cancels(reqs3, n) => ords[n].st = "filled")
        BY <2>2, <3>1, <3>3
      <4>4. Hedging(ords, reqs3, rest, m2)
        BY <1>1, <2>2, <3>1, <4>1, <4>2, <4>3 DEF Hedging
      <4> QED
        BY <3>1, <4>2, <4>4 DEF Mind, HedgeStatuses
    <3>4. CASE /\ s2.status = "STOP_LOSS" /\ h.st = "NEW"
               /\ done.out = [Quiet EXCEPT !.cancel = {h.id}]
               /\ Member(m2, s2, w, [h EXCEPT !.st = "NOT_AVAILABLE"])
      <4>1. /\ h.id = n /\ ords[n].st \in {"open", "filled"} /\ ~Cancels(reqs, n)
            /\ ~Reports(rest, "NEW")
        BY <1>1, <2>2, <3>4 DEF Knows
      <4>2. h.id \in 1..n
        BY <1>2, <2>2, <4>1
      <4>3. ords2 = ords /\ reqs2 = Append(reqs, Request("cancel", n))
        BY <1>1, <3>4, <4>1, <4>2 DEF AskedFor
      <4>4. World(sim, ords, reqs2, rest)
        BY <1>1, <1>2, <2>2, <4>1, <4>3, CanceledWorld
      <4>5. PICK h2 : h2 = [h EXCEPT !.st = "NOT_AVAILABLE"]
        OBVIOUS
      <4>6. h2.id = h.id /\ h2.st = "NOT_AVAILABLE"
        BY <1>3, <4>5 DEF Remembered
      <4>7. Mind(ords, reqs2, rest, m2)
        BY <3>3, <3>4, <4>5, <4>6
      <4> QED
        BY <1>1, <4>3, <4>4, <4>7
    <3>5. CASE Member(m2, s2, w, h) /\ done.out = Quiet
      <4>1. ords2 = ords /\ reqs2 = reqs
        BY <3>5 DEF AskedFor
      <4>2. Mind(ords, reqs, rest, m2)
        BY <3>3, <3>5
      <4> QED
        BY <1>1, <1>2, <4>1, <4>2
    <3> QED
      BY <1>1, <1>5, <3>1, <3>2, <3>4, <3>5 DEF SnapshotDoes
  <2> QED
    BY <2>3, <2>4
<1> QED
  BY <1>7, <1>9, <1>10, <1>11, <1>12

-----------------------------------------------------------------------------
(* The handlers of an order update *)

\* What handle_order_update makes of its members, and what it asks for.
OrderDoes(n, s, w, h, o, done) ==
    /\ o.st = "NEW" \/ o.st = "FILLED" =>
           /\ done.out = Quiet
           /\ s.status = "PLACING_INITIAL_ORDER" =>
                  Member(done.mem, [s EXCEPT !.initial = AsOrder(o)], AsOrder(o), h)
           /\ s.status \in HedgeStatuses =>
                  Member(done.mem, [s EXCEPT !.hedge = AsOrder(o)], w, AsOrder(o))
    /\ o.st = "REJECTED" =>
           Member(done.mem, s, w, h) /\ done.out = [Quiet EXCEPT !.place = <<o.side>>]
    /\ o.st = "CANCELED" =>
           /\ s.status = "PLACING_INITIAL_ORDER" =>
                  /\ Member(done.mem, s, get_limit_order(n + 1, s.initial.side), h)
                  /\ done.out = [Quiet EXCEPT !.place = <<s.initial.side>>]
           /\ s.status = "STOP_LOSS" =>
                  /\ Member(done.mem, s, w, get_limit_order(n + 1, o.side))
                  /\ done.out = [Quiet EXCEPT !.place = <<o.side>>]
    /\ o.st = "PARTIALLY_FILLED" => Member(done.mem, s, w, h) /\ done.out = Quiet

LEMMA OrderDoesOK ==
    ASSUME NEW n \in Nat, NEW m0 \in ReversionSet(n), NEW o \in ReportSet(n)
    PROVE  OrderDoes(n, m0.spread, m0.m_initial_order, m0.m_hedge_order, o,
                     ReversionOrderUpdate(m0, o, n + 1))
<1>1. PICK s, s2, w, h, done, m :
          /\ s = m0.spread /\ s2 = SpreadOrderUpdate(s, o) /\ w = m0.m_initial_order
          /\ h = m0.m_hedge_order /\ done = ReversionOrderUpdate(m0, o, n + 1)
          /\ m = [m0 EXCEPT !.spread = SpreadOrderUpdate(@, o)]
  OBVIOUS
<1>2. Member(m0, s, w, h)
  BY <1>1 DEF Member
<1>3. m = [m0 EXCEPT !.spread = s2]
  BY <1>1
<1>4. Member(m, s2, w, h)
  BY <1>2, <1>3, MemberChanges
<1>5. m \in ReversionSet(n) /\ s \in SpreadSet(n) /\ AsOrder(o) \in Remembered(n)
  <2>1. IsUpdate(o, n)
    BY ReportIsUpdate
  <2> QED
    BY <1>1, <2>1, ReversionFacts, SpreadFacts, RememberedFacts
<1>6. \A mm, out : Does(mm, out).mem = mm /\ Does(mm, out).out = out
  BY DEF Does
<1>7. m.spread = s2 /\ m.m_initial_order = w /\ m.m_hedge_order = h
  BY <1>4 DEF Member
<1>8. PICK a : a = AsOrder(o)
  OBVIOUS
<1>9. \A st, i, he, p : s = [status |-> st, initial |-> i, hedge |-> he, prices |-> p] =>
          /\ [s EXCEPT !.initial = a].status = st /\ [s EXCEPT !.hedge = a].status = st
  OBVIOUS
<1>10. [s EXCEPT !.initial = a].status = s.status /\ [s EXCEPT !.hedge = a].status = s.status
  <2>1. PICK st, i, he, p : s = [status |-> st, initial |-> i, hedge |-> he, prices |-> p]
    BY <1>5 DEF SpreadSet
  <2> QED
    BY <1>9, <2>1
<1>11. ASSUME NEW mm \in ReversionSet(n), Member(mm, s2, w, h), o.st \in {"NEW", "FILLED"}
       PROVE  /\ s.status = "PLACING_INITIAL_ORDER" =>
                     Member(Keeps(mm, o), [s EXCEPT !.initial = a], a, h)
              /\ s.status \in HedgeStatuses =>
                     Member(Keeps(mm, o), [s EXCEPT !.hedge = a], w, a)
  <2>1. mm.spread = s2
    BY <1>11 DEF Member
  <2>2. CASE s.status = "PLACING_INITIAL_ORDER"
    <3>1. s2 = [s EXCEPT !.initial = a]
      BY <1>1, <1>8, <1>11, <2>2 DEF SpreadOrderUpdate
    <3>2. s2.status = "PLACING_INITIAL_ORDER"
      BY <1>10, <2>2, <3>1
    <3>3. Keeps(mm, o) = [mm EXCEPT !.m_initial_order = a]
      BY <1>8, <2>1, <3>2 DEF Keeps
    <3>4. Member([mm EXCEPT !.m_initial_order = a], s2, a, h)
      BY <1>11, MemberChanges
    <3> QED
      BY <2>2, <3>1, <3>3, <3>4 DEF HedgeStatuses
  <2>3. CASE s.status \in HedgeStatuses
    <3>1. s2 = [s EXCEPT !.hedge = a]
      BY <1>1, <1>8, <1>11, <2>3 DEF SpreadOrderUpdate, HedgeStatuses
    <3>2. s2.status \in HedgeStatuses
      BY <1>10, <2>3, <3>1
    <3>3. Keeps(mm, o) = [mm EXCEPT !.m_hedge_order = a]
      BY <1>8, <2>1, <3>2 DEF Keeps, HedgeStatuses
    <3>4. Member([mm EXCEPT !.m_hedge_order = a], s2, w, a)
      BY <1>11, MemberChanges
    <3> QED
      BY <2>3, <3>1, <3>3, <3>4 DEF HedgeStatuses
  <2> QED
    BY <2>2, <2>3
<1>12. o.st \notin {"NEW", "FILLED"} => s2 = s
  BY <1>1 DEF SpreadOrderUpdate
<1>13. CASE o.st = "NEW"
  <2>1. done = Does(Keeps(m, o), Quiet)
    BY <1>1, <1>13 DEF ReversionOrderUpdate
  <2>2. done.mem = Keeps(m, o) /\ done.out = Quiet
    BY <1>6, <2>1
  <2> QED
    BY <1>1, <1>4, <1>5, <1>8, <1>11, <1>13, <2>2 DEF OrderDoes
<1>14. CASE o.st = "FILLED"
  <2>1. PICK i \in Int : i = Signed(o.side, o.filled)
    BY DEF Signed, ReportSet
  <2>2. PICK m1 : m1 = [m EXCEPT !.m_pnl = @ + i]
    OBVIOUS
  <2>3. m1 \in ReversionSet(n)
    BY <1>5, <2>2, ReversionFacts
  <2>4. Member(m1, s2, w, h)
    <3>1. PICK j : j = m.m_pnl + i
      OBVIOUS
    <3>2. m1 = [m EXCEPT !.m_pnl = j]
      BY <2>2, <3>1
    <3> QED
      BY <1>4, <1>5, <3>2, MemberChanges
  <2>5. done = Does(Keeps(m1, o), Quiet)
    BY <1>1, <1>14, <2>1, <2>2 DEF ReversionOrderUpdate
  <2>6. done.mem = Keeps(m1, o) /\ done.out = Quiet
    BY <1>6, <2>5
  <2> QED
    BY <1>1, <1>8, <1>11, <1>14, <2>3, <2>4, <2>6 DEF OrderDoes
<1>15. CASE o.st = "REJECTED"
  <2>1. done = Does(m, [Quiet EXCEPT !.place = <<o.side>>])
    BY <1>1, <1>15 DEF ReversionOrderUpdate
  <2>2. done.mem = m /\ done.out = [Quiet EXCEPT !.place = <<o.side>>]
    BY <1>6, <2>1
  <2> QED
    BY <1>1, <1>4, <1>12, <1>15, <2>2 DEF OrderDoes
<1>16. CASE o.st = "CANCELED"
  <2>1. done = Replaces(m, o, n + 1) /\ s2 = s /\ m.spread = s
    BY <1>1, <1>7, <1>12, <1>16 DEF ReversionOrderUpdate
  <2>2. \A w2 : Member([m EXCEPT !.m_initial_order = w2], s, w2, h)
        /\ \A h2 : Member([m EXCEPT !.m_hedge_order = h2], s, w, h2)
    BY <1>4, <1>5, <2>1, MemberChanges
  <2>3. ASSUME s.status = "PLACING_INITIAL_ORDER"
        PROVE  /\ Member(done.mem, s, get_limit_order(n + 1, s.initial.side), h)
               /\ done.out = [Quiet EXCEPT !.place = <<s.initial.side>>]
    <3>1. done = Does([m EXCEPT !.m_initial_order = get_limit_order(n + 1, s.initial.side)],
                      [Quiet EXCEPT !.place = <<s.initial.side>>])
      BY <2>1, <2>3 DEF Replaces
    <3> QED
      BY <1>6, <2>2, <3>1
  <2>4. ASSUME s.status = "STOP_LOSS"
        PROVE  /\ Member(done.mem, s, w, get_limit_order(n + 1, o.side))
               /\ done.out = [Quiet EXCEPT !.place = <<o.side>>]
    <3>1. done = Does([m EXCEPT !.m_hedge_order = get_limit_order(n + 1, o.side)],
                      [Quiet EXCEPT !.place = <<o.side>>])
      BY <2>1, <2>4 DEF Replaces
    <3> QED
      BY <1>6, <2>2, <3>1
  <2> QED
    BY <1>1, <1>16, <2>3, <2>4 DEF OrderDoes
<1>17. CASE o.st = "PARTIALLY_FILLED"
  <2>1. done = Does(m, Quiet)
    BY <1>1, <1>17 DEF ReversionOrderUpdate
  <2>2. done.mem = m /\ done.out = Quiet
    BY <1>6, <2>1
  <2> QED
    BY <1>1, <1>4, <1>12, <1>17, <2>2 DEF OrderDoes
<1>18. o.st \in Statuses
  BY DEF ReportSet
<1> QED
  BY <1>13, <1>14, <1>15, <1>16, <1>17, <1>18 DEF Statuses

\* The strategy learns that the last order is open or filled.
LEMMA KnowsTold ==
    ASSUME NEW ords, NEW reqs, NEW box, NEW rest, NEW w, NEW t, NEW o, NEW a,
           Knows(ords, reqs, box, w, t), BoxHandled(box, o, rest), ~NoReports(box),
           ToldLast(ords[Len(ords)], Len(ords), o), o.t = "order", o.st \in {"NEW", "FILLED"},
           o.st = "NEW" => ~Cancels(reqs, Len(ords)), a = AsOrder(o)
    PROVE  Knows(ords, reqs, rest, a, a)
<1>1. PICK n : n = Len(ords)
  OBVIOUS
<1>2. a.id = o.id /\ a.st = o.st /\ a.side = o.side
  BY DEF AsOrder
<1>3. t.st # "FILLED" /\ (ords[n].st = "filled" => Reports(box, "FILLED"))
  BY <1>1 DEF Knows
<1>4. /\ o.id = n /\ o.side = ords[n].side
      /\ o.st = "NEW" => ords[n].st \in {"open", "filled"}
      /\ o.st = "FILLED" => ords[n].st = "filled"
  BY <1>1 DEF ToldLast
<1>5. /\ o.st = "FILLED" => NoReports(rest)
      /\ o.st = "NEW" => ~Reports(rest, "NEW") /\ (Reports(box, "FILLED") => Reports(rest, "FILLED"))
  BY DEF BoxHandled, Endings
<1> QED
  BY <1>1, <1>2, <1>3, <1>4, <1>5 DEF Knows

LEMMA OrderMind ==
    ASSUME NEW sim, NEW ords, NEW reqs, NEW box, NEW rest, NEW m, NEW o,
           Ready(sim, ords, reqs, box, m), Mind(ords, reqs, box, m),
           BoxHandled(box, o, rest), o \in ReportSet(Len(ords)),
           NEW k \in DOMAIN box, box[k] = o, NEW done, NEW ords2, NEW reqs2,
           done = ReversionOrderUpdate(m, o, Len(ords) + 1),
           AskedFor(ords, reqs, done.out, ords2, reqs2)
    PROVE  World(sim, ords2, reqs2, rest) /\ Mind(ords2, reqs2, rest, done.mem)
<1>1. PICK n, s, w, h, m2 : /\ n = Len(ords) /\ s = m.spread /\ w = m.m_initial_order
                            /\ h = m.m_hedge_order /\ m2 = done.mem
  OBVIOUS
<1>2. /\ ords \in Seq(OrderSet) /\ reqs \in Seq(RequestSet(n)) /\ m \in ReversionSet(n)
      /\ World(sim, ords, reqs, box) /\ n \in Nat
  BY <1>1 DEF Ready
<1>3. s \in SpreadSet(n) /\ w \in Remembered(n) /\ h \in Remembered(n)
  BY <1>1, <1>2, ReversionFacts
<1>4. OrderDoes(n, s, w, h, o, done)
  BY <1>1, <1>2, OrderDoesOK
<1>5. World(sim, ords, reqs, rest)
  BY <1>2, WorldTail
<1>6. o.t = "order" /\ o.st \in Statuses /\ o.side \in OrderSides /\ ~NoReports(box)
  <2>1. o.t = "order" /\ o.st \in Statuses /\ o.side \in OrderSides
    BY DEF ReportSet
  <2> QED
    BY <2>1 DEF NoReports
<1>7. Made(sim, ords) /\ ToldOf(ords, reqs, box)
  BY <1>2 DEF World
<1>8. ToldLast(ords[n], n, o) /\ (o.st = "NEW" => ~Cancels(reqs, n))
  BY <1>1, <1>6, <1>7 DEF ToldOf, Reports
<1>9. s.status \in {"PLACING_INITIAL_ORDER"} \cup HedgeStatuses
  BY <1>1, <1>3, <1>6 DEF SpreadSet, Mind, Idle
<1>10. n > 0
  BY <1>1, <1>9 DEF Mind, Opening, Hedging
<1>11. PICK st, i, he, p : s = [status |-> st, initial |-> i, hedge |-> he, prices |-> p]
  BY <1>3 DEF SpreadSet
<1>12. s.status = st /\ s.initial = i /\ s.hedge = he /\ s.prices = p
  BY <1>11
<1>13. ASSUME st = "PLACING_INITIAL_ORDER"
       PROVE  /\ p >= Window /\ w.id # 0 /\ he.st # "FILLED" /\ Knows(ords, reqs, box, w, i)
              /\ PositionOf(ords) = Signed(ords[n].side, ords[n].filled)
  BY <1>1, <1>12, <1>13 DEF Mind, Opening
<1>14. ASSUME st \in HedgeStatuses
       PROVE  /\ p >= Window /\ i.st = "FILLED" /\ ords[n].side = Opposite(i.side)
              /\ Knows(ords, reqs, box, h, he)
              /\ PositionOf(ords) = Signed(i.side, 2 - ords[n].filled)
              /\ st # "STOP_LOSS" =>
                     ords[n].st # "canceled" /\ (Cancels(reqs, n) => ords[n].st = "filled")
  BY <1>1, <1>12, <1>14 DEF Mind, Hedging
<1>15. CASE o.st \in {"NEW", "FILLED"}
  <2>1. ords2 = ords /\ reqs2 = reqs
    BY <1>4, <1>15 DEF OrderDoes, AskedFor
  <2>2. PICK a : a = AsOrder(o)
    OBVIOUS
  <2>3. a.id = o.id
    BY <2>2 DEF AsOrder
  <2>4. CASE st = "PLACING_INITIAL_ORDER"
    <3>1. Member(m2, [s EXCEPT !.initial = a], a, h)
      BY <1>1, <1>4, <1>12, <1>15, <2>2, <2>4 DEF OrderDoes
    <3>2. [s EXCEPT !.initial = a] = [status |-> st, initial |-> a, hedge |-> he, prices |-> p]
      BY <1>11
    <3>3. /\ m2.spread.status = st /\ m2.spread.initial = a /\ m2.spread.hedge = he
          /\ m2.spread.prices = p /\ m2.m_initial_order = a
      BY <3>1, <3>2 DEF Member
    <3>4. Knows(ords, reqs, rest, a, a)
      BY <1>1, <1>6, <1>8, <1>13, <1>15, <2>2, <2>4, KnowsTold
    <3>5. a.id # 0
      BY <1>2, <1>8, <1>10, <2>3 DEF ToldLast
    <3>6. Opening(ords, reqs, rest, m2)
      BY <1>1, <1>10, <1>13, <2>4, <3>3, <3>4, <3>5 DEF Opening
    <3> QED
      BY <1>1, <1>5, <2>1, <2>4, <3>3, <3>6 DEF Mind, HedgeStatuses
  <2>5. CASE st \in HedgeStatuses
    <3>1. Member(m2, [s EXCEPT !.hedge = a], w, a)
      BY <1>1, <1>4, <1>12, <1>15, <2>2, <2>5 DEF OrderDoes
    <3>2. [s EXCEPT !.hedge = a] = [status |-> st, initial |-> i, hedge |-> a, prices |-> p]
      BY <1>11
    <3>3. /\ m2.spread.status = st /\ m2.spread.initial = i /\ m2.spread.hedge = a
          /\ m2.spread.prices = p /\ m2.m_hedge_order = a
      BY <3>1, <3>2 DEF Member
    <3>4. Knows(ords, reqs, rest, a, a)
      BY <1>1, <1>6, <1>8, <1>14, <1>15, <2>2, <2>5, KnowsTold
    <3>5. Hedging(ords, reqs, rest, m2)
      BY <1>1, <1>10, <1>14, <2>5, <3>3, <3>4 DEF Hedging
    <3> QED
      BY <1>1, <1>5, <2>1, <2>5, <3>3, <3>5 DEF Mind, HedgeStatuses
  <2> QED
    BY <1>9, <1>12, <2>4, <2>5
<1>16. CASE o.st = "PARTIALLY_FILLED"
  <2>1. ords2 = ords /\ reqs2 = reqs /\ Member(m2, s, w, h)
    BY <1>1, <1>4, <1>16 DEF OrderDoes, AskedFor
  <2>2. m2.spread = m.spread /\ m2.m_initial_order = m.m_initial_order
        /\ m2.m_hedge_order = m.m_hedge_order
    BY <1>1, <2>1 DEF Member
  <2>3. Mind(ords, reqs, rest, m)
    BY <1>16, MindTail
  <2>4. Mind(ords, reqs, rest, m2)
    BY <2>2, <2>3 DEF Mind, Idle, Opening, Hedging
  <2> QED
    BY <1>1, <1>5, <2>1, <2>4
<1>17. CASE o.st \in {"CANCELED", "REJECTED"}
  <2>1. ords[n].st \in {"canceled", "rejected"} /\ (o.st = "CANCELED" <=> ords[n].st = "canceled")
        /\ o.side = ords[n].side
    BY <1>8, <1>17 DEF ToldLast
  <2>2. NoReports(rest)
    BY <1>6, <1>17 DEF BoxHandled, Endings
  <2>3. ords[n].filled = 0
    BY <1>1, <1>2, <1>7, <1>10, <2>1 DEF Made, Amount
  <2>4. ASSUME NEW side \in OrderSides, done.out = [Quiet EXCEPT !.place = <<side>>]
        PROVE  World(sim, ords2, reqs2, rest) /\ PlacedLast(ords, ords2, reqs2, side)
    <3>1. Placed(ords, reqs, rest, side, ords2, reqs2)
      BY <1>1, <1>2, <2>1, <2>2, <2>4 DEF AskedFor, Placed
    <3> QED
      BY <1>5, <3>1, PlacedWorld
  <2>5. CASE st = "PLACING_INITIAL_ORDER"
    <3>1. i.st # "FILLED" /\ w.st \notin {"FILLED", "NEW"}
      BY <1>1, <1>13, <2>1, <2>5 DEF Knows
    <3>2. PositionOf(ords) = 0
      <4>1. PositionOf(ords) = Signed(ords[n].side, 0)
        BY <1>13, <2>3, <2>5
      <4> QED
        BY <4>1, SignedZero
    <3>3. PICK w2, side :
              /\ w2.id # 0 /\ w2.st \notin {"FILLED", "NEW"} /\ Member(m2, s, w2, h)
              /\ World(sim, ords2, reqs2, rest) /\ PlacedLast(ords, ords2, reqs2, side)
      <4>1. CASE o.st = "CANCELED"
        <5>1. PICK w2 : w2 = get_limit_order(n + 1, i.side)
          OBVIOUS
        <5>2. w2.id = n + 1 /\ w2.st = "NOT_AVAILABLE"
          BY <5>1 DEF get_limit_order
        <5>3. w2.id # 0
          BY <1>2, <5>2
        <5>4. Member(m2, s, w2, h) /\ done.out = [Quiet EXCEPT !.place = <<i.side>>]
          BY <1>1, <1>4, <1>12, <2>5, <4>1, <5>1 DEF OrderDoes
        <5>5. i.side \in OrderSides
          BY <1>2, <1>3, <1>12, SpreadFacts
        <5>6. World(sim, ords2, reqs2, rest) /\ PlacedLast(ords, ords2, reqs2, i.side)
          BY <2>4, <5>4, <5>5
        <5> QED
          BY <5>2, <5>3, <5>4, <5>6
      <4>2. CASE o.st = "REJECTED"
        <5>1. Member(m2, s, w, h) /\ done.out = [Quiet EXCEPT !.place = <<o.side>>]
          BY <1>1, <1>4, <4>2 DEF OrderDoes
        <5>2. World(sim, ords2, reqs2, rest) /\ PlacedLast(ords, ords2, reqs2, o.side)
          BY <1>6, <2>4, <5>1
        <5> QED
          BY <1>13, <2>5, <3>1, <5>1, <5>2
      <4> QED
        BY <1>17, <4>1, <4>2
    <3>5. Knows(ords2, reqs2, rest, w2, i)
      BY <3>1, <3>3, KnowsPlaced
    <3>6. m2.spread = s /\ m2.m_initial_order = w2
      BY <3>3 DEF Member
    <3>7. PICK o2 : o2 = ords2[Len(ords2)] /\ o2.side = side /\ o2.filled = 0 /\ Len(ords2) > 0
                    /\ PositionOf(ords2) = 0
      BY <3>2, <3>3 DEF PlacedLast
    <3>8. PositionOf(ords2) = Signed(o2.side, o2.filled)
      BY <3>7, SignedZero
    <3>9. Opening(ords2, reqs2, rest, m2)
      BY <1>12, <1>13, <2>5, <3>3, <3>5, <3>6, <3>7, <3>8 DEF Opening
    <3> QED
      BY <1>1, <1>12, <2>5, <3>3, <3>6, <3>9 DEF Mind, HedgeStatuses
  <2>6. CASE st \in HedgeStatuses
    <3>1. he.st # "FILLED" /\ h.st \notin {"FILLED", "NEW"}
      BY <1>1, <1>14, <2>1, <2>6 DEF Knows
    <3>2. PICK h2 : /\ h2.st \notin {"FILLED", "NEW"} /\ Member(m2, s, w, h2)
                    /\ done.out = [Quiet EXCEPT !.place = <<o.side>>]
      <4>1. CASE o.st = "CANCELED"
        <5>1. PICK h2 : h2 = get_limit_order(n + 1, o.side)
          OBVIOUS
        <5>2. h2.st = "NOT_AVAILABLE"
          BY <5>1 DEF get_limit_order
        <5>3. st = "STOP_LOSS"
          BY <1>14, <2>1, <2>6, <4>1
        <5>4. Member(m2, s, w, h2) /\ done.out = [Quiet EXCEPT !.place = <<o.side>>]
          BY <1>1, <1>4, <1>12, <4>1, <5>1, <5>3 DEF OrderDoes
        <5> QED
          BY <5>2, <5>4
      <4>2. CASE o.st = "REJECTED"
        BY <1>1, <1>4, <3>1, <4>2 DEF OrderDoes
      <4> QED
        BY <1>17, <4>1, <4>2
    <3>3. World(sim, ords2, reqs2, rest) /\ PlacedLast(ords, ords2, reqs2, o.side)
      BY <1>6, <2>4, <3>2
    <3>4. Knows(ords2, reqs2, rest, h2, he)
      BY <3>1, <3>2, <3>3, KnowsPlaced
    <3>5. m2.spread = s /\ m2.m_hedge_order = h2
      BY <3>2 DEF Member
    <3>6. PICK o2 : /\ o2 = ords2[Len(ords2)] /\ o2.side = o.side /\ o2.filled = 0 /\ o2.st = "sent"
                    /\ Len(ords2) > 0 /\ ~Cancels(reqs2, Len(ords2))
                    /\ PositionOf(ords2) = PositionOf(ords)
      BY <3>3 DEF PlacedLast
    <3>7. PositionOf(ords2) = Signed(i.side, 2 - o2.filled)
      BY <1>14, <2>3, <2>6, <3>6
    <3>8. Hedging(ords2, reqs2, rest, m2)
      BY <1>12, <1>14, <2>1, <2>6, <3>4, <3>5, <3>6, <3>7 DEF Hedging
    <3> QED
      BY <1>1, <1>12, <2>6, <3>3, <3>5, <3>8 DEF Mind, HedgeStatuses
  <2> QED
    BY <1>9, <1>12, <2>5, <2>6
<1> QED
  BY <1>6, <1>15, <1>16, <1>17 DEF Statuses

-----------------------------------------------------------------------------
(* The steps *)

\* A round, as far as the strategy runs.
Sound(sim, ords, reqs, box, m) ==
    /\ ords \in Seq(OrderSet) /\ reqs \in Seq(RequestSet(Len(ords)))
    /\ box \in Seq(Tasks("MeanReversion", Len(ords))) /\ m \in ReversionSet(Len(ords))
    /\ World(sim, ords, reqs, box) /\ Mind(ords, reqs, box, m)

LEMMA UpdateSound ==
    ASSUME NEW sim, NEW ords, NEW reqs, NEW box, NEW m, Sound(sim, ords, reqs, box, m),
           box # <<>>, NEW u, NEW done, NEW ords2, NEW reqs2,
           AskedFor(ords, reqs, done.out, ords2, reqs2),
           \/ /\ Head(box).t # "order" /\ done = ReversionSnapshot(m, u, Len(ords) + 1)
              /\ m.spread.status = "PLACING_HEDGE_ORDER" => m.spread.hedge.st = "NEW"
           \/ /\ u \in ReportSet(Len(ords)) /\ u = Head(box)
              /\ done = ReversionOrderUpdate(m, u, Len(ords) + 1)
    PROVE  World(sim, ords2, reqs2, Tail(box)) /\ Mind(ords2, reqs2, Tail(box), done.mem)
<1>1. PICK n, hd, rest : n = Len(ords) /\ hd = Head(box) /\ rest = Tail(box)
  OBVIOUS
<1>2. /\ ords \in Seq(OrderSet) /\ reqs \in Seq(RequestSet(n))
      /\ box \in Seq(Tasks("MeanReversion", n)) /\ m \in ReversionSet(n)
      /\ World(sim, ords, reqs, box) /\ Mind(ords, reqs, box, m)
  BY <1>1 DEF Sound
<1>3. BoxHandled(box, hd, rest)
  BY <1>1, <1>2, BoxTail DEF World, ToldOf
<1>4. World(sim, ords, reqs, rest)
  BY <1>2, <1>3, WorldTail
<1>5. CASE /\ hd.t # "order" /\ done = ReversionSnapshot(m, u, n + 1)
           /\ m.spread.status = "PLACING_HEDGE_ORDER" => m.spread.hedge.st = "NEW"
  <2>1. Mind(ords, reqs, rest, m)
    BY <1>2, <1>3, <1>5, MindTail
  <2>2. Ready(sim, ords, reqs, rest, m)
    BY <1>1, <1>2, <1>4 DEF Ready
  <2> QED
    BY <1>1, <1>5, <2>1, <2>2, SnapshotMind
<1>6. CASE u \in ReportSet(n) /\ u = hd /\ done = ReversionOrderUpdate(m, u, n + 1)
  <2>1. Ready(sim, ords, reqs, box, m)
    BY <1>1, <1>2 DEF Ready
  <2>2. PICK k \in DOMAIN box : box[k] = u
    BY <1>1, <1>2, <1>6, TailFacts
  <2> QED
    BY <1>1, <1>2, <1>3, <1>6, <2>1, <2>2, OrderMind
<1> QED
  BY <1>1, <1>5, <1>6

\* A task that is not a report is posted.
LEMMA PostSound ==
    ASSUME NEW sim, NEW ords, NEW reqs, NEW box, NEW m, Sound(sim, ords, reqs, box, m),
           NEW msg, msg.t # "order"
    PROVE  World(sim, ords, reqs, Append(box, msg)) /\ Mind(ords, reqs, Append(box, msg), m)
<1>1. PICK n, box2 : n = Len(ords) /\ box2 = Append(box, msg)
  OBVIOUS
<1>2. /\ box \in Seq(Tasks("MeanReversion", n)) /\ Made(sim, ords) /\ Asked(ords, reqs)
      /\ ToldOf(ords, reqs, box) /\ InOrder(box) /\ Mind(ords, reqs, box, m)
  BY <1>1 DEF Sound, World, ToldOf
<1>3. BoxPosted(box, msg, box2)
  BY <1>1, <1>2, BoxAppend
<1>4. /\ \A st : Reports(box2, st) <=> Reports(box, st)
      /\ InOrder(box2) /\ (NoReports(box) => NoReports(box2))
  BY <1>3 DEF BoxPosted
<1>5. \A k \in DOMAIN box2 : box2[k].t = "order" => ToldLast(ords[n], n, box2[k])
  BY <1>1, <1>2, <1>3 DEF BoxPosted, ToldOf
<1>6. ToldOf(ords, reqs, box2)
  BY <1>1, <1>2, <1>4, <1>5 DEF ToldOf
<1>7. \A w, t : Knows(ords, reqs, box, w, t) => Knows(ords, reqs, box2, w, t)
  BY <1>4 DEF Knows
<1>8. ASSUME m.spread.status = "NONE" PROVE Idle(ords, box2, m)
  BY <1>2, <1>4, <1>8 DEF Mind, Idle
<1>9. ASSUME m.spread.status = "PLACING_INITIAL_ORDER" PROVE Opening(ords, reqs, box2, m)
  <2>1. Opening(ords, reqs, box, m)
    BY <1>2, <1>9 DEF Mind
  <2>2. Knows(ords, reqs, box2, m.m_initial_order, m.spread.initial)
    BY <1>7, <2>1 DEF Opening
  <2> QED
    BY <2>1, <2>2 DEF Opening
<1>10. ASSUME m.spread.status \in HedgeStatuses PROVE Hedging(ords, reqs, box2, m)
  <2>1. Hedging(ords, reqs, box, m)
    BY <1>2, <1>10 DEF Mind
  <2>2. Knows(ords, reqs, box2, m.m_hedge_order, m.spread.hedge)
    BY <1>7, <2>1 DEF Hedging
  <2> QED
    BY <2>1, <2>2 DEF Hedging
<1> QED
  BY <1>1, <1>2, <1>6, <1>8, <1>9, <1>10 DEF World, Mind

\* A cancel of an order that is filled is taken, and refused.
LEMMA RefusedSound ==
    ASSUME NEW sim, NEW ords, NEW reqs, NEW box, NEW m, Sound(sim, ords, reqs, box, m),
           reqs # <<>>
    PROVE  World(sim, ords, Tail(reqs), box) /\ Mind(ords, Tail(reqs), box, m)
<1>1. PICK n, hd, reqs2 : n = Len(ords) /\ hd = Head(reqs) /\ reqs2 = Tail(reqs)
  OBVIOUS
<1>2. /\ ords \in Seq(OrderSet) /\ reqs \in Seq(RequestSet(n)) /\ n \in Nat
      /\ Made(sim, ords) /\ Asked(ords, reqs) /\ ToldOf(ords, reqs, box)
      /\ Mind(ords, reqs, box, m)
  BY <1>1 DEF Sound, World
<1>3. ReqsTaken(n, reqs, hd, reqs2)
  BY <1>1, <1>2, ReqsTail
<1>4. /\ \A k \in DOMAIN reqs2 : \E j \in DOMAIN reqs : reqs2[k] = reqs[j]
      /\ \A id : Cancels(reqs2, id) => Cancels(reqs, id)
      /\ \A k, l \in DOMAIN reqs2 : reqs2[k] = reqs2[l] /\ reqs2[k].id = n => k = l
  BY <1>3 DEF ReqsTaken
<1>5. Asked(ords, reqs2)
  BY <1>1, <1>2, <1>4 DEF Asked
<1>6. ToldOf(ords, reqs2, box)
  BY <1>2, <1>4 DEF ToldOf
<1>7. \A w, t : Knows(ords, reqs, box, w, t) => Knows(ords, reqs2, box, w, t)
  BY <1>4 DEF Knows
<1>8. ASSUME m.spread.status = "PLACING_INITIAL_ORDER" PROVE Opening(ords, reqs2, box, m)
  <2>1. Opening(ords, reqs, box, m)
    BY <1>2, <1>8 DEF Mind
  <2>2. Knows(ords, reqs2, box, m.m_initial_order, m.spread.initial)
    BY <1>7, <2>1 DEF Opening
  <2> QED
    BY <2>1, <2>2 DEF Opening
<1>9. ASSUME m.spread.status \in HedgeStatuses PROVE Hedging(ords, reqs2, box, m)
  <2>1. Hedging(ords, reqs, box, m)
    BY <1>2, <1>9 DEF Mind
  <2>2. Knows(ords, reqs2, box, m.m_hedge_order, m.spread.hedge)
    BY <1>7, <2>1 DEF Hedging
  <2> QED
    BY <1>4, <2>1, <2>2 DEF Hedging
<1> QED
  BY <1>1, <1>2, <1>5, <1>6, <1>8, <1>9 DEF World, Mind

\* The exchange changes the last order.
LEMMA ChangeSound ==
    ASSUME NEW sim, NEW ords, NEW reqs, NEW box, NEW m, Sound(sim, ords, reqs, box, m),
           NEW ords2, NEW reqs2, NEW msg, LastStep(sim, ords, reqs, box, ords2, reqs2, msg)
    PROVE  World(sim, ords2, reqs2, Append(box, msg)) /\ Mind(ords2, reqs2, Append(box, msg), m)
<1>1. World(sim, ords, reqs, box) /\ Mind(ords, reqs, box, m)
  BY DEF Sound
<1>2. m.spread.initial.side \in OrderSides
  <2>1. PICK n \in Nat : n = Len(ords) /\ m \in ReversionSet(n)
    BY DEF Sound
  <2>2. m.spread \in SpreadSet(n)
    BY <2>1, ReversionFacts
  <2> QED
    BY <2>1, <2>2, SpreadFacts
<1>3. World(sim, ords2, reqs2, Append(box, msg))
  BY <1>1, WorldStep
<1>4. Mind(ords2, reqs2, Append(box, msg), m)
  BY <1>1, <1>2, MindStep
<1> QED
  BY <1>3, <1>4

\* The mean reversion strategy in a round.
InRound == TypeOK /\ kind = "MeanReversion" /\ seen = {} /\ Round

LEMMA InRoundSound ==
    ASSUME InRound, m_current_state = "RUN"
    PROVE  Sound(simulated, orders, requests, inbox, mem)
<1>1. /\ orders \in Seq(OrderSet) /\ requests \in Seq(RequestSet(Len(orders)))
      /\ inbox \in Seq(Tasks("MeanReversion", Len(orders))) /\ MemOK(kind, mem, Len(orders))
  BY DEF InRound, TypeOK
<1>2. mem \in ReversionSet(Len(orders))
  BY <1>1 DEF MemOK, InRound
<1>3. World(simulated, orders, requests, inbox) /\ Mind(orders, requests, inbox, mem)
  BY DEF InRound, Round
<1> QED
  BY <1>1, <1>2, <1>3 DEF Sound

LEMMA PostRound ==
    ASSUME InRound, NEW msg, msg.t \notin {"order", "init", "other"},
           inbox' = Append(inbox, msg),
           UNCHANGED <<simulated, orders, requests, disconnected, m_current_state,
                       m_previous_state, mem>>
    PROVE  Round'
<1>1. PICK box, box2 : box = inbox /\ box2 = inbox'
  OBVIOUS
<1>2. box \in Seq(Tasks(kind, Len(orders))) /\ box2 = Append(box, msg)
  BY <1>1 DEF InRound, TypeOK
<1>3. \A k \in DOMAIN box2 : box2[k] = msg \/ \E j \in DOMAIN box : box2[k] = box[j]
  BY <1>2
<1>4. \A k \in DOMAIN box2 : box2[k].t \notin {"init", "other"}
  BY <1>1, <1>3 DEF InRound, Round
<1>5. ASSUME m_current_state = "RUN"
      PROVE  World(simulated, orders, requests, box2) /\ Mind(orders, requests, box2, mem)
  <2>1. Sound(simulated, orders, requests, box, mem)
    BY <1>1, <1>5, InRoundSound
  <2> QED
    BY <1>2, <2>1, PostSound
<1> QED
  BY <1>1, <1>4, <1>5 DEF InRound, Round

LEMMA PublishRisk ==
    ASSUME InRound, NEW x \in {"snapshot", "price", "other"}, Publish(x), seen' = {}
    PROVE  Round'
<1>1. PICK msg : msg = [t |-> x]
  OBVIOUS
<1>2. msg.t \notin {"order", "init", "other"}
  <2>1. x # "other"
    BY DEF Publish
  <2> QED
    BY <1>1, <2>1
<1>3. inbox' = Append(inbox, msg)
  BY <1>1 DEF Publish, Posts
<1>4. UNCHANGED <<simulated, orders, requests, disconnected, m_current_state,
                  m_previous_state, mem>>
  BY DEF Publish
<1> QED
  BY <1>2, <1>3, <1>4, PostRound

LEMMA UpdateConfigRisk ==
    ASSUME InRound, UpdateConfig
    PROVE  Round'
<1>1. PICK run \in BOOLEAN, moved \in BOOLEAN :
          inbox' = Append(inbox, [t |-> "config", run |-> run, moved |-> moved])
  BY DEF UpdateConfig, Posts
<1>2. PICK msg : msg = [t |-> "config", run |-> run, moved |-> moved]
  OBVIOUS
<1>3. msg.t \notin {"order", "init", "other"} /\ inbox' = Append(inbox, msg)
  BY <1>1, <1>2
<1>4. UNCHANGED <<simulated, orders, requests, disconnected, m_current_state,
                  m_previous_state, mem>>
  BY DEF UpdateConfig
<1> QED
  BY <1>3, <1>4, PostRound

LEMMA NoInit ==
    ASSUME InRound, RunInit
    PROVE  FALSE
<1>1. inbox # <<>> /\ Head(inbox).t = "init"
  BY DEF RunInit, Runs
<1>2. PICK box : box = inbox
  OBVIOUS
<1>3. box \in Seq(Tasks(kind, Len(orders))) /\ box # <<>>
  BY <1>1, <1>2 DEF InRound, TypeOK
<1>4. 1 \in DOMAIN box /\ Head(box) = box[1]
  BY <1>3, TailFacts
<1> QED
  BY <1>1, <1>2, <1>4 DEF InRound, Round

\* StrategyBase::update, in the RUN state and in the STOP state.
LEMMA UpdateRisk ==
    ASSUME InRound, inbox # <<>>, NEW u \in Updates, Update(u), seen' = {}
    PROVE  Round'
<1>1. TypeOK /\ kind = "MeanReversion" /\ Round /\ Trading
  BY DEF InRound, Trading
<1>2. PICK n, box, rest, m, c, done :
          /\ n = Len(orders) /\ box = inbox /\ rest = Tail(inbox) /\ m = mem
          /\ c = Changed(mem) /\ done = Handle(c.mem, u)
  OBVIOUS
<1>3. n \in Nat /\ m \in ReversionSet(n) /\ box \in Seq(Tasks(kind, n)) /\ box # <<>>
  BY <1>1, <1>2, TypeFacts DEF TypeOK, MemOK
<1>4. rest \in Seq(Tasks(kind, n)) /\ inbox' = rest
  <2>1. rest \in Seq(Tasks(kind, n))
    BY <1>2, <1>3, TailFacts
  <2>2. inbox' = rest \o <<>>
    BY <1>1, <1>2 DEF Update
  <2> QED
    BY <2>1, <2>2
<1>5. /\ Sends([done.out EXCEPT !.all = c.all]) /\ mem' = done.mem
      /\ m_previous_state' = m_current_state /\ ~HedgesTwice(c.mem, u)
      /\ UNCHANGED <<simulated, disconnected, m_current_state>>
  BY <1>2 DEF Update
<1>6. m_current_state \in {"STOP", "RUN"} /\ m_previous_state \in {"UNKNOWN", m_current_state}
  BY <1>1 DEF TypeOK, Round
<1>7. c.mem = m /\ c.all = FALSE
  <2>1. CASE m_previous_state = m_current_state
    <3>1. c = [mem |-> m, all |-> FALSE]
      BY <1>2, <2>1 DEF Changed
    <3> QED
      BY <3>1
  <2>2. CASE m_previous_state = "UNKNOWN" /\ m_current_state = "STOP"
    <3>1. c = [mem |-> m, all |-> FALSE]
      BY <1>2, <2>2 DEF Changed
    <3> QED
      BY <3>1
  <2>3. CASE m_previous_state = "UNKNOWN" /\ m_current_state = "RUN"
    <3>1. c = [mem |-> Begin(m), all |-> FALSE]
      BY <1>2, <2>3 DEF Changed
    <3>2. m = ReversionInit
      BY <1>1, <1>2, <2>3 DEF Round
    <3>3. Begin(m) = [ReversionInit EXCEPT !.m_pnl = 0, !.spread = SpreadReset]
      BY <1>1, <3>2 DEF Begin, ReversionBegin
    <3>4. PICK sr, no : sr = SpreadReset /\ no = NullOrder
      OBVIOUS
    <3>5. ReversionInit = [spread |-> sr, m_initial_order |-> no, m_hedge_order |-> no, m_pnl |-> 0]
      BY <3>4 DEF ReversionInit
    <3>6. [ReversionInit EXCEPT !.m_pnl = 0] = ReversionInit
      BY <3>5
    <3>7. [ReversionInit EXCEPT !.spread = SpreadReset] = ReversionInit
      BY <3>4, <3>5
    <3>8. Begin(m) = [[ReversionInit EXCEPT !.m_pnl = 0] EXCEPT !.spread = SpreadReset]
      BY <3>3
    <3>9. Begin(m) = m
      BY <3>2, <3>6, <3>7, <3>8
    <3> QED
      BY <3>1, <3>9
  <2> QED
    BY <1>6, <2>1, <2>2, <2>3
<1>8. Handled(n, m, u, done)
  <2>1. MemOK(kind, m, n)
    BY <1>1, <1>2 DEF TypeOK
  <2> QED
    BY <1>1, <1>2, <1>7, <2>1, HandleOK
<1>9. [done.out EXCEPT !.all = c.all] = done.out
  <2>1. PICK out : out = done.out
    OBVIOUS
  <2>2. PICK pl, ca, no : out = [place |-> pl, cancel |-> ca, all |-> no] /\ no = c.all
    BY <1>7, <1>8, <2>1 DEF Handled, DoneOK
  <2>3. [out EXCEPT !.all = no] = out
    BY <2>2
  <2> QED
    BY <2>1, <2>2, <2>3
<1>10. AskedFor(orders, requests, done.out, orders', requests')
  BY <1>1, <1>5, <1>9, AskedForOK
<1>11. \A k \in DOMAIN rest : rest[k].t \notin {"init", "other"}
  <2>1. \A k \in DOMAIN rest : \E j \in DOMAIN box : rest[k] = box[j]
    BY <1>2, <1>3, TailFacts
  <2> QED
    BY <1>1, <1>2, <2>1 DEF Round
<1>12. CASE m_current_state = "STOP"
  <2>1. done.out = Quiet
    BY <1>8, <1>12 DEF Handled
  <2>2. orders' = orders /\ requests' = requests
    BY <1>10, <2>1 DEF AskedFor
  <2> QED
    BY <1>1, <1>4, <1>5, <1>11, <1>12, <2>2 DEF Round
<1>13. CASE m_current_state = "RUN"
  <2>1. PICK sim, ords, reqs, ords2, reqs2 :
            /\ sim = simulated /\ ords = orders /\ reqs = requests
            /\ ords2 = orders' /\ reqs2 = requests'
    OBVIOUS
  <2>2. Sound(sim, ords, reqs, box, m)
    BY <1>2, <1>13, <2>1, InRoundSound
  <2>3. AskedFor(ords, reqs, done.out, ords2, reqs2)
    BY <1>10, <2>1
  <2>4. \/ u.t = "snapshot" /\ Head(box).t # "order"
        \/ u.t = "order" /\ u \in ReportSet(n) /\ u = Head(box)
    <3>1. Head(box).t # "other"
      <4>1. 1 \in DOMAIN box /\ Head(box) = box[1]
        BY <1>3, TailFacts
      <4> QED
        BY <1>1, <1>2, <4>1 DEF Round
    <3>2. /\ Head(box).t = "snapshot" => u.t = "snapshot"
          /\ Head(box).t = "order" => u = Head(box)
          /\ Head(box).t \in {"snapshot", "price", "order"}
      BY <1>1, <1>2, <3>1 DEF Updates, Snapshots
    <3>3. CASE Head(box).t = "order"
      BY <1>1, <1>2, <3>2, <3>3, UpdateFacts
    <3>4. CASE Head(box).t = "snapshot"
      BY <3>2, <3>4
    <3>5. CASE Head(box).t = "price"
      <4>1. u.t = "price"
        BY <1>2, <3>5 DEF Updates
      <4> QED
        BY <1>1, <4>1, UpdateFacts
    <3> QED
      BY <3>2, <3>3, <3>4, <3>5
  <2>5. \/ /\ Head(box).t # "order" /\ done = ReversionSnapshot(m, u, n + 1)
           /\ m.spread.status = "PLACING_HEDGE_ORDER" => m.spread.hedge.st = "NEW"
        \/ /\ u \in ReportSet(n) /\ u = Head(box)
           /\ done = ReversionOrderUpdate(m, u, n + 1)
    BY <1>1, <1>2, <1>5, <1>7, <1>13, <2>4 DEF Handle, HedgesTwice
  <2>6. World(sim, ords2, reqs2, rest) /\ Mind(ords2, reqs2, rest, done.mem)
    BY <1>2, <1>3, <2>1, <2>2, <2>3, <2>5, UpdateSound
  <2> QED
    BY <1>1, <1>4, <1>5, <1>11, <1>13, <2>1, <2>6 DEF Round
<1> QED
  BY <1>6, <1>12, <1>13

-----------------------------------------------------------------------------
(* The exchange *)

\* A step of the exchange in which no fault leaves a trace.
EntryQuiet == UNCHANGED <<simulated, disconnected, m_current_state, m_previous_state, mem>>

LEMMA LastRound ==
    ASSUME InRound, m_current_state = "RUN", EntryQuiet, NEW msg,
           LastStep(simulated, orders, requests, inbox, orders', requests', msg),
           inbox' = Append(inbox, msg)
    PROVE  Round'
<1>1. PICK sim, ords, reqs, box, m, ords2, reqs2, box2 :
          /\ sim = simulated /\ ords = orders /\ reqs = requests /\ box = inbox /\ m = mem
          /\ ords2 = orders' /\ reqs2 = requests' /\ box2 = inbox'
  OBVIOUS
<1>2. Sound(sim, ords, reqs, box, m)
  BY <1>1, InRoundSound
<1>3. World(sim, ords2, reqs2, box2) /\ Mind(ords2, reqs2, box2, m)
  BY <1>1, <1>2, ChangeSound
<1>4. \A k \in DOMAIN box2 : box2[k].t \notin {"init", "other"}
  <2>1. box \in Seq(Tasks(kind, Len(orders))) /\ box2 = Append(box, msg) /\ msg.t = "order"
    BY <1>1 DEF InRound, TypeOK, LastStep
  <2>2. \A k \in DOMAIN box2 : box2[k] = msg \/ \E j \in DOMAIN box : box2[k] = box[j]
    BY <2>1
  <2> QED
    BY <1>1, <2>1, <2>2 DEF InRound, Round
<1>5. /\ disconnected' = {} /\ m_previous_state' \in {"UNKNOWN", m_current_state'}
      /\ m_current_state' = "RUN" /\ (m_previous_state' = "UNKNOWN" => mem' = ReversionInit)
  BY DEF InRound, Round, EntryQuiet
<1>6. World(simulated', orders', requests', inbox') /\ Mind(orders', requests', inbox', mem')
  BY <1>1, <1>3 DEF EntryQuiet
<1> QED
  BY <1>1, <1>4, <1>5, <1>6 DEF Round

\* Nothing is asked or made in the STOP state.
LEMMA StopIdle ==
    ASSUME InRound, m_current_state # "RUN"
    PROVE  orders = <<>> /\ requests = <<>>
BY DEF InRound, Round, TypeOK

\* The first request is about the last order, or too late.
FirstAsked(n) ==
    LET r == Head(requests) IN
    /\ r.op \in {"place", "cancel"} /\ r.id \in 1..n /\ r = Request(r.op, r.id)
    /\ r.op = "place" => r.id = n /\ orders[n].st = "sent"
    /\ r.op = "cancel" => orders[r.id].st = "filled" \/ (r.id = n /\ orders[n].st = "open")

\* Without a configuration, all that there is is at one place.
LEMMA OnePlace ==
    ASSUME InRound
    PROVE  ~Elsewhere /\ (AtExchange <=> ~simulated) /\ (AtSimulator <=> simulated)
BY DEF InRound, Elsewhere, AtExchange, AtSimulator

LEMMA FirstAskedOK ==
    ASSUME InRound, m_current_state = "RUN", requests # <<>>
    PROVE  FirstAsked(Len(orders))
<1>1. PICK n, ords, reqs, r : /\ n = Len(orders) /\ ords = orders /\ reqs = requests
                              /\ r = Head(requests)
  OBVIOUS
<1>2. Asked(ords, reqs) /\ reqs \in Seq(RequestSet(n)) /\ reqs # <<>> /\ n \in Nat
  BY <1>1, InRoundSound DEF Sound, World
<1>3. 1 \in DOMAIN reqs /\ reqs[1] = r /\ r \in RequestSet(n)
  BY <1>1, <1>2, TailFacts
<1>4. /\ r.op \in {"place", "cancel"}
      /\ r.op = "place" => r.id = n /\ ords[n].st = "sent"
      /\ r.op = "cancel" => ords[r.id].st = "filled" \/ (r.id = n /\ ords[n].st = "open")
  BY <1>1, <1>2, <1>3 DEF Asked
<1>5. r = Request(r.op, r.id) /\ (r.op = "place" => r.id \in 1..n)
  BY <1>2, <1>3, RequestFacts
<1>6. r.op = "cancel" => r.id \in 1..n
  BY <1>1, <1>2, <1>3 DEF Asked
<1> QED
  BY <1>1, <1>4, <1>5, <1>6 DEF FirstAsked

\* What an order of a round has filled.
LEMMA FilledFacts ==
    ASSUME InRound, m_current_state = "RUN", NEW id \in 1..Len(orders)
    PROVE  /\ Amount(simulated, orders[id]) /\ orders[id].filled \in 0..2
           /\ orders[id].st \in {"sent", "open"} => id = Len(orders)
<1>1. Made(simulated, orders) /\ orders \in Seq(OrderSet)
  BY InRoundSound DEF Sound, World
<1>2. orders[id] \in OrderSet /\ Len(orders) \in Nat
  BY <1>1
<1>3. Amount(simulated, orders[id])
      /\ (id < Len(orders) => orders[id].st \in {"filled", "canceled", "rejected"})
  BY <1>1 DEF Made
<1>4. orders[id].filled \in 0..2
  <2>1. orders[id].st \in {"sent", "open", "filled", "canceled", "rejected"}
    BY <1>2 DEF OrderSet
  <2>2. orders[id].filled \in {0, 1, 2}
    BY <1>3, <2>1 DEF Amount
  <2> QED
    BY <2>2
<1> QED
  BY <1>2, <1>3, <1>4

\* ords2 is ords, but order id is st and has filled f more.
ChangedOne(ords, id, st, f, ords2) ==
    /\ ords2 \in Seq(OrderSet) /\ Len(ords2) = Len(ords)
    /\ DOMAIN ords2 = 1..Len(ords) /\ DOMAIN ords = 1..Len(ords)
    /\ ords2[id].st = st /\ ords2[id].filled = ords[id].filled + f
    /\ ords2[id].side = ords[id].side
    /\ \A i \in 1..Len(ords) : i # id => ords2[i] = ords[i]

LEMMA ChangedOneOK ==
    ASSUME NEW ords \in Seq(OrderSet), NEW id \in 1..Len(ords),
           NEW st \in {"sent", "open", "filled", "canceled", "rejected"}, NEW f \in Int,
           NEW ords2, ords2 = [ords EXCEPT ![id].st = st, ![id].filled = @ + f]
    PROVE  ChangedOne(ords, id, st, f, ords2)
<1>1. DOMAIN ords = 1..Len(ords) /\ Len(ords) \in Nat
  OBVIOUS
<1>2. PICK o : o = ords[id] /\ o \in OrderSet
  BY <1>1
<1>3. PICK sd, t, fi : o = [side |-> sd, st |-> t, filled |-> fi] /\ fi \in Int /\ sd \in OrderSides
  BY <1>2 DEF OrderSet
<1>4. PICK o1 : o1 = [o EXCEPT !.st = st]
  OBVIOUS
<1>5. o1 = [side |-> sd, st |-> st, filled |-> fi]
  BY <1>3, <1>4
<1>6. PICK o2 : o2 = [o1 EXCEPT !.filled = @ + f]
  OBVIOUS
<1>7. o2 = [side |-> sd, st |-> st, filled |-> fi + f]
  BY <1>5, <1>6
<1>8. o2 \in OrderSet
  BY <1>3, <1>7 DEF OrderSet
<1>9. ords2 = [ords EXCEPT ![id] = o2]
  <2>1. PICK ords1 : ords1 = [ords EXCEPT ![id].st = st]
    OBVIOUS
  <2>2. ords2 = [ords1 EXCEPT ![id].filled = @ + f]
    BY <2>1
  <2>3. ords1 = [ords EXCEPT ![id] = o1] /\ ords1[id] = o1
    BY <1>1, <1>2, <1>4, <2>1
  <2>4. ords2 = [ords1 EXCEPT ![id] = [ords1[id] EXCEPT !.filled = @ + f]]
    BY <2>2
  <2>5. ords2 = [ords1 EXCEPT ![id] = o2]
    BY <1>6, <2>3, <2>4
  <2> QED
    BY <2>3, <2>5
<1>10. /\ ords2 \in Seq(OrderSet) /\ Len(ords2) = Len(ords) /\ DOMAIN ords2 = 1..Len(ords)
       /\ ords2[id] = o2 /\ \A i \in 1..Len(ords) : i # id => ords2[i] = ords[i]
  <2>1. ords2[id] = o2 /\ \A i \in 1..Len(ords) : i # id => ords2[i] = ords[i]
    BY <1>1, <1>9
  <2>2. ords2 \in Seq(OrderSet) /\ DOMAIN ords2 = 1..Len(ords)
    BY <1>8, <1>9
  <2> QED
    BY <1>1, <2>1, <2>2
<1>11. o2.st = st /\ o2.filled = o.filled + f /\ o2.side = o.side
  BY <1>3, <1>7
<1> QED
  BY <1>1, <1>2, <1>10, <1>11 DEF ChangedOne

\* The last order goes to st, a report says status, and the request for it, if
\* any, is taken.
LastGoes(n, st, status) ==
    \/ /\ requests # <<>> /\ Head(requests) = Request("place", n) /\ requests' = Tail(requests)
       /\ \/ st = "open" /\ status = "NEW"
          \/ st = "rejected" /\ status = "REJECTED"
    \/ /\ requests # <<>> /\ Head(requests) = Request("cancel", n) /\ requests' = Tail(requests)
       /\ orders[n].st = "open" /\ st = "canceled" /\ status = "CANCELED"
    \/ /\ requests' = requests /\ orders[n].st = "open"
       /\ \/ st = "filled" /\ status = "FILLED"
          \/ st = "open" /\ status = "PARTIALLY_FILLED"

LEMMA LastGoesRound ==
    ASSUME InRound, m_current_state = "RUN", EntryQuiet, NEW st, NEW f \in 0..2, NEW status,
           NEW n, n = Len(orders), n > 0, ChangedOne(orders, n, st, f, orders'),
           orders[n].filled + f \in 0..2, LastGoes(n, st, status),
           st \in {"canceled", "rejected"} => orders[n].filled + f = 0,
           st = "open" => orders[n].filled + f \in {0, 1}
                          /\ (simulated => orders[n].filled + f = 0),
           st = "filled" => orders[n].filled + f = 2,
           NEW g, inbox' = Append(inbox, Report(n, status, g))
    PROVE  Round'
<1>1. PICK sim, ords, reqs, box, ords2, reqs2, msg :
          /\ sim = simulated /\ ords = orders /\ reqs = requests /\ box = inbox
          /\ ords2 = orders' /\ reqs2 = requests' /\ msg = Report(n, status, g)
  OBVIOUS
<1>2. /\ ords \in Seq(OrderSet) /\ reqs \in Seq(RequestSet(n)) /\ n \in Nat
      /\ box \in Seq(Tasks("MeanReversion", n))
  BY <1>1, InRoundSound DEF Sound
<1>3. n \in 1..n /\ ords[n].filled \in 0..2
  BY <1>1, <1>2, FilledFacts
<1>4. ChangedOne(ords, n, st, f, ords2)
  BY <1>1
<1>5. /\ ords2 \in Seq(OrderSet) /\ Len(ords2) = n /\ DOMAIN ords2 = DOMAIN ords
      /\ ords2[n].st = st /\ ords2[n].filled = ords[n].filled + f
      /\ ords2[n].side = ords[n].side
      /\ \A i \in DOMAIN ords : i # n => ords2[i] = ords[i]
      /\ n \in DOMAIN ords
  BY <1>1, <1>3, <1>4 DEF ChangedOne
<1>6. ords2[n].filled - ords[n].filled = f
  BY <1>3, <1>5
<1>7. FillsMore(ords, ords2, n, f)
  BY <1>1, <1>2, <1>3, <1>5 DEF FillsMore
<1>8. Amount(sim, ords2[n])
  <2>1. st \in {"open", "rejected", "canceled", "filled"}
    BY DEF LastGoes
  <2> QED
    BY <1>1, <1>5, <2>1 DEF Amount
<1>9. msg.t = "order" /\ msg.id = n /\ msg.side = ords[n].side /\ msg.st = status
  BY <1>1 DEF Report
<1>10. LastStep(sim, ords, reqs, box, ords2, reqs2, msg)
  BY <1>1, <1>2, <1>5, <1>6, <1>7, <1>8, <1>9 DEF LastStep, LastGoes
<1> QED
  BY <1>1, <1>10, LastRound

\* The exchange takes a place request.
LEMMA PlaceRisk ==
    ASSUME InRound, EntryQuiet, Takes("place"), NEW st, NEW status,
           \/ st = "open" /\ status = "NEW"
           \/ st = "rejected" /\ status = "REJECTED",
           Changes(Head(requests).id, st, 0, status)
    PROVE  Round'
<1>1. requests # <<>> /\ Head(requests).op = "place" /\ requests' = Tail(requests)
  BY DEF Takes
<1>2. m_current_state = "RUN"
  BY <1>1, StopIdle
<1>3. PICK n : n = Len(orders)
  OBVIOUS
<1>4. FirstAsked(n)
  BY <1>1, <1>2, <1>3, FirstAskedOK
<1>5. Head(requests).id = n /\ n \in 1..n /\ orders[n].st = "sent"
      /\ Head(requests) = Request("place", n)
  BY <1>1, <1>4 DEF FirstAsked
<1>6. orders \in Seq(OrderSet) /\ n \in Nat /\ n > 0
  BY <1>3, <1>5 DEF InRound, TypeOK
<1>7. Amount(simulated, orders[n])
  BY <1>2, <1>3, <1>5, FilledFacts
<1>8. orders[n].filled + 0 = 0
  BY <1>5, <1>7 DEF Amount
<1>9. PICK f \in 0..2 : f = 0
  OBVIOUS
<1>10. /\ orders' = [orders EXCEPT ![n].st = st, ![n].filled = @ + f]
       /\ \E g : inbox' = Append(inbox, Report(n, status, g))
  BY <1>5, <1>9 DEF Changes
<1>11. ChangedOne(orders, n, st, f, orders')
  <2>1. st \in {"sent", "open", "filled", "canceled", "rejected"} /\ f \in Int
    BY <1>9
  <2>2. PICK ords, ords2 : ords = orders /\ ords2 = orders'
    OBVIOUS
  <2>3. /\ ords \in Seq(OrderSet) /\ n \in 1..Len(ords)
        /\ ords2 = [ords EXCEPT ![n].st = st, ![n].filled = @ + f]
    BY <1>3, <1>5, <1>6, <1>10, <2>2
  <2>4. ChangedOne(ords, n, st, f, ords2)
    BY <2>1, <2>3, ChangedOneOK
  <2> QED
    BY <2>2, <2>4
<1>12. LastGoes(n, st, status)
  BY <1>1, <1>5 DEF LastGoes
<1>13. orders[n].filled + f = 0 /\ orders[n].filled + f \in 0..2
  BY <1>8, <1>9
<1> QED
  BY <1>2, <1>3, <1>6, <1>10, <1>11, <1>12, <1>13, LastGoesRound

\* The exchange, or SimulatorOrder, cancels the last order.
LEMMA CancelRisk ==
    ASSUME InRound, EntryQuiet, Takes("cancel"), orders[Head(requests).id].st = "open",
           orders[Head(requests).id].filled = 0,
           ChangedOne(orders, Head(requests).id, "canceled", 0, orders'),
           inbox' = Append(inbox, Report(Head(requests).id, "CANCELED", 0))
    PROVE  Round'
<1>1. requests # <<>> /\ Head(requests).op = "cancel" /\ requests' = Tail(requests)
  BY DEF Takes
<1>2. m_current_state = "RUN"
  BY <1>1, StopIdle
<1>3. PICK n, f : n = Len(orders) /\ f = 0
  OBVIOUS
<1>4. FirstAsked(n)
  BY <1>1, <1>2, <1>3, FirstAskedOK
<1>5. Head(requests).id = n /\ n \in 1..n /\ orders[n].st = "open"
      /\ Head(requests) = Request("cancel", n)
  BY <1>1, <1>4 DEF FirstAsked
<1>6. n > 0 /\ LastGoes(n, "canceled", "CANCELED")
  BY <1>1, <1>5 DEF LastGoes
<1>7. orders[n].filled + f = 0 /\ orders[n].filled + f \in 0..2 /\ f \in 0..2
  BY <1>3, <1>5
<1>8. PICK st, status : st = "canceled" /\ status = "CANCELED"
  OBVIOUS
<1>9. /\ ChangedOne(orders, n, st, f, orders') /\ inbox' = Append(inbox, Report(n, status, f))
      /\ LastGoes(n, st, status)
  BY <1>3, <1>5, <1>6, <1>8
<1> QED
  BY <1>2, <1>3, <1>6, <1>7, <1>8, <1>9, LastGoesRound

LEMMA CanceledOnExchangeRisk ==
    ASSUME InRound, EntryQuiet, CanceledOnExchange, seen' = {}
    PROVE  Round'
<1>1. Takes("cancel") /\ requests # <<>> /\ requests' = Tail(requests)
      /\ Head(requests).op = "cancel"
  BY DEF CanceledOnExchange, Takes
<1>2. m_current_state = "RUN"
  BY <1>1, StopIdle
<1>3. PICK n, id : n = Len(orders) /\ id = Head(requests).id
  OBVIOUS
<1>4. FirstAsked(n)
  BY <1>1, <1>2, <1>3, FirstAskedOK
<1>5. id \in 1..n /\ orders \in Seq(OrderSet)
  BY <1>3, <1>4 DEF FirstAsked, InRound, TypeOK
<1>6. CASE orders[id].st = "open"
  <2>1. Changes(id, "canceled", 0, "CANCELED") /\ ~(orders[id].filled > 0)
    <3>1. ~Elsewhere /\ id \in DOMAIN orders
      BY <1>3, <1>5, OnePlace
    <3> QED
      BY <1>3, <1>6, <3>1 DEF CanceledOnExchange
  <2>2. orders[id].filled = 0
    BY <1>2, <1>3, <1>5, <2>1, FilledFacts
  <2>3. /\ orders' = [orders EXCEPT ![id].st = "canceled", ![id].filled = @ + 0]
        /\ inbox' = Append(inbox, Report(id, "CANCELED", 0))
    BY <2>1 DEF Changes
  <2>4. PICK st, f : st = "canceled" /\ f = 0 /\ f \in Int
    OBVIOUS
  <2>5. orders' = [orders EXCEPT ![id].st = st, ![id].filled = @ + f]
    BY <2>3, <2>4
  <2>6. ChangedOne(orders, id, st, f, orders')
    BY <1>3, <1>5, <2>4, <2>5, ChangedOneOK
  <2> QED
    BY <1>1, <1>3, <1>6, <2>2, <2>3, <2>4, <2>6, CancelRisk
<1>7. CASE orders[id].st # "open"
  <2>1. orders' = orders /\ inbox' = inbox
    BY <1>3, <1>7 DEF CanceledOnExchange
  <2>2. World(simulated, orders, Tail(requests), inbox)
        /\ Mind(orders, Tail(requests), inbox, mem)
    BY <1>1, <1>2, InRoundSound, RefusedSound
  <2> QED
    BY <1>1, <1>2, <2>1, <2>2 DEF InRound, Round, EntryQuiet
<1> QED
  BY <1>6, <1>7

LEMMA execute_cancelRisk ==
    ASSUME InRound, EntryQuiet, execute_cancel, seen' = {}
    PROVE  Round'
<1>1. Takes("cancel") /\ requests # <<>> /\ requests' = Tail(requests)
      /\ Head(requests).op = "cancel" /\ simulated
  BY OnePlace DEF execute_cancel, Takes
<1>2. m_current_state = "RUN"
  BY <1>1, StopIdle
<1>3. PICK n, id : n = Len(orders) /\ id = Head(requests).id
  OBVIOUS
<1>4. FirstAsked(n)
  BY <1>1, <1>2, <1>3, FirstAskedOK
<1>5. id \in DOMAIN orders /\ orders[id].st # "filled"
  <2>1. id \in DOMAIN orders
    BY <1>3, <1>4, TypeFacts DEF FirstAsked, InRound
  <2> QED
    BY <1>3, <2>1 DEF execute_cancel
<1>6. id \in 1..n /\ orders[id].st = "open" /\ orders \in Seq(OrderSet)
  BY <1>1, <1>3, <1>4, <1>5 DEF FirstAsked, InRound, TypeOK
<1>7. orders[id].filled = 0
  BY <1>1, <1>2, <1>3, <1>6, FilledFacts DEF Amount
<1>8. /\ orders' = [orders EXCEPT ![id].st = IF @ = "filled" THEN @ ELSE "canceled"]
      /\ inbox' = Append(inbox, Report(id, "CANCELED", 0))
  BY <1>3, <1>5 DEF execute_cancel
<1>9. ChangedOne(orders, id, "canceled", 0, orders')
  <2>1. PICK ords, o : ords = orders /\ o = orders[id] /\ o \in OrderSet
    BY <1>3, <1>6
  <2>2. PICK sd : o = [side |-> sd, st |-> "open", filled |-> 0] /\ sd \in OrderSides
    BY <1>6, <1>7, <2>1 DEF OrderSet
  <2>3. PICK o2 : o2 = [side |-> sd, st |-> "canceled", filled |-> 0]
    OBVIOUS
  <2>4. [o EXCEPT !.st = "canceled"] = o2
    BY <2>2, <2>3
  <2>5. orders' = [ords EXCEPT ![id] = [o EXCEPT !.st = IF @ = "filled" THEN @ ELSE "canceled"]]
    BY <1>8, <2>1
  <2>6. orders' = [ords EXCEPT ![id] = o2]
    BY <2>2, <2>4, <2>5
  <2>7. o2 \in OrderSet /\ o2.st = "canceled" /\ o2.filled = o.filled + 0 /\ o2.side = o.side
    BY <2>2, <2>3 DEF OrderSet
  <2>8. ords \in Seq(OrderSet) /\ DOMAIN ords = 1..Len(ords) /\ id \in 1..Len(ords) /\ Len(ords) \in Nat
    BY <1>3, <1>6, <2>1
  <2>9. PICK ords2 : ords2 = [ords EXCEPT ![id] = o2] /\ ords2 = orders'
    BY <2>6
  <2>10. ords2[id] = o2 /\ \A i \in 1..Len(ords) : i # id => ords2[i] = ords[i]
    BY <2>8, <2>9
  <2>11. ords2 \in Seq(OrderSet) /\ DOMAIN ords2 = 1..Len(ords)
    BY <2>7, <2>8, <2>9
  <2>12. Len(ords2) = Len(ords)
    BY <2>8, <2>11
  <2>13. ChangedOne(ords, id, "canceled", 0, ords2)
    BY <2>1, <2>7, <2>8, <2>10, <2>11, <2>12 DEF ChangedOne
  <2> QED
    BY <2>1, <2>9, <2>13
<1> QED
  BY <1>1, <1>3, <1>6, <1>7, <1>8, <1>9, CancelRisk

LEMMA NoCancelAll ==
    ASSUME InRound, CanceledAll \/ execute_cancel_all
    PROVE  FALSE
<1>1. requests # <<>> /\ Head(requests).op = "cancel_all"
  BY DEF CanceledAll, execute_cancel_all, Takes
<1>2. m_current_state = "RUN"
  BY <1>1, StopIdle
<1>3. FirstAsked(Len(orders))
  BY <1>1, <1>2, FirstAskedOK
<1> QED
  BY <1>1, <1>3 DEF FirstAsked

\* The exchange fills the last order, or a part of it.
LEMMA FillRisk ==
    ASSUME InRound, EntryQuiet, NEW id \in DOMAIN orders, Filled(id) \/ PartiallyFilled(id)
    PROVE  Round'
<1>1. PICK n : n = Len(orders)
  OBVIOUS
<1>2. orders \in Seq(OrderSet) /\ n \in Nat /\ id \in 1..n
  BY <1>1, TypeFacts DEF InRound, TypeOK
<1>3. m_current_state = "RUN"
  BY <1>1, <1>2, StopIdle
<1>4. orders[id].st = "open" /\ requests' = requests
  BY DEF Filled, PartiallyFilled
<1>5. id = n /\ n > 0 /\ Amount(simulated, orders[n]) /\ orders[n].filled \in 0..2
  BY <1>1, <1>2, <1>3, <1>4, FilledFacts
<1>6. CASE Filled(id)
  <2>1. PICK f : f = 2 - orders[id].filled
    OBVIOUS
  <2>2. f \in 0..2 /\ f \in Int /\ orders[n].filled + f = 2 /\ orders[n].filled + f \in 0..2
    BY <1>5, <2>1
  <2>3. /\ orders' = [orders EXCEPT ![n].st = "filled", ![n].filled = @ + f]
        /\ \E g : inbox' = Append(inbox, Report(n, "FILLED", g))
    BY <1>5, <1>6, <2>1 DEF Filled, Changes
  <2>4. PICK st, status : st = "filled" /\ status = "FILLED"
    OBVIOUS
  <2>5. ChangedOne(orders, n, st, f, orders')
    BY <1>1, <1>2, <1>5, <2>2, <2>3, <2>4, ChangedOneOK
  <2>6. LastGoes(n, st, status)
    BY <1>4, <1>5, <2>4 DEF LastGoes
  <2> QED
    BY <1>1, <1>3, <1>5, <2>2, <2>3, <2>4, <2>5, <2>6, LastGoesRound
<1>7. CASE PartiallyFilled(id)
  <2>1. ~simulated /\ orders[n].filled = 0
    BY <1>5, <1>7, OnePlace DEF PartiallyFilled
  <2>2. PICK st, status, f : st = "open" /\ status = "PARTIALLY_FILLED" /\ f = 1
    OBVIOUS
  <2>3. f \in 0..2 /\ f \in Int /\ orders[n].filled + f = 1 /\ orders[n].filled + f \in 0..2
    BY <2>1, <2>2
  <2>4. /\ orders' = [orders EXCEPT ![n].st = st, ![n].filled = @ + f]
        /\ \E g : inbox' = Append(inbox, Report(n, status, g))
    BY <1>5, <1>7, <2>2 DEF PartiallyFilled, Changes
  <2>5. ChangedOne(orders, n, st, f, orders')
    BY <1>1, <1>2, <1>5, <2>2, <2>3, <2>4, ChangedOneOK
  <2>6. LastGoes(n, st, status)
    BY <1>4, <1>5, <2>2 DEF LastGoes
  <2> QED
    BY <1>1, <1>3, <1>5, <2>1, <2>2, <2>3, <2>4, <2>5, <2>6, LastGoesRound
<1> QED
  BY <1>6, <1>7

LEMMA EntryRisk ==
    ASSUME InRound, EntryNext, UNCHANGED strategy_vars, seen' = {}
    PROVE  Round'
<1>1. UNCHANGED <<m_current_state, m_previous_state, mem>>
  BY DEF strategy_vars
<1>2. CASE Accepted
  <2>1. Takes("place") /\ Changes(Head(requests).id, "open", 0, "NEW") /\ EntryQuiet
    BY <1>1, <1>2 DEF Accepted, EntryQuiet
  <2> QED
    BY <2>1, PlaceRisk
<1>3. CASE Rejected
  <2>1. Takes("place") /\ Changes(Head(requests).id, "rejected", 0, "REJECTED") /\ EntryQuiet
    BY <1>1, <1>3 DEF Rejected, EntryQuiet
  <2> QED
    BY <2>1, PlaceRisk
<1>4. CASE CanceledOnExchange
  BY <1>1, <1>4, CanceledOnExchangeRisk DEF CanceledOnExchange, EntryQuiet
<1>5. CASE execute_cancel
  BY <1>1, <1>5, execute_cancelRisk DEF execute_cancel, EntryQuiet
<1>6. CASE CanceledAll \/ execute_cancel_all
  BY <1>6, NoCancelAll
<1>7. ASSUME NEW id \in DOMAIN orders, Filled(id) \/ PartiallyFilled(id) \/ Expired(id)
      PROVE  Round'
  <2>1. ~Expired(id)
    BY DEF Expired
  <2>2. EntryQuiet
    BY <1>1, <1>7, <2>1 DEF Filled, PartiallyFilled, EntryQuiet
  <2> QED
    BY <1>7, <2>1, <2>2, FillRisk
<1>8. ASSUME NEW executed \in BOOLEAN, ConnectionBreaks(executed) PROVE FALSE
  BY <1>8 DEF ConnectionBreaks
<1>9. ASSUME NEW r \in disconnected PROVE FALSE
  BY <1>9 DEF InRound, Round
<1> QED
  BY <1>2, <1>3, <1>4, <1>5, <1>6, <1>7, <1>8, <1>9 DEF EntryNext

-----------------------------------------------------------------------------
(* One order at risk *)

LEMMA RiskInit == Init => RiskInv
<1> SUFFICES ASSUME Init, kind = "MeanReversion" PROVE Round
  BY DEF RiskInv
<1>1. /\ orders = <<>> /\ requests = <<>> /\ disconnected = {} /\ inbox = <<>>
      /\ m_previous_state = "UNKNOWN" /\ mem = ReversionInit
  BY DEF Init, EntryInit, init_states
<1>2. DOMAIN orders = {} /\ DOMAIN requests = {} /\ DOMAIN inbox = {} /\ Len(orders) = 0
  BY <1>1
<1>3. World(simulated, orders, requests, inbox)
  <2>1. Made(simulated, orders)
    BY <1>2 DEF Made
  <2>2. Asked(orders, requests) /\ ToldOf(orders, requests, inbox)
    BY <1>2 DEF Asked, ToldOf, Reports, InOrder
  <2> QED
    BY <2>1, <2>2 DEF World
<1>4. /\ mem.spread = SpreadReset /\ mem.m_initial_order = NullOrder
      /\ mem.spread.status = "NONE" /\ mem.spread.initial = NullOrder /\ NullOrder.st # "FILLED"
  BY <1>1 DEF ReversionInit, SpreadReset, NullOrder
<1>5. PositionOf(orders) = 0
  <2>1. Traded(orders, "BUY") = {} /\ Traded(orders, "SELL") = {}
    BY <1>2 DEF Traded
  <2>2. Cardinality({}) = 0
    BY FS_EmptySet
  <2> QED
    BY <2>1, <2>2 DEF PositionOf
<1>6. Idle(orders, inbox, mem)
  BY <1>2, <1>4, <1>5 DEF Idle, NoReports
<1>7. Mind(orders, requests, inbox, mem)
  BY <1>4, <1>6 DEF Mind, HedgeStatuses
<1> QED
  BY <1>1, <1>2, <1>3, <1>7 DEF Round

LEMMA RiskNext ==
    ASSUME IInv, RiskInv, [Next]_vars
    PROVE  RiskInv'
<1>1. CASE UNCHANGED vars
  BY <1>1 DEF vars, entry_vars, strategy_vars, RiskInv, Round
<1>2. CASE Next
  <2> SUFFICES ASSUME kind' = "MeanReversion", seen' = {} PROVE Round'
    BY DEF RiskInv
  <2>1. kind = "MeanReversion" /\ seen = {}
    BY <1>2 DEF Next, Acts, Publish, UpdateConfig, ApplyConfig, RunInit, Update, CloseFarOrders,
       RemoveOldTrades, CloseTimer, EntryNext, strategy_vars, Accepted, Rejected,
       CanceledOnExchange, execute_cancel, CanceledAll, execute_cancel_all, Filled,
       PartiallyFilled, Expired, ConnectionBreaks, AnswerDisconnected
  <2>2. InRound
    BY <2>1 DEF InRound, IInv, RiskInv
  <2>3. ASSUME NEW x \in {"snapshot", "price", "other"}, Publish(x) PROVE Round'
    BY <2>2, <2>3, PublishRisk
  <2>4. CASE UpdateConfig
    BY <2>2, <2>4, UpdateConfigRisk
  <2>5. CASE ApplyConfig
    BY <2>5 DEF ApplyConfig
  <2>6. CASE RunInit
    BY <2>2, <2>6, NoInit
  <2>7. ASSUME inbox # <<>>, NEW u \in Updates, Update(u) PROVE Round'
    BY <2>2, <2>7, UpdateRisk
  <2>8. CASE CloseFarOrders \/ RemoveOldTrades
    <3>1. (Runs("close") \/ Runs("trades")) /\ TypeOK
      BY <2>2, <2>8 DEF CloseFarOrders, RemoveOldTrades, InRound
    <3>2. kind = "MarketMaker"
      BY <3>1, RunsFacts
    <3> QED
      BY <2>1, <3>2
  <2>9. CASE CloseTimer
    BY <2>1, <2>9 DEF CloseTimer
  <2>10. CASE EntryNext /\ UNCHANGED strategy_vars
    BY <2>2, <2>10, EntryRisk
  <2> QED
    BY <1>2, <2>3, <2>4, <2>5, <2>6, <2>7, <2>8, <2>9, <2>10 DEF Next, Acts
<1> QED
  BY <1>1, <1>2

\* strategy_mr_state_run.cpp: as long as seen is empty (see OneOrderAtRisk) the
\* strategy and the exchange agree on the round they are in.
THEOREM RoundsKept == Spec => [](IInv /\ RiskInv)
<1>1. Init => IInv /\ RiskInv
  BY InitOK, RiskInit
<1>2. IInv /\ RiskInv /\ [Next]_vars => IInv' /\ RiskInv'
  BY NextOK, RiskNext
<1> QED
  BY <1>1, <1>2, PTL DEF Spec

\* What a round says of the position.
LEMMA PositionInRound ==
    ASSUME InRound, m_current_state = "RUN"
    PROVE  PositionOf(orders) \in -2..2
<1>1. PICK n, s : n = Len(orders) /\ s = mem.spread
  OBVIOUS
<1>2. Mind(orders, requests, inbox, mem) /\ mem \in ReversionSet(n) /\ n \in Nat
  BY <1>1, InRoundSound DEF Sound
<1>3. s \in SpreadSet(n)
  BY <1>1, <1>2, ReversionFacts
<1>4. s.status \in {"NONE", "PLACING_INITIAL_ORDER"} \cup HedgeStatuses
  BY <1>3 DEF SpreadSet
<1>5. \A side, i : i \in 0..2 => Signed(side, i) \in -2..2
  BY DEF Signed
<1>6. n > 0 => orders[n].filled \in 0..2 /\ 2 - orders[n].filled \in 0..2
  <2> SUFFICES ASSUME n > 0 PROVE orders[n].filled \in 0..2 /\ 2 - orders[n].filled \in 0..2
    OBVIOUS
  <2>1. orders[n].filled \in 0..2
    BY <1>1, <1>2, FilledFacts
  <2> QED
    BY <2>1
<1>7. CASE s.status = "NONE"
  BY <1>1, <1>2, <1>7 DEF Mind, Idle
<1>8. CASE s.status = "PLACING_INITIAL_ORDER"
  BY <1>1, <1>2, <1>5, <1>6, <1>8 DEF Mind, Opening
<1>9. CASE s.status \in HedgeStatuses
  BY <1>1, <1>2, <1>5, <1>6, <1>9 DEF Mind, Hedging
<1> QED
  BY <1>4, <1>7, <1>8, <1>9

\* strategy_mr_state_run.cpp: as long as no connection breaks, no cancel
\* crosses a fill in the simulator or follows a partial fill, no order expires,
\* no configuration is applied, no foreign order is reported and every hedge
\* order is reported NEW, and not yet FILLED, at the next snapshot, the
\* strategy never has two orders working and never holds or owes more than one
\* order's quantity, for any number of rounds, of orders under way and of
\* updates waiting.
THEOREM OneOrderWorking == Spec => []OneOrderAtRisk
<1>1. IInv /\ RiskInv => OneOrderAtRisk
  <2> SUFFICES ASSUME IInv, RiskInv, kind = "MeanReversion", seen = {}
               PROVE  Cardinality(Working) =< 1 /\ PositionOf(orders) \in -2..2
    BY DEF OneOrderAtRisk, Clean, Position
  <2>1. InRound
    BY DEF InRound, IInv, RiskInv
  <2>2. m_current_state \in {"STOP", "RUN"}
    BY DEF IInv, TypeOK
  <2>3. IsFiniteSet({}) /\ Cardinality({}) = 0
    BY FS_EmptySet
  <2>4. CASE m_current_state = "RUN"
    <3>1. DOMAIN orders = 1..Len(orders)
      BY <2>1, TypeFacts DEF InRound
    <3>2. PICK n : n = Len(orders)
      OBVIOUS
    <3>3. Working \subseteq {n}
      BY <2>1, <2>4, <3>1, <3>2, FilledFacts DEF Working
    <3>4. Working = {} \/ Working = {n}
      BY <3>3
    <3>5. Cardinality({n}) = 1
      BY FS_Singleton
    <3> QED
      BY <2>1, <2>3, <2>4, <3>4, <3>5, PositionInRound
  <2>5. CASE m_current_state = "STOP"
    <3>1. orders = <<>>
      BY <2>1, <2>5, StopIdle
    <3>2. DOMAIN orders = {}
      BY <3>1
    <3>3. Working = {} /\ Traded(orders, "BUY") = {} /\ Traded(orders, "SELL") = {}
      BY <3>2 DEF Working, Traded
    <3> QED
      BY <2>3, <3>3 DEF PositionOf
  <2> QED
    BY <2>2, <2>4, <2>5
<1> QED
  BY <1>1, RoundsKept, PTL

\* spread_capture_config.cpp: under the same conditions, once every update is
\* handled the status and the orders it remembers say what the position is.
THEOREM StatusIsPosition == Spec => []StatusTellsPosition
<1>1. IInv /\ RiskInv => StatusTellsPosition
  <2> SUFFICES ASSUME IInv, RiskInv, kind = "MeanReversion", seen = {}, inbox = <<>>,
                      m_previous_state = "RUN", \A id \in DOMAIN orders : orders[id].filled # 1,
                      NEW s, s = mem.spread
               PROVE  PositionOf(orders) =
                          (IF s.status = "NONE" \/ s.hedge.st = "FILLED" THEN 0
                           ELSE IF s.initial.st = "FILLED" THEN Signed(s.initial.side, 2) ELSE 0)
    BY DEF StatusTellsPosition, Clean, Position
  <2>1. InRound
    BY DEF InRound, IInv, RiskInv
  <2>2. m_current_state = "RUN"
    BY <2>1 DEF InRound, Round
  <2>3. PICK n : n = Len(orders)
    OBVIOUS
  <2>4. /\ Mind(orders, requests, inbox, mem) /\ mem \in ReversionSet(n) /\ n \in Nat
        /\ DOMAIN orders = 1..n
    BY <2>1, <2>2, <2>3, InRoundSound DEF Sound
  <2>5. s \in SpreadSet(n)
    BY <2>4, ReversionFacts
  <2>6. s.status \in {"NONE", "PLACING_INITIAL_ORDER"} \cup HedgeStatuses
    BY <2>5 DEF SpreadSet
  <2>7. \A st : ~Reports(inbox, st)
    BY DEF Reports
  <2>8. n > 0 => Amount(simulated, orders[n]) /\ orders[n].filled # 1
                 /\ orders[n].st \in {"sent", "open", "filled", "canceled", "rejected"}
    <3> SUFFICES ASSUME n > 0
                 PROVE  Amount(simulated, orders[n]) /\ orders[n].filled # 1
                        /\ orders[n].st \in {"sent", "open", "filled", "canceled", "rejected"}
      OBVIOUS
    <3>1. n \in 1..n
      BY <2>4
    <3>2. orders[n] \in OrderSet
      BY <2>1, <2>3, <3>1, TypeFacts DEF InRound
    <3> QED
      BY <2>1, <2>2, <2>3, <2>4, <3>1, <3>2, FilledFacts DEF OrderSet
  <2>9. ASSUME n > 0 PROVE orders[n].filled = IF orders[n].st = "filled" THEN 2 ELSE 0
    BY <2>8, <2>9 DEF Amount
  <2>10. CASE s.status = "NONE"
    BY <2>4, <2>10 DEF Mind, Idle
  <2>11. CASE s.status = "PLACING_INITIAL_ORDER"
    <3>1. /\ n > 0 /\ s.hedge.st # "FILLED" /\ Knows(orders, requests, inbox, mem.m_initial_order, s.initial)
          /\ PositionOf(orders) = Signed(orders[n].side, orders[n].filled)
      BY <2>3, <2>4, <2>11 DEF Mind, Opening
    <3>2. /\ s.initial.st = "FILLED" <=> orders[n].st = "filled"
          /\ s.initial.st = "FILLED" => s.initial.side = orders[n].side
      BY <2>3, <2>7, <3>1 DEF Knows
    <3>3. CASE s.initial.st = "FILLED"
      BY <2>9, <2>11, <3>1, <3>2, <3>3
    <3>4. CASE s.initial.st # "FILLED"
      <4>1. PositionOf(orders) = Signed(orders[n].side, 0)
        BY <2>9, <3>1, <3>2, <3>4
      <4>2. PositionOf(orders) = 0
        BY <4>1, SignedZero
      <4> QED
        BY <2>11, <3>1, <3>4, <4>2
    <3> QED
      BY <3>3, <3>4
  <2>12. CASE s.status \in HedgeStatuses
    <3>1. /\ n > 0 /\ s.initial.st = "FILLED" /\ Knows(orders, requests, inbox, mem.m_hedge_order, s.hedge)
          /\ PositionOf(orders) = Signed(s.initial.side, 2 - orders[n].filled)
          /\ s.status # "NONE"
      BY <2>3, <2>4, <2>12 DEF Mind, Hedging, HedgeStatuses
    <3>2. s.hedge.st = "FILLED" <=> orders[n].st = "filled"
      BY <2>3, <2>7, <3>1 DEF Knows
    <3>3. 2 - 2 = 0 /\ 2 - 0 = 2
      OBVIOUS
    <3>4. CASE s.hedge.st = "FILLED"
      <4>1. PositionOf(orders) = Signed(s.initial.side, 0)
        BY <2>9, <3>1, <3>2, <3>3, <3>4
      <4>2. PositionOf(orders) = 0
        BY <4>1, SignedZero
      <4> QED
        BY <3>1, <3>4, <4>2
    <3>5. CASE s.hedge.st # "FILLED"
      BY <2>9, <3>1, <3>2, <3>3, <3>5
    <3> QED
      BY <3>4, <3>5
  <2> QED
    BY <2>6, <2>10, <2>11, <2>12
<1> QED
  BY <1>1, RoundsKept, PTL

=============================================================================
