------------------------- MODULE OrderManagerProofs -------------------------
(***************************************************************************)
(* The order list agrees with the exchange until the first crash, and no   *)
(* fill is ever counted twice, for any set of orders, any quantity, and    *)
(* any number of cancels, crashes, expiring orders and lost answers, in    *)
(* both modes of the simulator; without any of these the database has what *)
(* the list has.                                                           *)
(***************************************************************************)
EXTENDS OrderManager, FiniteSetTheorems, SequenceTheorems, WellFoundedInduction, TLAPS

-----------------------------------------------------------------------------
(* The inductive invariant *)

Saved == Orders \cup {NoOrder}
OrderTasks == [op : {"handle_update_order", "execute_place", "execute_cancel"},
               order : Orders]
IoTasks == [op : {"update_order_in_db", "init_data_model", "update_data_model",
                  "remove_data_model"},
            dm : Nat, order : Saved]
Places == [status : {"none", "sent", "open", "closed"}, filled : 0 .. Quantity]

\* The fields and queues; what the types of the code do not tell is that a
\* database task has the DataModel of an order that has one.
ListType == m_order_list \in [DOMAIN m_order_list -> Orders]
            /\ DOMAIN m_order_list \subseteq Ids
            /\ \A o \in DOMAIN m_order_list : m_order_list[o].id = o

IoType ==
    /\ io_q \in Seq(IoTasks)
    /\ \A i \in 1 .. Len(io_q) :
           IF io_q[i].op = "update_order_in_db"
           THEN io_q[i].dm = 0 /\ io_q[i].order \in Orders
           ELSE io_q[i].dm \in 1 .. data_models

CacheType ==
    /\ DOMAIN m_order_db_cache \subseteq Ids
    /\ \A o \in DOMAIN m_order_db_cache :
           LET s == m_order_db_cache[o] IN
           /\ s = [dm |-> s.dm, object |-> s.object]
           /\ s.dm \in 1 .. data_models /\ s.object \in Saved
           /\ s.object.id \in {0, o}

DocsType ==
    /\ docs \in [DOMAIN docs -> Saved] /\ DOMAIN docs \subseteq 1 .. data_models

Types ==
    /\ simulator \in BOOLEAN /\ engine \in {"up", "down", "failed"}
    /\ ListType /\ order_q \in Seq(OrderTasks)
    /\ data_models \in Nat /\ IoType /\ CacheType /\ DocsType
    /\ venue \in [Ids -> Places]
    /\ cancels \in Nat /\ crashes \in Nat
    /\ engine # "up" => order_q = <<>> /\ io_q = <<>>

\* An order's fills follow its state at the exchange or in the simulator.
VenueInv ==
    \A o \in Ids :
        /\ venue[o].status \in {"none", "sent"} => venue[o].filled = 0
        /\ venue[o].status = "open" => venue[o].filled < Quantity
        /\ simulator /\ venue[o].status = "open" => venue[o].filled = 0

\* Only reports of fills carry a quantity, and execute_place of an order comes
\* before everything else that is queued about it.
TasksOK(q, V) ==
    \A i \in 1 .. Len(q) :
        LET t == q[i] IN
        /\ V[t.order.id].status # "none"
        /\ t.order.status \notin {"FILLED", "PARTIALLY_FILLED"} => t.order.filled = 0
        /\ t.op # "handle_update_order" => t.order.status = "NEW"
        /\ t.op = "execute_place" =>
               /\ V[t.order.id].status = "sent"
               /\ \A j \in 1 .. Len(q) :
                      q[j].order.id = t.order.id /\ j # i
                          => i < j /\ q[j].op = "execute_cancel"

TaskInv ==
    /\ TasksOK(order_q, venue)
    /\ ~simulator => \A i \in 1 .. Len(order_q) : order_q[i].op = "handle_update_order"

\* A report about the order o.
Update(t, o) == t.op = "handle_update_order" /\ t.order.id = o

\* FILLED tells that the fills are complete; CANCELED and REJECTED tell nothing.
Tells(t, o, total) ==
    Update(t, o) /\ t.order.status \notin {"CANCELED", "REJECTED"}
        => (t.order.status = "FILLED" <=> total = Quantity)

\* The fills of o in the queue q lead from m to v.
Leads(q, o, m, v) ==
    \E run \in [0 .. Len(q) -> 0 .. v] :
        /\ run[0] = m /\ run[Len(q)] = v
        /\ \A i \in 1 .. Len(q) :
               run[i] = run[i - 1] + Fills(q[i], o) /\ Tells(q[i], o, run[i])

\* Nothing the engine keeps of o, in the list L, the IO tasks io and the
\* documents D, counts more than m.
Held(L, io, D, o, m) ==
    /\ o \in DOMAIN L => L[o].filled =< m
    /\ \A i \in 1 .. Len(io) : io[i].order.id = o => io[i].order.filled =< m
    /\ \A dm \in DOMAIN D : D[dm].id = o => D[dm].filled =< m

\* What the engine keeps of an order is at most what was filled before the
\* reports still queued: this survives a crash, which loses queued reports.
Counted(q, L, io, D, v, o) ==
    \E m \in Nat : Leads(q, o, m, v) /\ Held(L, io, D, o, m)

CountInv ==
    \A o \in Ids : Counted(order_q, m_order_list, io_q, docs, venue[o].filled, o)

OpenStatus == {"NEW", "PARTIALLY_FILLED"}
EndStatus == {"FILLED", "CANCELED", "REJECTED"}
DropStatus == {"CANCELED", "REJECTED"}

Listed(L, o) == o \in DOMAIN L
Base(L, o) == IF o \in DOMAIN L THEN L[o].filled ELSE 0

\* The IO thread is still to drop the order from the list.
Dropping(io, o) ==
    \E i \in 1 .. Len(io) :
        /\ io[i].op = "update_order_in_db" /\ io[i].order.id = o
        /\ io[i].order.status \in DropStatus

\* All that is queued about the order is the report of a cancel.
OnlyCancels(q, o) ==
    \A i \in 1 .. Len(q) : Update(q[i], o) => q[i].order.status = "CANCELED"

NoUpdates(q, o) == \A i \in 1 .. Len(q) : ~Update(q[i], o)

\* The order has ended without being filled, as far as the list can tell.
Gone(q, L, st, o) ==
    /\ st = "closed" /\ OnlyCancels(q, o)
    /\ Listed(L, o) => L[o].status \in DropStatus

\* The reports queued about an order, and what the list has of it, follow the
\* order's life at the exchange, where its status is st.
Life(q, L, st, o) ==
    /\ st \in {"none", "sent"} => ~Listed(L, o) /\ NoUpdates(q, o)
    /\ st = "open" =>
           /\ \A i \in 1 .. Len(q) : Update(q[i], o) => q[i].order.status \in OpenStatus
           /\ ~NoUpdates(q, o) \/ (Listed(L, o) /\ L[o].status \in OpenStatus)
    /\ st = "closed" =>
           \/ \E i \in 1 .. Len(q) : Update(q[i], o) /\ q[i].order.status \in EndStatus
           \/ NoUpdates(q, o) /\ (Listed(L, o) => L[o].status \in EndStatus)

\* What may be queued before and behind a report, and what the list has then.
Follows(q, L, o) ==
    \A i \in 1 .. Len(q) :
        Update(q[i], o) =>
            /\ q[i].order.status \in OpenStatus \cup EndStatus
            /\ q[i].order.status \in {"NEW", "REJECTED"} =>
                   ~Listed(L, o) /\ \A j \in 1 .. i - 1 : ~Update(q[j], o)
            /\ q[i].order.status \in EndStatus =>
                   \A j \in i + 1 .. Len(q) :
                       Update(q[j], o) => q[j].order.status = "CANCELED"

\* What the list has of an order.
Entry(q, L, st, o) ==
    Listed(L, o) =>
        /\ L[o].status \in OpenStatus \cup EndStatus
        /\ L[o].status \notin DropStatus =>
               (L[o].status = "FILLED" <=> L[o].filled = Quantity)
        /\ L[o].status \in EndStatus => st = "closed" /\ OnlyCancels(q, o)

\* Before the first crash every order is followed exactly that did not expire
\* and whose place request was answered.
Fresh(q, L, io, v, o) ==
    /\ Life(q, L, v.status, o) /\ Follows(q, L, o) /\ Entry(q, L, v.status, o)
    /\ Gone(q, L, v.status, o) \/ Leads(q, o, Base(L, o), v.filled)
    /\ Dropping(io, o) => Gone(q, L, v.status, o)

FreshInv ==
    crashes = 0 => /\ engine = "up"
                   /\ \A o \in Ids \ lost : Fresh(order_q, m_order_list, io_q, venue[o], o)

IInv == Types /\ VenueInv /\ TaskInv /\ CountInv /\ FreshInv

\* The exchange has taken the orders whose request has no answer yet.
DueInv == /\ due \subseteq lost \cap Ids
          /\ \A o \in due : venue[o].status \in {"open", "closed"}

-----------------------------------------------------------------------------
(* The running total of an order's fills *)

\* q2 is q without its first d tasks, and perhaps with more tasks at the end.
Shift(q, q2, d) ==
    /\ d =< Len(q) /\ Len(q) =< Len(q2) + d
    /\ \A i \in 1 .. Len(q) - d : q2[i] = q[i + d]

\* The places of the new tasks.
Added(q, q2, d) == Len(q) - d + 1 .. Len(q2)

\* A task that is no report about o.
Quiet(t, o) == ~Update(t, o) /\ Fills(t, o) = 0

\* Tasks that are not about the order change nothing.
LEMMA LeadsQuiet ==
    ASSUME NEW q \in Seq(OrderTasks), NEW q2 \in Seq(OrderTasks), NEW d \in {0, 1},
           Shift(q, q2, d), NEW o, NEW m \in Nat, NEW v \in Nat,
           \A i \in 1 .. d : Quiet(q[i], o),
           \A i \in Added(q, q2, d) : Quiet(q2[i], o),
           Leads(q, o, m, v)
    PROVE  Leads(q2, o, m, v)
<1>1. PICK run \in [0 .. Len(q) -> 0 .. v] :
        /\ run[0] = m /\ run[Len(q)] = v
        /\ \A i \in 1 .. Len(q) :
               run[i] = run[i - 1] + Fills(q[i], o) /\ Tells(q[i], o, run[i])
  BY DEF Leads
<1> DEFINE run2 == [i \in 0 .. Len(q2) |-> IF i + d =< Len(q) THEN run[i + d] ELSE v]
<1>2. Len(q) \in Nat /\ Len(q2) \in Nat /\ d \in Nat
  OBVIOUS
<1>3. run2 \in [0 .. Len(q2) -> 0 .. v]
  BY <1>1, <1>2 DEF Shift
<1>4. run2[0] = m
  <2>1. CASE d = 0
    BY <1>1, <1>2, <2>1
  <2>2. CASE d = 1
    <3>1. 1 \in 1 .. Len(q) /\ 1 - 1 = 0 /\ Fills(q[1], o) = 0
      BY <1>2, <2>2 DEF Shift, Quiet
    <3>2. run[1] = run[0] + 0
      BY <1>1, <3>1
    <3> QED
      BY <1>1, <1>2, <2>2, <3>1, <3>2 DEF Shift
  <2> QED
    BY <2>1, <2>2
<1>5. run2[Len(q2)] = v
  BY <1>1, <1>2 DEF Shift
<1>6. ASSUME NEW i \in 1 .. Len(q2)
      PROVE  run2[i] = run2[i - 1] + Fills(q2[i], o) /\ Tells(q2[i], o, run2[i])
  <2>1. CASE i + d =< Len(q)
    <3>0. i \in 1 .. Len(q) - d
      BY <1>2, <2>1
    <3>1. i + d \in 1 .. Len(q) /\ q2[i] = q[i + d] /\ (i - 1) + d = (i + d) - 1
      BY <1>2, <2>1, <3>0 DEF Shift
    <3>2. i \in 0 .. Len(q2) /\ i - 1 \in 0 .. Len(q2) /\ (i - 1) + d =< Len(q)
      BY <1>2, <2>1
    <3>3. run2[i] = run[i + d] /\ run2[i - 1] = run[(i - 1) + d]
      BY <2>1, <3>2
    <3> QED
      BY <1>1, <3>1, <3>3
  <2>2. CASE ~(i + d =< Len(q))
    <3>1. i \in Added(q, q2, d)
      BY <1>2, <2>2 DEF Added
    <3>2. Fills(q2[i], o) = 0 /\ ~Update(q2[i], o)
      BY <3>1 DEF Quiet
    <3>3. run2[i] = v
      BY <1>2, <2>2
    <3>4. run2[i - 1] = v
      BY <1>1, <1>2, <2>2 DEF Shift
    <3> QED
      BY <3>2, <3>3, <3>4 DEF Tells
  <2> QED
    BY <2>1, <2>2
<1> QED
  <2> HIDE DEF run2
  <2> QED
    BY <1>3, <1>4, <1>5, <1>6 DEF Leads

\* The tasks taken and added are not about o, but for the one added at k.
OneReport(q, q2, d, o, k) ==
    /\ Shift(q, q2, d) /\ k \in Added(q, q2, d)
    /\ \A i \in 1 .. d : Quiet(q[i], o)
    /\ \A i \in Added(q, q2, d) : i # k => Quiet(q2[i], o)

\* A report of what has happened at the exchange.
LEMMA LeadsReport ==
    ASSUME NEW q \in Seq(OrderTasks), NEW q2 \in Seq(OrderTasks), NEW d \in {0, 1},
           NEW o, NEW k, OneReport(q, q2, d, o, k),
           NEW m \in Nat, NEW v \in Nat, NEW w \in Nat,
           w = v + Fills(q2[k], o), v =< w, Tells(q2[k], o, w),
           Leads(q, o, m, v)
    PROVE  Leads(q2, o, m, w)
<1>0. /\ Shift(q, q2, d) /\ k \in Added(q, q2, d)
      /\ \A i \in 1 .. d : Quiet(q[i], o)
      /\ \A i \in Added(q, q2, d) : i # k => Quiet(q2[i], o)
  BY DEF OneReport
<1>1. PICK run \in [0 .. Len(q) -> 0 .. v] :
        /\ run[0] = m /\ run[Len(q)] = v
        /\ \A i \in 1 .. Len(q) :
               run[i] = run[i - 1] + Fills(q[i], o) /\ Tells(q[i], o, run[i])
  BY DEF Leads
<1> DEFINE run2 == [i \in 0 .. Len(q2) |-> IF i + d =< Len(q) THEN run[i + d]
                                           ELSE IF i < k THEN v ELSE w]
<1>2. /\ Len(q) \in Nat /\ Len(q2) \in Nat /\ d \in Nat /\ k \in Nat
      /\ Len(q) < k + d /\ k =< Len(q2) /\ d =< Len(q)
  BY <1>0 DEF Shift, Added
<1>3. run2 \in [0 .. Len(q2) -> 0 .. w]
  BY <1>0, <1>1, <1>2 DEF Shift
<1>4. run2[0] = m
  <2>1. CASE d = 0
    BY <1>1, <1>2, <2>1
  <2>2. CASE d = 1
    <3>1. 1 \in 1 .. Len(q) /\ 1 - 1 = 0 /\ Fills(q[1], o) = 0
      BY <1>0, <1>2, <2>2 DEF Shift, Quiet
    <3>2. run[1] = run[0] + 0
      BY <1>1, <3>1
    <3> QED
      BY <1>0, <1>1, <1>2, <2>2, <3>1, <3>2 DEF Shift
  <2> QED
    BY <2>1, <2>2
<1>5. run2[Len(q2)] = w
  BY <1>0, <1>1, <1>2 DEF Shift
<1>6. ASSUME NEW i \in 1 .. Len(q2)
      PROVE  run2[i] = run2[i - 1] + Fills(q2[i], o) /\ Tells(q2[i], o, run2[i])
  <2>1. CASE i + d =< Len(q)
    <3>0. i \in 1 .. Len(q) - d
      BY <1>2, <2>1
    <3>1. i + d \in 1 .. Len(q) /\ q2[i] = q[i + d] /\ (i - 1) + d = (i + d) - 1
      BY <1>0, <1>2, <2>1, <3>0 DEF Shift
    <3>2. i \in 0 .. Len(q2) /\ i - 1 \in 0 .. Len(q2) /\ (i - 1) + d =< Len(q)
      BY <1>2, <2>1
    <3>3. run2[i] = run[i + d] /\ run2[i - 1] = run[(i - 1) + d]
      BY <2>1, <3>2
    <3> QED
      BY <1>1, <3>1, <3>3
  <2>2. CASE ~(i + d =< Len(q)) /\ i # k
    <3>1. i \in Added(q, q2, d)
      BY <1>2, <2>2 DEF Added
    <3>2. Fills(q2[i], o) = 0 /\ ~Update(q2[i], o)
      BY <1>0, <2>2, <3>1 DEF Quiet
    <3>3. run2[i] = IF i < k THEN v ELSE w
      BY <1>2, <2>2
    <3>4. run2[i - 1] = IF i < k THEN v ELSE w
      BY <1>0, <1>1, <1>2, <2>2 DEF Shift
    <3> QED
      BY <3>2, <3>3, <3>4 DEF Tells
  <2>3. CASE i = k
    <3>1. run2[i] = w
      BY <1>2, <2>3
    <3>2. run2[i - 1] = v
      BY <1>0, <1>1, <1>2, <2>3 DEF Shift
    <3> QED
      BY <2>3, <3>1, <3>2
  <2> QED
    BY <1>2, <2>1, <2>2, <2>3
<1> QED
  <2> HIDE DEF run2
  <2> QED
    BY <1>3, <1>4, <1>5, <1>6 DEF Leads

\* Handling the first task takes its fill over.
LEMMA LeadsHandled ==
    ASSUME NEW q \in Seq(OrderTasks), q # <<>>, NEW o, NEW m \in Nat, NEW v \in Nat,
           Leads(q, o, m, v)
    PROVE  /\ m + Fills(q[1], o) \in Nat
           /\ Tells(q[1], o, m + Fills(q[1], o))
           /\ Leads(Tail(q), o, m + Fills(q[1], o), v)
<1>1. PICK run \in [0 .. Len(q) -> 0 .. v] :
        /\ run[0] = m /\ run[Len(q)] = v
        /\ \A i \in 1 .. Len(q) :
               run[i] = run[i - 1] + Fills(q[i], o) /\ Tells(q[i], o, run[i])
  BY DEF Leads
<1>2. Len(q) \in Nat /\ Len(q) >= 1 /\ Len(Tail(q)) = Len(q) - 1
      /\ \A i \in 1 .. Len(q) - 1 : Tail(q)[i] = q[i + 1]
  OBVIOUS
<1>3. run[1] = m + Fills(q[1], o) /\ Tells(q[1], o, run[1]) /\ run[1] \in Nat
  <2>1. 1 \in 1 .. Len(q) /\ 1 - 1 = 0 /\ 1 \in 0 .. Len(q)
    BY <1>2
  <2>2. run[1] \in Nat
    BY <1>1, <2>1
  <2> QED
    BY <1>1, <2>1, <2>2
<1> DEFINE run2 == [i \in 0 .. Len(Tail(q)) |-> run[i + 1]]
<1>4. run2 \in [0 .. Len(Tail(q)) -> 0 .. v] /\ run2[0] = run[1] /\ run2[Len(Tail(q))] = v
  BY <1>1, <1>2
<1>5. ASSUME NEW i \in 1 .. Len(Tail(q))
      PROVE  run2[i] = run2[i - 1] + Fills(Tail(q)[i], o) /\ Tells(Tail(q)[i], o, run2[i])
  <2>1. i + 1 \in 1 .. Len(q) /\ Tail(q)[i] = q[i + 1] /\ (i + 1) - 1 = i
    BY <1>2
  <2>2. run2[i] = run[i + 1] /\ run2[i - 1] = run[i]
    BY <1>2
  <2> QED
    BY <1>1, <2>1, <2>2
<1> QED
  <2> HIDE DEF run2
  <2> QED
    BY <1>3, <1>4, <1>5 DEF Leads

\* Nothing is queued.
LEMMA LeadsEmpty ==
    ASSUME NEW o, NEW v \in Nat
    PROVE  Leads(<<>>, o, v, v)
<1> DEFINE run == [i \in 0 .. 0 |-> v]
<1>1. Len(<<>>) = 0 /\ run \in [0 .. 0 -> 0 .. v] /\ run[0] = v
  OBVIOUS
<1> HIDE DEF run
<1> QED
  BY <1>1 DEF Leads

\* The total does not exceed what was filled.
LEMMA LeadsBound ==
    ASSUME NEW q \in Seq(OrderTasks), NEW o, NEW m, NEW v \in Nat, Leads(q, o, m, v)
    PROVE  m \in 0 .. v
<1>1. 0 \in 0 .. Len(q)
  OBVIOUS
<1> QED
  BY <1>1 DEF Leads

-----------------------------------------------------------------------------
(* What a step makes of one order before the first crash *)

\* A step that makes no report about o and leaves its entry alone.
LEMMA FreshQuiet ==
    ASSUME NEW q \in Seq(OrderTasks), NEW q2 \in Seq(OrderTasks), NEW d \in {0, 1},
           Shift(q, q2, d), NEW o,
           \A i \in 1 .. d : Quiet(q[i], o),
           \A i \in Added(q, q2, d) : Quiet(q2[i], o),
           NEW L, NEW L2, o \in DOMAIN L2 <=> o \in DOMAIN L,
           o \in DOMAIN L => L2[o] = L[o], Base(L, o) \in Nat,
           NEW io, NEW io2, Dropping(io2, o) => Dropping(io, o),
           NEW v \in Places, NEW v2 \in Places, v2.filled = v.filled,
           v2.status = v.status \/ (v.status = "none" /\ v2.status = "sent"),
           Fresh(q, L, io, v, o)
    PROVE  Fresh(q2, L2, io2, v2, o)
<1>1. /\ \A i \in 1 .. Len(q2) : Update(q2[i], o) =>
             i + d \in 1 .. Len(q) /\ q2[i] = q[i + d]
      /\ \A i \in 1 .. Len(q) : Update(q[i], o) =>
             i - d \in 1 .. Len(q2) /\ q2[i - d] = q[i]
  <2>1. Len(q) \in Nat /\ Len(q2) \in Nat /\ d \in Nat
    OBVIOUS
  <2>2. ASSUME NEW i \in 1 .. Len(q2), Update(q2[i], o)
        PROVE  i + d \in 1 .. Len(q) /\ q2[i] = q[i + d]
    <3>1. i \notin Added(q, q2, d)
      BY <2>2 DEF Quiet
    <3>2. i \in 1 .. Len(q) - d /\ i + d \in 1 .. Len(q)
      BY <2>1, <3>1 DEF Added, Shift
    <3> QED
      BY <3>2 DEF Shift
  <2>3. ASSUME NEW i \in 1 .. Len(q), Update(q[i], o)
        PROVE  i - d \in 1 .. Len(q2) /\ q2[i - d] = q[i]
    <3>1. i \notin 1 .. d
      BY <2>3 DEF Quiet
    <3>2. i - d \in 1 .. Len(q) - d /\ i - d \in 1 .. Len(q2) /\ (i - d) + d = i
      BY <2>1, <3>1 DEF Shift
    <3>3. q2[i - d] = q[(i - d) + d]
      BY <3>2 DEF Shift
    <3> QED
      BY <3>2, <3>3
  <2> QED
    BY <2>2, <2>3
<1>2. Len(q) \in Nat /\ Len(q2) \in Nat /\ d \in Nat
  OBVIOUS
<1>3. OnlyCancels(q, o) => OnlyCancels(q2, o)
  BY <1>1 DEF OnlyCancels
<1>4. NoUpdates(q, o) <=> NoUpdates(q2, o)
  BY <1>1 DEF NoUpdates
<1>5. Life(q2, L2, v2.status, o)
  <2>0. Life(q, L, v.status, o)
    BY DEF Fresh
  <2>1. v2.status \in {"none", "sent"} => ~Listed(L2, o) /\ NoUpdates(q2, o)
    BY <1>4, <2>0 DEF Life, Listed
  <2>2. v2.status = "open" =>
           /\ \A i \in 1 .. Len(q2) : Update(q2[i], o) => q2[i].order.status \in OpenStatus
           /\ ~NoUpdates(q2, o) \/ (Listed(L2, o) /\ L2[o].status \in OpenStatus)
    BY <1>1, <1>4, <2>0 DEF Life, Listed
  <2>3. ASSUME v2.status = "closed",
               NEW i \in 1 .. Len(q), Update(q[i], o), q[i].order.status \in EndStatus
        PROVE  \E j \in 1 .. Len(q2) : Update(q2[j], o) /\ q2[j].order.status \in EndStatus
    BY <1>1, <2>3
  <2>4. v2.status = "closed" =>
           \/ \E i \in 1 .. Len(q2) : Update(q2[i], o) /\ q2[i].order.status \in EndStatus
           \/ NoUpdates(q2, o) /\ (Listed(L2, o) => L2[o].status \in EndStatus)
    BY <1>4, <2>0, <2>3 DEF Life, Listed
  <2> QED
    BY <2>1, <2>2, <2>4 DEF Life
<1>6. Follows(q2, L2, o)
  <2>0. Follows(q, L, o)
    BY DEF Fresh
  <2> SUFFICES ASSUME NEW i \in 1 .. Len(q2), Update(q2[i], o)
               PROVE  /\ q2[i].order.status \in OpenStatus \cup EndStatus
                      /\ q2[i].order.status \in {"NEW", "REJECTED"} =>
                             ~Listed(L2, o) /\ \A j \in 1 .. i - 1 : ~Update(q2[j], o)
                      /\ q2[i].order.status \in EndStatus =>
                             \A j \in i + 1 .. Len(q2) :
                                 Update(q2[j], o) => q2[j].order.status = "CANCELED"
    BY DEF Follows
  <2>1. i + d \in 1 .. Len(q) /\ q2[i] = q[i + d] /\ Update(q[i + d], o)
    BY <1>1
  <2>2. /\ q[i + d].order.status \in OpenStatus \cup EndStatus
        /\ q[i + d].order.status \in {"NEW", "REJECTED"} =>
               ~Listed(L, o) /\ \A j \in 1 .. (i + d) - 1 : ~Update(q[j], o)
        /\ q[i + d].order.status \in EndStatus =>
               \A j \in (i + d) + 1 .. Len(q) :
                   Update(q[j], o) => q[j].order.status = "CANCELED"
    BY <2>0, <2>1 DEF Follows
  <2>3. ASSUME NEW j \in 1 .. i - 1, Update(q2[j], o)
        PROVE  j + d \in 1 .. (i + d) - 1 /\ Update(q[j + d], o)
    <3>1. j \in 1 .. Len(q2)
      BY <1>2
    <3>2. j + d \in 1 .. Len(q) /\ q2[j] = q[j + d]
      BY <1>1, <2>3, <3>1
    <3> QED
      BY <1>2, <2>3, <3>2
  <2>4. ASSUME NEW j \in i + 1 .. Len(q2), Update(q2[j], o)
        PROVE  j + d \in (i + d) + 1 .. Len(q) /\ Update(q[j + d], o) /\ q2[j] = q[j + d]
    <3>1. j \in 1 .. Len(q2)
      BY <1>2
    <3>2. j + d \in 1 .. Len(q) /\ q2[j] = q[j + d]
      BY <1>1, <2>4, <3>1
    <3> QED
      BY <1>2, <2>4, <3>2
  <2> QED
    BY <2>1, <2>2, <2>3, <2>4 DEF Listed
<1>7. Entry(q2, L2, v2.status, o)
  BY <1>3 DEF Fresh, Entry, Listed
<1>8. Gone(q, L, v.status, o) => Gone(q2, L2, v2.status, o)
  BY <1>3 DEF Gone, Listed
<1>9. Base(L2, o) = Base(L, o)
  BY DEF Base
<1>10. Leads(q, o, Base(L, o), v.filled) => Leads(q2, o, Base(L2, o), v2.filled)
  <2>1. v.filled \in Nat
    BY IdsAssumption DEF Places
  <2> HIDE DEF Base
  <2> QED
    BY <1>9, <2>1, LeadsQuiet
<1> QED
  BY <1>5, <1>6, <1>7, <1>8, <1>10 DEF Fresh

\* A report of one of the kinds the exchange and the simulator make.
Reports(t, st, st2) ==
    \/ t.order.status = "NEW" /\ st = "sent" /\ st2 = "open"
    \/ t.order.status = "REJECTED" /\ st = "sent" /\ st2 = "closed"
    \/ t.order.status = "PARTIALLY_FILLED" /\ st = "open" /\ st2 = "open"
    \/ t.order.status = "FILLED" /\ st = "open" /\ st2 = "closed"
    \/ t.order.status = "CANCELED" /\ st2 = "closed"

LEMMA FreshReport ==
    ASSUME NEW q \in Seq(OrderTasks), NEW q2 \in Seq(OrderTasks), NEW d \in {0, 1},
           NEW o, NEW k, OneReport(q, q2, d, o, k),
           NEW L, Base(L, o) \in Nat, NEW io, NEW v \in Places, NEW v2 \in Places,
           Update(q2[k], o), v2.filled = v.filled + q2[k].order.filled,
           q2[k].order.filled \in Nat, Tells(q2[k], o, v2.filled),
           Reports(q2[k], v.status, v2.status),
           Fresh(q, L, io, v, o)
    PROVE  Fresh(q2, L, io, v2, o)
<1>0. /\ Shift(q, q2, d) /\ k \in Added(q, q2, d)
      /\ \A i \in 1 .. d : Quiet(q[i], o)
      /\ \A i \in Added(q, q2, d) : i # k => Quiet(q2[i], o)
  BY DEF OneReport
<1>1. Len(q) \in Nat /\ Len(q2) \in Nat /\ d \in Nat /\ k \in 1 .. Len(q2) /\ k > Len(q) - d
  BY <1>0 DEF Added, Shift
<1>2. ASSUME NEW i \in 1 .. Len(q2), Update(q2[i], o), i # k
      PROVE  i + d \in 1 .. Len(q) /\ q2[i] = q[i + d] /\ i < k
  <2>1. i \notin Added(q, q2, d)
    BY <1>0, <1>2 DEF Quiet
  <2>2. i \in 1 .. Len(q) - d /\ i + d \in 1 .. Len(q) /\ i < k
    BY <1>0, <1>1, <2>1 DEF Added, Shift
  <2> QED
    BY <1>0, <2>2 DEF Shift
<1>3. ASSUME NEW i \in 1 .. Len(q), Update(q[i], o)
      PROVE  i - d \in 1 .. Len(q2) /\ q2[i - d] = q[i]
  <2>1. i \notin 1 .. d
    BY <1>0, <1>3 DEF Quiet
  <2>2. i - d \in 1 .. Len(q) - d /\ i - d \in 1 .. Len(q2) /\ (i - d) + d = i
    BY <1>0, <1>1, <2>1 DEF Shift
  <2>3. q2[i - d] = q[(i - d) + d]
    BY <1>0, <2>2 DEF Shift
  <2> QED
    BY <2>2, <2>3
<1>4. /\ Life(q, L, v.status, o) /\ Follows(q, L, o) /\ Entry(q, L, v.status, o)
      /\ Gone(q, L, v.status, o) \/ Leads(q, o, Base(L, o), v.filled)
      /\ Dropping(io, o) => Gone(q, L, v.status, o)
  BY DEF Fresh
<1>5. OnlyCancels(q, o) /\ q2[k].order.status = "CANCELED" => OnlyCancels(q2, o)
  BY <1>2 DEF OnlyCancels
<1>6. v.status = "closed" => q2[k].order.status = "CANCELED"
  BY DEF Reports
<1>7. v2.status \in {"open", "closed"} /\ (v.status = "closed" => v2.status = "closed")
  BY DEF Reports
<1>8. Life(q2, L, v2.status, o)
  <2>1. CASE v2.status = "open"
    <3>1. q2[k].order.status \in OpenStatus /\ v.status \in {"sent", "open"}
      BY <2>1 DEF Reports, OpenStatus
    <3>2. \A i \in 1 .. Len(q) : Update(q[i], o) => q[i].order.status \in OpenStatus
      BY <1>4, <3>1 DEF Life, NoUpdates
    <3>3. \A i \in 1 .. Len(q2) : Update(q2[i], o) => q2[i].order.status \in OpenStatus
      BY <1>2, <3>1, <3>2
    <3>4. ~NoUpdates(q2, o)
      BY <1>1 DEF NoUpdates
    <3> QED
      BY <2>1, <3>3, <3>4 DEF Life
  <2>2. CASE v2.status = "closed"
    <3>1. q2[k].order.status \in EndStatus
      BY <2>2 DEF Reports, EndStatus
    <3> QED
      BY <1>1, <2>2, <3>1 DEF Life
  <2> QED
    BY <1>7, <2>1, <2>2
<1>9. Follows(q2, L, o)
  <2> SUFFICES ASSUME NEW i \in 1 .. Len(q2), Update(q2[i], o)
               PROVE  /\ q2[i].order.status \in OpenStatus \cup EndStatus
                      /\ q2[i].order.status \in {"NEW", "REJECTED"} =>
                             ~Listed(L, o) /\ \A j \in 1 .. i - 1 : ~Update(q2[j], o)
                      /\ q2[i].order.status \in EndStatus =>
                             \A j \in i + 1 .. Len(q2) :
                                 Update(q2[j], o) => q2[j].order.status = "CANCELED"
    BY DEF Follows
  <2>1. CASE i = k
    <3>1. q2[k].order.status \in OpenStatus \cup EndStatus
      BY DEF Reports, OpenStatus, EndStatus
    <3>2. ASSUME q2[k].order.status \in {"NEW", "REJECTED"}
          PROVE  ~Listed(L, o) /\ \A j \in 1 .. k - 1 : ~Update(q2[j], o)
      <4>1. v.status = "sent"
        BY <3>2 DEF Reports
      <4>2. ~Listed(L, o) /\ NoUpdates(q, o)
        BY <1>4, <4>1 DEF Life
      <4>3. \A j \in 1 .. k - 1 : j \in 1 .. Len(q2) /\ j # k
        BY <1>1
      <4> QED
        BY <1>2, <4>2, <4>3 DEF NoUpdates
    <3>3. \A j \in k + 1 .. Len(q2) : ~Update(q2[j], o)
      <4>1. \A j \in k + 1 .. Len(q2) : j \in 1 .. Len(q2) /\ j # k /\ ~(j < k)
        BY <1>1
      <4> QED
        BY <1>2, <4>1
    <3> QED
      BY <2>1, <3>1, <3>2, <3>3
  <2>2. CASE i # k
    <3>1. i + d \in 1 .. Len(q) /\ q2[i] = q[i + d] /\ Update(q[i + d], o)
      BY <1>2, <2>2
    <3>2. /\ q[i + d].order.status \in OpenStatus \cup EndStatus
          /\ q[i + d].order.status \in {"NEW", "REJECTED"} =>
                 ~Listed(L, o) /\ \A j \in 1 .. (i + d) - 1 : ~Update(q[j], o)
          /\ q[i + d].order.status \in EndStatus =>
                 \A j \in (i + d) + 1 .. Len(q) :
                     Update(q[j], o) => q[j].order.status = "CANCELED"
      BY <1>4, <3>1 DEF Follows
    <3>3. ASSUME NEW j \in 1 .. i - 1, Update(q2[j], o)
          PROVE  j + d \in 1 .. (i + d) - 1 /\ Update(q[j + d], o)
      <4>1. j \in 1 .. Len(q2) /\ j # k
        BY <1>1, <1>2, <2>2
      <4>2. j + d \in 1 .. Len(q) /\ q2[j] = q[j + d]
        BY <1>2, <3>3, <4>1
      <4> QED
        BY <1>1, <3>3, <4>2
    <3>4. ASSUME NEW j \in i + 1 .. Len(q2), Update(q2[j], o), j # k
          PROVE  j + d \in (i + d) + 1 .. Len(q) /\ Update(q[j + d], o) /\ q2[j] = q[j + d]
      <4>1. j \in 1 .. Len(q2)
        BY <1>1
      <4>2. j + d \in 1 .. Len(q) /\ q2[j] = q[j + d]
        BY <1>2, <3>4, <4>1
      <4> QED
        BY <1>1, <3>4, <4>2
    <3>5. q[i + d].order.status \in EndStatus => q2[k].order.status = "CANCELED"
      <4>1. v.status = "open" => q[i + d].order.status \in OpenStatus
        BY <1>4, <3>1 DEF Life
      <4>2. v.status \notin {"none", "sent"}
        BY <1>4, <3>1 DEF Life, NoUpdates
      <4> QED
        BY <4>1, <4>2 DEF Reports, OpenStatus, EndStatus, Places
    <3> QED
      BY <3>1, <3>2, <3>3, <3>4, <3>5
  <2> QED
    BY <2>1, <2>2
<1>10. Entry(q2, L, v2.status, o)
  BY <1>4, <1>5, <1>6, <1>7 DEF Entry
<1>11. Gone(q, L, v.status, o) => Gone(q2, L, v2.status, o)
  BY <1>5, <1>6, <1>7 DEF Gone
<1>12. Leads(q, o, Base(L, o), v.filled) => Leads(q2, o, Base(L, o), v2.filled)
  <2>1. v.filled \in Nat /\ v2.filled \in Nat /\ v.filled =< v2.filled
    BY IdsAssumption DEF Places
  <2>2. v2.filled = v.filled + Fills(q2[k], o)
    BY DEF Update, Fills
  <2> HIDE DEF Base
  <2> QED
    BY <2>1, <2>2, LeadsReport
<1> QED
  BY <1>4, <1>8, <1>9, <1>10, <1>11, <1>12 DEF Fresh

\* handle_update_order of a report about o: the list's entry becomes e.
LEMMA FreshHandled ==
    ASSUME NEW q \in Seq(OrderTasks), q # <<>>, NEW o, Update(q[1], o),
           q[1].order.status \notin {"FILLED", "PARTIALLY_FILLED"} => q[1].order.filled = 0,
           NEW L, Base(L, o) \in Nat, NEW cur, cur.filled = Base(L, o),
           NEW L2, o \in DOMAIN L2, L2[o] = Merged(q[1].order, cur),
           NEW io, NEW io2,
           Dropping(io2, o) => Dropping(io, o) \/ L2[o].status \in DropStatus,
           NEW v \in Places, Fresh(q, L, io, v, o)
    PROVE  Fresh(Tail(q), L2, io2, v, o)
<1> DEFINE t == q[1].order
           e == L2[o]
<1>1. /\ Len(q) \in Nat /\ Len(q) >= 1 /\ Len(Tail(q)) = Len(q) - 1
      /\ \A i \in 1 .. Len(q) - 1 : Tail(q)[i] = q[i + 1] /\ i + 1 \in 1 .. Len(q)
      /\ 1 \in 1 .. Len(q) /\ q[1] \in OrderTasks
  OBVIOUS
<1>2. /\ Life(q, L, v.status, o) /\ Follows(q, L, o) /\ Entry(q, L, v.status, o)
      /\ Gone(q, L, v.status, o) \/ Leads(q, o, Base(L, o), v.filled)
      /\ Dropping(io, o) => Gone(q, L, v.status, o)
  BY DEF Fresh
<1>3. /\ t.filled \in Nat /\ t.status \in OpenStatus \cup EndStatus
      /\ t.status \in {"NEW", "REJECTED"} => ~Listed(L, o)
      /\ t.status \in EndStatus => \A j \in 2 .. Len(q) :
             Update(q[j], o) => q[j].order.status = "CANCELED"
  <2>1. t.filled \in Nat
    BY <1>1 DEF OrderTasks, Orders
  <2>2. 1 + 1 = 2
    OBVIOUS
  <2> QED
    BY <1>1, <1>2, <2>1, <2>2 DEF Follows
<1>4. t.status \in EndStatus => v.status = "closed" /\ OnlyCancels(Tail(q), o)
  <2>1. t.status \in EndStatus => v.status = "closed"
    BY <1>1, <1>2 DEF Life, NoUpdates, OpenStatus, EndStatus, Places
  <2>2. ASSUME t.status \in EndStatus, NEW i \in 1 .. Len(Tail(q)), Update(Tail(q)[i], o)
        PROVE  Tail(q)[i].order.status = "CANCELED"
    <3>1. i \in 1 .. Len(q) - 1 /\ i + 1 \in 2 .. Len(q)
      BY <1>1
    <3> QED
      BY <1>1, <1>3, <2>2, <3>1
  <2> QED
    BY <2>1, <2>2 DEF OnlyCancels
<1>5. t.status \notin EndStatus => v.status \in {"open", "closed"} /\ t.status \in OpenStatus
  BY <1>1, <1>2, <1>3 DEF Life, NoUpdates, Places
<1>6. OnlyCancels(q, o) => OnlyCancels(Tail(q), o) /\ t.status = "CANCELED"
  BY <1>1 DEF OnlyCancels
<1>7. t.status \in DropStatus => e.status = t.status
  BY DEF Merged, DropStatus
<1>8. t.status = "FILLED" => e.status = "FILLED"
  BY DEF Merged
<1>9. ASSUME t.status \notin DropStatus
      PROVE  /\ e.filled = Base(L, o) + t.filled
             /\ e.status = t.status
             /\ e.status = "FILLED" <=> e.filled = Quantity
             /\ Leads(Tail(q), o, e.filled, v.filled)
  <2>1. ~Gone(q, L, v.status, o)
    BY <1>6, <1>9 DEF Gone, DropStatus
  <2>2. Leads(q, o, Base(L, o), v.filled) /\ v.filled \in Nat
    BY <1>2, <2>1, IdsAssumption DEF Places
  <2>3. Fills(q[1], o) = t.filled
    BY DEF Update, Fills
  <2>4. /\ Leads(Tail(q), o, Base(L, o) + t.filled, v.filled)
        /\ Tells(q[1], o, Base(L, o) + t.filled)
    <3> HIDE DEF Base
    <3> QED
      BY <2>2, <2>3, LeadsHandled
  <2>5. t.status = "FILLED" <=> Base(L, o) + t.filled = Quantity
    BY <1>9, <2>4 DEF Tells, DropStatus
  <2>6. CASE t.status \in {"FILLED", "PARTIALLY_FILLED"}
    <3>1. e.filled = t.filled + Base(L, o)
      BY <2>6, <1>1 DEF Merged, OrderTasks, Orders
    <3>2. e.status = IF t.filled + Base(L, o) = Quantity THEN "FILLED" ELSE t.status
      BY <2>6, <1>1 DEF Merged, OrderTasks, Orders
    <3>3. Base(L, o) + t.filled = t.filled + Base(L, o)
      BY <1>3
    <3> QED
      BY <2>4, <2>5, <2>6, <3>1, <3>2, <3>3
  <2>7. CASE t.status \notin {"FILLED", "PARTIALLY_FILLED"}
    <3>1. e = t /\ t.filled = 0
      BY <2>7 DEF Merged
    <3>2. t.status = "NEW"
      BY <1>3, <1>9, <2>7 DEF OpenStatus, EndStatus, DropStatus
    <3>3. Base(L, o) = 0
      BY <1>3, <3>2 DEF Base, Listed
    <3> QED
      BY <2>4, <2>5, <3>1, <3>3
  <2> QED
    BY <2>6, <2>7
<1>10. e.status = t.status
  BY <1>7, <1>9
<1>11. Base(L2, o) = e.filled
  BY DEF Base
<1> HIDE DEF e
<1>12. Life(Tail(q), L2, v.status, o)
  <2>1. v.status \in {"open", "closed"}
    BY <1>4, <1>5
  <2>2. CASE v.status = "open"
    <3>1. t.status \in OpenStatus
      BY <1>1, <1>2, <2>2 DEF Life
    <3>2. \A i \in 1 .. Len(Tail(q)) : Update(Tail(q)[i], o) => Tail(q)[i].order.status \in OpenStatus
      BY <1>1, <1>2, <2>2 DEF Life
    <3> QED
      BY <1>10, <2>2, <3>1, <3>2 DEF Life, Listed, e
  <2>3. CASE v.status = "closed" /\ t.status \in EndStatus
    <3>1. e.status \in EndStatus
      BY <1>10, <2>3
    <3>2. CASE NoUpdates(Tail(q), o)
      BY <2>3, <3>1, <3>2 DEF Life, Listed, e
    <3>3. CASE ~NoUpdates(Tail(q), o)
      <4>1. PICK i \in 1 .. Len(Tail(q)) : Update(Tail(q)[i], o)
        BY <3>3 DEF NoUpdates
      <4>2. Tail(q)[i].order.status \in EndStatus
        BY <1>4, <2>3, <4>1 DEF OnlyCancels, EndStatus
      <4> QED
        BY <2>3, <4>1, <4>2 DEF Life
    <3> QED
      BY <3>2, <3>3
  <2>4. CASE v.status = "closed" /\ t.status \notin EndStatus
    <3>1. PICK i \in 1 .. Len(q) : Update(q[i], o) /\ q[i].order.status \in EndStatus
      BY <1>1, <1>2, <2>4 DEF Life, NoUpdates
    <3>2. i # 1
      BY <2>4, <3>1
    <3>3. i - 1 \in 1 .. Len(Tail(q)) /\ Tail(q)[i - 1] = q[i]
      <4>1. i - 1 \in 1 .. Len(q) - 1 /\ (i - 1) + 1 = i
        BY <1>1, <3>2
      <4> QED
        BY <1>1, <4>1
    <3> QED
      BY <2>4, <3>1, <3>3 DEF Life
  <2> QED
    BY <2>1, <2>2, <2>3, <2>4
<1>13. Follows(Tail(q), L2, o)
  <2> SUFFICES ASSUME NEW i \in 1 .. Len(Tail(q)), Update(Tail(q)[i], o)
               PROVE  /\ Tail(q)[i].order.status \in OpenStatus \cup EndStatus
                      /\ Tail(q)[i].order.status \notin {"NEW", "REJECTED"}
                      /\ Tail(q)[i].order.status \in EndStatus =>
                             \A j \in i + 1 .. Len(Tail(q)) :
                                 Update(Tail(q)[j], o) => Tail(q)[j].order.status = "CANCELED"
    BY DEF Follows
  <2>1. i + 1 \in 1 .. Len(q) /\ Tail(q)[i] = q[i + 1] /\ Update(q[i + 1], o)
        /\ 1 \in 1 .. (i + 1) - 1
    BY <1>1
  <2>2. /\ q[i + 1].order.status \in OpenStatus \cup EndStatus
        /\ q[i + 1].order.status \in {"NEW", "REJECTED"} =>
               ~Listed(L, o) /\ \A j \in 1 .. (i + 1) - 1 : ~Update(q[j], o)
        /\ q[i + 1].order.status \in EndStatus =>
               \A j \in (i + 1) + 1 .. Len(q) :
                   Update(q[j], o) => q[j].order.status = "CANCELED"
    BY <1>2, <2>1 DEF Follows
  <2>3. ASSUME NEW j \in i + 1 .. Len(Tail(q))
        PROVE  j + 1 \in (i + 1) + 1 .. Len(q) /\ Tail(q)[j] = q[j + 1]
    <3>1. j \in 1 .. Len(q) - 1 /\ j + 1 \in (i + 1) + 1 .. Len(q)
      BY <1>1
    <3> QED
      BY <1>1, <3>1
  <2> QED
    BY <2>1, <2>2, <2>3
<1>14. Entry(Tail(q), L2, v.status, o)
  BY <1>3, <1>4, <1>9, <1>10 DEF Entry, e
<1>15. Gone(Tail(q), L2, v.status, o) \/ Leads(Tail(q), o, Base(L2, o), v.filled)
  <2>1. CASE t.status \in DropStatus
    BY <1>4, <1>10, <2>1 DEF Gone, DropStatus, EndStatus, e
  <2>2. CASE t.status \notin DropStatus
    BY <1>9, <1>11, <2>2
  <2> QED
    BY <2>1, <2>2
<1>16. Dropping(io2, o) => Gone(Tail(q), L2, v.status, o)
  <2>1. e.status \in DropStatus => Gone(Tail(q), L2, v.status, o)
    BY <1>4, <1>10 DEF Gone, DropStatus, EndStatus, e
  <2>2. Gone(q, L, v.status, o) => Gone(Tail(q), L2, v.status, o)
    BY <1>6, <1>10, <2>1 DEF Gone, DropStatus
  <2> QED
    BY <1>2, <2>1, <2>2 DEF e
<1> QED
  BY <1>12, <1>13, <1>14, <1>15, <1>16 DEF Fresh

\* The IO thread takes an order off the list that has ended.
LEMMA FreshErased ==
    ASSUME NEW q \in Seq(OrderTasks), NEW o, NEW L, NEW L2, o \notin DOMAIN L2,
           NEW io, NEW io2, NEW v \in Places, Gone(q, L, v.status, o), Fresh(q, L, io, v, o)
    PROVE  Fresh(q, L2, io2, v, o)
<1>1. v.status = "closed" /\ OnlyCancels(q, o)
  BY DEF Gone
<1>2. Life(q, L2, v.status, o)
  BY <1>1 DEF Life, Listed, NoUpdates, OnlyCancels, EndStatus
<1>3. Follows(q, L2, o)
  BY DEF Fresh, Follows, Listed
<1>4. Entry(q, L2, v.status, o)
  BY DEF Entry, Listed
<1>5. Gone(q, L2, v.status, o)
  BY <1>1 DEF Gone, Listed
<1> QED
  BY <1>2, <1>3, <1>4, <1>5 DEF Fresh

-----------------------------------------------------------------------------
(* The count of an order's fills, also across crashes *)

LEMMA CountedQuiet ==
    ASSUME NEW q \in Seq(OrderTasks), NEW q2 \in Seq(OrderTasks), NEW d \in {0, 1},
           Shift(q, q2, d), NEW o, NEW v \in Nat,
           \A i \in 1 .. d : Quiet(q[i], o),
           \A i \in Added(q, q2, d) : Quiet(q2[i], o),
           NEW L, NEW L2, NEW io, NEW io2, NEW D, NEW D2,
           \A m \in Nat : Held(L, io, D, o, m) => Held(L2, io2, D2, o, m),
           Counted(q, L, io, D, v, o)
    PROVE  Counted(q2, L2, io2, D2, v, o)
<1>1. PICK m \in Nat : Leads(q, o, m, v) /\ Held(L, io, D, o, m)
  BY DEF Counted
<1>2. Leads(q2, o, m, v)
  BY <1>1, LeadsQuiet
<1> QED
  BY <1>1, <1>2 DEF Counted

\* What counts at most m counts at most n.
LEMMA HeldGrows ==
    ASSUME Types
    PROVE  \A o \in Ids : \A m, n \in Nat :
               m =< n /\ Held(m_order_list, io_q, docs, o, m)
                   => Held(m_order_list, io_q, docs, o, n)
<1>1. \A o \in DOMAIN m_order_list : m_order_list[o].filled \in Nat
  <2>1. \A o \in DOMAIN m_order_list : m_order_list[o] \in Orders
    BY DEF Types, ListType
  <2> QED
    BY <2>1 DEF Orders
<1>2. \A x \in Saved : x.filled \in Nat
  BY DEF Saved, Orders, NoOrder, Order
<1>3. \A i \in 1 .. Len(io_q) : io_q[i].order.filled \in Nat
  <2>1. \A i \in 1 .. Len(io_q) : io_q[i] \in IoTasks
    BY DEF Types, IoType
  <2>2. \A i \in 1 .. Len(io_q) : io_q[i].order \in Saved
    BY <2>1 DEF IoTasks
  <2> QED
    BY <1>2, <2>2
<1>4. \A dm \in DOMAIN docs : docs[dm].filled \in Nat
  <2>1. \A dm \in DOMAIN docs : docs[dm] \in Saved
    BY DEF Types, DocsType
  <2> QED
    BY <1>2, <2>1
<1> QED
  BY <1>1, <1>3, <1>4 DEF Held

\* With an empty queue the count starts from what was filled.
LEMMA CountedEmpty ==
    ASSUME NEW q \in Seq(OrderTasks), NEW o, NEW v \in Nat, NEW w \in Nat, v =< w,
           NEW L, NEW L2, NEW io, NEW io2, NEW D, NEW D2,
           \A m, n \in Nat : m =< n /\ Held(L, io, D, o, m) => Held(L2, io2, D2, o, n),
           Counted(q, L, io, D, v, o)
    PROVE  Counted(<<>>, L2, io2, D2, w, o)
<1>1. PICK m \in Nat : Leads(q, o, m, v) /\ Held(L, io, D, o, m)
  BY DEF Counted
<1>2. m =< w
  BY <1>1, LeadsBound
<1>3. Held(L2, io2, D2, o, w)
  BY <1>1, <1>2
<1> QED
  BY <1>3, LeadsEmpty DEF Counted

-----------------------------------------------------------------------------
(* The queue of the ORDER event base *)

LEMMA TaskType ==
    ASSUME NEW t \in OrderTasks
    PROVE  /\ t.order \in Orders /\ t.order.id \in Ids /\ t.order.filled \in Nat
           /\ t.order.status \in Statuses
           /\ t.op \in {"handle_update_order", "execute_place", "execute_cancel"}
BY DEF OrderTasks, Orders

LEMMA Posted ==
    ASSUME NEW q \in Seq(OrderTasks), NEW f \in Seq(OrderTasks)
    PROVE  /\ q \o f \in Seq(OrderTasks) /\ Shift(q, q \o f, 0)
           /\ \A i \in Added(q, q \o f, 0) :
                  i - Len(q) \in 1 .. Len(f) /\ (q \o f)[i] = f[i - Len(q)]
           /\ \A j \in 1 .. Len(f) :
                  Len(q) + j \in Added(q, q \o f, 0) /\ (q \o f)[Len(q) + j] = f[j]
<1>1. /\ Len(q) \in Nat /\ Len(f) \in Nat /\ Len(q \o f) = Len(q) + Len(f)
      /\ q \o f \in Seq(OrderTasks)
      /\ \A i \in 1 .. Len(q) + Len(f) :
             (q \o f)[i] = IF i =< Len(q) THEN q[i] ELSE f[i - Len(q)]
  BY ConcatProperties
<1> QED
  BY <1>1 DEF Shift, Added

LEMMA Appended ==
    ASSUME NEW q \in Seq(OrderTasks), NEW t \in OrderTasks
    PROVE  /\ Append(q, t) \in Seq(OrderTasks) /\ Shift(q, Append(q, t), 0)
           /\ \A i \in Added(q, Append(q, t), 0) : i = Len(q) + 1
           /\ Len(q) + 1 \in Added(q, Append(q, t), 0)
           /\ Append(q, t)[Len(q) + 1] = t
<1>1. /\ Len(q) \in Nat /\ Len(Append(q, t)) = Len(q) + 1
      /\ Append(q, t) \in Seq(OrderTasks) /\ Append(q, t)[Len(q) + 1] = t
      /\ \A i \in 1 .. Len(q) : Append(q, t)[i] = q[i]
  OBVIOUS
<1> QED
  BY <1>1 DEF Shift, Added

LEMMA Taken ==
    ASSUME NEW q \in Seq(OrderTasks), q # <<>>
    PROVE  /\ Tail(q) \in Seq(OrderTasks) /\ Shift(q, Tail(q), 1)
           /\ Added(q, Tail(q), 1) = {}
           /\ Head(q) = q[1] /\ q[1] \in OrderTasks /\ 1 \in 1 .. Len(q)
<1>1. /\ Len(q) \in Nat /\ Len(q) >= 1 /\ Len(Tail(q)) = Len(q) - 1
      /\ Tail(q) \in Seq(OrderTasks)
      /\ \A i \in 1 .. Len(q) - 1 : Tail(q)[i] = q[i + 1]
      /\ Head(q) = q[1] /\ q[1] \in OrderTasks /\ 1 \in 1 .. Len(q)
  OBVIOUS
<1> QED
  BY <1>1 DEF Shift, Added

LEMMA Answered ==
    ASSUME NEW q \in Seq(OrderTasks), q # <<>>, NEW t \in OrderTasks
    PROVE  /\ Append(Tail(q), t) \in Seq(OrderTasks) /\ Shift(q, Append(Tail(q), t), 1)
           /\ \A i \in Added(q, Append(Tail(q), t), 1) : i = Len(q)
           /\ Len(q) \in Added(q, Append(Tail(q), t), 1)
           /\ Append(Tail(q), t)[Len(q)] = t
<1> DEFINE r == Tail(q)
<1>1. /\ Len(q) \in Nat /\ Len(q) >= 1 /\ Len(r) = Len(q) - 1
      /\ r \in Seq(OrderTasks)
      /\ \A i \in 1 .. Len(q) - 1 : r[i] = q[i + 1]
  OBVIOUS
<1> HIDE DEF r
<1>2. /\ Len(Append(r, t)) = Len(r) + 1
      /\ Append(r, t) \in Seq(OrderTasks) /\ Append(r, t)[Len(r) + 1] = t
      /\ \A i \in 1 .. Len(r) : Append(r, t)[i] = r[i]
  BY <1>1
<1>3. /\ Append(r, t) \in Seq(OrderTasks) /\ Shift(q, Append(r, t), 1)
      /\ \A i \in Added(q, Append(r, t), 1) : i = Len(q)
      /\ Len(q) \in Added(q, Append(r, t), 1)
      /\ Append(r, t)[Len(q)] = t
  BY <1>1, <1>2 DEF Shift, Added
<1> QED
  BY <1>3 DEF r

LEMMA Unmoved ==
    ASSUME NEW q \in Seq(OrderTasks)
    PROVE  Shift(q, q, 0) /\ Added(q, q, 0) = {}
BY DEF Shift, Added

\* What the order of the tasks asks of those that stay.
StillSent(q, d, V) ==
    \A i \in d + 1 .. Len(q) :
        q[i].op = "execute_place" => V[q[i].order.id].status = "sent"

\* What the order of the tasks asks of those that are added.
AddedOK(q, q2, d, V) ==
    \A k \in Added(q, q2, d) :
        LET t == q2[k] IN
        /\ V[t.order.id].status # "none"
        /\ t.order.status \notin {"FILLED", "PARTIALLY_FILLED"} => t.order.filled = 0
        /\ t.op # "handle_update_order" => t.order.status = "NEW"
        /\ t.op = "execute_place" =>
               /\ V[t.order.id].status = "sent"
               /\ \A j \in 1 .. Len(q2) : q2[j].order.id = t.order.id => j = k
        /\ t.op # "execute_cancel" =>
               \A i \in d + 1 .. Len(q) :
                   q[i].op = "execute_place" => q[i].order.id # t.order.id

\* The tasks stay in order when some are taken and some are added.
LEMMA TasksStep ==
    ASSUME NEW q \in Seq(OrderTasks), NEW q2 \in Seq(OrderTasks), NEW d \in {0, 1},
           Shift(q, q2, d), NEW V, NEW V2, TasksOK(q, V),
           \A o \in Ids : V[o].status # "none" => V2[o].status # "none",
           StillSent(q, d, V2), AddedOK(q, q2, d, V2)
    PROVE  TasksOK(q2, V2)
<1>1. Len(q) \in Nat /\ Len(q2) \in Nat /\ d \in Nat
  OBVIOUS
<1>2. ASSUME NEW i \in 1 .. Len(q2), i \notin Added(q, q2, d)
      PROVE  i + d \in d + 1 .. Len(q) /\ i + d \in 1 .. Len(q) /\ q2[i] = q[i + d]
  <2>1. i \in 1 .. Len(q) - d
    BY <1>1, <1>2 DEF Added
  <2> QED
    BY <1>1, <2>1 DEF Shift
<1>3. \A i \in 1 .. Len(q) : q[i].order.id \in Ids
  <2>1. \A i \in 1 .. Len(q) : q[i] \in OrderTasks
    OBVIOUS
  <2> QED
    BY <2>1, TaskType
<1> SUFFICES ASSUME NEW i \in 1 .. Len(q2)
             PROVE  LET t == q2[i] IN
                    /\ V2[t.order.id].status # "none"
                    /\ t.order.status \notin {"FILLED", "PARTIALLY_FILLED"} => t.order.filled = 0
                    /\ t.op # "handle_update_order" => t.order.status = "NEW"
                    /\ t.op = "execute_place" =>
                           /\ V2[t.order.id].status = "sent"
                           /\ \A j \in 1 .. Len(q2) :
                                  q2[j].order.id = t.order.id /\ j # i
                                      => i < j /\ q2[j].op = "execute_cancel"
  BY DEF TasksOK
<1>4. CASE i \in Added(q, q2, d)
  BY <1>4 DEF AddedOK
<1>5. CASE i \notin Added(q, q2, d)
  <2>1. i + d \in d + 1 .. Len(q) /\ i + d \in 1 .. Len(q) /\ q2[i] = q[i + d]
    BY <1>2, <1>5
  <2>2. /\ V[q[i + d].order.id].status # "none"
        /\ q[i + d].order.status \notin {"FILLED", "PARTIALLY_FILLED"}
               => q[i + d].order.filled = 0
        /\ q[i + d].op # "handle_update_order" => q[i + d].order.status = "NEW"
        /\ q[i + d].op = "execute_place" =>
               \A j \in 1 .. Len(q) :
                   q[j].order.id = q[i + d].order.id /\ j # i + d
                       => i + d < j /\ q[j].op = "execute_cancel"
    BY <2>1 DEF TasksOK
  <2>3. ASSUME q[i + d].op = "execute_place", NEW j \in 1 .. Len(q2),
               q2[j].order.id = q[i + d].order.id, j # i
        PROVE  i < j /\ q2[j].op = "execute_cancel"
    <3>1. CASE j \in Added(q, q2, d)
      <4>1. i < j
        BY <1>1, <1>5, <3>1 DEF Added
      <4>2. q2[j].op = "execute_cancel"
        BY <2>1, <2>3, <3>1 DEF AddedOK
      <4> QED
        BY <4>1, <4>2
    <3>2. CASE j \notin Added(q, q2, d)
      <4>1. j + d \in 1 .. Len(q) /\ q2[j] = q[j + d]
        BY <1>2, <3>2
      <4>2. j + d # i + d
        BY <1>1, <2>3
      <4>3. i + d < j + d /\ q[j + d].op = "execute_cancel"
        BY <2>2, <2>3, <4>1, <4>2
      <4> QED
        BY <1>1, <4>1, <4>3
    <3> QED
      BY <3>1, <3>2
  <2>4. V2[q[i + d].order.id].status # "none"
    BY <1>3, <2>1, <2>2
  <2>5. q[i + d].op = "execute_place" => V2[q[i + d].order.id].status = "sent"
    BY <2>1 DEF StillSent
  <2> QED
    BY <2>1, <2>2, <2>3, <2>4, <2>5
<1> QED
  BY <1>4, <1>5

\* What a step of the exchange, the simulator or a caller tells about o.
Told(q, q2, d, v, v2, o) ==
    /\ \A i \in 1 .. d : Quiet(q[i], o)
    /\ \/ /\ \A i \in Added(q, q2, d) : Quiet(q2[i], o)
          /\ v2.filled = v.filled
          /\ v2.status = v.status \/ (v.status = "none" /\ v2.status = "sent")
       \/ \E k \in Added(q, q2, d) :
              /\ \A i \in Added(q, q2, d) : i # k => Quiet(q2[i], o)
              /\ Update(q2[k], o) /\ v2.filled = v.filled + q2[k].order.filled
              /\ Tells(q2[k], o, v2.filled)
              /\ o \in lost' \/ Reports(q2[k], v.status, v2.status)

LEMMA BaseType == ASSUME ListType, NEW o PROVE Base(m_order_list, o) \in Nat
BY DEF ListType, Base, Orders

\* A step of the exchange, the simulator or a caller keeps the counts.
LEMMA QueueStep ==
    ASSUME Types, CountInv, FreshInv, NEW d \in {0, 1},
           order_q' \in Seq(OrderTasks), Shift(order_q, order_q', d),
           venue' \in [Ids -> Places],
           UNCHANGED <<engine, m_order_list, io_q, docs, crashes>>, lost \subseteq lost',
           \A o \in Ids : Told(order_q, order_q', d, venue[o], venue'[o], o)
    PROVE  CountInv' /\ FreshInv'
<1>1. PICK q2 \in Seq(OrderTasks) : q2 = order_q'
  OBVIOUS
<1>2. order_q \in Seq(OrderTasks) /\ Shift(order_q, q2, d) /\ ListType
  BY <1>1 DEF Types
<1>3. ASSUME NEW o \in Ids
      PROVE  /\ Counted(q2, m_order_list, io_q, docs, venue'[o].filled, o)
             /\ crashes = 0 /\ o \notin lost' => Fresh(q2, m_order_list, io_q, venue'[o], o)
  <2>0. PICK v \in Places, v2 \in Places : v = venue[o] /\ v2 = venue'[o]
    BY DEF Types
  <2>1. Counted(order_q, m_order_list, io_q, docs, v.filled, o)
    BY <2>0 DEF CountInv
  <2>2. crashes = 0 /\ o \notin lost' => Fresh(order_q, m_order_list, io_q, v, o)
    BY <2>0 DEF FreshInv
  <2>3. v.filled \in Nat /\ v2.filled \in Nat
    BY IdsAssumption DEF Places
  <2>4. Base(m_order_list, o) \in Nat
    BY <1>2, BaseType
  <2>5. Told(order_q, q2, d, v, v2, o)
    BY <1>1, <2>0
  <2>6. \A i \in 1 .. d : Quiet(order_q[i], o)
    BY <2>5 DEF Told
  <2>7. CASE /\ \A i \in Added(order_q, q2, d) : Quiet(q2[i], o)
             /\ v2.filled = v.filled
             /\ v2.status = v.status \/ (v.status = "none" /\ v2.status = "sent")
    <3>1. Counted(q2, m_order_list, io_q, docs, v.filled, o)
      BY <1>2, <2>1, <2>3, <2>6, <2>7, CountedQuiet
    <3>2. ASSUME crashes = 0, o \notin lost' PROVE Fresh(q2, m_order_list, io_q, v2, o)
      BY <1>2, <2>2, <2>4, <2>6, <2>7, <3>2, FreshQuiet
    <3> QED
      BY <2>0, <2>7, <3>1, <3>2
  <2>8. ASSUME NEW k \in Added(order_q, q2, d),
               \A i \in Added(order_q, q2, d) : i # k => Quiet(q2[i], o),
               Update(q2[k], o), v2.filled = v.filled + q2[k].order.filled,
               Tells(q2[k], o, v2.filled),
               o \in lost' \/ Reports(q2[k], v.status, v2.status)
        PROVE  /\ Counted(q2, m_order_list, io_q, docs, venue'[o].filled, o)
               /\ crashes = 0 /\ o \notin lost' => Fresh(q2, m_order_list, io_q, venue'[o], o)
    <3>0. OneReport(order_q, q2, d, o, k)
      BY <1>2, <2>6, <2>8 DEF OneReport
    <3>1. q2[k].order.filled \in Nat /\ Fills(q2[k], o) = q2[k].order.filled
      <4>1. k \in 1 .. Len(q2)
        BY <1>2 DEF Added, Shift
      <4>2. q2[k] \in OrderTasks
        BY <4>1
      <4> QED
        BY <2>8, <4>2, TaskType DEF Update, Fills
    <3>2. v2.filled = v.filled + Fills(q2[k], o) /\ v.filled =< v2.filled
      BY <2>3, <2>8, <3>1
    <3>3. Counted(q2, m_order_list, io_q, docs, v2.filled, o)
      <4>1. PICK m \in Nat : Leads(order_q, o, m, v.filled) /\ Held(m_order_list, io_q, docs, o, m)
        BY <2>1 DEF Counted
      <4>2. PICK a \in Nat, b \in Nat : a = v.filled /\ b = v2.filled
        BY <2>3
      <4>3. /\ b = a + Fills(q2[k], o) /\ a =< b /\ Tells(q2[k], o, b)
            /\ Leads(order_q, o, m, a)
        BY <2>8, <3>2, <4>1, <4>2
      <4>4. Leads(q2, o, m, b)
        BY <1>2, <3>0, <4>3, LeadsReport
      <4> QED
        BY <4>1, <4>2, <4>4 DEF Counted
    <3>4. ASSUME crashes = 0, o \notin lost' PROVE Fresh(q2, m_order_list, io_q, v2, o)
      BY <1>2, <2>2, <2>4, <2>8, <3>0, <3>1, <3>4, FreshReport
    <3> QED
      BY <2>0, <3>3, <3>4
  <2> QED
    BY <2>5, <2>7, <2>8 DEF Told
<1> QED
  BY <1>1, <1>3 DEF CountInv, FreshInv

-----------------------------------------------------------------------------
(* The exchange, the simulator and the callers *)

LEMMA ManagedTypes ==
    ASSUME Types, UNCHANGED managed, order_q' \in Seq(OrderTasks),
           venue' \in [Ids -> Places], cancels' \in Nat,
           engine # "up" => order_q' = order_q
    PROVE  Types' /\ UNCHANGED <<engine, m_order_list, io_q, docs, crashes>>
BY DEF Types, managed, ListType, IoType, CacheType, DocsType

\* The venue's entry of an order.
LEMMA VenueType ==
    ASSUME Types, NEW o \in Ids
    PROVE  /\ venue[o] \in Places /\ venue[o].filled \in 0 .. Quantity
           /\ venue[o].status \in {"none", "sent", "open", "closed"}
           /\ Quantity \in Nat /\ venue[o].filled \in Nat
<1>1. venue[o] \in Places /\ Quantity \in Nat
  BY IdsAssumption DEF Types
<1> QED
  BY <1>1 DEF Places

LEMMA MadeTask ==
    ASSUME NEW o \in Ids, NEW status \in Statuses, NEW filled \in Nat,
           NEW op \in {"handle_update_order", "execute_place", "execute_cancel"}
    PROVE  LET t == OrderTask(op, Order(o, status, filled)) IN
           /\ t \in OrderTasks /\ t.op = op /\ t.order.id = o
           /\ t.order.status = status /\ t.order.filled = filled
BY DEF OrderTask, Order, OrderTasks, Orders

\* A task about another order, or one that is no report, is quiet.
LEMMA QuietTask ==
    ASSUME NEW t \in OrderTasks, NEW o,
           t.order.id # o \/ (t.op # "handle_update_order" /\ t.order.filled = 0)
    PROVE  Quiet(t, o)
BY DEF Quiet, Update, Fills

\* Any report of the exchange.
LEMMA ReportStep ==
    ASSUME IInv, NEW o \in Ids, NEW from, NEW to \in {"open", "closed"},
           NEW status \in Statuses, NEW filled \in Nat,
           Report(o, from, to, status, filled),
           venue[o].filled + filled =< Quantity,
           to = "open" => venue[o].filled + filled < Quantity,
           status \notin {"FILLED", "PARTIALLY_FILLED"} => filled = 0,
           status \notin {"CANCELED", "REJECTED"} =>
               (status = "FILLED" <=> venue[o].filled + filled = Quantity),
           lost \subseteq lost',
           \/ o \in lost'
           \/ Reports(OrderTask("handle_update_order", Order(o, status, filled)), from, to)
    PROVE  IInv'
<1> DEFINE t == OrderTask("handle_update_order", Order(o, status, filled))
           f == [i \in DOMAIN <<Order(o, status, filled)>> |->
                    OrderTask("handle_update_order", <<Order(o, status, filled)>>[i])]
<1>1. /\ Types /\ VenueInv /\ TaskInv /\ CountInv /\ FreshInv
      /\ order_q \in Seq(OrderTasks) /\ venue \in [Ids -> Places] /\ cancels \in Nat
  BY DEF IInv, Types
<1>2. /\ t \in OrderTasks /\ t.op = "handle_update_order" /\ t.order.id = o
      /\ t.order.status = status /\ t.order.filled = filled
  BY MadeTask
<1>3. f \in Seq(OrderTasks) /\ Len(f) = 1 /\ f[1] = t
  <2>1. f = [i \in 1 .. 1 |-> t]
    OBVIOUS
  <2> HIDE DEF f, t
  <2> QED
    BY <1>2, <2>1
<1>4. /\ ~simulator /\ venue[o].status = from
      /\ venue' = [venue EXCEPT ![o] = [status |-> to, filled |-> venue[o].filled + filled]]
      /\ order_q' = IF engine = "up" THEN order_q \o f ELSE order_q
      /\ UNCHANGED managed /\ UNCHANGED cancels
  BY DEF Report, update_order
<1> HIDE DEF f, t
<1>5. venue[o].filled \in Nat /\ Quantity \in Nat
  BY <1>1, VenueType
<1>6. /\ venue' \in [Ids -> Places] /\ venue'[o].status = to
      /\ venue'[o].filled = venue[o].filled + filled
      /\ \A p \in Ids : p # o => venue'[p] = venue[p]
  <2>1. [status |-> to, filled |-> venue[o].filled + filled] \in Places
    BY <1>5 DEF Places
  <2> QED
    BY <1>1, <1>4, <2>1
<1>7. order_q' \in Seq(OrderTasks)
  BY <1>1, <1>3, <1>4, Posted
<1>8. Types' /\ UNCHANGED <<engine, m_order_list, io_q, docs, crashes>>
  BY <1>1, <1>4, <1>6, <1>7, ManagedTypes
<1>9. UNCHANGED simulator
  BY <1>4 DEF managed
<1>10. VenueInv'
  BY <1>1, <1>4, <1>6, <1>9 DEF VenueInv
<1>11. CASE engine = "up"
  <2> DEFINE q2 == order_q \o f
  <2>1. /\ q2 \in Seq(OrderTasks) /\ Shift(order_q, q2, 0) /\ order_q' = q2
        /\ \A i \in Added(order_q, q2, 0) : q2[i] = t /\ i = Len(order_q) + 1
        /\ Len(order_q) + 1 \in Added(order_q, q2, 0) /\ q2[Len(order_q) + 1] = t
    <3>1. /\ q2 \in Seq(OrderTasks) /\ Shift(order_q, q2, 0)
          /\ \A i \in Added(order_q, q2, 0) :
                 i - Len(order_q) \in 1 .. Len(f) /\ q2[i] = f[i - Len(order_q)]
          /\ \A j \in 1 .. Len(f) :
                 Len(order_q) + j \in Added(order_q, q2, 0) /\ q2[Len(order_q) + j] = f[j]
      BY <1>1, <1>3, Posted
    <3>2. \A i \in Added(order_q, q2, 0) : i \in Int
      BY DEF Added
    <3>3. \A i \in Added(order_q, q2, 0) : i = Len(order_q) + 1 /\ i - Len(order_q) = 1
      BY <1>1, <1>3, <3>1, <3>2
    <3> HIDE DEF q2
    <3>4. 1 \in 1 .. Len(f)
      BY <1>3
    <3> QED
      BY <1>3, <1>4, <1>11, <3>1, <3>3, <3>4 DEF q2
  <2> HIDE DEF q2
  <2>2. ASSUME NEW p \in Ids PROVE Told(order_q, q2, 0, venue[p], venue'[p], p)
    <3>1. \A i \in 1 .. 0 : Quiet(order_q[i], p)
      OBVIOUS
    <3>2. CASE p # o
      <4>1. \A i \in Added(order_q, q2, 0) : Quiet(q2[i], p)
        BY <1>2, <2>1, <3>2, QuietTask
      <4> QED
        BY <1>6, <3>1, <3>2, <4>1 DEF Told
    <3>3. CASE p = o
      <4>1. /\ Update(t, o) /\ Tells(t, o, venue'[o].filled)
            /\ o \in lost' \/ Reports(t, venue[o].status, venue'[o].status)
        BY <1>2, <1>4, <1>6 DEF Update, Tells, t
      <4> QED
        BY <1>2, <1>6, <2>1, <3>1, <3>3, <4>1 DEF Told
    <3> QED
      BY <3>2, <3>3
  <2>3. CountInv' /\ FreshInv'
    BY <1>1, <1>6, <1>8, <2>1, <2>2, QueueStep
  <2>4. \A i \in 1 .. Len(order_q) : order_q[i].op = "handle_update_order"
    BY <1>1, <1>4 DEF TaskInv
  <2>5. TasksOK(q2, venue')
    <3>1. TasksOK(order_q, venue)
      BY <1>1 DEF TaskInv
    <3>2. \A p \in Ids : venue[p].status # "none" => venue'[p].status # "none"
      BY <1>6
    <3>3. \A i \in 0 + 1 .. Len(order_q) : order_q[i].op # "execute_place"
      BY <2>4
    <3>4. /\ venue'[o].status # "none"
          /\ t.order.status \notin {"FILLED", "PARTIALLY_FILLED"} => t.order.filled = 0
      BY <1>2, <1>6
    <3>5. AddedOK(order_q, q2, 0, venue')
      BY <1>2, <2>1, <3>3, <3>4 DEF AddedOK
    <3>6. StillSent(order_q, 0, venue')
      BY <3>3 DEF StillSent
    <3> QED
      BY <1>1, <2>1, <3>1, <3>2, <3>5, <3>6, TasksStep
  <2>6. \A i \in 1 .. Len(q2) : q2[i].op = "handle_update_order"
    <3>1. ASSUME NEW i \in 1 .. Len(q2), i \notin Added(order_q, q2, 0)
          PROVE  i \in 1 .. Len(order_q) /\ q2[i] = order_q[i]
      <4>1. i \in 1 .. Len(order_q) - 0 /\ i \in 1 .. Len(order_q) /\ i + 0 = i
        BY <1>1, <2>1, <3>1 DEF Added
      <4> QED
        BY <2>1, <4>1 DEF Shift
    <3> QED
      BY <1>2, <2>1, <2>4, <3>1
  <2>7. TaskInv'
    BY <2>1, <2>5, <2>6 DEF TaskInv
  <2> QED
    BY <1>8, <1>10, <2>3, <2>7 DEF IInv
<1>12. CASE engine # "up"
  <2>1. order_q = <<>> /\ order_q' = order_q
    BY <1>1, <1>4, <1>12 DEF Types
  <2>2. CountInv'
    <3> SUFFICES ASSUME NEW p \in Ids
                 PROVE  Counted(<<>>, m_order_list, io_q, docs, venue'[p].filled, p)
      BY <1>8, <2>1 DEF CountInv
    <3>1. Counted(order_q, m_order_list, io_q, docs, venue[p].filled, p)
      BY <1>1 DEF CountInv
    <3>2. /\ venue[p].filled \in Nat /\ venue'[p].filled \in Nat
          /\ venue[p].filled =< venue'[p].filled
      <4>1. venue[p].filled \in Nat
        BY <1>1, VenueType
      <4> QED
        BY <1>5, <1>6, <4>1
    <3>3. \A m, n \in Nat : m =< n /\ Held(m_order_list, io_q, docs, p, m)
                            => Held(m_order_list, io_q, docs, p, n)
      BY <1>1, HeldGrows
    <3> QED
      BY <1>1, <3>1, <3>2, <3>3, CountedEmpty
  <2>3. TaskInv'
    BY <2>1, <1>1 DEF TaskInv, TasksOK
  <2>4. FreshInv'
    BY <1>1, <1>8, <1>12 DEF FreshInv
  <2> QED
    BY <1>8, <1>10, <2>2, <2>3, <2>4 DEF IInv
<1> QED
  BY <1>11, <1>12

LEMMA ExchangeStep == ASSUME IInv, DueInv, NEW o \in Ids, Exchange(o) PROVE IInv'
<1>1. /\ Types /\ VenueInv /\ Quantity \in Nat /\ Quantity > 0
      /\ venue[o].filled \in 0 .. Quantity
  BY VenueType, IdsAssumption DEF IInv
<1>2. ASSUME NEW status \in Statuses, NEW filled \in Nat, NEW to
      PROVE  OrderTask("handle_update_order", Order(o, status, filled)).order.status = status
  BY <1>2, MadeTask
<1>3. CASE Accept(o)
  <2>1. /\ Report(o, "sent", "open", "NEW", 0) /\ venue[o].status = "sent"
        /\ lost \subseteq lost'
    BY <1>3 DEF Accept, Report
  <2>2. venue[o].filled = 0
    BY <1>1, <2>1 DEF VenueInv
  <2>3. Reports(OrderTask("handle_update_order", Order(o, "NEW", 0)), "sent", "open")
    BY <1>2 DEF Reports, Statuses
  <2> QED
    BY <1>1, <2>1, <2>2, <2>3, ReportStep DEF Statuses
<1>4. CASE Reject(o)
  <2>1. /\ Report(o, "sent", "closed", "REJECTED", 0) /\ venue[o].status = "sent"
        /\ lost \subseteq lost'
    BY <1>4 DEF Reject, Report
  <2>2. venue[o].filled = 0
    BY <1>1, <2>1 DEF VenueInv
  <2>3. Reports(OrderTask("handle_update_order", Order(o, "REJECTED", 0)), "sent", "closed")
    BY <1>2 DEF Reports, Statuses
  <2> QED
    BY <1>1, <2>1, <2>2, <2>3, ReportStep DEF Statuses
<1>5. CASE PartialFill(o)
  <2>1. /\ Report(o, "open", "open", "PARTIALLY_FILLED", 1) /\ venue[o].filled + 1 < Quantity
        /\ lost \subseteq lost'
    BY <1>5 DEF PartialFill
  <2>2. Reports(OrderTask("handle_update_order", Order(o, "PARTIALLY_FILLED", 1)), "open", "open")
    BY <1>2 DEF Reports, Statuses
  <2> QED
    BY <1>1, <2>1, <2>2, ReportStep DEF Statuses
<1>6. CASE Fill(o)
  <2> DEFINE n == Quantity - venue[o].filled
  <2>1. Report(o, "open", "closed", "FILLED", n) /\ lost \subseteq lost'
    BY <1>6 DEF Fill
  <2>2. n \in Nat /\ venue[o].filled + n = Quantity
    BY <1>1
  <2> HIDE DEF n
  <2>3. Reports(OrderTask("handle_update_order", Order(o, "FILLED", n)), "open", "closed")
    BY <1>2, <2>2 DEF Reports, Statuses
  <2>4. "FILLED" \in Statuses /\ venue[o].filled + n =< Quantity
    BY <1>1, <2>2 DEF Statuses
  <2> QED
    BY <2>1, <2>2, <2>3, <2>4, ReportStep
<1>7. CASE CancelOnExchange(o)
  <2>1. Report(o, "open", "closed", "CANCELED", 0) /\ lost \subseteq lost'
    BY <1>7 DEF CancelOnExchange
  <2>2. Reports(OrderTask("handle_update_order", Order(o, "CANCELED", 0)), "open", "closed")
    BY <1>2 DEF Reports, Statuses
  <2> QED
    BY <1>1, <2>1, <2>2, ReportStep DEF Statuses
<1>8. CASE Expire(o)
  <2>1. /\ Report(o, "open", "closed", "NEW", 0) /\ venue[o].status = "open"
        /\ lost \subseteq lost' /\ o \in lost'
    BY <1>8 DEF Expire, Loses, Report
  <2>2. venue[o].filled < Quantity
    BY <1>1, <2>1 DEF VenueInv
  <2> QED
    BY <1>1, <2>1, <2>2, ReportStep DEF Statuses
<1>9. CASE AcceptUnanswered(o)
  <2>1. /\ Report(o, "sent", "open", "NEW", 0) /\ venue[o].status = "sent"
        /\ lost \subseteq lost' /\ o \in lost'
    BY <1>9 DEF AcceptUnanswered, Loses, Report
  <2>2. venue[o].filled = 0
    BY <1>1, <2>1 DEF VenueInv
  <2> QED
    BY <1>1, <2>1, <2>2, ReportStep DEF Statuses
<1>10. CASE AnswerLost(o)
  <2>1. PICK st : st = venue[o].status
    OBVIOUS
  <2>2. /\ Report(o, st, st, "REJECTED", 0) /\ st \in {"open", "closed"}
        /\ lost \subseteq lost' /\ o \in lost'
    BY <1>10, <2>1 DEF AnswerLost, DueInv
  <2>3. st = "open" => venue[o].filled < Quantity
    BY <1>1, <2>1 DEF VenueInv
  <2> QED
    BY <1>1, <2>2, <2>3, ReportStep DEF Statuses
<1> QED
  BY <1>3, <1>4, <1>5, <1>6, <1>7, <1>8, <1>9, <1>10 DEF Exchange

LEMMA PlaceStep == ASSUME IInv, NEW o \in Ids, Place(o) PROVE IInv'
<1> DEFINE t == OrderTask("execute_place", Order(o, "NEW", 0))
<1>1. /\ Types /\ VenueInv /\ TaskInv /\ CountInv /\ FreshInv
      /\ order_q \in Seq(OrderTasks) /\ venue \in [Ids -> Places] /\ cancels \in Nat
  BY DEF IInv, Types
<1>2. /\ t \in OrderTasks /\ t.op = "execute_place" /\ t.order.id = o
      /\ t.order.status = "NEW" /\ t.order.filled = 0
  BY MadeTask DEF Statuses
<1>3. /\ engine = "up" /\ venue[o].status = "none"
      /\ venue' = [venue EXCEPT ![o].status = "sent"]
      /\ order_q' = IF simulator THEN Append(order_q, t) ELSE order_q
      /\ UNCHANGED managed /\ UNCHANGED cancels /\ lost \subseteq lost'
  BY DEF Place
<1> HIDE DEF t
<1>4. /\ venue' \in [Ids -> Places] /\ venue'[o].status = "sent"
      /\ venue'[o].filled = venue[o].filled
      /\ \A p \in Ids : p # o => venue'[p] = venue[p]
  BY <1>1, <1>3 DEF Places
<1>5. order_q' \in Seq(OrderTasks)
  BY <1>1, <1>2, <1>3, Appended
<1>6. Types' /\ UNCHANGED <<engine, m_order_list, io_q, docs, crashes>>
  BY <1>1, <1>3, <1>4, <1>5, ManagedTypes
<1>7. UNCHANGED simulator
  BY <1>3 DEF managed
<1>8. VenueInv'
  BY <1>1, <1>3, <1>4, <1>7 DEF VenueInv
<1>9. Shift(order_q, order_q', 0) /\ \A i \in Added(order_q, order_q', 0) :
          simulator /\ i = Len(order_q) + 1 /\ order_q'[i] = t
  <2>1. CASE simulator
    BY <1>1, <1>2, <1>3, <2>1, Appended
  <2>2. CASE ~simulator
    BY <1>1, <1>3, <2>2, Unmoved
  <2> QED
    BY <2>1, <2>2
<1>10. PICK q2 \in Seq(OrderTasks) : q2 = order_q'
  BY <1>5
<1>11. \A i \in 1 .. Len(order_q) : order_q[i].order.id # o
  BY <1>1, <1>3 DEF TaskInv, TasksOK
<1>12. ASSUME NEW p \in Ids PROVE Told(order_q, q2, 0, venue[p], venue'[p], p)
  <2>1. \A i \in 1 .. 0 : Quiet(order_q[i], p)
    OBVIOUS
  <2>2. \A i \in Added(order_q, q2, 0) : Quiet(q2[i], p)
    BY <1>2, <1>9, <1>10, QuietTask
  <2>3. venue'[p].filled = venue[p].filled
        /\ (venue'[p].status = venue[p].status
            \/ (venue[p].status = "none" /\ venue'[p].status = "sent"))
    BY <1>3, <1>4
  <2> QED
    BY <2>1, <2>2, <2>3 DEF Told
<1>13. CountInv' /\ FreshInv'
  BY <1>1, <1>3, <1>4, <1>5, <1>6, <1>9, <1>10, <1>12, QueueStep
<1>14. ASSUME NEW i \in 1 .. Len(q2), i \notin Added(order_q, q2, 0)
       PROVE  i \in 1 .. Len(order_q) /\ q2[i] = order_q[i]
  <2>1. i \in 1 .. Len(order_q) - 0 /\ i \in 1 .. Len(order_q) /\ i + 0 = i
    BY <1>1, <1>9, <1>14 DEF Added
  <2> QED
    BY <1>9, <1>10, <2>1 DEF Shift
<1>15. TasksOK(q2, venue')
  <2>1. TasksOK(order_q, venue)
    BY <1>1 DEF TaskInv
  <2>2. \A p \in Ids : venue[p].status # "none" => venue'[p].status # "none"
    BY <1>3, <1>4
  <2>3. StillSent(order_q, 0, venue')
    <3> SUFFICES ASSUME NEW i \in 1 .. Len(order_q), order_q[i].op = "execute_place"
                 PROVE  venue'[order_q[i].order.id].status = "sent"
      BY DEF StillSent
    <3>1. order_q[i].order.id \in Ids /\ order_q[i].order.id # o
      <4>1. order_q[i] \in OrderTasks
        BY <1>1
      <4> QED
        BY <1>11, <4>1, TaskType
    <3> QED
      BY <1>4, <2>1, <3>1 DEF TasksOK
  <2>4. ASSUME NEW k \in Added(order_q, q2, 0), NEW j \in 1 .. Len(q2), q2[j].order.id = o
        PROVE  j = k
    BY <1>9, <1>10, <1>11, <1>14, <2>4
  <2>5. \A i \in 0 + 1 .. Len(order_q) : order_q[i].order.id # o
    BY <1>11
  <2>6. AddedOK(order_q, q2, 0, venue')
    BY <1>2, <1>4, <1>9, <1>10, <2>4, <2>5 DEF AddedOK
  <2> QED
    BY <1>1, <1>9, <1>10, <2>1, <2>2, <2>3, <2>6, TasksStep
<1>16. ~simulator => \A i \in 1 .. Len(q2) : q2[i].op = "handle_update_order"
  BY <1>1, <1>3, <1>10 DEF TaskInv
<1> QED
  BY <1>6, <1>7, <1>8, <1>10, <1>13, <1>15, <1>16 DEF IInv, TaskInv

LEMMA CancelStep == ASSUME IInv, NEW o \in Ids, Cancel(o) PROVE IInv'
<1> DEFINE t == OrderTask("execute_cancel", Order(o, "NEW", 0))
<1>1. /\ Types /\ VenueInv /\ TaskInv /\ CountInv /\ FreshInv
      /\ order_q \in Seq(OrderTasks) /\ venue \in [Ids -> Places] /\ cancels \in Nat
  BY DEF IInv, Types
<1>2. /\ t \in OrderTasks /\ t.op = "execute_cancel" /\ t.order.id = o
      /\ t.order.status = "NEW" /\ t.order.filled = 0
  BY MadeTask DEF Statuses
<1>3. /\ engine = "up" /\ venue[o].status # "none" /\ simulator
      /\ order_q' = Append(order_q, t) /\ cancels' = cancels + 1
      /\ UNCHANGED managed /\ UNCHANGED venue /\ lost \subseteq lost'
  BY DEF Cancel
<1> HIDE DEF t
<1>4. /\ order_q' \in Seq(OrderTasks) /\ Shift(order_q, order_q', 0)
      /\ \A i \in Added(order_q, order_q', 0) : order_q'[i] = t
  BY <1>1, <1>2, <1>3, Appended
<1>5. Types' /\ UNCHANGED <<engine, m_order_list, io_q, docs, crashes>>
  BY <1>1, <1>3, <1>4, ManagedTypes
<1>6. UNCHANGED simulator
  BY <1>3 DEF managed
<1>7. VenueInv'
  BY <1>1, <1>3, <1>6 DEF VenueInv
<1>8. PICK q2 \in Seq(OrderTasks) : q2 = order_q'
  BY <1>4
<1>9. ASSUME NEW p \in Ids PROVE Told(order_q, q2, 0, venue[p], venue'[p], p)
  <2>1. \A i \in 1 .. 0 : Quiet(order_q[i], p)
    OBVIOUS
  <2>2. \A i \in Added(order_q, q2, 0) : Quiet(q2[i], p)
    BY <1>2, <1>4, <1>8, QuietTask
  <2> QED
    BY <1>3, <2>1, <2>2 DEF Told
<1>10. CountInv' /\ FreshInv'
  BY <1>1, <1>3, <1>4, <1>5, <1>8, <1>9, QueueStep
<1>11. TasksOK(q2, venue)
  <2>1. TasksOK(order_q, venue)
    BY <1>1 DEF TaskInv
  <2>2. StillSent(order_q, 0, venue)
    BY <2>1 DEF TasksOK, StillSent
  <2>3. AddedOK(order_q, q2, 0, venue)
    BY <1>2, <1>3, <1>4, <1>8 DEF AddedOK
  <2> QED
    BY <1>1, <1>4, <1>8, <2>1, <2>2, <2>3, TasksStep
<1> QED
  BY <1>3, <1>5, <1>6, <1>7, <1>8, <1>10, <1>11 DEF IInv, TaskInv

\* A task of the simulator, which is taken and answered with a report t.
LEMMA AnswerStep ==
    ASSUME IInv, engine = "up", order_q # <<>>, order_q[1].op # "handle_update_order",
           NEW o \in Ids, order_q[1].order.id = o,
           NEW t \in OrderTasks, t.op = "handle_update_order", t.order.id = o,
           t.order.filled = 0, t.order.status \in {"NEW", "CANCELED"},
           NEW st \in {"open", "closed"}, Reports(t, venue[o].status, st),
           st = "open" => venue[o].filled = 0,
           venue' = [venue EXCEPT ![o].status = st],
           order_q' = Append(Tail(order_q), t),
           UNCHANGED managed, UNCHANGED cancels, lost \subseteq lost',
           \A i \in 2 .. Len(order_q) :
               order_q[i].op = "execute_place" => order_q[i].order.id # o
    PROVE  IInv'
<1>1. /\ Types /\ VenueInv /\ TaskInv /\ CountInv /\ FreshInv
      /\ order_q \in Seq(OrderTasks) /\ venue \in [Ids -> Places] /\ cancels \in Nat
  BY DEF IInv, Types
<1>2. /\ venue' \in [Ids -> Places] /\ venue'[o].status = st
      /\ venue'[o].filled = venue[o].filled
      /\ \A p \in Ids : p # o => venue'[p] = venue[p]
  BY <1>1 DEF Places
<1>3. /\ order_q' \in Seq(OrderTasks) /\ Shift(order_q, order_q', 1)
      /\ \A i \in Added(order_q, order_q', 1) : i = Len(order_q) /\ order_q'[i] = t
      /\ Len(order_q) \in Added(order_q, order_q', 1) /\ order_q'[Len(order_q)] = t
  BY <1>1, Answered
<1>4. Types' /\ UNCHANGED <<engine, m_order_list, io_q, docs, crashes>>
  BY <1>1, <1>2, <1>3, ManagedTypes
<1>5. UNCHANGED simulator
  BY DEF managed
<1>6. Quantity \in Nat /\ Quantity > 0
  BY IdsAssumption
<1>7. VenueInv'
  <2> SUFFICES ASSUME NEW p \in Ids
               PROVE  /\ venue'[p].status \in {"none", "sent"} => venue'[p].filled = 0
                      /\ venue'[p].status = "open" => venue'[p].filled < Quantity
                      /\ simulator /\ venue'[p].status = "open" => venue'[p].filled = 0
    BY <1>5 DEF VenueInv
  <2>1. CASE p = o
    BY <1>2, <1>6, <2>1
  <2>2. CASE p # o
    BY <1>1, <1>2, <2>2 DEF VenueInv
  <2> QED
    BY <2>1, <2>2
<1>8. PICK q2 \in Seq(OrderTasks) : q2 = order_q'
  BY <1>3
<1>9. order_q[1] \in OrderTasks /\ 1 \in 1 .. Len(order_q)
  BY <1>1, Taken
<1>10. TasksOK(order_q, venue)
  BY <1>1 DEF TaskInv
<1>11. order_q[1].order.filled = 0
  BY <1>9, <1>10 DEF TasksOK
<1>12. ASSUME NEW p \in Ids PROVE Told(order_q, q2, 1, venue[p], venue'[p], p)
  <2>1. \A i \in 1 .. 1 : Quiet(order_q[i], p)
    <3>1. Quiet(order_q[1], p)
      BY <1>9, <1>11, QuietTask
    <3> QED
      BY <3>1
  <2>2. CASE p # o
    <3>1. \A i \in Added(order_q, q2, 1) : Quiet(q2[i], p)
      BY <1>3, <1>8, <2>2, QuietTask
    <3> QED
      BY <1>2, <2>1, <2>2, <3>1 DEF Told
  <2>3. CASE p = o
    <3>1. venue[o].filled \in Nat
      BY <1>1, VenueType
    <3>2. Update(t, o) /\ venue'[o].filled = venue[o].filled + t.order.filled
      BY <1>2, <3>1 DEF Update
    <3>3. Tells(t, o, venue'[o].filled)
      <4>1. CASE t.order.status = "CANCELED"
        BY <4>1 DEF Tells
      <4>2. CASE t.order.status = "NEW"
        <5>1. venue[o].status = "sent"
          BY <4>2 DEF Reports
        <5>2. venue'[o].filled = 0
          BY <1>1, <1>2, <5>1 DEF VenueInv
        <5> QED
          BY <1>6, <4>2, <5>2 DEF Tells
      <4> QED
        BY <4>1, <4>2
    <3>4. Reports(t, venue[o].status, venue'[o].status)
      BY <1>2
    <3> QED
      BY <1>3, <1>8, <2>1, <2>3, <3>2, <3>3, <3>4 DEF Told
  <2> QED
    BY <2>2, <2>3
<1>13. CountInv' /\ FreshInv'
  BY <1>1, <1>2, <1>3, <1>4, <1>8, <1>12, QueueStep
<1>14. TasksOK(q2, venue')
  <2>1. \A p \in Ids : venue[p].status # "none" => venue'[p].status # "none"
    BY <1>2
  <2>2. StillSent(order_q, 1, venue')
    <3> SUFFICES ASSUME NEW i \in 2 .. Len(order_q), order_q[i].op = "execute_place"
                 PROVE  venue'[order_q[i].order.id].status = "sent"
      BY DEF StillSent
    <3>1. i \in 1 .. Len(order_q) /\ order_q[i].order.id # o
      OBVIOUS
    <3>2. order_q[i].order.id \in Ids
      <4>1. order_q[i] \in OrderTasks
        BY <1>1, <3>1
      <4> QED
        BY <4>1, TaskType
    <3> QED
      BY <1>2, <1>10, <3>1, <3>2 DEF TasksOK
  <2>3. \A i \in 1 + 1 .. Len(order_q) :
            order_q[i].op = "execute_place" => order_q[i].order.id # o
    OBVIOUS
  <2>4. AddedOK(order_q, q2, 1, venue')
    BY <1>2, <1>3, <1>8, <2>3 DEF AddedOK
  <2> QED
    BY <1>1, <1>3, <1>8, <1>10, <2>1, <2>2, <2>4, TasksStep
<1>15. simulator
  BY <1>1, <1>9 DEF TaskInv
<1> QED
  BY <1>4, <1>5, <1>7, <1>8, <1>13, <1>14, <1>15 DEF IInv, TaskInv

LEMMA ExecutePlaceStep == ASSUME IInv, ExecutePlace PROVE IInv'
<1> DEFINE x == order_q[1].order
<1>1. Types /\ TaskInv /\ VenueInv /\ order_q \in Seq(OrderTasks)
  BY DEF IInv, Types
<1>2. engine = "up" /\ order_q # <<>> /\ Head(order_q).op = "execute_place"
  BY DEF ExecutePlace, Running
<1>3. /\ Head(order_q) = order_q[1] /\ order_q[1] \in OrderTasks /\ 1 \in 1 .. Len(order_q)
      /\ x \in Orders /\ x.id \in Ids
  BY <1>1, <1>2, Taken, TaskType
<1>4. /\ x.status = "NEW" /\ x.filled = 0 /\ venue[x.id].status = "sent"
      /\ \A j \in 1 .. Len(order_q) :
             order_q[j].order.id = x.id /\ j # 1 => order_q[j].op = "execute_cancel"
  BY <1>1, <1>2, <1>3 DEF TaskInv, TasksOK
<1>5. venue[x.id].filled = 0
  BY <1>1, <1>3, <1>4 DEF VenueInv
<1> DEFINE t == OrderTask("handle_update_order", x)
<1>6. t \in OrderTasks /\ t.op = "handle_update_order" /\ t.order = x
  BY <1>3 DEF OrderTask, OrderTasks
<1>7. /\ venue' = [venue EXCEPT ![x.id].status = "open"]
      /\ order_q' = Append(Tail(order_q), t)
      /\ UNCHANGED managed /\ UNCHANGED cancels /\ lost \subseteq lost'
  BY <1>3 DEF ExecutePlace, Posts
<1> HIDE DEF t
<1>8. Reports(t, venue[x.id].status, "open")
  BY <1>4, <1>6 DEF Reports
<1>9. \A i \in 2 .. Len(order_q) :
          order_q[i].op = "execute_place" => order_q[i].order.id # x.id
  BY <1>4
<1>10. order_q[1].op # "handle_update_order"
  BY <1>2, <1>3
<1> HIDE DEF x
<1> QED
  BY <1>2, <1>3, <1>4, <1>5, <1>6, <1>7, <1>8, <1>9, <1>10, AnswerStep DEF x

LEMMA ExecuteCancelStep == ASSUME IInv, ExecuteCancel PROVE IInv'
<1> DEFINE x == order_q[1].order
<1>1. Types /\ TaskInv /\ VenueInv /\ order_q \in Seq(OrderTasks)
  BY DEF IInv, Types
<1>2. engine = "up" /\ order_q # <<>> /\ Head(order_q).op = "execute_cancel"
  BY DEF ExecuteCancel, Running
<1>3. /\ Head(order_q) = order_q[1] /\ order_q[1] \in OrderTasks /\ 1 \in 1 .. Len(order_q)
      /\ x \in Orders /\ x.id \in Ids
  BY <1>1, <1>2, Taken, TaskType
<1>4. x.status = "NEW" /\ x.filled = 0
  BY <1>1, <1>2, <1>3 DEF TaskInv, TasksOK
<1>5. ASSUME NEW i \in 2 .. Len(order_q), order_q[i].op = "execute_place"
      PROVE  order_q[i].order.id # x.id
  <2>1. i \in 1 .. Len(order_q) /\ i # 1 /\ ~(i < 1)
    OBVIOUS
  <2> QED
    BY <1>1, <1>3, <1>5, <2>1 DEF TaskInv, TasksOK
<1> DEFINE y == [x EXCEPT !.status = "CANCELED"]
           t == OrderTask("handle_update_order", y)
<1>6. y \in Orders /\ y.id = x.id /\ y.status = "CANCELED" /\ y.filled = 0
  BY <1>3, <1>4 DEF Orders, Statuses
<1>7. /\ venue' = [venue EXCEPT ![x.id].status = "closed"]
      /\ order_q' = Append(Tail(order_q), t)
      /\ UNCHANGED managed /\ UNCHANGED cancels /\ lost \subseteq lost'
  BY <1>3 DEF ExecuteCancel, Posts
<1> HIDE DEF y
<1>8. t \in OrderTasks /\ t.op = "handle_update_order" /\ t.order = y
  BY <1>6 DEF OrderTask, OrderTasks
<1> HIDE DEF t
<1>9. Reports(t, venue[x.id].status, "closed")
  BY <1>6, <1>8 DEF Reports
<1>10. order_q[1].op # "handle_update_order"
  BY <1>2, <1>3
<1> HIDE DEF x
<1> QED
  BY <1>2, <1>3, <1>5, <1>6, <1>7, <1>8, <1>9, <1>10, AnswerStep DEF x

LEMMA PriceStep ==
    ASSUME IInv, NEW S \in SUBSET Ids, NEW orders \in SetToSeqs(S), ExecutePriceUpdate(orders)
    PROVE  IInv'
<1> DEFINE n == Cardinality(S)
           T(i) == OrderTask("handle_update_order", Order(orders[i], "FILLED", Quantity))
           f == [i \in 1 .. n |-> T(i)]
           q2 == order_q \o f
<1>1. /\ Types /\ VenueInv /\ TaskInv /\ CountInv /\ FreshInv
      /\ order_q \in Seq(OrderTasks) /\ venue \in [Ids -> Places] /\ cancels \in Nat
  BY DEF IInv, Types
<1>2. n \in Nat
  BY IdsAssumption, FS_Subset, FS_CardinalityType
<1>3. /\ orders \in [1 .. n -> Ids] /\ DOMAIN orders = 1 .. n
      /\ \A i, j \in 1 .. n : i # j => orders[i] # orders[j]
  BY DEF SetToSeqs
<1> HIDE DEF n
<1>4. /\ engine = "up" /\ simulator
      /\ \A i \in 1 .. n : venue[orders[i]].status = "open"
      /\ venue' = [o \in Ids |-> IF o \in Range(orders)
                                 THEN [status |-> "closed", filled |-> Quantity]
                                 ELSE venue[o]]
      /\ order_q' = q2 /\ UNCHANGED managed /\ UNCHANGED cancels /\ lost \subseteq lost'
  <2>1. /\ engine = "up" /\ simulator
        /\ \A i \in DOMAIN orders : venue[orders[i]].status = "open"
        /\ venue' = [o \in Ids |-> IF o \in Range(orders)
                                   THEN [status |-> "closed", filled |-> Quantity]
                                   ELSE venue[o]]
        /\ update_order([i \in DOMAIN orders |-> Order(orders[i], "FILLED", Quantity)])
        /\ UNCHANGED managed /\ UNCHANGED cancels /\ lost \subseteq lost'
    BY DEF ExecutePriceUpdate
  <2> DEFINE X == [i \in DOMAIN orders |-> Order(orders[i], "FILLED", Quantity)]
             g == [i \in DOMAIN X |-> OrderTask("handle_update_order", X[i])]
  <2>2. g = f
    BY <1>3
  <2>3. order_q' = order_q \o g
    BY <2>1 DEF update_order
  <2> HIDE DEF X, g, f
  <2> QED
    BY <1>3, <2>1, <2>2, <2>3
<1>5. Quantity \in Nat /\ Quantity > 0
  BY IdsAssumption
<1>6. ASSUME NEW i \in 1 .. n
      PROVE  /\ T(i) \in OrderTasks /\ T(i).op = "handle_update_order"
             /\ T(i).order.id = orders[i] /\ T(i).order.status = "FILLED"
             /\ T(i).order.filled = Quantity
  <2>1. orders[i] \in Ids
    BY <1>3
  <2> QED
    BY <1>5, <2>1, MadeTask DEF Statuses
<1>7. f \in Seq(OrderTasks) /\ Len(f) = n /\ \A i \in 1 .. n : f[i] = T(i)
  <2> HIDE DEF T
  <2> QED
    BY <1>2, <1>6
<1> HIDE DEF T, f
<1>8. /\ q2 \in Seq(OrderTasks) /\ Shift(order_q, q2, 0)
      /\ \A i \in Added(order_q, q2, 0) :
             i - Len(order_q) \in 1 .. n /\ q2[i] = T(i - Len(order_q))
      /\ \A j \in 1 .. n :
             Len(order_q) + j \in Added(order_q, q2, 0) /\ q2[Len(order_q) + j] = T(j)
  <2>1. /\ q2 \in Seq(OrderTasks) /\ Shift(order_q, q2, 0)
        /\ \A i \in Added(order_q, q2, 0) :
               i - Len(order_q) \in 1 .. Len(f) /\ q2[i] = f[i - Len(order_q)]
        /\ \A j \in 1 .. Len(f) :
               Len(order_q) + j \in Added(order_q, q2, 0) /\ q2[Len(order_q) + j] = f[j]
    BY <1>1, <1>7, Posted
  <2> HIDE DEF q2
  <2> QED
    BY <1>7, <2>1
<1> HIDE DEF q2
<1>9. \A p \in Ids : p \in Range(orders) <=> \E j \in 1 .. n : orders[j] = p
  BY <1>3 DEF Range
<1>10. \A p \in Ids :
          /\ p \in Range(orders) => venue'[p].status = "closed" /\ venue'[p].filled = Quantity
          /\ p \notin Range(orders) => venue'[p] = venue[p]
  BY <1>4
<1>11. venue' \in [Ids -> Places]
  <2>1. [status |-> "closed", filled |-> Quantity] \in Places
    BY <1>5 DEF Places
  <2> QED
    BY <1>1, <1>4, <2>1
<1>12. \A p \in Ids : p \in Range(orders) => venue[p].status = "open" /\ venue[p].filled = 0
  BY <1>1, <1>4, <1>9 DEF VenueInv
<1>13. Types' /\ UNCHANGED <<engine, m_order_list, io_q, docs, crashes>>
  BY <1>1, <1>4, <1>8, <1>11, ManagedTypes
<1>14. UNCHANGED simulator
  BY <1>4 DEF managed
<1>15. VenueInv'
  BY <1>1, <1>10, <1>14 DEF VenueInv
<1>16. ASSUME NEW p \in Ids PROVE Told(order_q, q2, 0, venue[p], venue'[p], p)
  <2>1. \A i \in 1 .. 0 : Quiet(order_q[i], p)
    OBVIOUS
  <2>2. CASE p \notin Range(orders)
    <3>1. \A i \in Added(order_q, q2, 0) : Quiet(q2[i], p)
      BY <1>6, <1>8, <1>9, <2>2, QuietTask
    <3> QED
      BY <1>10, <2>1, <2>2, <3>1 DEF Told
  <2>3. CASE p \in Range(orders)
    <3>1. PICK j \in 1 .. n : orders[j] = p
      BY <1>9, <2>3
    <3> DEFINE k == Len(order_q) + j
    <3>2. k \in Added(order_q, q2, 0) /\ q2[k] = T(j)
      BY <1>8, <3>1
    <3>3. ASSUME NEW i \in Added(order_q, q2, 0), i # k PROVE Quiet(q2[i], p)
      <4>1. i - Len(order_q) \in 1 .. n /\ q2[i] = T(i - Len(order_q)) /\ i \in Int
        BY <1>8 DEF Added
      <4>2. i - Len(order_q) # j
        BY <1>1, <3>3, <4>1
      <4>3. orders[i - Len(order_q)] # p
        BY <1>3, <3>1, <4>1, <4>2
      <4> QED
        BY <1>6, <4>1, <4>3, QuietTask
    <3> HIDE DEF k
    <3>4. Update(T(j), p) /\ venue'[p].filled = venue[p].filled + T(j).order.filled
      BY <1>5, <1>6, <1>10, <1>12, <2>3, <3>1 DEF Update
    <3>5. Tells(T(j), p, venue'[p].filled)
      BY <1>6, <1>10, <2>3, <3>1 DEF Tells
    <3>6. Reports(T(j), venue[p].status, venue'[p].status)
      BY <1>6, <1>10, <1>12, <2>3, <3>1 DEF Reports
    <3> QED
      BY <2>1, <3>2, <3>3, <3>4, <3>5, <3>6 DEF Told
  <2> QED
    BY <2>2, <2>3
<1>17. CountInv' /\ FreshInv'
  BY <1>1, <1>4, <1>8, <1>11, <1>13, <1>16, QueueStep
<1>18. TasksOK(q2, venue')
  <2>1. TasksOK(order_q, venue)
    BY <1>1 DEF TaskInv
  <2>2. \A p \in Ids : venue[p].status # "none" => venue'[p].status # "none"
    BY <1>10
  <2>3. ASSUME NEW i \in 1 .. Len(order_q), order_q[i].op = "execute_place"
        PROVE  /\ order_q[i].order.id \in Ids /\ order_q[i].order.id \notin Range(orders)
               /\ venue[order_q[i].order.id].status = "sent"
    <3>1. order_q[i] \in OrderTasks
      BY <1>1
    <3>2. order_q[i].order.id \in Ids
      BY <3>1, TaskType
    <3>3. venue[order_q[i].order.id].status = "sent"
      BY <2>1, <2>3 DEF TasksOK
    <3> QED
      BY <1>12, <3>2, <3>3
  <2>4. StillSent(order_q, 0, venue')
    BY <1>10, <2>3 DEF StillSent
  <2>5. ASSUME NEW i \in Added(order_q, q2, 0)
        PROVE  /\ q2[i].op = "handle_update_order" /\ q2[i].order.status = "FILLED"
               /\ q2[i].order.id \in Range(orders) /\ q2[i].order.id \in Ids
    BY <1>3, <1>6, <1>8, <1>9
  <2>6. AddedOK(order_q, q2, 0, venue')
    BY <1>10, <2>3, <2>5 DEF AddedOK
  <2> QED
    BY <1>1, <1>8, <2>1, <2>2, <2>4, <2>6, TasksStep
<1> QED
  BY <1>4, <1>13, <1>14, <1>15, <1>17, <1>18 DEF IInv, TaskInv

-----------------------------------------------------------------------------
(* handle_update_order *)

\* Appending one task to the IO queue.
LEMMA IoAppended ==
    ASSUME NEW io \in Seq(IoTasks), NEW t \in IoTasks
    PROVE  /\ Append(io, t) \in Seq(IoTasks) /\ Len(Append(io, t)) = Len(io) + 1
           /\ \A i \in 1 .. Len(io) : Append(io, t)[i] = io[i]
           /\ Append(io, t)[Len(io) + 1] = t
           /\ \A i \in 1 .. Len(Append(io, t)) : i \in 1 .. Len(io) \/ i = Len(io) + 1
OBVIOUS

LEMMA HandleStep == ASSUME IInv, HandleUpdateOrder PROVE IInv'
<1> DEFINE x == order_q[1].order
           o == x.id
           cur == get_order_by_id(o)
           y == Merged(x, cur)
           t == IoTask("update_order_in_db", 0, y)
<1>1. /\ Types /\ VenueInv /\ TaskInv /\ CountInv /\ FreshInv
      /\ order_q \in Seq(OrderTasks) /\ venue \in [Ids -> Places] /\ ListType /\ IoType
  BY DEF IInv, Types
<1>2. engine = "up" /\ order_q # <<>> /\ Head(order_q).op = "handle_update_order"
  BY DEF HandleUpdateOrder, Running
<1>3. /\ Head(order_q) = order_q[1] /\ order_q[1] \in OrderTasks /\ 1 \in 1 .. Len(order_q)
      /\ x \in Orders /\ o \in Ids /\ x.filled \in Nat /\ x.status \in Statuses
      /\ Tail(order_q) \in Seq(OrderTasks) /\ Shift(order_q, Tail(order_q), 1)
      /\ Added(order_q, Tail(order_q), 1) = {}
  BY <1>1, <1>2, Taken, TaskType
<1>4. /\ m_order_list' = Set(m_order_list, o, y) /\ io_q' = Append(io_q, t)
      /\ order_q' = Tail(order_q)
      /\ UNCHANGED <<simulator, engine, m_order_db_cache, docs, data_models, venue,
                     lost, cancels, crashes>>
  BY <1>3 DEF HandleUpdateOrder
<1>5. cur.filled = Base(m_order_list, o) /\ Base(m_order_list, o) \in Nat
  <2>1. Base(m_order_list, o) \in Nat
    BY <1>1, BaseType
  <2>2. cur.filled = Base(m_order_list, o)
    BY DEF get_order_by_id, Base, NoOrder, Order
  <2> QED
    BY <2>1, <2>2
<1>6. /\ y \in Orders /\ y.id = o
      /\ y.filled = IF x.status \in {"FILLED", "PARTIALLY_FILLED"} THEN x.filled + cur.filled
                    ELSE x.filled
  <2> HIDE DEF cur
  <2>1. CASE x.status \in {"FILLED", "PARTIALLY_FILLED"}
    <3>1. y = [x EXCEPT !.filled = x.filled + cur.filled,
                        !.status = IF x.filled + cur.filled = Quantity THEN "FILLED"
                                   ELSE x.status]
      BY <2>1 DEF Merged
    <3>2. x.filled + cur.filled \in Nat
      BY <1>3, <1>5
    <3> QED
      BY <1>3, <2>1, <3>1, <3>2 DEF Orders, Statuses
  <2>2. CASE x.status \notin {"FILLED", "PARTIALLY_FILLED"}
    BY <1>3, <2>2 DEF Merged
  <2> QED
    BY <2>1, <2>2
<1>7. /\ DOMAIN m_order_list' = DOMAIN m_order_list \cup {o}
      /\ m_order_list'[o] = y
      /\ \A p \in DOMAIN m_order_list : p # o => m_order_list'[p] = m_order_list[p]
      /\ m_order_list' = [p \in DOMAIN m_order_list' |-> m_order_list'[p]]
  BY <1>4 DEF Set
<1> HIDE DEF y, cur
<1>8. /\ t \in IoTasks /\ t.op = "update_order_in_db" /\ t.dm = 0 /\ t.order = y
  BY <1>6 DEF IoTask, IoTasks, Saved
<1> HIDE DEF t
<1>9. Types'
  <2>1. ListType'
    <3>1. \A p \in DOMAIN m_order_list' : m_order_list'[p] \in Orders /\ m_order_list'[p].id = p
      BY <1>1, <1>6, <1>7 DEF ListType
    <3>2. DOMAIN m_order_list' \subseteq Ids
      BY <1>1, <1>3, <1>7 DEF ListType
    <3> QED
      BY <1>7, <3>1, <3>2 DEF ListType
  <2>2. IoType'
    <3>1. io_q \in Seq(IoTasks)
      BY <1>1 DEF IoType
    <3>2. /\ Append(io_q, t) \in Seq(IoTasks)
          /\ \A i \in 1 .. Len(io_q) : Append(io_q, t)[i] = io_q[i]
          /\ Append(io_q, t)[Len(io_q) + 1] = t
          /\ \A i \in 1 .. Len(Append(io_q, t)) : i \in 1 .. Len(io_q) \/ i = Len(io_q) + 1
      BY <1>8, <3>1, IoAppended
    <3> QED
      BY <1>1, <1>4, <1>6, <1>8, <3>2 DEF IoType
  <2>3. CacheType' /\ DocsType'
    BY <1>4, <1>1 DEF Types, CacheType, DocsType
  <2> QED
    BY <1>1, <1>2, <1>3, <1>4, <2>1, <2>2, <2>3 DEF Types
<1>10. VenueInv'
  BY <1>1, <1>4 DEF VenueInv
<1>11. TasksOK(order_q, venue)
  BY <1>1 DEF TaskInv
<1>12. TaskInv'
  <2>1. StillSent(order_q, 1, venue)
    BY <1>11 DEF TasksOK, StillSent
  <2>2. AddedOK(order_q, Tail(order_q), 1, venue)
    BY <1>3 DEF AddedOK
  <2>3. TasksOK(Tail(order_q), venue)
    BY <1>1, <1>3, <1>11, <2>1, <2>2, TasksStep
  <2>4. \A i \in 1 .. Len(Tail(order_q)) :
            i + 1 \in 1 .. Len(order_q) /\ Tail(order_q)[i] = order_q[i + 1]
    BY <1>1, <1>2
  <2> QED
    BY <1>1, <1>4, <2>3, <2>4 DEF TaskInv
<1>13. PICK io2 : io2 = io_q'
  OBVIOUS
<1>14. PICK L2 : L2 = m_order_list'
  OBVIOUS
<1>15. /\ \A i \in 1 .. Len(io2) : i \in 1 .. Len(io_q) \/ i = Len(io_q) + 1
       /\ \A i \in 1 .. Len(io_q) : io2[i] = io_q[i]
       /\ io2[Len(io_q) + 1] = t
  <2>1. io_q \in Seq(IoTasks)
    BY <1>1 DEF IoType
  <2> QED
    BY <1>4, <1>8, <1>13, <2>1, IoAppended
<1>16. \A i \in 1 .. 1 : i = 1
  OBVIOUS
<1>17. ASSUME NEW p \in Ids, p # o
       PROVE  /\ Counted(Tail(order_q), L2, io2, docs, venue[p].filled, p)
              /\ crashes = 0 /\ p \notin lost => Fresh(Tail(order_q), L2, io2, venue[p], p)
  <2>1. Quiet(order_q[1], p)
    BY <1>3, <1>17, QuietTask
  <2>2. \A i \in 1 .. 1 : Quiet(order_q[i], p)
    BY <1>16, <2>1
  <2>3. \A i \in Added(order_q, Tail(order_q), 1) : Quiet(Tail(order_q)[i], p)
    BY <1>3
  <2>4. (p \in DOMAIN L2 <=> p \in DOMAIN m_order_list)
        /\ (p \in DOMAIN m_order_list => L2[p] = m_order_list[p])
    BY <1>7, <1>14, <1>17
  <2>5. \A m \in Nat : Held(m_order_list, io_q, docs, p, m) => Held(L2, io2, docs, p, m)
    BY <1>6, <1>8, <1>15, <1>17, <2>4 DEF Held
  <2>6. Dropping(io2, p) => Dropping(io_q, p)
    BY <1>6, <1>8, <1>15, <1>17 DEF Dropping
  <2>7. venue[p] \in Places /\ venue[p].filled \in Nat
    BY <1>1, VenueType
  <2>8. Counted(order_q, m_order_list, io_q, docs, venue[p].filled, p)
    BY <1>1 DEF CountInv
  <2>9. Counted(Tail(order_q), L2, io2, docs, venue[p].filled, p)
    <3>1. PICK m \in Nat : /\ Leads(order_q, p, m, venue[p].filled)
                           /\ Held(m_order_list, io_q, docs, p, m)
      BY <2>8 DEF Counted
    <3>2. PICK q2 \in Seq(OrderTasks) : q2 = Tail(order_q)
      BY <1>3
    <3>3. Leads(q2, p, m, venue[p].filled)
      BY <1>1, <1>3, <2>2, <2>3, <2>7, <3>1, <3>2, LeadsQuiet
    <3> QED
      BY <2>5, <3>1, <3>2, <3>3 DEF Counted
  <2>10. ASSUME crashes = 0, p \notin lost PROVE Fresh(Tail(order_q), L2, io2, venue[p], p)
    <3>1. Fresh(order_q, m_order_list, io_q, venue[p], p)
      BY <1>1, <2>10 DEF FreshInv
    <3>2. Base(m_order_list, p) \in Nat
      BY <1>1, BaseType
    <3>3. PICK v \in Places : v = venue[p]
      BY <2>7
    <3> QED
      BY <1>1, <1>3, <2>2, <2>3, <2>4, <2>6, <3>1, <3>2, <3>3, FreshQuiet
  <2> QED
    BY <2>9, <2>10
<1>18. /\ Counted(Tail(order_q), L2, io2, docs, venue[o].filled, o)
       /\ crashes = 0 /\ o \notin lost => Fresh(Tail(order_q), L2, io2, venue[o], o)
  <2>1. Update(order_q[1], o) /\ Fills(order_q[1], o) = x.filled
    BY <1>2, <1>3 DEF Update, Fills
  <2>2. x.status \notin {"FILLED", "PARTIALLY_FILLED"} => x.filled = 0
    BY <1>3, <1>11 DEF TasksOK
  <2>3. venue[o] \in Places /\ venue[o].filled \in Nat
    BY <1>1, <1>3, VenueType
  <2>4. PICK m \in Nat : /\ Leads(order_q, o, m, venue[o].filled)
                         /\ Held(m_order_list, io_q, docs, o, m)
    BY <1>1, <1>3 DEF CountInv, Counted
  <2>5. m + x.filled \in Nat /\ Leads(Tail(order_q), o, m + x.filled, venue[o].filled)
    BY <1>1, <1>2, <2>1, <2>3, <2>4, LeadsHandled
  <2>6. Held(L2, io2, docs, o, m + x.filled)
    <3>1. Base(m_order_list, o) =< m
      BY <2>4 DEF Base, Held
    <3>2. y.filled =< m + x.filled
      BY <1>3, <1>5, <1>6, <3>1
    <3>3. Held(m_order_list, io_q, docs, o, m + x.filled)
      <4>1. m =< m + x.filled
        BY <1>3
      <4> QED
        BY <1>1, <1>3, <2>4, <2>5, <4>1, HeldGrows
    <3> QED
      BY <1>7, <1>8, <1>14, <1>15, <3>2, <3>3 DEF Held
  <2>7. ASSUME crashes = 0, o \notin lost PROVE Fresh(Tail(order_q), L2, io2, venue[o], o)
    <3>1. Fresh(order_q, m_order_list, io_q, venue[o], o)
      BY <1>1, <1>3, <2>7 DEF FreshInv
    <3>2. o \in DOMAIN L2 /\ L2[o] = Merged(x, cur)
      BY <1>7, <1>14 DEF y
    <3>3. Dropping(io2, o) => Dropping(io_q, o) \/ L2[o].status \in DropStatus
      BY <1>7, <1>8, <1>14, <1>15 DEF Dropping
    <3>4. PICK v \in Places : v = venue[o]
      BY <2>3
    <3>5. PICK c : c = cur
      OBVIOUS
    <3> QED
      BY <1>1, <1>2, <1>5, <2>1, <2>2, <3>1, <3>2, <3>3, <3>4, <3>5, FreshHandled
  <2> QED
    BY <2>5, <2>6, <2>7 DEF Counted
<1>19. CountInv'
  BY <1>4, <1>13, <1>14, <1>17, <1>18 DEF CountInv
<1>20. FreshInv'
  BY <1>2, <1>4, <1>13, <1>14, <1>17, <1>18 DEF FreshInv
<1> QED
  BY <1>9, <1>10, <1>12, <1>19, <1>20 DEF IInv

-----------------------------------------------------------------------------
(* The IO event base *)

\* The tasks of io2 are tasks of io, or database operations that carry nothing
\* or the order of the first task of io.
IoFrom(io, io2, n) ==
    /\ io2 \in Seq(IoTasks)
    /\ \A i \in 1 .. Len(io2) :
           \/ \E j \in 1 .. Len(io) : io2[i] = io[j]
           \/ /\ io2[i].op # "update_order_in_db" /\ io2[i].dm \in 1 .. n
              /\ io2[i].order \in {NoOrder, io[1].order}

LEMMA IoFromTail ==
    ASSUME NEW io \in Seq(IoTasks), io # <<>>, NEW n
    PROVE  /\ IoFrom(io, Tail(io), n) /\ Head(io) = io[1]
           /\ io[1] \in IoTasks /\ 1 \in 1 .. Len(io)
<1>1. /\ Tail(io) \in Seq(IoTasks) /\ Head(io) = io[1] /\ 1 \in 1 .. Len(io)
      /\ io[1] \in IoTasks
      /\ \A i \in 1 .. Len(Tail(io)) : i + 1 \in 1 .. Len(io) /\ Tail(io)[i] = io[i + 1]
  OBVIOUS
<1> QED
  BY <1>1 DEF IoFrom

LEMMA IoFromConcat ==
    ASSUME NEW io \in Seq(IoTasks), NEW n, NEW a, NEW b, IoFrom(io, a, n), IoFrom(io, b, n)
    PROVE  IoFrom(io, a \o b, n)
<1>1. a \in Seq(IoTasks) /\ b \in Seq(IoTasks)
  BY DEF IoFrom
<1>2. /\ a \o b \in Seq(IoTasks) /\ Len(a \o b) = Len(a) + Len(b)
      /\ \A i \in 1 .. Len(a) + Len(b) :
             (a \o b)[i] = IF i =< Len(a) THEN a[i] ELSE b[i - Len(a)]
  BY <1>1, ConcatProperties
<1>3. ASSUME NEW i \in 1 .. Len(a \o b)
      PROVE  \/ i \in 1 .. Len(a) /\ (a \o b)[i] = a[i]
             \/ i - Len(a) \in 1 .. Len(b) /\ (a \o b)[i] = b[i - Len(a)]
  BY <1>1, <1>2
<1> QED
  BY <1>2, <1>3 DEF IoFrom

LEMMA IoFromOne ==
    ASSUME NEW io, NEW n \in Nat, NEW dm \in 1 .. n, NEW x \in Saved, x \in {NoOrder, io[1].order},
           NEW op \in {"init_data_model", "update_data_model", "remove_data_model"}
    PROVE  IoFrom(io, <<IoTask(op, dm, x)>>, n)
<1> DEFINE t == IoTask(op, dm, x)
<1>1. t \in IoTasks /\ t.op = op /\ t.dm = dm /\ t.order = x
  BY DEF IoTask, IoTasks
<1> HIDE DEF t
<1>2. <<t>> \in Seq(IoTasks) /\ Len(<<t>>) = 1 /\ \A i \in 1 .. Len(<<t>>) : <<t>>[i] = t
  BY <1>1
<1> QED
  BY <1>1, <1>2 DEF IoFrom, t

LEMMA NoOrderFacts ==
    /\ NoOrder.id = 0 /\ NoOrder.filled = 0 /\ NoOrder \in Saved /\ NoOrder \notin Orders
    /\ 0 \notin Ids
    /\ \A x \in Saved : x.filled \in Nat /\ (x.id \in Ids => x \in Orders)
    /\ \A x \in Orders : x \in Saved /\ x.id \in Ids
BY IdsAssumption DEF NoOrder, Order, Saved, Orders

\* A step of the IO thread: each entry of the list stays, or is one that the
\* thread was to drop.
LEMMA IoStep ==
    ASSUME IInv, Types', UNCHANGED <<simulator, engine, order_q, venue, lost, crashes>>,
           IoFrom(io_q, io_q', data_models'), io_q # <<>>,
           \A o \in Ids : \A dm \in DOMAIN docs' :
               docs'[dm].id = o => \/ dm \in DOMAIN docs /\ docs'[dm] = docs[dm]
                                   \/ docs'[dm] = io_q[1].order,
           \A o \in Ids :
               \/ /\ o \in DOMAIN m_order_list' <=> o \in DOMAIN m_order_list
                  /\ o \in DOMAIN m_order_list => m_order_list'[o] = m_order_list[o]
               \/ Dropping(io_q, o) /\ o \notin DOMAIN m_order_list'
    PROVE  IInv'
<1>1. /\ Types /\ VenueInv /\ TaskInv /\ CountInv /\ FreshInv
      /\ order_q \in Seq(OrderTasks) /\ venue \in [Ids -> Places] /\ ListType /\ IoType
  BY DEF IInv, Types
<1>2. VenueInv' /\ TaskInv'
  BY <1>1 DEF VenueInv, TaskInv
<1>3. PICK io2, L2, D2 : io2 = io_q' /\ L2 = m_order_list' /\ D2 = docs'
  OBVIOUS
<1>4. 1 \in 1 .. Len(io_q) /\ io_q \in Seq(IoTasks)
  BY <1>1 DEF IoType
<1>5. ASSUME NEW o \in Ids
      PROVE  /\ \A m \in Nat : Held(m_order_list, io_q, docs, o, m) => Held(L2, io2, D2, o, m)
             /\ Dropping(io2, o) => Dropping(io_q, o)
  <2>1. \A i \in 1 .. Len(io2) : io2[i].order.id = o =>
            \E j \in 1 .. Len(io_q) : io2[i].order = io_q[j].order
    BY <1>3, <1>4, NoOrderFacts DEF IoFrom
  <2>2. Dropping(io2, o) => Dropping(io_q, o)
    BY <1>3 DEF IoFrom, Dropping
  <2>3. ASSUME NEW m \in Nat, Held(m_order_list, io_q, docs, o, m)
        PROVE  Held(L2, io2, D2, o, m)
    <3>1. o \in DOMAIN L2 => L2[o].filled =< m
      BY <1>3, <2>3 DEF Held
    <3>2. \A i \in 1 .. Len(io2) : io2[i].order.id = o => io2[i].order.filled =< m
      BY <2>1, <2>3 DEF Held
    <3>3. \A dm \in DOMAIN D2 : D2[dm].id = o => D2[dm].filled =< m
      BY <1>3, <1>4, <2>3 DEF Held
    <3> QED
      BY <3>1, <3>2, <3>3 DEF Held
  <2> QED
    BY <2>2, <2>3
<1>6. CountInv'
  BY <1>1, <1>3, <1>5 DEF CountInv, Counted
<1>7. ASSUME NEW o \in Ids \ lost, crashes = 0
      PROVE  Fresh(order_q, L2, io2, venue[o], o)
  <2>1. Fresh(order_q, m_order_list, io_q, venue[o], o) /\ Base(m_order_list, o) \in Nat
    BY <1>1, <1>7, BaseType DEF FreshInv
  <2>2. PICK v \in Places : v = venue[o]
    BY <1>1
  <2>3. CASE /\ o \in DOMAIN L2 <=> o \in DOMAIN m_order_list
             /\ o \in DOMAIN m_order_list => L2[o] = m_order_list[o]
    <3>1. Shift(order_q, order_q, 0) /\ Added(order_q, order_q, 0) = {}
      BY <1>1, Unmoved
    <3>2. /\ \A i \in 1 .. 0 : Quiet(order_q[i], o)
          /\ \A i \in Added(order_q, order_q, 0) : Quiet(order_q[i], o)
      BY <3>1
    <3> QED
      BY <1>1, <1>5, <2>1, <2>2, <2>3, <3>1, <3>2, FreshQuiet
  <2>4. CASE Dropping(io_q, o) /\ o \notin DOMAIN L2
    <3>1. Gone(order_q, m_order_list, v.status, o)
      BY <2>1, <2>2, <2>4 DEF Fresh
    <3> QED
      BY <1>1, <2>1, <2>2, <2>4, <3>1, FreshErased
  <2> QED
    BY <1>3, <2>3, <2>4
<1>8. FreshInv'
  BY <1>1, <1>3, <1>7 DEF FreshInv
<1> QED
  BY <1>2, <1>6, <1>8 DEF IInv

LEMMA IoTypes ==
    ASSUME Types, engine = "up", UNCHANGED <<simulator, engine, order_q, venue, cancels, crashes>>,
           ListType', CacheType', DocsType', data_models' \in Nat, data_models =< data_models',
           IoFrom(io_q, io_q', data_models'), io_q # <<>>
    PROVE  Types'
<1>1. IoType /\ data_models \in Nat
  BY DEF Types
<1>2. 1 \in 1 .. Len(io_q) /\ io_q \in Seq(IoTasks)
  BY <1>1 DEF IoType
<1>3. \A i \in 1 .. Len(io_q') :
          IF io_q'[i].op = "update_order_in_db"
          THEN io_q'[i].dm = 0 /\ io_q'[i].order \in Orders
          ELSE io_q'[i].dm \in 1 .. data_models'
  <2> SUFFICES ASSUME NEW i \in 1 .. Len(io_q')
               PROVE  IF io_q'[i].op = "update_order_in_db"
                      THEN io_q'[i].dm = 0 /\ io_q'[i].order \in Orders
                      ELSE io_q'[i].dm \in 1 .. data_models'
    OBVIOUS
  <2>1. CASE \E j \in 1 .. Len(io_q) : io_q'[i] = io_q[j]
    BY <1>1, <2>1 DEF IoType
  <2>2. CASE io_q'[i].op # "update_order_in_db" /\ io_q'[i].dm \in 1 .. data_models'
    BY <2>2
  <2> QED
    BY <2>1, <2>2 DEF IoFrom
<1>4. IoType'
  BY <1>3 DEF IoType, IoFrom
<1> QED
  BY <1>4 DEF Types

LEMMA ListErased ==
    ASSUME ListType, NEW k, m_order_list' = Erase(m_order_list, k)
    PROVE  /\ ListType' /\ DOMAIN m_order_list' = DOMAIN m_order_list \ {k}
           /\ \A o \in DOMAIN m_order_list' : m_order_list'[o] = m_order_list[o]
<1>1. m_order_list' = [x \in DOMAIN m_order_list \ {k} |-> m_order_list[x]]
  BY DEF Erase, Restrict
<1>2. /\ DOMAIN m_order_list' = DOMAIN m_order_list \ {k}
      /\ \A o \in DOMAIN m_order_list' : m_order_list'[o] = m_order_list[o]
  BY <1>1
<1> QED
  BY <1>1, <1>2 DEF ListType

LEMMA ListKept == ASSUME ListType, UNCHANGED m_order_list PROVE ListType'
BY DEF ListType

LEMMA CacheKept ==
    ASSUME CacheType, UNCHANGED m_order_db_cache, data_models \in Nat, data_models' \in Nat,
           data_models =< data_models'
    PROVE  CacheType'
BY DEF CacheType

LEMMA DocsKept ==
    ASSUME DocsType, UNCHANGED docs, data_models \in Nat, data_models' \in Nat,
           data_models =< data_models'
    PROVE  DocsType'
BY DEF DocsType

\* The IO thread takes its first task.
LEMMA IoTaken ==
    ASSUME Types, NEW op, RunningIo(op)
    PROVE  /\ engine = "up" /\ io_q # <<>> /\ Head(io_q) = io_q[1] /\ io_q[1].op = op
           /\ 1 \in 1 .. Len(io_q) /\ io_q \in Seq(IoTasks) /\ io_q[1].order \in Saved
           /\ op = "update_order_in_db" => io_q[1].order \in Orders
           /\ op # "update_order_in_db" => io_q[1].dm \in 1 .. data_models
           /\ \A n : IoFrom(io_q, Tail(io_q), n)
<1>1. engine = "up" /\ io_q # <<>> /\ Head(io_q).op = op /\ IoType /\ io_q \in Seq(IoTasks)
  BY DEF Types, RunningIo, IoType
<1>2. /\ Head(io_q) = io_q[1] /\ io_q[1] \in IoTasks /\ 1 \in 1 .. Len(io_q)
      /\ \A n : IoFrom(io_q, Tail(io_q), n)
  BY <1>1, IoFromTail
<1>3. io_q[1].order \in Saved
  BY <1>2 DEF IoTasks
<1> QED
  BY <1>1, <1>2, <1>3 DEF IoType

LEMMA DropRejectedStep == ASSUME IInv, DropRejected PROVE IInv'
<1> DEFINE x == io_q[1].order
<1>1. Types /\ ListType /\ CacheType /\ DocsType /\ data_models \in Nat
  BY DEF IInv, Types
<1>2. /\ RunningIo("update_order_in_db") /\ Head(io_q).order.status = "REJECTED"
      /\ m_order_list' = Erase(m_order_list, Head(io_q).order.id) /\ io_q' = Tail(io_q)
      /\ UNCHANGED <<simulator, engine, order_q, m_order_db_cache, docs, data_models,
                     venue, lost, cancels, crashes>>
  BY DEF DropRejected, Saving
<1>3. /\ engine = "up" /\ io_q # <<>> /\ Head(io_q) = io_q[1]
      /\ io_q[1].op = "update_order_in_db" /\ 1 \in 1 .. Len(io_q)
      /\ IoFrom(io_q, Tail(io_q), data_models)
  BY <1>1, <1>2, IoTaken
<1>4. /\ ListType' /\ DOMAIN m_order_list' = DOMAIN m_order_list \ {x.id}
      /\ \A o \in DOMAIN m_order_list' : m_order_list'[o] = m_order_list[o]
  BY <1>1, <1>2, <1>3, ListErased
<1>5. CacheType' /\ DocsType'
  BY <1>1, <1>2, CacheKept, DocsKept
<1>6. Types'
  BY <1>1, <1>2, <1>3, <1>4, <1>5, IoTypes
<1>7. Dropping(io_q, x.id)
  BY <1>2, <1>3 DEF Dropping, DropStatus
<1> QED
  BY <1>2, <1>3, <1>4, <1>6, <1>7, IoStep

\* The SavableObject that update_order_in_db works on.
LEMMA OrderDb ==
    ASSUME Types, NEW id \in Ids, MakeOrderDb(id)
    PROVE  LET s == order_db(id) IN
           /\ s = [dm |-> s.dm, object |-> s.object]
           /\ s.dm \in 1 .. data_models' /\ s.object \in Saved /\ s.object.id \in {0, id}
           /\ data_models \in Nat /\ data_models' \in Nat /\ data_models =< data_models'
           /\ IoFrom(io_q, Created(id), data_models')
<1>1. data_models \in Nat /\ CacheType /\ io_q \in Seq(IoTasks)
  BY DEF Types, IoType
<1>2. data_models' \in Nat /\ data_models =< data_models'
  BY <1>1 DEF MakeOrderDb
<1>3. CASE id \in DOMAIN m_order_db_cache
  <2>1. order_db(id) = m_order_db_cache[id] /\ Created(id) = <<>> /\ data_models' = data_models
    BY <1>3 DEF order_db, Created, MakeOrderDb
  <2>2. IoFrom(io_q, <<>>, data_models')
    BY DEF IoFrom
  <2> QED
    BY <1>1, <1>2, <1>3, <2>1, <2>2 DEF CacheType
<1>4. CASE id \notin DOMAIN m_order_db_cache
  <2>1. /\ order_db(id) = [dm |-> data_models + 1, object |-> NoOrder]
        /\ Created(id) = <<IoTask("init_data_model", data_models + 1, NoOrder)>>
        /\ data_models' = data_models + 1
    BY <1>4 DEF order_db, Created, MakeOrderDb
  <2>2. data_models + 1 \in 1 .. data_models'
    BY <1>1, <2>1
  <2>3. IoFrom(io_q, Created(id), data_models')
    BY <1>1, <1>2, <2>1, <2>2, NoOrderFacts, IoFromOne
  <2> QED
    BY <1>1, <1>2, <2>1, <2>2, <2>3, NoOrderFacts
<1> QED
  BY <1>3, <1>4

\* The cache with one more SavableObject.
LEMMA CacheSet ==
    ASSUME CacheType, data_models \in Nat, data_models' \in Nat, data_models =< data_models',
           NEW id \in Ids, NEW s, s = [dm |-> s.dm, object |-> s.object],
           s.dm \in 1 .. data_models', s.object \in Saved, s.object.id \in {0, id},
           NEW C, DOMAIN C \subseteq DOMAIN m_order_db_cache \cup {id},
           \A o \in DOMAIN C : C[o] = IF o = id THEN s ELSE m_order_db_cache[o],
           m_order_db_cache' = C
    PROVE  CacheType'
<1> SUFFICES ASSUME NEW o \in DOMAIN C
             PROVE  /\ C[o] = [dm |-> C[o].dm, object |-> C[o].object]
                    /\ C[o].dm \in 1 .. data_models' /\ C[o].object \in Saved
                    /\ C[o].object.id \in {0, o}
  BY DEF CacheType
<1>1. CASE o = id
  BY <1>1
<1>2. CASE o # id
  <2>1. o \in DOMAIN m_order_db_cache /\ C[o] = m_order_db_cache[o]
    BY <1>2
  <2> QED
    BY <2>1 DEF CacheType
<1> QED
  BY <1>1, <1>2

LEMMA RemoveCanceledStep == ASSUME IInv, RemoveCanceled PROVE IInv'
<1> DEFINE x == io_q[1].order
           s == order_db(x.id)
           k == s.object.id
<1>1. Types /\ ListType /\ CacheType /\ DocsType /\ data_models \in Nat
  BY DEF IInv, Types
<1>2. /\ RunningIo("update_order_in_db") /\ Head(io_q).order.status = "CANCELED"
  BY DEF RemoveCanceled, Saving
<1>3. /\ engine = "up" /\ io_q # <<>> /\ Head(io_q) = io_q[1]
      /\ io_q[1].op = "update_order_in_db" /\ 1 \in 1 .. Len(io_q) /\ io_q \in Seq(IoTasks)
      /\ IoFrom(io_q, Tail(io_q), data_models') /\ x \in Orders
  BY <1>1, <1>2, IoTaken
<1>4. /\ MakeOrderDb(x.id)
      /\ io_q' = Tail(io_q) \o Created(x.id)
                     \o <<IoTask("remove_data_model", s.dm, NoOrder)>>
      /\ m_order_db_cache' = Erase(Set(m_order_db_cache, x.id, s), k)
      /\ m_order_list' = Erase(m_order_list, k)
      /\ UNCHANGED <<simulator, engine, order_q, docs, venue, lost, cancels, crashes>>
  BY <1>3 DEF RemoveCanceled
<1>5. x.id \in Ids
  BY <1>3, NoOrderFacts
<1>6. /\ s = [dm |-> s.dm, object |-> s.object]
      /\ s.dm \in 1 .. data_models' /\ s.object \in Saved /\ k \in {0, x.id}
      /\ data_models' \in Nat /\ data_models =< data_models'
      /\ IoFrom(io_q, Created(x.id), data_models')
  BY <1>1, <1>4, <1>5, OrderDb
<1> HIDE DEF s, k
<1>7. IoFrom(io_q, <<IoTask("remove_data_model", s.dm, NoOrder)>>, data_models')
  BY <1>6, NoOrderFacts, IoFromOne
<1>8. IoFrom(io_q, io_q', data_models')
  BY <1>3, <1>4, <1>6, <1>7, IoFromConcat
<1>9. /\ ListType' /\ DOMAIN m_order_list' = DOMAIN m_order_list \ {k}
      /\ \A o \in DOMAIN m_order_list' : m_order_list'[o] = m_order_list[o]
  BY <1>1, <1>4, ListErased
<1>10. CacheType'
  <2> DEFINE C == Erase(Set(m_order_db_cache, x.id, s), k)
  <2>1. /\ DOMAIN C \subseteq DOMAIN m_order_db_cache \cup {x.id}
        /\ \A o \in DOMAIN C : C[o] = IF o = x.id THEN s ELSE m_order_db_cache[o]
    BY DEF Erase, Set, Restrict
  <2>2. m_order_db_cache' = C /\ s.object.id \in {0, x.id}
    BY <1>4, <1>6 DEF k
  <2> HIDE DEF C
  <2> QED
    BY <1>1, <1>5, <1>6, <2>1, <2>2, CacheSet
<1>11. DocsType'
  BY <1>1, <1>4, <1>6, DocsKept
<1>12. Types'
  BY <1>1, <1>3, <1>4, <1>6, <1>8, <1>9, <1>10, <1>11, IoTypes
<1>13. Dropping(io_q, x.id)
  BY <1>2, <1>3 DEF Dropping, DropStatus
<1>14. \A o \in Ids :
          \/ /\ o \in DOMAIN m_order_list' <=> o \in DOMAIN m_order_list
             /\ o \in DOMAIN m_order_list => m_order_list'[o] = m_order_list[o]
          \/ Dropping(io_q, o) /\ o \notin DOMAIN m_order_list'
  BY <1>6, <1>9, <1>13, NoOrderFacts
<1> QED
  BY <1>3, <1>4, <1>8, <1>12, <1>14, IoStep

LEMMA SaveOrderStep == ASSUME IInv, SaveOrder PROVE IInv'
<1> DEFINE x == io_q[1].order
           s == [order_db(x.id) EXCEPT !.object = x]
<1>1. Types /\ ListType /\ CacheType /\ DocsType /\ data_models \in Nat
  BY DEF IInv, Types
<1>2. RunningIo("update_order_in_db")
  BY DEF SaveOrder, Saving
<1>3. /\ engine = "up" /\ io_q # <<>> /\ Head(io_q) = io_q[1]
      /\ 1 \in 1 .. Len(io_q) /\ io_q \in Seq(IoTasks)
      /\ IoFrom(io_q, Tail(io_q), data_models') /\ x \in Orders
  BY <1>1, <1>2, IoTaken
<1>4. /\ MakeOrderDb(x.id)
      /\ io_q' = Tail(io_q) \o Created(x.id) \o <<IoTask("update_data_model", s.dm, x)>>
      /\ m_order_db_cache' = IF x.status = "FILLED" THEN Erase(m_order_db_cache, x.id)
                             ELSE Set(m_order_db_cache, x.id, s)
      /\ UNCHANGED <<simulator, engine, m_order_list, order_q, docs, venue, lost, cancels, crashes>>
  BY <1>3 DEF SaveOrder
<1>5. x.id \in Ids /\ x \in Saved
  BY <1>3, NoOrderFacts
<1>6. /\ order_db(x.id) = [dm |-> order_db(x.id).dm, object |-> order_db(x.id).object]
      /\ order_db(x.id).dm \in 1 .. data_models'
      /\ data_models' \in Nat /\ data_models =< data_models'
      /\ IoFrom(io_q, Created(x.id), data_models')
  BY <1>1, <1>4, <1>5, OrderDb
<1>7. s = [dm |-> order_db(x.id).dm, object |-> x]
  BY <1>6
<1>8. /\ s = [dm |-> s.dm, object |-> s.object] /\ s.dm \in 1 .. data_models'
      /\ s.object = x
  BY <1>6, <1>7
<1> HIDE DEF s
<1>9. IoFrom(io_q, <<IoTask("update_data_model", s.dm, x)>>, data_models')
  BY <1>5, <1>6, <1>8, IoFromOne
<1>10. IoFrom(io_q, io_q', data_models')
  BY <1>3, <1>4, <1>6, <1>9, IoFromConcat
<1>11. CacheType'
  <2>1. /\ DOMAIN m_order_db_cache' \subseteq DOMAIN m_order_db_cache \cup {x.id}
        /\ \A o \in DOMAIN m_order_db_cache' :
               m_order_db_cache'[o] = IF o = x.id THEN s ELSE m_order_db_cache[o]
    <3>1. CASE x.status = "FILLED"
      <4>1. m_order_db_cache' = [o \in DOMAIN m_order_db_cache \ {x.id} |-> m_order_db_cache[o]]
        BY <1>4, <3>1 DEF Erase, Restrict
      <4> QED
        BY <4>1
    <3>2. CASE x.status # "FILLED"
      <4>1. m_order_db_cache' = [o \in DOMAIN m_order_db_cache \cup {x.id} |->
                                     IF o = x.id THEN s ELSE m_order_db_cache[o]]
        BY <1>4, <3>2 DEF Set
      <4> QED
        BY <4>1
    <3> QED
      BY <3>1, <3>2
  <2>2. PICK C : C = m_order_db_cache'
    OBVIOUS
  <2> QED
    BY <1>1, <1>5, <1>6, <1>8, <2>1, <2>2, CacheSet
<1>12. DocsType' /\ ListType'
  BY <1>1, <1>4, <1>6, DocsKept, ListKept
<1>13. Types'
  BY <1>1, <1>3, <1>4, <1>6, <1>10, <1>11, <1>12, IoTypes
<1> QED
  BY <1>3, <1>4, <1>10, <1>13, IoStep

\* One database operation, which may write the order of its task.
LEMMA StoreStep ==
    ASSUME IInv, NEW op, op # "update_order_in_db", NEW D, Store(op, D),
           D \in [DOMAIN D -> Saved], DOMAIN D \subseteq DOMAIN docs \cup {io_q[1].dm},
           \A dm \in DOMAIN D : \/ dm \in DOMAIN docs /\ D[dm] = docs[dm]
                                \/ D[dm] = NoOrder \/ D[dm] = io_q[1].order
    PROVE  IInv'
<1>1. Types /\ ListType /\ CacheType /\ DocsType /\ data_models \in Nat
  BY DEF IInv, Types
<1>2. /\ RunningIo(op) /\ docs' = D /\ io_q' = Tail(io_q)
      /\ UNCHANGED <<simulator, engine, m_order_list, order_q, m_order_db_cache,
                     data_models, venue, lost, cancels, crashes>>
  BY DEF Store
<1>3. /\ engine = "up" /\ io_q # <<>> /\ io_q[1].dm \in 1 .. data_models
      /\ IoFrom(io_q, Tail(io_q), data_models)
  BY <1>1, <1>2, IoTaken
<1>4. DocsType'
  BY <1>1, <1>2, <1>3 DEF DocsType
<1>5. ListType' /\ CacheType'
  BY <1>1, <1>2, ListKept, CacheKept
<1>6. Types'
  BY <1>1, <1>2, <1>3, <1>4, <1>5, IoTypes
<1>7. \A o \in Ids : \A dm \in DOMAIN docs' :
          docs'[dm].id = o => \/ dm \in DOMAIN docs /\ docs'[dm] = docs[dm]
                              \/ docs'[dm] = io_q[1].order
  BY <1>2, NoOrderFacts
<1> QED
  BY <1>2, <1>3, <1>6, <1>7, IoStep

\* The collection D is docs with the document of k set to x.
Written(D, k, x) ==
    /\ D \in [DOMAIN D -> Saved] /\ DOMAIN D = DOMAIN docs \cup {k}
    /\ \A dm \in DOMAIN D : (dm \in DOMAIN docs /\ D[dm] = docs[dm]) \/ D[dm] = x

LEMMA DocsSet == ASSUME DocsType, NEW k, NEW x \in Saved PROVE Written(Set(docs, k, x), k, x)
<1>1. PICK D : D = Set(docs, k, x)
  OBVIOUS
<1>2. D = [d \in DOMAIN docs \cup {k} |-> IF d = k THEN x ELSE docs[d]]
  BY <1>1 DEF Set
<1>3. \A d \in DOMAIN docs : docs[d] \in Saved
  BY DEF DocsType
<1>4. DOMAIN D = DOMAIN docs \cup {k} /\ \A d \in DOMAIN D : D[d] = IF d = k THEN x ELSE docs[d]
  BY <1>2
<1>5. D \in [DOMAIN D -> Saved]
  BY <1>2, <1>3, <1>4
<1> QED
  BY <1>1, <1>4, <1>5 DEF Written

LEMMA DatabaseStep ==
    ASSUME IInv, InitDataModel \/ UpdateDataModel \/ RemoveDataModel
    PROVE  IInv'
<1>1. Types /\ DocsType
  BY DEF IInv, Types
<1>2. CASE InitDataModel
  <2>1. PICK D : D = Set(docs, Head(io_q).dm, NoOrder) /\ Store("init_data_model", D)
    BY <1>2 DEF InitDataModel
  <2>2. Head(io_q) = io_q[1]
    BY <1>1, <2>1, IoTaken DEF Store
  <2>3. Written(D, Head(io_q).dm, NoOrder)
    BY <1>1, <2>1, NoOrderFacts, DocsSet
  <2> QED
    BY <2>1, <2>2, <2>3, StoreStep DEF Written
<1>3. CASE UpdateDataModel
  <2>1. PICK D : /\ D = Set(docs, Head(io_q).dm, Head(io_q).order)
                 /\ Store("update_data_model", D)
    BY <1>3 DEF UpdateDataModel
  <2>2. Head(io_q) = io_q[1] /\ io_q[1].order \in Saved
    BY <1>1, <2>1, IoTaken DEF Store
  <2>3. Written(D, Head(io_q).dm, Head(io_q).order)
    BY <1>1, <2>1, <2>2, DocsSet
  <2> QED
    BY <2>1, <2>2, <2>3, StoreStep DEF Written
<1>4. CASE RemoveDataModel
  <2>1. Store("remove_data_model", Erase(docs, Head(io_q).dm))
    BY <1>4 DEF RemoveDataModel
  <2>2. PICK D : D = Erase(docs, Head(io_q).dm)
    OBVIOUS
  <2>3. D = [d \in DOMAIN docs \ {Head(io_q).dm} |-> docs[d]]
    BY <2>2 DEF Erase, Restrict
  <2>4. D \in [DOMAIN D -> Saved] /\ DOMAIN D \subseteq DOMAIN docs
        /\ \A dm \in DOMAIN D : dm \in DOMAIN docs /\ D[dm] = docs[dm]
    BY <1>1, <2>3 DEF DocsType
  <2> QED
    BY <2>1, <2>2, <2>4, StoreStep
<1> QED
  BY <1>2, <1>3, <1>4

-----------------------------------------------------------------------------
(* Crash and start *)

LEMMA EmptyFacts == DOMAIN EmptyMap = {} /\ EmptyMap \in [{} -> {}]
BY DEF EmptyMap

\* A crash loses the reports in the queue, and so only lowers what is counted.
LEMMA StopStep == ASSUME IInv, Stop PROVE IInv'
<1>1. /\ Types /\ VenueInv /\ CountInv
      /\ order_q \in Seq(OrderTasks) /\ venue \in [Ids -> Places]
  BY DEF IInv, Types
<1>2. /\ engine' = "down" /\ crashes' = crashes + 1
      /\ m_order_list' = EmptyMap /\ order_q' = <<>> /\ io_q' = <<>>
      /\ m_order_db_cache' = EmptyMap
      /\ venue' = [o \in Ids |-> IF simulator /\ venue[o].status \in {"sent", "open"}
                                 THEN [venue[o] EXCEPT !.status = "closed"]
                                 ELSE venue[o]]
      /\ UNCHANGED <<simulator, docs, data_models, lost, cancels>>
  BY DEF Stop
<1>3. \A o \in Ids : /\ venue'[o] \in Places /\ venue'[o].filled = venue[o].filled
                     /\ venue'[o].status \in {venue[o].status, "closed"}
  <2> SUFFICES ASSUME NEW o \in Ids
               PROVE  /\ venue'[o] \in Places /\ venue'[o].filled = venue[o].filled
                      /\ venue'[o].status \in {venue[o].status, "closed"}
    OBVIOUS
  <2>1. venue[o] \in Places
    BY <1>1
  <2>2. \/ venue'[o] = venue[o]
        \/ venue'[o] = [venue[o] EXCEPT !.status = "closed"]
    BY <1>2
  <2> QED
    BY <2>1, <2>2 DEF Places
<1>4. venue' \in [Ids -> Places]
  BY <1>2, <1>3
<1>5. Types'
  <2>1. ListType'
    BY <1>2, EmptyFacts DEF ListType
  <2>2. IoType'
    BY <1>2 DEF IoType
  <2>3. CacheType'
    BY <1>2, EmptyFacts DEF CacheType
  <2>4. DocsType'
    BY <1>1, <1>2 DEF Types, DocsType
  <2> QED
    BY <1>1, <1>2, <1>4, <2>1, <2>2, <2>3, <2>4 DEF Types
<1>6. VenueInv'
  BY <1>1, <1>2, <1>3 DEF VenueInv
<1>7. TaskInv'
  BY <1>2 DEF TaskInv, TasksOK
<1>8. CountInv'
  <2> SUFFICES ASSUME NEW o \in Ids
               PROVE  Counted(<<>>, EmptyMap, <<>>, docs, venue[o].filled, o)
    BY <1>2, <1>3 DEF CountInv
  <2>1. venue[o].filled \in Nat
    BY <1>1, VenueType
  <2>2. Counted(order_q, m_order_list, io_q, docs, venue[o].filled, o)
    BY <1>1 DEF CountInv
  <2>3. ASSUME NEW m \in Nat, NEW n \in Nat, m =< n, Held(m_order_list, io_q, docs, o, m)
        PROVE  Held(EmptyMap, <<>>, docs, o, n)
    <3>1. Held(m_order_list, io_q, docs, o, n)
      BY <1>1, <2>3, HeldGrows
    <3> QED
      BY <3>1, EmptyFacts DEF Held
  <2> QED
    BY <1>1, <2>1, <2>2, <2>3, CountedEmpty
<1>9. FreshInv'
  <2>1. crashes \in Nat
    BY <1>1 DEF Types
  <2> QED
    BY <1>2, <2>1 DEF FreshInv
<1> QED
  BY <1>5, <1>6, <1>7, <1>8, <1>9 DEF IInv

\* The list is loaded from documents, which counted no more than the list did.
LEMMA StartStep == ASSUME IInv, Start PROVE IInv'
<1> DEFINE loaded == {docs[dm].id : dm \in DOMAIN docs}
<1>1. /\ Types /\ VenueInv /\ TaskInv /\ CountInv /\ FreshInv /\ DocsType
      /\ order_q \in Seq(OrderTasks) /\ venue \in [Ids -> Places]
  BY DEF IInv, Types
<1>2. /\ engine = "down" /\ NoOrder \notin Range(docs) /\ engine' = "up"
      /\ UNCHANGED <<simulator, order_q, io_q, m_order_db_cache, docs, data_models,
                     venue, lost, cancels, crashes>>
  BY DEF Start
<1>3. PICK first \in [loaded -> DOMAIN docs] :
          /\ \A o \in loaded : docs[first[o]].id = o
          /\ m_order_list' = [o \in loaded |-> docs[first[o]]]
  BY DEF Start
<1>4. \A dm \in DOMAIN docs : docs[dm] \in Orders
  BY <1>1, <1>2 DEF DocsType, Saved, Range
<1>5. loaded \subseteq Ids
  BY <1>4, NoOrderFacts
<1> HIDE DEF loaded
<1>6. \A o \in loaded : first[o] \in DOMAIN docs /\ docs[first[o]] \in Orders
                        /\ docs[first[o]].id = o
  BY <1>3, <1>4
<1>7. ListType'
  BY <1>3, <1>5, <1>6 DEF ListType
<1>8. Types'
  <2>1. IoType' /\ CacheType' /\ DocsType'
    BY <1>1, <1>2 DEF Types, IoType, CacheType, DocsType
  <2> QED
    BY <1>1, <1>2, <1>7, <2>1 DEF Types
<1>9. VenueInv' /\ TaskInv'
  BY <1>1, <1>2 DEF VenueInv, TaskInv
<1>10. PICK L2 : L2 = m_order_list'
  OBVIOUS
<1>11. \A o \in Ids : \A m \in Nat : Held(m_order_list, io_q, docs, o, m)
                                         => Held(L2, io_q, docs, o, m)
  BY <1>3, <1>6, <1>10 DEF Held
<1>12. CountInv'
  BY <1>1, <1>2, <1>10, <1>11 DEF CountInv, Counted
<1>13. FreshInv'
  BY <1>1, <1>2 DEF FreshInv
<1> QED
  BY <1>8, <1>9, <1>12, <1>13 DEF IInv

LEMMA FailStep == ASSUME IInv, FailToStart PROVE IInv'
<1>1. Types /\ VenueInv /\ TaskInv /\ CountInv /\ FreshInv
  BY DEF IInv
<1>2. engine = "down" /\ engine' = "failed"
      /\ UNCHANGED <<simulator, m_order_list, order_q, io_q, m_order_db_cache, docs,
                     data_models, venue, lost, cancels, crashes>>
  BY DEF FailToStart, memory
<1>3. Types'
  BY <1>1, <1>2 DEF Types, ListType, IoType, CacheType, DocsType
<1>4. VenueInv' /\ TaskInv'
  BY <1>1, <1>2 DEF VenueInv, TaskInv
<1>5. CountInv'
  BY <1>1, <1>2 DEF CountInv
<1>6. FreshInv'
  BY <1>1, <1>2 DEF FreshInv
<1> QED
  BY <1>3, <1>4, <1>5, <1>6 DEF IInv

LEMMA Stutter == ASSUME IInv, UNCHANGED vars PROVE IInv'
<1>1. Types /\ VenueInv /\ TaskInv /\ CountInv /\ FreshInv
  BY DEF IInv
<1>2. UNCHANGED <<simulator, engine, m_order_list, order_q, io_q, m_order_db_cache, docs,
                  data_models, venue, lost, cancels, crashes>>
  BY DEF vars, memory
<1>3. Types'
  BY <1>1, <1>2 DEF Types, ListType, IoType, CacheType, DocsType
<1>4. VenueInv' /\ TaskInv'
  BY <1>1, <1>2 DEF VenueInv, TaskInv
<1>5. CountInv' /\ FreshInv'
  BY <1>1, <1>2 DEF CountInv, FreshInv
<1> QED
  BY <1>3, <1>4, <1>5 DEF IInv

LEMMA Initially == Init => IInv
<1> SUFFICES ASSUME Init PROVE IInv
  OBVIOUS
<1>1. /\ simulator \in Modes /\ engine = "up"
      /\ m_order_list = EmptyMap /\ order_q = <<>> /\ io_q = <<>>
      /\ m_order_db_cache = EmptyMap /\ docs = EmptyMap /\ data_models = 0
      /\ venue = [o \in Ids |-> [status |-> "none", filled |-> 0]]
      /\ cancels = 0 /\ crashes = 0 /\ lost = {}
  BY DEF Init
<1>2. \A o \in Ids : venue[o].status = "none" /\ venue[o].filled = 0 /\ venue[o] \in Places
  BY <1>1, IdsAssumption DEF Places
<1>3. Types
  <2>1. ListType /\ CacheType /\ DocsType
    BY <1>1, EmptyFacts DEF ListType, CacheType, DocsType
  <2>2. IoType /\ order_q \in Seq(OrderTasks)
    BY <1>1 DEF IoType
  <2>3. venue \in [Ids -> Places]
    BY <1>1, <1>2
  <2>4. simulator \in BOOLEAN
    BY <1>1, BoundsAssumption
  <2> QED
    BY <1>1, <2>1, <2>2, <2>3, <2>4 DEF Types
<1>4. VenueInv
  BY <1>2 DEF VenueInv
<1>5. TaskInv
  BY <1>1 DEF TaskInv, TasksOK
<1>6. \A o \in Ids : Leads(<<>>, o, 0, 0)
  BY LeadsEmpty
<1>7. CountInv
  <2>1. \A o \in Ids : Held(EmptyMap, <<>>, EmptyMap, o, 0)
    BY EmptyFacts DEF Held
  <2> QED
    BY <1>1, <1>2, <1>6, <2>1 DEF CountInv, Counted
<1>8. FreshInv
  <2> SUFFICES ASSUME NEW o \in Ids
               PROVE  Fresh(<<>>, EmptyMap, <<>>, venue[o], o)
    BY <1>1 DEF FreshInv
  <2>1. ~Listed(EmptyMap, o) /\ NoUpdates(<<>>, o) /\ Base(EmptyMap, o) = 0
    BY EmptyFacts DEF Listed, NoUpdates, Base
  <2>2. Life(<<>>, EmptyMap, venue[o].status, o)
    BY <1>2, <2>1 DEF Life
  <2>3. Follows(<<>>, EmptyMap, o) /\ ~Dropping(<<>>, o)
    BY DEF Follows, Dropping
  <2>4. Entry(<<>>, EmptyMap, venue[o].status, o)
    BY <2>1 DEF Entry
  <2> QED
    BY <1>2, <1>6, <2>1, <2>2, <2>3, <2>4 DEF Fresh
<1> QED
  BY <1>3, <1>4, <1>5, <1>7, <1>8 DEF IInv

\* No step takes an order back to "none" or "sent" once the exchange has it.
LEMMA DueStep == ASSUME IInv, DueInv, [Next]_vars PROVE DueInv'
<1>1. venue \in [Ids -> Places] /\ due \subseteq Ids /\ due \subseteq lost
  BY DEF IInv, Types, DueInv
<1> DEFINE Kept == due' \subseteq due /\ lost' = lost
           Placed == \A p \in due : venue'[p].status \in {"open", "closed"}
<1>2. ASSUME Kept, Placed PROVE DueInv'
  BY <1>1, <1>2 DEF DueInv
<1>3. ASSUME NEW o \in Ids, NEW from, NEW to \in {"open", "closed"}, NEW status, NEW filled,
             Report(o, from, to, status, filled)
      PROVE  Placed /\ venue'[o].status = to
  <2>1. venue' = [venue EXCEPT ![o] = [status |-> to, filled |-> @.filled + filled]]
    BY <1>3 DEF Report
  <2>2. venue'[o].status = to /\ \A p \in Ids : p # o => venue'[p] = venue[p]
    BY <1>1, <2>1
  <2> QED
    BY <1>1, <2>2 DEF DueInv
<1>4. ASSUME NEW o \in Ids, Exchange(o) PROVE DueInv'
  <2>1. CASE Accept(o) \/ Reject(o) \/ PartialFill(o) \/ Fill(o) \/ CancelOnExchange(o)
    BY <1>2, <1>3, <2>1 DEF Accept, Reject, PartialFill, Fill, CancelOnExchange
  <2>2. CASE Expire(o)
    <3>1. Placed /\ due' = due /\ lost \subseteq lost'
      BY <1>3, <2>2 DEF Expire, Loses
    <3> QED
      BY <1>1, <3>1 DEF DueInv
  <2>3. CASE AcceptUnanswered(o)
    <3>1. /\ Placed /\ venue'[o].status = "open"
          /\ due' = due \cup {o} /\ lost' = lost \cup {o}
      BY <1>3, <2>3 DEF AcceptUnanswered, Loses
    <3> QED
      BY <1>1, <3>1 DEF DueInv
  <2>4. CASE AnswerLost(o)
    <3>1. PICK st : st = venue[o].status
      OBVIOUS
    <3>2. /\ Report(o, st, st, "REJECTED", 0) /\ st \in {"open", "closed"} /\ Kept
      BY <2>4, <3>1 DEF AnswerLost, DueInv
    <3>3. Placed
      BY <1>3, <3>2
    <3> QED
      BY <1>2, <3>2, <3>3
  <2> QED
    BY <1>4, <2>1, <2>2, <2>3, <2>4 DEF Exchange
<1>5. ASSUME NEW o \in Ids, Place(o) PROVE DueInv'
  <2>1. /\ venue[o].status = "none" /\ venue' = [venue EXCEPT ![o].status = "sent"] /\ Kept
    BY <1>5 DEF Place
  <2>2. \A p \in Ids : p # o => venue'[p] = venue[p]
    BY <1>1, <2>1
  <2>3. Placed
    BY <1>1, <2>1, <2>2 DEF DueInv
  <2> QED
    BY <1>2, <2>1, <2>3
<1>6. ASSUME UNCHANGED venue PROVE Placed
  BY <1>1, <1>6 DEF DueInv
<1>7. ASSUME \E o \in Ids : Cancel(o) PROVE DueInv'
  BY <1>2, <1>6, <1>7 DEF Cancel
<1>8. ASSUME NEW S \in SUBSET Ids, NEW orders \in SetToSeqs(S), ExecutePriceUpdate(orders)
      PROVE  DueInv'
  <2>1. /\ venue' = [o \in Ids |-> IF o \in Range(orders)
                                   THEN [status |-> "closed", filled |-> Quantity]
                                   ELSE venue[o]]
        /\ Kept
    BY <1>8 DEF ExecutePriceUpdate
  <2>2. Placed
    BY <1>1, <2>1 DEF DueInv
  <2> QED
    BY <1>2, <2>1, <2>2
<1>9. ASSUME NEW op, NEW st \in {"open", "closed"}, Running(op), Kept,
             venue' = [venue EXCEPT ![Head(order_q).order.id].status = st]
      PROVE  DueInv'
  <2>1. order_q \in Seq(OrderTasks) /\ order_q # <<>>
    BY <1>9 DEF Running, IInv, Types
  <2>2. PICK o \in Ids : o = Head(order_q).order.id
    BY <2>1, Taken, TaskType
  <2>3. venue' = [venue EXCEPT ![o].status = st]
    BY <1>9, <2>2
  <2>4. venue'[o].status = st /\ \A p \in Ids : p # o => venue'[p] = venue[p]
    BY <1>1, <2>3 DEF Places
  <2>5. Placed
    BY <1>1, <2>4 DEF DueInv
  <2> QED
    BY <1>2, <1>9, <2>5
<1>10. ASSUME OrderThread PROVE DueInv'
  <2>1. CASE HandleUpdateOrder
    BY <1>2, <1>6, <2>1 DEF HandleUpdateOrder
  <2>2. CASE ExecutePlace
    BY <1>9, <2>2 DEF ExecutePlace
  <2>3. CASE ExecuteCancel
    BY <1>9, <2>3 DEF ExecuteCancel
  <2> QED
    BY <1>10, <2>1, <2>2, <2>3 DEF OrderThread
<1>11. ASSUME Stop PROVE DueInv'
  BY <1>11 DEF Stop, DueInv
<1>12. ASSUME IoThread PROVE DueInv'
  <2>1. CASE DropRejected \/ RemoveCanceled \/ SaveOrder
    BY <1>2, <1>6, <2>1 DEF DropRejected, RemoveCanceled, SaveOrder
  <2>2. CASE InitDataModel \/ UpdateDataModel \/ RemoveDataModel
    BY <1>2, <1>6, <2>2 DEF InitDataModel, UpdateDataModel, RemoveDataModel, Store
  <2> QED
    BY <1>11, <1>12, <2>1, <2>2 DEF IoThread, Terminate
<1>13. ASSUME Start \/ FailToStart PROVE DueInv'
  BY <1>2, <1>6, <1>13 DEF Start, FailToStart
<1>14. ASSUME UNCHANGED vars PROVE DueInv'
  BY <1>2, <1>6, <1>14 DEF vars
<1> QED
  BY <1>4, <1>5, <1>7, <1>8, <1>10, <1>11, <1>12, <1>13, <1>14 DEF Next, Crash

\* The inductive invariant: the queue of reports leads from what the engine
\* has counted of an order to what the exchange or the simulator has filled.
THEOREM Invariance == Spec => [](IInv /\ DueInv)
<1>1. Init => IInv /\ DueInv
  BY Initially DEF Init, DueInv
<1>2. ASSUME IInv, DueInv, [Next]_vars PROVE IInv'
  <2>1. CASE \E o \in Ids : Exchange(o) \/ Place(o) \/ Cancel(o)
    BY <1>2, <2>1, ExchangeStep, PlaceStep, CancelStep
  <2>2. CASE \E S \in SUBSET Ids : \E orders \in SetToSeqs(S) : ExecutePriceUpdate(orders)
    BY <1>2, <2>2, PriceStep
  <2>3. CASE OrderThread
    BY <1>2, <2>3, HandleStep, ExecutePlaceStep, ExecuteCancelStep DEF OrderThread
  <2>4. CASE IoThread
    BY <1>2, <2>4, DropRejectedStep, RemoveCanceledStep, SaveOrderStep, DatabaseStep,
       StopStep DEF IoThread, Terminate
  <2>5. CASE Crash
    BY <1>2, <2>5, StopStep DEF Crash
  <2>6. CASE Start
    BY <1>2, <2>6, StartStep
  <2>7. CASE FailToStart
    BY <1>2, <2>7, FailStep
  <2>8. CASE UNCHANGED vars
    BY <1>2, <2>8, Stutter
  <2> QED
    BY <1>2, <2>1, <2>2, <2>3, <2>4, <2>5, <2>6, <2>7, <2>8 DEF Next
<1>3. ASSUME IInv, DueInv, [Next]_vars PROVE DueInv'
  BY <1>3, DueStep
<1> QED
  BY <1>1, <1>2, <1>3, PTL DEF Spec

\* Every queue, map and document holds orders of the ids in use, and a database
\* task the DataModel of an order.
THEOREM TypeCorrect == Spec => []TypeOK
<1>1. IInv => TypeOK
  <2> SUFFICES ASSUME IInv PROVE TypeOK
    OBVIOUS
  <2>1. /\ simulator \in BOOLEAN /\ engine \in {"up", "down", "failed"}
        /\ ListType /\ order_q \in Seq(OrderTasks)
        /\ data_models \in Nat /\ IoType /\ CacheType /\ DocsType
    BY DEF IInv, Types
  <2>2. \A o \in DOMAIN m_order_list : m_order_list[o] \in Orders /\ m_order_list[o].id = o
    BY <2>1 DEF ListType
  <2>3. \A i \in DOMAIN order_q : order_q[i].order \in Orders
    <3>1. \A i \in DOMAIN order_q : order_q[i] \in OrderTasks
      BY <2>1
    <3> QED
      BY <3>1, TaskType
  <2>4. \A i \in DOMAIN io_q : /\ io_q[i].order \in Orders \cup {NoOrder}
                               /\ io_q[i].dm \in 0 .. data_models
    <3>1. io_q \in Seq(IoTasks) /\ DOMAIN io_q = 1 .. Len(io_q)
      BY <2>1 DEF IoType
    <3>2. \A i \in 1 .. Len(io_q) : io_q[i] \in IoTasks
      BY <3>1
    <3>3. \A i \in 1 .. Len(io_q) : io_q[i].order \in Saved
      BY <3>2 DEF IoTasks
    <3>4. \A i \in 1 .. Len(io_q) : io_q[i].dm \in 0 .. data_models
      BY <2>1 DEF IoType
    <3> QED
      BY <3>1, <3>3, <3>4 DEF Saved
  <2>5. /\ DOMAIN m_order_db_cache \subseteq Ids
        /\ \A o \in DOMAIN m_order_db_cache :
               /\ m_order_db_cache[o].dm \in 1 .. data_models
               /\ m_order_db_cache[o].object \in Orders \cup {NoOrder}
    BY <2>1 DEF CacheType, Saved
  <2>6. /\ DOMAIN docs \subseteq 1 .. data_models
        /\ \A dm \in DOMAIN docs : docs[dm] \in Orders \cup {NoOrder}
    BY <2>1 DEF DocsType, Saved
  <2> QED
    BY <2>1, <2>2, <2>3, <2>4, <2>5, <2>6 DEF TypeOK, ListType
<1> QED
  BY <1>1, Invariance, PTL

\* A fill is never counted twice, in the list or in the database, also across
\* crashes and however often the end of an order is reported.
THEOREM NoOvercount == Spec => []NeverOvercounted
<1>1. IInv => NeverOvercounted
  <2> SUFFICES ASSUME IInv PROVE NeverOvercounted
    OBVIOUS
  <2>1. /\ CountInv /\ Types /\ ListType /\ DocsType /\ order_q \in Seq(OrderTasks)
        /\ venue \in [Ids -> Places]
    BY DEF IInv, Types
  <2>2. ASSUME NEW o \in Ids
        PROVE  Held(m_order_list, io_q, docs, o, venue[o].filled)
    <3>1. PICK m \in Nat : /\ Leads(order_q, o, m, venue[o].filled)
                           /\ Held(m_order_list, io_q, docs, o, m)
      BY <2>1 DEF CountInv, Counted
    <3>2. PICK v \in Nat : v = venue[o].filled
      BY <2>1, VenueType
    <3>3. m =< v
      BY <2>1, <3>1, <3>2, LeadsBound
    <3> QED
      BY <2>1, <3>1, <3>2, <3>3, HeldGrows
  <2>3. \A o \in DOMAIN m_order_list : m_order_list[o].filled =< venue[o].filled
    BY <2>1, <2>2 DEF Held, ListType
  <2>4. ASSUME NEW dm \in DOMAIN docs, docs[dm] # NoOrder
        PROVE  docs[dm].filled =< venue[docs[dm].id].filled
    <3>1. docs[dm] \in Orders
      BY <2>1, <2>4 DEF DocsType, Saved
    <3>2. docs[dm].id \in Ids
      BY <3>1, NoOrderFacts
    <3> QED
      BY <2>2, <3>2 DEF Held
  <2> QED
    BY <2>3, <2>4 DEF NeverOvercounted
<1> QED
  BY <1>1, Invariance, PTL

-----------------------------------------------------------------------------
(* The fills in the queue *)

LEMMA LeastNat ==
    ASSUME NEW S \in SUBSET Nat, S # {}
    PROVE  \E n \in S : \A k \in S : n =< k
<1> DEFINE less == {p \in Nat \X Nat : p[1] < p[2]}
<1>1. IsWellFoundedOn(less, Nat)
  BY NatLessThanWellFounded DEF OpToRel
<1>2. \A n, k \in Nat : <<k, n>> \notin less => n =< k
  OBVIOUS
<1> HIDE DEF less
<1>3. S \subseteq Nat
  OBVIOUS
<1>4. PICK n \in S : \A k \in S : <<k, n>> \notin less
  BY <1>1, <1>3, WFMin, Zenon
<1> QED
  BY <1>2, <1>3, <1>4

\* A running total of the fills, less where it starts, is the sum of the fills.
LEMMA SumsUnique ==
    ASSUME NEW q \in Seq(OrderTasks), NEW o, NEW run, run \in [0 .. Len(q) -> Nat],
           \A i \in 1 .. Len(q) : run[i] = run[i - 1] + Fills(q[i], o)
    PROVE  run[0] + Sums(q, o)[Len(q)] = run[Len(q)]
<1> DEFINE f == Sums(q, o)
           P(g) == g = [i \in 0 .. Len(q) |-> IF i = 0 THEN 0 ELSE g[i - 1] + Fills(q[i], o)]
           g0 == [i \in 0 .. Len(q) |-> run[i] - run[0]]
<1>1. f = CHOOSE g : P(g)
  BY DEF Sums
<1>2. Len(q) \in Nat /\ \A i \in 0 .. Len(q) : run[i] \in Nat
  OBVIOUS
<1>3. \A i \in 1 .. Len(q) : Fills(q[i], o) \in Nat
  <2>1. \A i \in 1 .. Len(q) : q[i] \in OrderTasks
    OBVIOUS
  <2> QED
    BY <2>1, TaskType DEF Fills
<1>4. \A i \in 0 .. Len(q) : i # 0 => i - 1 \in 0 .. Len(q) /\ i \in 1 .. Len(q)
  BY <1>2
<1>5. \A i \in 0 .. Len(q) :
          g0[i] = IF i = 0 THEN 0 ELSE g0[i - 1] + Fills(q[i], o)
  <2> SUFFICES ASSUME NEW i \in 0 .. Len(q)
               PROVE  g0[i] = IF i = 0 THEN 0 ELSE g0[i - 1] + Fills(q[i], o)
    OBVIOUS
  <2>1. CASE i = 0
    BY <1>2, <2>1
  <2>2. CASE i # 0
    <3>1. /\ i - 1 \in 0 .. Len(q) /\ i \in 1 .. Len(q)
          /\ run[i] = run[i - 1] + Fills(q[i], o)
      BY <1>4, <2>2
    <3>2. /\ run[0] \in Nat /\ run[i - 1] \in Nat /\ run[i] \in Nat
          /\ Fills(q[i], o) \in Nat
      BY <1>2, <1>3, <3>1
    <3>3. g0[i] = run[i] - run[0] /\ g0[i - 1] = run[i - 1] - run[0]
      BY <3>1
    <3> HIDE DEF g0
    <3> QED
      BY <2>2, <3>1, <3>2, <3>3
  <2> QED
    BY <2>1, <2>2
<1>6. P(g0)
  <2> DEFINE h == [i \in 0 .. Len(q) |-> IF i = 0 THEN 0 ELSE g0[i - 1] + Fills(q[i], o)]
  <2>1. DOMAIN g0 = DOMAIN h /\ \A i \in 0 .. Len(q) : g0[i] = h[i]
    BY <1>5
  <2> QED
    BY <2>1
<1> HIDE DEF P
<1>7. P(CHOOSE g : P(g))
  BY <1>6
<1>8. P(f)
  BY <1>1, <1>7
<1> HIDE DEF f
<1>9. \A i \in 0 .. Len(q) : f[i] = IF i = 0 THEN 0 ELSE f[i - 1] + Fills(q[i], o)
  BY <1>8 DEF P
<1> HIDE DEF g0
<1>10. \A i \in 0 .. Len(q) : f[i] = g0[i]
  <2> DEFINE S == {i \in 0 .. Len(q) : f[i] # g0[i]}
  <2> SUFFICES ASSUME S # {} PROVE FALSE
    OBVIOUS
  <2>1. S \in SUBSET Nat
    BY <1>2
  <2>2. PICK n \in S : \A k \in S : n =< k
    BY <2>1, LeastNat
  <2>3. n \in 0 .. Len(q) /\ f[n] # g0[n]
    OBVIOUS
  <2>4. n # 0
    BY <1>5, <1>9, <2>3
  <2>5. n - 1 \in 0 .. Len(q) /\ n - 1 \notin S
    BY <1>2, <1>4, <2>1, <2>2, <2>3, <2>4
  <2> QED
    BY <1>5, <1>9, <2>3, <2>4, <2>5
<1> QED
  BY <1>2, <1>10 DEF f, g0

\* What is queued of an order's fills is what the list lacks.
LEMMA LeadsPending ==
    ASSUME order_q \in Seq(OrderTasks), NEW o, NEW m \in Nat, NEW v \in Nat,
           Leads(order_q, o, m, v)
    PROVE  m + Pending(o) = v
<1>1. PICK run \in [0 .. Len(order_q) -> 0 .. v] :
          /\ run[0] = m /\ run[Len(order_q)] = v
          /\ \A i \in 1 .. Len(order_q) : run[i] = run[i - 1] + Fills(order_q[i], o)
  BY DEF Leads
<1>2. run \in [0 .. Len(order_q) -> Nat]
  BY <1>1
<1>3. run[0] + Sums(order_q, o)[Len(order_q)] = run[Len(order_q)]
  BY <1>1, <1>2, SumsUnique
<1> QED
  BY <1>1, <1>3 DEF Pending

\* Until the first crash, what the list has filled of an order and the reports
\* still queued add up to what was filled, an order is FILLED exactly when that
\* is its quantity, and once the reports are handled the orders the list has
\* open are those that are open at the exchange or in the simulator.  Only an
\* order that expires, which on_message reports NEW, and one whose place request
\* the exchange took while its connection broke, which place_on_exchange reports
\* REJECTED, are excepted, and they do not disturb the others.
THEOREM ListFollowsExchange == Spec => []ListAgrees
<1>1. IInv => ListAgrees
  <2> SUFFICES ASSUME IInv PROVE ListAgrees
    OBVIOUS
  <2>1. /\ FreshInv /\ Types /\ ListType /\ order_q \in Seq(OrderTasks)
        /\ venue \in [Ids -> Places]
    BY DEF IInv, Types
  <2>2. FillsAccounted
    <3> SUFFICES ASSUME crashes = 0, NEW o \in DOMAIN m_order_list \ lost,
                        m_order_list[o].status \in {"NEW", "PARTIALLY_FILLED", "FILLED"}
                 PROVE  /\ m_order_list[o].filled + Pending(o) = venue[o].filled
                        /\ m_order_list[o].status = "FILLED"
                               <=> m_order_list[o].filled = Quantity
      BY DEF FillsAccounted
    <3>1. o \in Ids /\ Listed(m_order_list, o)
      BY <2>1 DEF ListType, Listed
    <3>2. Fresh(order_q, m_order_list, io_q, venue[o], o)
      BY <2>1, <3>1 DEF FreshInv
    <3>3. m_order_list[o].status \notin DropStatus
      BY DEF DropStatus
    <3>4. Leads(order_q, o, m_order_list[o].filled, venue[o].filled)
      BY <3>1, <3>2, <3>3 DEF Fresh, Gone, Base, Listed
    <3>5. m_order_list[o].filled \in Nat /\ venue[o].filled \in Nat
      BY <2>1, <3>1, BaseType, VenueType DEF Base
    <3>6. m_order_list[o].filled + Pending(o) = venue[o].filled
      BY <2>1, <3>4, <3>5, LeadsPending
    <3>7. m_order_list[o].status = "FILLED" <=> m_order_list[o].filled = Quantity
      BY <3>1, <3>2, <3>3 DEF Fresh, Entry
    <3> QED
      BY <3>6, <3>7
  <2>3. OpenOrdersAgree
    <3> SUFFICES ASSUME crashes = 0, order_q = <<>>, NEW o \in Ids \ lost
                 PROVE  (o \in DOMAIN m_order_list /\ m_order_list[o].status \in OpenStatus)
                            <=> venue[o].status = "open"
      BY <2>1 DEF OpenOrdersAgree, OpenStatus, ListType
    <3>1. /\ Life(<<>>, m_order_list, venue[o].status, o)
      BY <2>1 DEF FreshInv, Fresh
    <3>2. NoUpdates(<<>>, o)
      BY DEF NoUpdates
    <3>3. venue[o].status \in {"none", "sent", "open", "closed"}
      BY <2>1 DEF Places
    <3>4. \A x \in EndStatus : x \notin OpenStatus
      BY DEF EndStatus, OpenStatus
    <3>5. ~ \E i \in 1 .. Len(<<>>) : Update(<<>>[i], o) /\ <<>>[i].order.status \in EndStatus
      OBVIOUS
    <3>6. CASE venue[o].status = "open"
      BY <3>1, <3>2, <3>6 DEF Life, Listed
    <3>7. CASE venue[o].status = "closed"
      BY <3>1, <3>4, <3>5, <3>7 DEF Life, Listed
    <3>8. CASE venue[o].status \in {"none", "sent"}
      BY <3>1, <3>8 DEF Life, Listed
    <3> QED
      BY <3>3, <3>6, <3>7, <3>8
  <2> QED
    BY <2>2, <2>3 DEF ListAgrees
<1> QED
  BY <1>1, Invariance, PTL
-----------------------------------------------------------------------------
(* The database.  Until the first crash, and as long as no caller cancels in
   the simulator and no order expires or has its answer lost, the end of an
   order is reported once; the DataModel of each order that was saved is then
   followed through the cache, the IO queue and the collection. *)

\* Reports of o: none follows its end, in the queue or in the list, and the
\* first one is its acceptance or its rejection.
Once(q, L, o) ==
    /\ \A i \in 1 .. Len(q) : Update(q[i], o) =>
           /\ q[i].order.status \in EndStatus => \A j \in i + 1 .. Len(q) : ~Update(q[j], o)
           /\ ~Listed(L, o) /\ q[i].order.status \notin {"NEW", "REJECTED"}
                  => \E j \in 1 .. i - 1 : Update(q[j], o)
    /\ Listed(L, o) /\ L[o].status \in EndStatus => NoUpdates(q, o)

NoCancels(q) == \A i \in 1 .. Len(q) : q[i].op # "execute_cancel"

\* A task that saves o, and a database operation on the DataModel d.
Saves(t, o) == t.op = "update_order_in_db" /\ t.order.id = o
Stores(t, d) == t.op # "update_order_in_db" /\ t.dm = d

NoSaves(io, o) == \A i \in 1 .. Len(io) : ~Saves(io[i], o)
NoStores(io, d) == \A i \in 1 .. Len(io) : ~Stores(io[i], d)
LastSave(io, i, o) == Saves(io[i], o) /\ \A j \in i + 1 .. Len(io) : ~Saves(io[j], o)
LastStore(io, i, d) == Stores(io[i], d) /\ \A j \in i + 1 .. Len(io) : ~Stores(io[j], d)

\* The tasks that are to save o: the list has what the last one saves.
BeingSaved(io, L, own, o) ==
    \A i \in 1 .. Len(io) : Saves(io[i], o) =>
        /\ Listed(L, o) /\ io[i].order.status \in OpenStatus \cup EndStatus
        /\ io[i].order.status \in EndStatus => LastSave(io, i, o)
        /\ LastSave(io, i, o) => L[o] = io[i].order
        /\ io[i].order.status = "REJECTED" =>
               o \notin DOMAIN own /\ \A j \in 1 .. i - 1 : ~Saves(io[j], o)
        /\ o \notin DOMAIN own /\ io[i].order.status \notin {"NEW", "REJECTED"}
               => \E j \in 1 .. i - 1 : Saves(io[j], o)

\* own maps the orders that were saved to their DataModels.
Owning(own, n) ==
    /\ own \in [DOMAIN own -> 1 .. n] /\ DOMAIN own \subseteq Ids
    /\ \A o, p \in DOMAIN own : own[o] = own[p] => o = p
    /\ \A d \in 1 .. n : \E o \in DOMAIN own : own[o] = d

\* The cache has the SavableObject of an order until the order has ended.
Caching(q, L, io, C, st, own, o) ==
    /\ o \in DOMAIN C =>
           o \in DOMAIN own /\ C[o].dm = own[o] /\ C[o].object.id = o /\ Listed(L, o)
    /\ o \in DOMAIN own \ DOMAIN C => st = "closed" /\ NoUpdates(q, o) /\ NoSaves(io, o)

\* The operations queued for the DataModel d leave the document x, or none.
Writes(io, D, d, x) ==
    /\ \A i \in 1 .. Len(io) :
           LastStore(io, i, d) => io[i].op = "update_data_model" /\ io[i].order = x
    /\ NoStores(io, d) => d \in DOMAIN D /\ D[d] = x
Removes(io, D, d) ==
    /\ \A i \in 1 .. Len(io) : LastStore(io, i, d) => io[i].op = "remove_data_model"
    /\ NoStores(io, d) => d \notin DOMAIN D

\* Once o is saved, its document will be what the list has.
Settled(L, io, D, own, o) ==
    NoSaves(io, o) =>
        IF Listed(L, o) THEN o \in DOMAIN own /\ Writes(io, D, own[o], L[o])
        ELSE o \in DOMAIN own => Removes(io, D, own[o])

Filed(q, L, io, C, D, st, own, o) ==
    /\ Once(q, L, o) /\ BeingSaved(io, L, own, o) /\ Caching(q, L, io, C, st, own, o)
    /\ Settled(L, io, D, own, o)

DbOK(own) ==
    /\ Owning(own, data_models) /\ NoCancels(order_q)
    /\ \A o \in Ids : Filed(order_q, m_order_list, io_q, m_order_db_cache, docs,
                            venue[o].status, own, o)

DbInv == crashes = 0 /\ cancels = 0 /\ lost = {} => \E own : DbOK(own)

\* Where the tasks of a queue are after it has moved.
LEMMA MovedTasks ==
    ASSUME NEW T, NEW q \in Seq(T), NEW q2 \in Seq(T), NEW d \in {0, 1}, Shift(q, q2, d)
    PROVE  /\ \A i \in 1 .. Len(q2) :
                  i \in Added(q, q2, d) \/ (i + d \in 1 .. Len(q) /\ q2[i] = q[i + d])
           /\ \A j \in d + 1 .. Len(q) : /\ j - d \in 1 .. Len(q2) /\ q2[j - d] = q[j]
                                         /\ j - d \notin Added(q, q2, d)
           /\ \A i \in Added(q, q2, d) : \A j \in 1 .. Len(q2) :
                  j \notin Added(q, q2, d) => j < i
           /\ Added(q, q2, d) \subseteq 1 .. Len(q2)
<1>1. Len(q) \in Nat /\ Len(q2) \in Nat /\ d \in Nat /\ d =< Len(q) /\ Len(q) =< Len(q2) + d
  BY DEF Shift
<1>2. ASSUME NEW i \in 1 .. Len(q2), i \notin Added(q, q2, d)
      PROVE  i + d \in 1 .. Len(q) /\ q2[i] = q[i + d]
  <2>1. i \in 1 .. Len(q) - d
    BY <1>1, <1>2 DEF Added
  <2> QED
    BY <1>1, <2>1 DEF Shift
<1>3. ASSUME NEW j \in d + 1 .. Len(q)
      PROVE  j - d \in 1 .. Len(q2) /\ q2[j - d] = q[j] /\ j - d \notin Added(q, q2, d)
  <2>1. j - d \in 1 .. Len(q) - d /\ (j - d) + d = j /\ j - d \in 1 .. Len(q2)
    BY <1>1
  <2>2. q2[j - d] = q[(j - d) + d]
    BY <2>1 DEF Shift
  <2> QED
    BY <1>1, <2>1, <2>2 DEF Added
<1>4. \A i \in Added(q, q2, d) : \A j \in 1 .. Len(q2) : j \notin Added(q, q2, d) => j < i
  BY <1>1 DEF Added
<1>5. Added(q, q2, d) \subseteq 1 .. Len(q2)
  BY <1>1 DEF Added
<1> QED
  BY <1>2, <1>3, <1>4, <1>5

\* What a step of the exchange or the simulator reports of o.
Heard(q, q2, d, st, st2, o) ==
    /\ \A i \in 1 .. d : ~Update(q[i], o)
    /\ \/ (\A i \in Added(q, q2, d) : ~Update(q2[i], o)) /\ (st = "closed" => st2 = "closed")
       \/ \E k \in Added(q, q2, d) :
              /\ \A i \in Added(q, q2, d) : i # k => ~Update(q2[i], o)
              /\ Update(q2[k], o) /\ st \in {"sent", "open"}
              /\ st = "sent" => q2[k].order.status \in {"NEW", "REJECTED"}

\* The queue of reports goes on without a report of o.
LEMMA OnceQuiet ==
    ASSUME NEW q \in Seq(OrderTasks), NEW q2 \in Seq(OrderTasks), NEW d \in {0, 1},
           Shift(q, q2, d), NEW o, NEW L,
           \A i \in 1 .. d : ~Update(q[i], o),
           \A i \in Added(q, q2, d) : ~Update(q2[i], o), Once(q, L, o)
    PROVE  Once(q2, L, o) /\ (NoUpdates(q, o) => NoUpdates(q2, o))
<1>1. /\ \A i \in 1 .. Len(q2) :
             i \in Added(q, q2, d) \/ (i + d \in 1 .. Len(q) /\ q2[i] = q[i + d])
      /\ \A j \in d + 1 .. Len(q) : j - d \in 1 .. Len(q2) /\ q2[j - d] = q[j]
      /\ Len(q) \in Nat /\ Len(q2) \in Nat /\ d \in Nat
  BY MovedTasks
<1>2. NoUpdates(q, o) => NoUpdates(q2, o)
  BY <1>1 DEF NoUpdates
<1>3. ASSUME NEW i \in 1 .. Len(q2), Update(q2[i], o)
      PROVE  /\ q2[i].order.status \in EndStatus => \A j \in i + 1 .. Len(q2) : ~Update(q2[j], o)
             /\ ~Listed(L, o) /\ q2[i].order.status \notin {"NEW", "REJECTED"}
                    => \E j \in 1 .. i - 1 : Update(q2[j], o)
  <2>1. i + d \in 1 .. Len(q) /\ q2[i] = q[i + d]
    BY <1>1, <1>3
  <2>2. /\ q[i + d].order.status \in EndStatus => \A j \in (i + d) + 1 .. Len(q) : ~Update(q[j], o)
        /\ ~Listed(L, o) /\ q[i + d].order.status \notin {"NEW", "REJECTED"}
               => \E j \in 1 .. (i + d) - 1 : Update(q[j], o)
    BY <1>3, <2>1 DEF Once
  <2>3. ASSUME q2[i].order.status \in EndStatus, NEW j \in i + 1 .. Len(q2), Update(q2[j], o)
        PROVE  FALSE
    <3>1. j \in 1 .. Len(q2)
      OBVIOUS
    <3>2. j + d \in 1 .. Len(q) /\ q2[j] = q[j + d]
      BY <1>1, <2>3, <3>1
    <3>3. j + d \in (i + d) + 1 .. Len(q)
      BY <1>1, <3>1, <3>2
    <3> QED
      BY <2>1, <2>2, <2>3, <3>2, <3>3
  <2>4. ASSUME ~Listed(L, o), q2[i].order.status \notin {"NEW", "REJECTED"}
        PROVE  \E j \in 1 .. i - 1 : Update(q2[j], o)
    <3>1. PICK j \in 1 .. (i + d) - 1 : Update(q[j], o)
      BY <2>1, <2>2, <2>4
    <3>2. j \notin 1 .. d
      BY <3>1
    <3>3. j \in d + 1 .. Len(q) /\ j - d \in 1 .. i - 1
      BY <1>1, <2>1, <3>1, <3>2
    <3> QED
      BY <1>1, <3>1, <3>3
  <2> QED
    BY <2>3, <2>4
<1> QED
  BY <1>2, <1>3 DEF Once

\* A report of an order that has not ended is queued.
LEMMA OnceReport ==
    ASSUME NEW q \in Seq(OrderTasks), NEW q2 \in Seq(OrderTasks), NEW d \in {0, 1},
           Shift(q, q2, d), NEW o, NEW L, NEW st, NEW k \in Added(q, q2, d),
           \A i \in 1 .. d : ~Update(q[i], o),
           \A i \in Added(q, q2, d) : i # k => ~Update(q2[i], o),
           Update(q2[k], o), st \in {"sent", "open"},
           st = "sent" => q2[k].order.status \in {"NEW", "REJECTED"},
           Life(q, L, st, o), Entry(q, L, st, o), Once(q, L, o)
    PROVE  Once(q2, L, o)
<1>1. /\ \A i \in 1 .. Len(q2) :
             i \in Added(q, q2, d) \/ (i + d \in 1 .. Len(q) /\ q2[i] = q[i + d])
      /\ \A j \in d + 1 .. Len(q) : /\ j - d \in 1 .. Len(q2) /\ q2[j - d] = q[j]
                                    /\ j - d \notin Added(q, q2, d)
      /\ \A i \in Added(q, q2, d) : \A j \in 1 .. Len(q2) : j \notin Added(q, q2, d) => j < i
      /\ Added(q, q2, d) \subseteq 1 .. Len(q2)
      /\ Len(q) \in Nat /\ Len(q2) \in Nat /\ d \in Nat
  BY MovedTasks
<1>2. \A i \in 1 .. Len(q) : Update(q[i], o) => q[i].order.status \notin EndStatus
  BY DEF Life, NoUpdates, OpenStatus, EndStatus
<1>3. ~(Listed(L, o) /\ L[o].status \in EndStatus)
  BY DEF Entry
<1>4. ASSUME NEW i \in 1 .. Len(q2), Update(q2[i], o), i # k
      PROVE  /\ q2[i].order.status \notin EndStatus
             /\ ~Listed(L, o) /\ q2[i].order.status \notin {"NEW", "REJECTED"}
                    => \E j \in 1 .. i - 1 : Update(q2[j], o)
  <2>1. i + d \in 1 .. Len(q) /\ q2[i] = q[i + d]
    BY <1>1, <1>4
  <2>2. ~Listed(L, o) /\ q[i + d].order.status \notin {"NEW", "REJECTED"}
            => \E j \in 1 .. (i + d) - 1 : Update(q[j], o)
    BY <1>4, <2>1 DEF Once
  <2>3. ASSUME ~Listed(L, o), q2[i].order.status \notin {"NEW", "REJECTED"}
        PROVE  \E j \in 1 .. i - 1 : Update(q2[j], o)
    <3>1. PICK j \in 1 .. (i + d) - 1 : Update(q[j], o)
      BY <2>1, <2>2, <2>3
    <3>2. j \notin 1 .. d
      BY <3>1
    <3>3. j \in d + 1 .. Len(q) /\ j - d \in 1 .. i - 1
      BY <1>1, <2>1, <3>1, <3>2
    <3> QED
      BY <1>1, <3>1, <3>3
  <2> QED
    BY <1>2, <1>4, <2>1, <2>3
<1>5. /\ k \in 1 .. Len(q2)
      /\ \A j \in k + 1 .. Len(q2) : ~Update(q2[j], o)
  <2>1. ASSUME NEW j \in k + 1 .. Len(q2) PROVE ~Update(q2[j], o)
    <3>1. k \in 1 .. Len(q2) /\ j \in 1 .. Len(q2) /\ ~(j < k) /\ j # k
      BY <1>1
    <3>2. j \in Added(q, q2, d)
      BY <1>1, <3>1
    <3> QED
      BY <3>1, <3>2
  <2> QED
    BY <1>1, <2>1
<1>6. ASSUME ~Listed(L, o), q2[k].order.status \notin {"NEW", "REJECTED"}
      PROVE  \E j \in 1 .. k - 1 : Update(q2[j], o)
  <2>1. ~NoUpdates(q, o)
    BY <1>6 DEF Life
  <2>2. PICK j \in 1 .. Len(q) : Update(q[j], o)
    BY <2>1 DEF NoUpdates
  <2>3. j \notin 1 .. d
    BY <2>2
  <2>4. j \in d + 1 .. Len(q)
    BY <1>1, <2>3
  <2>5. j - d \in 1 .. Len(q2) /\ q2[j - d] = q[j] /\ j - d < k
    BY <1>1, <2>4
  <2>6. j - d \in 1 .. k - 1
    BY <1>1, <1>5, <2>5
  <2> QED
    BY <2>2, <2>5, <2>6
<1> QED
  BY <1>3, <1>4, <1>5, <1>6 DEF Once

\* A step of the exchange, the simulator or a caller.
LEMMA FiledHeard ==
    ASSUME NEW q \in Seq(OrderTasks), NEW q2 \in Seq(OrderTasks), NEW d \in {0, 1},
           Shift(q, q2, d), NEW o, NEW L, NEW io, NEW C, NEW D, NEW own, NEW st, NEW st2,
           Heard(q, q2, d, st, st2, o), Life(q, L, st, o), Entry(q, L, st, o),
           Filed(q, L, io, C, D, st, own, o)
    PROVE  Filed(q2, L, io, C, D, st2, own, o)
<1>1. /\ Once(q, L, o) /\ BeingSaved(io, L, own, o) /\ Caching(q, L, io, C, st, own, o)
      /\ Settled(L, io, D, own, o)
  BY DEF Filed
<1>2. \A i \in 1 .. d : ~Update(q[i], o)
  BY DEF Heard
<1>3. CASE (\A i \in Added(q, q2, d) : ~Update(q2[i], o)) /\ (st = "closed" => st2 = "closed")
  <2>1. Once(q2, L, o) /\ (NoUpdates(q, o) => NoUpdates(q2, o))
    BY <1>1, <1>2, <1>3, OnceQuiet
  <2>2. Caching(q2, L, io, C, st2, own, o)
    BY <1>1, <1>3, <2>1 DEF Caching
  <2> QED
    BY <1>1, <2>1, <2>2 DEF Filed
<1>4. ASSUME NEW k \in Added(q, q2, d),
             \A i \in Added(q, q2, d) : i # k => ~Update(q2[i], o),
             Update(q2[k], o), st \in {"sent", "open"},
             st = "sent" => q2[k].order.status \in {"NEW", "REJECTED"}
      PROVE  Filed(q2, L, io, C, D, st2, own, o)
  <2>1. Once(q2, L, o)
    BY <1>1, <1>2, <1>4, OnceReport
  <2>2. Caching(q2, L, io, C, st2, own, o)
    BY <1>1, <1>4 DEF Caching
  <2> QED
    BY <1>1, <2>1, <2>2 DEF Filed
<1> QED
  BY <1>3, <1>4 DEF Heard

\* A step that neither the list nor the IO queue sees.
Relays(d) ==
    /\ order_q' \in Seq(OrderTasks) /\ Shift(order_q, order_q', d)
    /\ \A i \in Added(order_q, order_q', d) : order_q'[i].op # "execute_cancel"
    /\ \A p \in Ids : Heard(order_q, order_q', d, venue[p].status, venue'[p].status, p)

LEMMA RelayStep ==
    ASSUME IInv, crashes = 0, lost = {}, NEW own, DbOK(own),
           NEW d \in {0, 1}, Relays(d), UNCHANGED managed
    PROVE  DbOK(own)'
<1>1. /\ order_q \in Seq(OrderTasks)
      /\ \A p \in Ids : Fresh(order_q, m_order_list, io_q, venue[p], p)
  BY DEF IInv, Types, FreshInv
<1>2. PICK q2 \in Seq(OrderTasks) : q2 = order_q'
  BY DEF Relays
<1>3. /\ Shift(order_q, q2, d) /\ \A i \in Added(order_q, q2, d) : q2[i].op # "execute_cancel"
      /\ \A p \in Ids : Heard(order_q, q2, d, venue[p].status, venue'[p].status, p)
  BY <1>2 DEF Relays
<1>4. NoCancels(q2)
  <2>1. \A i \in 1 .. Len(q2) :
            i \in Added(order_q, q2, d) \/ (i + d \in 1 .. Len(order_q) /\ q2[i] = order_q[i + d])
    BY <1>1, <1>3, MovedTasks
  <2> QED
    BY <1>3, <2>1 DEF DbOK, NoCancels
<1>5. ASSUME NEW p \in Ids
      PROVE  Filed(q2, m_order_list, io_q, m_order_db_cache, docs, venue'[p].status, own, p)
  <2>1. PICK st, st2 : st = venue[p].status /\ st2 = venue'[p].status
    OBVIOUS
  <2>2. Life(order_q, m_order_list, st, p) /\ Entry(order_q, m_order_list, st, p)
    BY <1>1, <2>1 DEF Fresh
  <2>3. Filed(order_q, m_order_list, io_q, m_order_db_cache, docs, st, own, p)
    BY <2>1 DEF DbOK
  <2>4. Heard(order_q, q2, d, st, st2, p)
    BY <1>3, <2>1
  <2>5. Filed(q2, m_order_list, io_q, m_order_db_cache, docs, st2, own, p)
    BY <1>1, <1>3, <2>2, <2>3, <2>4, FiledHeard
  <2> QED
    BY <2>1, <2>5
<1> QED
  BY <1>2, <1>4, <1>5 DEF DbOK, managed

\* Any report of the exchange that follows the order's life.
LEMMA ReportRelays ==
    ASSUME IInv, crashes = 0, NEW o \in Ids, NEW from \in {"sent", "open"}, NEW to,
           NEW status \in Statuses, NEW filled \in Nat,
           Report(o, from, to, status, filled),
           from = "sent" => status \in {"NEW", "REJECTED"}
    PROVE  Relays(0) /\ UNCHANGED managed
<1> DEFINE t == OrderTask("handle_update_order", Order(o, status, filled))
           f == [i \in DOMAIN <<Order(o, status, filled)>> |->
                    OrderTask("handle_update_order", <<Order(o, status, filled)>>[i])]
<1>1. order_q \in Seq(OrderTasks) /\ venue \in [Ids -> Places] /\ engine = "up"
  BY DEF IInv, Types, FreshInv
<1>2. /\ t \in OrderTasks /\ t.op = "handle_update_order" /\ t.order.id = o
      /\ t.order.status = status
  BY MadeTask
<1>3. f \in Seq(OrderTasks) /\ Len(f) = 1 /\ f[1] = t
  <2>1. f = [i \in 1 .. 1 |-> t]
    OBVIOUS
  <2> HIDE DEF f, t
  <2> QED
    BY <1>2, <2>1
<1>4. /\ venue[o].status = from
      /\ venue' = [venue EXCEPT ![o] = [status |-> to, filled |-> venue[o].filled + filled]]
      /\ order_q' = order_q \o f /\ UNCHANGED managed
  BY <1>1 DEF Report, update_order
<1> HIDE DEF f, t
<1>5. \A p \in Ids : p # o => venue'[p] = venue[p]
  BY <1>1, <1>4
<1>6. PICK q2 : q2 = order_q \o f
  OBVIOUS
<1>7. /\ q2 \in Seq(OrderTasks) /\ Shift(order_q, q2, 0)
      /\ \A i \in Added(order_q, q2, 0) :
             i - Len(order_q) \in 1 .. Len(f) /\ q2[i] = f[i - Len(order_q)]
      /\ \A j \in 1 .. Len(f) :
             Len(order_q) + j \in Added(order_q, q2, 0) /\ q2[Len(order_q) + j] = f[j]
  BY <1>1, <1>3, <1>6, Posted
<1>8. /\ \A i \in Added(order_q, q2, 0) : q2[i] = t /\ i = Len(order_q) + 1
      /\ Len(order_q) + 1 \in Added(order_q, q2, 0)
  <2>1. 1 \in 1 .. Len(f) /\ Len(order_q) \in Nat
    BY <1>1, <1>3
  <2>2. \A i \in Added(order_q, q2, 0) : i \in Int
    BY DEF Added
  <2>3. \A i \in Added(order_q, q2, 0) : i = Len(order_q) + 1 /\ i - Len(order_q) = 1
    BY <1>3, <1>7, <2>1, <2>2
  <2> QED
    BY <1>3, <1>7, <2>1, <2>3
<1>9. ASSUME NEW p \in Ids
      PROVE  Heard(order_q, q2, 0, venue[p].status, venue'[p].status, p)
  <2>1. \A i \in 1 .. 0 : ~Update(order_q[i], p)
    OBVIOUS
  <2>2. CASE p # o
    BY <1>2, <1>5, <1>8, <2>1, <2>2 DEF Heard, Update
  <2>3. CASE p = o
    BY <1>2, <1>4, <1>8, <2>1, <2>3 DEF Heard, Update
  <2> QED
    BY <2>2, <2>3
<1> QED
  BY <1>2, <1>4, <1>6, <1>7, <1>8, <1>9 DEF Relays

LEMMA ExchangeRelays ==
    ASSUME IInv, DueInv, crashes = 0, lost' = {}, NEW o \in Ids, Exchange(o)
    PROVE  Relays(0) /\ UNCHANGED managed
<1>1. CASE Accept(o)
  BY <1>1, ReportRelays DEF Accept, Statuses
<1>2. CASE Reject(o)
  BY <1>2, ReportRelays DEF Reject, Statuses
<1>3. CASE PartialFill(o)
  BY <1>3, ReportRelays DEF PartialFill, Statuses
<1>4. CASE Fill(o)
  <2>1. Quantity - venue[o].filled \in Nat
    BY VenueType DEF IInv
  <2> QED
    BY <1>4, <2>1, ReportRelays DEF Fill, Statuses
<1>5. CASE CancelOnExchange(o)
  BY <1>5, ReportRelays DEF CancelOnExchange, Statuses
<1>6. ~Expire(o) /\ ~AcceptUnanswered(o) /\ ~AnswerLost(o)
  BY DEF Expire, AcceptUnanswered, AnswerLost, Loses, DueInv
<1> QED
  BY <1>1, <1>2, <1>3, <1>4, <1>5, <1>6 DEF Exchange

LEMMA PlaceRelays ==
    ASSUME IInv, crashes = 0, NEW o \in Ids, Place(o)
    PROVE  Relays(0) /\ UNCHANGED managed
<1> DEFINE t == OrderTask("execute_place", Order(o, "NEW", 0))
<1>1. order_q \in Seq(OrderTasks) /\ venue \in [Ids -> Places]
  BY DEF IInv, Types
<1>2. t \in OrderTasks /\ t.op = "execute_place"
  BY MadeTask DEF Statuses
<1>3. /\ venue[o].status = "none" /\ venue' = [venue EXCEPT ![o].status = "sent"]
      /\ order_q' = IF simulator THEN Append(order_q, t) ELSE order_q
      /\ UNCHANGED managed
  BY DEF Place
<1> HIDE DEF t
<1>4. \A p \in Ids : venue[p].status = "closed" => venue'[p].status = "closed"
  BY <1>1, <1>3
<1>5. PICK q2 : q2 = order_q'
  OBVIOUS
<1>6. /\ q2 \in Seq(OrderTasks) /\ Shift(order_q, q2, 0)
      /\ \A i \in Added(order_q, q2, 0) : q2[i] = t
  <2>1. CASE simulator
    BY <1>1, <1>2, <1>3, <1>5, <2>1, Appended
  <2>2. CASE ~simulator
    BY <1>1, <1>3, <1>5, <2>2, Unmoved
  <2> QED
    BY <2>1, <2>2
<1>7. \A p \in Ids : Heard(order_q, q2, 0, venue[p].status, venue'[p].status, p)
  BY <1>2, <1>4, <1>6 DEF Heard, Update
<1> QED
  BY <1>2, <1>3, <1>5, <1>6, <1>7 DEF Relays

LEMMA AcceptRelays ==
    ASSUME IInv, ExecutePlace
    PROVE  Relays(1) /\ UNCHANGED managed
<1> DEFINE x == order_q[1].order
           t == OrderTask("handle_update_order", x)
<1>1. TaskInv /\ order_q \in Seq(OrderTasks) /\ venue \in [Ids -> Places]
  BY DEF IInv, Types
<1>2. order_q # <<>> /\ Head(order_q).op = "execute_place"
  BY DEF ExecutePlace, Running
<1>3. /\ Head(order_q) = order_q[1] /\ order_q[1] \in OrderTasks /\ 1 \in 1 .. Len(order_q)
      /\ x \in Orders /\ x.id \in Ids
  BY <1>1, <1>2, Taken, TaskType
<1>4. x.status = "NEW" /\ venue[x.id].status = "sent"
  BY <1>1, <1>2, <1>3 DEF TaskInv, TasksOK
<1>5. t \in OrderTasks /\ t.op = "handle_update_order" /\ t.order = x
  BY <1>3 DEF OrderTask, OrderTasks
<1>6. /\ venue' = [venue EXCEPT ![x.id].status = "open"]
      /\ order_q' = Append(Tail(order_q), t) /\ UNCHANGED managed
  BY <1>3 DEF ExecutePlace, Posts
<1> HIDE DEF t
<1>7. PICK q2 : q2 = order_q'
  OBVIOUS
<1>8. /\ q2 \in Seq(OrderTasks) /\ Shift(order_q, q2, 1)
      /\ \A i \in Added(order_q, q2, 1) : i = Len(order_q) /\ q2[i] = t
      /\ Len(order_q) \in Added(order_q, q2, 1)
  BY <1>1, <1>2, <1>5, <1>6, <1>7, Answered
<1>9. \A p \in Ids : p # x.id => venue'[p] = venue[p]
  BY <1>1, <1>6
<1>10. ASSUME NEW p \in Ids
       PROVE  Heard(order_q, q2, 1, venue[p].status, venue'[p].status, p)
  <2>1. \A i \in 1 .. 1 : ~Update(order_q[i], p)
    BY <1>2, <1>3 DEF Update
  <2>2. CASE p # x.id
    BY <1>5, <1>8, <1>9, <2>1, <2>2 DEF Heard, Update
  <2>3. CASE p = x.id
    BY <1>4, <1>5, <1>8, <2>1, <2>3 DEF Heard, Update
  <2> QED
    BY <2>2, <2>3
<1> QED
  BY <1>5, <1>6, <1>7, <1>8, <1>10 DEF Relays

LEMMA PriceRelays ==
    ASSUME IInv, NEW S \in SUBSET Ids, NEW orders \in SetToSeqs(S), ExecutePriceUpdate(orders)
    PROVE  Relays(0) /\ UNCHANGED managed
<1> DEFINE n == Cardinality(S)
           T(i) == OrderTask("handle_update_order", Order(orders[i], "FILLED", Quantity))
           f == [i \in 1 .. n |-> T(i)]
<1>1. order_q \in Seq(OrderTasks) /\ venue \in [Ids -> Places]
  BY DEF IInv, Types
<1>2. n \in Nat
  BY IdsAssumption, FS_Subset, FS_CardinalityType
<1>3. /\ orders \in [1 .. n -> Ids] /\ DOMAIN orders = 1 .. n
      /\ \A i, j \in 1 .. n : i # j => orders[i] # orders[j]
  BY DEF SetToSeqs
<1> HIDE DEF n
<1>4. /\ \A i \in 1 .. n : venue[orders[i]].status = "open"
      /\ venue' = [o \in Ids |-> IF o \in Range(orders)
                                 THEN [status |-> "closed", filled |-> Quantity]
                                 ELSE venue[o]]
      /\ order_q' = order_q \o f /\ UNCHANGED managed
  <2>1. /\ engine = "up"
        /\ \A i \in DOMAIN orders : venue[orders[i]].status = "open"
        /\ venue' = [o \in Ids |-> IF o \in Range(orders)
                                   THEN [status |-> "closed", filled |-> Quantity]
                                   ELSE venue[o]]
        /\ update_order([i \in DOMAIN orders |-> Order(orders[i], "FILLED", Quantity)])
        /\ UNCHANGED managed
    BY DEF ExecutePriceUpdate
  <2> DEFINE X == [i \in DOMAIN orders |-> Order(orders[i], "FILLED", Quantity)]
             g == [i \in DOMAIN X |-> OrderTask("handle_update_order", X[i])]
  <2>2. g = f
    BY <1>3
  <2>3. order_q' = order_q \o g
    BY <2>1 DEF update_order
  <2> HIDE DEF X, g, f
  <2> QED
    BY <1>3, <2>1, <2>2, <2>3
<1>5. ASSUME NEW i \in 1 .. n
      PROVE  T(i) \in OrderTasks /\ T(i).op = "handle_update_order" /\ T(i).order.id = orders[i]
  <2>1. orders[i] \in Ids /\ Quantity \in Nat
    BY <1>3, IdsAssumption
  <2> QED
    BY <2>1, MadeTask DEF Statuses
<1>6. f \in Seq(OrderTasks) /\ Len(f) = n /\ \A i \in 1 .. n : f[i] = T(i)
  <2> HIDE DEF T
  <2> QED
    BY <1>2, <1>5
<1> HIDE DEF T, f
<1>7. PICK q2 : q2 = order_q \o f
  OBVIOUS
<1>8. /\ q2 \in Seq(OrderTasks) /\ Shift(order_q, q2, 0)
      /\ \A i \in Added(order_q, q2, 0) :
             i - Len(order_q) \in 1 .. n /\ q2[i] = T(i - Len(order_q)) /\ i \in Int
      /\ \A j \in 1 .. n :
             Len(order_q) + j \in Added(order_q, q2, 0) /\ q2[Len(order_q) + j] = T(j)
  <2>1. /\ q2 \in Seq(OrderTasks) /\ Shift(order_q, q2, 0)
        /\ \A i \in Added(order_q, q2, 0) :
               i - Len(order_q) \in 1 .. Len(f) /\ q2[i] = f[i - Len(order_q)] /\ i \in Int
        /\ \A j \in 1 .. Len(f) :
               Len(order_q) + j \in Added(order_q, q2, 0) /\ q2[Len(order_q) + j] = f[j]
    BY <1>1, <1>6, <1>7, Posted DEF Added
  <2> QED
    BY <1>6, <2>1
<1>9. \A p \in Ids : p \in Range(orders) <=> \E j \in 1 .. n : orders[j] = p
  BY <1>3 DEF Range
<1>10. \A p \in Ids : p \notin Range(orders) => venue'[p] = venue[p]
  BY <1>4
<1>11. ASSUME NEW p \in Ids
       PROVE  Heard(order_q, q2, 0, venue[p].status, venue'[p].status, p)
  <2>1. \A i \in 1 .. 0 : ~Update(order_q[i], p)
    OBVIOUS
  <2>2. CASE p \notin Range(orders)
    <3>1. \A i \in Added(order_q, q2, 0) : ~Update(q2[i], p)
      BY <1>5, <1>8, <1>9, <2>2 DEF Update
    <3> QED
      BY <1>10, <2>1, <2>2, <3>1 DEF Heard
  <2>3. CASE p \in Range(orders)
    <3>1. PICK j \in 1 .. n : orders[j] = p
      BY <1>9, <2>3
    <3>2. PICK k : k = Len(order_q) + j
      OBVIOUS
    <3>3. k \in Added(order_q, q2, 0) /\ q2[k] = T(j)
      BY <1>8, <3>1, <3>2
    <3>4. ASSUME NEW i \in Added(order_q, q2, 0), i # k PROVE ~Update(q2[i], p)
      <4>1. i - Len(order_q) \in 1 .. n /\ q2[i] = T(i - Len(order_q)) /\ i \in Int
        BY <1>8
      <4>2. i - Len(order_q) # j
        BY <1>1, <3>2, <3>4, <4>1
      <4>3. orders[i - Len(order_q)] # p
        BY <1>3, <3>1, <4>1, <4>2
      <4> QED
        BY <1>5, <4>1, <4>3 DEF Update
    <3>5. Update(T(j), p) /\ venue[p].status = "open"
      BY <1>4, <1>5, <3>1 DEF Update
    <3> QED
      BY <2>1, <3>3, <3>4, <3>5 DEF Heard
  <2> QED
    BY <2>2, <2>3
<1> QED
  BY <1>4, <1>5, <1>7, <1>8, <1>11 DEF Relays

\* L2 and own2 have of o what L and own have.
Alike(L, L2, o) == (o \in DOMAIN L2 <=> o \in DOMAIN L) /\ (o \in DOMAIN L => L2[o] = L[o])

\* No task that saves o is taken or added, and no operation on the DataModel e.
SavesAside(io, io2, d, o) ==
    /\ \A i \in 1 .. d : ~Saves(io[i], o)
    /\ \A i \in Added(io, io2, d) : ~Saves(io2[i], o)
StoresAside(io, io2, d, e) ==
    /\ \A i \in 1 .. d : ~Stores(io[i], e)
    /\ \A i \in Added(io, io2, d) : ~Stores(io2[i], e)

LEMMA SavesMoved ==
    ASSUME NEW io \in Seq(IoTasks), NEW io2 \in Seq(IoTasks), NEW d \in {0, 1},
           Shift(io, io2, d), NEW o, SavesAside(io, io2, d, o),
           NEW L, NEW L2, Alike(L, L2, o), NEW own, NEW own2, Alike(own, own2, o),
           BeingSaved(io, L, own, o)
    PROVE  BeingSaved(io2, L2, own2, o) /\ (NoSaves(io, o) <=> NoSaves(io2, o))
<1>1. /\ \A i \in 1 .. Len(io2) :
             i \in Added(io, io2, d) \/ (i + d \in 1 .. Len(io) /\ io2[i] = io[i + d])
      /\ \A j \in d + 1 .. Len(io) : j - d \in 1 .. Len(io2) /\ io2[j - d] = io[j]
      /\ Len(io) \in Nat /\ Len(io2) \in Nat /\ d \in Nat
  BY MovedTasks
<1>2. /\ \A i \in 1 .. d : ~Saves(io[i], o)
      /\ \A i \in Added(io, io2, d) : ~Saves(io2[i], o)
  BY DEF SavesAside
<1>3. ASSUME NEW j \in 1 .. Len(io), Saves(io[j], o)
      PROVE  j \in d + 1 .. Len(io) /\ j - d \in 1 .. Len(io2) /\ io2[j - d] = io[j]
  <2>1. j \notin 1 .. d
    BY <1>2, <1>3
  <2>2. j \in d + 1 .. Len(io)
    BY <1>1, <2>1
  <2> QED
    BY <1>1, <2>2
<1>4. ASSUME NEW i \in 1 .. Len(io2), Saves(io2[i], o)
      PROVE  i + d \in 1 .. Len(io) /\ io2[i] = io[i + d]
  BY <1>1, <1>2, <1>4
<1>5. NoSaves(io, o) <=> NoSaves(io2, o)
  BY <1>3, <1>4 DEF NoSaves
<1>6. ASSUME NEW i \in 1 .. Len(io2), Saves(io2[i], o)
      PROVE  /\ LastSave(io, i + d, o) <=> LastSave(io2, i, o)
             /\ (\E j \in 1 .. (i + d) - 1 : Saves(io[j], o))
                    <=> \E j \in 1 .. i - 1 : Saves(io2[j], o)
  <2>1. i + d \in 1 .. Len(io) /\ io2[i] = io[i + d]
    BY <1>4, <1>6
  <2>2. ASSUME NEW j \in (i + d) + 1 .. Len(io), Saves(io[j], o)
        PROVE  j - d \in i + 1 .. Len(io2) /\ Saves(io2[j - d], o)
    <3>1. j \in 1 .. Len(io)
      BY <1>1, <2>1
    <3>2. j - d \in 1 .. Len(io2) /\ io2[j - d] = io[j]
      BY <1>3, <2>2, <3>1
    <3> QED
      BY <1>1, <2>2, <3>2
  <2>3. ASSUME NEW j \in i + 1 .. Len(io2), Saves(io2[j], o)
        PROVE  j + d \in (i + d) + 1 .. Len(io) /\ Saves(io[j + d], o)
    <3>1. j \in 1 .. Len(io2)
      BY <1>1
    <3>2. j + d \in 1 .. Len(io) /\ io2[j] = io[j + d]
      BY <1>4, <2>3, <3>1
    <3> QED
      BY <1>1, <2>3, <3>2
  <2>4. ASSUME NEW j \in 1 .. (i + d) - 1, Saves(io[j], o)
        PROVE  j - d \in 1 .. i - 1 /\ Saves(io2[j - d], o)
    <3>1. j \in 1 .. Len(io)
      BY <1>1, <2>1
    <3>2. j - d \in 1 .. Len(io2) /\ io2[j - d] = io[j]
      BY <1>3, <2>4, <3>1
    <3> QED
      BY <1>1, <2>4, <3>2
  <2>5. ASSUME NEW j \in 1 .. i - 1, Saves(io2[j], o)
        PROVE  j + d \in 1 .. (i + d) - 1 /\ Saves(io[j + d], o)
    <3>1. j \in 1 .. Len(io2)
      BY <1>1
    <3>2. j + d \in 1 .. Len(io) /\ io2[j] = io[j + d]
      BY <1>4, <2>5, <3>1
    <3> QED
      BY <1>1, <2>5, <3>2
  <2>6. LastSave(io, i + d, o) <=> LastSave(io2, i, o)
    BY <2>1, <2>2, <2>3 DEF LastSave
  <2>7. (\E j \in 1 .. (i + d) - 1 : Saves(io[j], o)) <=> \E j \in 1 .. i - 1 : Saves(io2[j], o)
    BY <2>4, <2>5
  <2> QED
    BY <2>6, <2>7
<1>7. ASSUME NEW i \in 1 .. Len(io2), Saves(io2[i], o)
      PROVE  /\ Listed(L2, o) /\ io2[i].order.status \in OpenStatus \cup EndStatus
             /\ io2[i].order.status \in EndStatus => LastSave(io2, i, o)
             /\ LastSave(io2, i, o) => L2[o] = io2[i].order
             /\ io2[i].order.status = "REJECTED" =>
                    o \notin DOMAIN own2 /\ \A j \in 1 .. i - 1 : ~Saves(io2[j], o)
             /\ o \notin DOMAIN own2 /\ io2[i].order.status \notin {"NEW", "REJECTED"}
                    => \E j \in 1 .. i - 1 : Saves(io2[j], o)
  <2>1. i + d \in 1 .. Len(io) /\ io2[i] = io[i + d]
    BY <1>4, <1>7
  <2>2. /\ Listed(L, o) /\ io[i + d].order.status \in OpenStatus \cup EndStatus
        /\ io[i + d].order.status \in EndStatus => LastSave(io, i + d, o)
        /\ LastSave(io, i + d, o) => L[o] = io[i + d].order
        /\ io[i + d].order.status = "REJECTED" =>
               o \notin DOMAIN own /\ \A j \in 1 .. (i + d) - 1 : ~Saves(io[j], o)
        /\ o \notin DOMAIN own /\ io[i + d].order.status \notin {"NEW", "REJECTED"}
               => \E j \in 1 .. (i + d) - 1 : Saves(io[j], o)
    BY <1>7, <2>1 DEF BeingSaved
  <2>3. /\ LastSave(io, i + d, o) <=> LastSave(io2, i, o)
        /\ (\E j \in 1 .. (i + d) - 1 : Saves(io[j], o))
               <=> \E j \in 1 .. i - 1 : Saves(io2[j], o)
    BY <1>6, <1>7
  <2>4. Listed(L2, o) /\ L2[o] = L[o] /\ (o \in DOMAIN own2 <=> o \in DOMAIN own)
    BY <2>2 DEF Alike, Listed
  <2> QED
    BY <2>1, <2>2, <2>3, <2>4
<1> QED
  BY <1>5, <1>7 DEF BeingSaved

\* The operations of one DataModel, when those taken and added are others'.
LEMMA StoresMoved ==
    ASSUME NEW io \in Seq(IoTasks), NEW io2 \in Seq(IoTasks), NEW d \in {0, 1},
           Shift(io, io2, d), NEW e, StoresAside(io, io2, d, e),
           NEW D, NEW D2, Alike(D, D2, e), NEW x
    PROVE  /\ Writes(io, D, e, x) => Writes(io2, D2, e, x)
           /\ Removes(io, D, e) => Removes(io2, D2, e)
<1>1. /\ \A i \in 1 .. Len(io2) :
             i \in Added(io, io2, d) \/ (i + d \in 1 .. Len(io) /\ io2[i] = io[i + d])
      /\ \A j \in d + 1 .. Len(io) : j - d \in 1 .. Len(io2) /\ io2[j - d] = io[j]
      /\ Len(io) \in Nat /\ Len(io2) \in Nat /\ d \in Nat
  BY MovedTasks
<1>2. /\ \A i \in 1 .. d : ~Stores(io[i], e)
      /\ \A i \in Added(io, io2, d) : ~Stores(io2[i], e)
  BY DEF StoresAside
<1>3. ASSUME NEW j \in 1 .. Len(io), Stores(io[j], e)
      PROVE  j - d \in 1 .. Len(io2) /\ io2[j - d] = io[j]
  <2>1. j \notin 1 .. d
    BY <1>2, <1>3
  <2>2. j \in d + 1 .. Len(io)
    BY <1>1, <2>1
  <2> QED
    BY <1>1, <2>2
<1>4. NoStores(io2, e) => NoStores(io, e)
  BY <1>3 DEF NoStores
<1>5. ASSUME NEW i \in 1 .. Len(io2), LastStore(io2, i, e)
      PROVE  i + d \in 1 .. Len(io) /\ io2[i] = io[i + d] /\ LastStore(io, i + d, e)
  <2>1. i + d \in 1 .. Len(io) /\ io2[i] = io[i + d] /\ Stores(io[i + d], e)
    BY <1>1, <1>2, <1>5 DEF LastStore
  <2>2. ASSUME NEW j \in (i + d) + 1 .. Len(io), Stores(io[j], e) PROVE FALSE
    <3>1. j \in 1 .. Len(io)
      BY <1>1, <2>1
    <3>2. j - d \in 1 .. Len(io2) /\ io2[j - d] = io[j]
      BY <1>3, <2>2, <3>1
    <3>3. j - d \in i + 1 .. Len(io2)
      BY <1>1, <3>2
    <3> QED
      BY <1>5, <2>2, <3>2, <3>3 DEF LastStore
  <2> QED
    BY <2>1, <2>2 DEF LastStore
<1>6. ASSUME Writes(io, D, e, x) PROVE Writes(io2, D2, e, x)
  BY <1>4, <1>5, <1>6 DEF Writes, Alike
<1>7. ASSUME Removes(io, D, e) PROVE Removes(io2, D2, e)
  BY <1>4, <1>5, <1>7 DEF Removes, Alike
<1> QED
  BY <1>6, <1>7

\* The IO thread runs the first operation queued for a DataModel.
LEMMA StoresTaken ==
    ASSUME NEW io \in Seq(IoTasks), io # <<>>, NEW e, Stores(io[1], e), NEW D2, NEW D, NEW x,
           io[1].op = "update_data_model" => e \in DOMAIN D2 /\ D2[e] = io[1].order,
           io[1].op = "remove_data_model" => e \notin DOMAIN D2
    PROVE  /\ Writes(io, D, e, x) => Writes(Tail(io), D2, e, x)
           /\ Removes(io, D, e) => Removes(Tail(io), D2, e)
<1>1. /\ Len(io) \in Nat /\ 1 \in 1 .. Len(io) /\ Len(Tail(io)) = Len(io) - 1
      /\ Tail(io) \in Seq(IoTasks)
  OBVIOUS
<1>2. \A i \in 1 .. Len(Tail(io)) : i + 1 \in 1 .. Len(io) /\ Tail(io)[i] = io[i + 1]
  OBVIOUS
<1>3. PICK io2 \in Seq(IoTasks) : io2 = Tail(io)
  BY <1>1
<1>4. NoStores(io2, e) => LastStore(io, 1, e)
  <2> SUFFICES ASSUME NoStores(io2, e), NEW j \in 2 .. Len(io) PROVE ~Stores(io[j], e)
    BY DEF LastStore
  <2>1. j - 1 \in 1 .. Len(io2) /\ (j - 1) + 1 = j
    BY <1>1, <1>3
  <2>2. io2[j - 1] = io[j]
    BY <1>2, <1>3, <2>1
  <2> QED
    BY <2>1, <2>2 DEF NoStores
<1>5. ASSUME NEW i \in 1 .. Len(io2), LastStore(io2, i, e)
      PROVE  i + 1 \in 1 .. Len(io) /\ io2[i] = io[i + 1] /\ LastStore(io, i + 1, e)
  <2>1. i + 1 \in 1 .. Len(io) /\ io2[i] = io[i + 1]
    BY <1>2, <1>3
  <2>2. ASSUME NEW j \in (i + 1) + 1 .. Len(io) PROVE ~Stores(io[j], e)
    <3>1. j - 1 \in 1 .. Len(io2) /\ (j - 1) + 1 = j /\ j - 1 \in i + 1 .. Len(io2)
      BY <1>1, <1>3
    <3>2. io2[j - 1] = io[j]
      BY <1>2, <1>3, <3>1
    <3> QED
      BY <1>5, <3>1, <3>2 DEF LastStore
  <2> QED
    BY <1>5, <2>1, <2>2 DEF LastStore
<1>6. ASSUME Writes(io, D, e, x) PROVE Writes(io2, D2, e, x)
  BY <1>1, <1>4, <1>5, <1>6 DEF Writes
<1>7. ASSUME Removes(io, D, e) PROVE Removes(io2, D2, e)
  BY <1>1, <1>4, <1>5, <1>7 DEF Removes
<1> QED
  BY <1>3, <1>6, <1>7

\* A step that is about another order.
LEMMA FiledElsewhere ==
    ASSUME NEW io \in Seq(IoTasks), NEW io2 \in Seq(IoTasks), NEW d \in {0, 1},
           Shift(io, io2, d), NEW p, SavesAside(io, io2, d, p),
           NEW L, NEW L2, Alike(L, L2, p), NEW C, NEW C2, Alike(C, C2, p),
           NEW own, NEW own2, Alike(own, own2, p), NEW D, NEW D2,
           p \in DOMAIN own => StoresAside(io, io2, d, own[p]) /\ Alike(D, D2, own[p]),
           NEW q, NEW q2, NEW st, NoUpdates(q, p) => NoUpdates(q2, p), Once(q2, L, p),
           Filed(q, L, io, C, D, st, own, p)
    PROVE  Filed(q2, L2, io2, C2, D2, st, own2, p)
<1>1. /\ BeingSaved(io, L, own, p) /\ Caching(q, L, io, C, st, own, p)
      /\ Settled(L, io, D, own, p)
  BY DEF Filed
<1>2. BeingSaved(io2, L2, own2, p) /\ (NoSaves(io, p) <=> NoSaves(io2, p))
  BY <1>1, SavesMoved
<1>3. Once(q2, L2, p)
  BY DEF Once, Alike, Listed
<1>4. Caching(q2, L2, io2, C2, st, own2, p)
  BY <1>1, <1>2 DEF Caching, Alike, Listed
<1>5. ASSUME p \in DOMAIN own, NEW x
      PROVE  /\ Writes(io, D, own[p], x) => Writes(io2, D2, own[p], x)
             /\ Removes(io, D, own[p]) => Removes(io2, D2, own[p])
  BY <1>5, StoresMoved
<1>6. Settled(L2, io2, D2, own2, p)
  <2>1. CASE ~NoSaves(io2, p)
    BY <2>1 DEF Settled
  <2>2. CASE NoSaves(io2, p) /\ p \in DOMAIN L
    <3>1. p \in DOMAIN own /\ Writes(io, D, own[p], L[p])
      BY <1>1, <1>2, <2>2 DEF Settled, Listed
    <3>2. p \in DOMAIN own2 /\ own2[p] = own[p] /\ p \in DOMAIN L2 /\ L2[p] = L[p]
      BY <2>2, <3>1 DEF Alike
    <3>3. Writes(io2, D2, own[p], L[p])
      BY <1>5, <3>1
    <3> QED
      BY <3>2, <3>3 DEF Settled, Listed
  <2>3. CASE NoSaves(io2, p) /\ p \notin DOMAIN L
    <3>1. p \in DOMAIN own => Removes(io, D, own[p])
      BY <1>1, <1>2, <2>3 DEF Settled, Listed
    <3>2. p \notin DOMAIN L2 /\ (p \in DOMAIN own2 => p \in DOMAIN own /\ own2[p] = own[p])
      BY <2>3 DEF Alike
    <3>3. p \in DOMAIN own => Removes(io2, D2, own[p])
      BY <1>5, <3>1
    <3> QED
      BY <3>2, <3>3 DEF Settled, Listed
  <2> QED
    BY <2>1, <2>2, <2>3
<1> QED
  BY <1>2, <1>3, <1>4, <1>6 DEF Filed

LEMMA IoPosted ==
    ASSUME NEW io \in Seq(IoTasks), NEW t \in IoTasks
    PROVE  /\ Append(io, t) \in Seq(IoTasks) /\ Shift(io, Append(io, t), 0)
           /\ Len(Append(io, t)) = Len(io) + 1 /\ Append(io, t)[Len(io) + 1] = t
           /\ \A i \in 1 .. Len(io) : Append(io, t)[i] = io[i]
           /\ \A i \in Added(io, Append(io, t), 0) : i = Len(io) + 1
<1>1. /\ Len(io) \in Nat /\ Len(Append(io, t)) = Len(io) + 1
      /\ Append(io, t) \in Seq(IoTasks) /\ Append(io, t)[Len(io) + 1] = t
      /\ \A i \in 1 .. Len(io) : Append(io, t)[i] = io[i]
  OBVIOUS
<1> QED
  BY <1>1 DEF Shift, Added

\* handle_update_order of a report about o: the list has what the last task saves.
LEMMA FiledHandled ==
    ASSUME NEW q \in Seq(OrderTasks), q # <<>>, NEW o, Update(q[1], o),
           NEW io \in Seq(IoTasks), NEW t \in IoTasks, Saves(t, o),
           t.order.status = q[1].order.status,
           NEW L, NEW L2, o \in DOMAIN L2, L2[o] = t.order,
           NEW C, NEW D, NEW st, NEW own, Follows(q, L, o), Filed(q, L, io, C, D, st, own, o)
    PROVE  Filed(Tail(q), L2, Append(io, t), C, D, st, own, o)
<1>1. /\ Once(q, L, o) /\ BeingSaved(io, L, own, o) /\ Caching(q, L, io, C, st, own, o)
      /\ Settled(L, io, D, own, o)
  BY DEF Filed
<1>2. /\ Len(q) \in Nat /\ 1 \in 1 .. Len(q) /\ Len(Tail(q)) = Len(q) - 1
      /\ \A i \in 1 .. Len(Tail(q)) : i + 1 \in 1 .. Len(q) /\ Tail(q)[i] = q[i + 1]
  OBVIOUS
<1> DEFINE io2 == Append(io, t)
<1>3. /\ Len(io2) = Len(io) + 1 /\ io2[Len(io) + 1] = t
      /\ \A i \in 1 .. Len(io) : io2[i] = io[i]
  BY IoPosted
<1> HIDE DEF io2
<1>4. Len(io) \in Nat /\ Len(io) + 1 \in 1 .. Len(io2)
  BY <1>3
<1>5. ~NoUpdates(q, o)
  BY <1>2 DEF NoUpdates
<1>6. /\ q[1].order.status \in OpenStatus \cup EndStatus
      /\ q[1].order.status \in {"NEW", "REJECTED"} => ~Listed(L, o)
  BY <1>2 DEF Follows
<1>7. \A i \in 1 .. Len(io) : Saves(io[i], o) => io[i].order.status \notin EndStatus
  BY <1>1, <1>5 DEF BeingSaved, Once
<1>8. o \in DOMAIN own => o \in DOMAIN C /\ Listed(L, o)
  BY <1>1, <1>5 DEF Caching
<1>9. q[1].order.status \in EndStatus => NoUpdates(Tail(q), o)
  <2> SUFFICES ASSUME q[1].order.status \in EndStatus, NEW i \in 1 .. Len(Tail(q))
               PROVE  ~Update(Tail(q)[i], o)
    BY DEF NoUpdates
  <2>1. i + 1 \in 1 + 1 .. Len(q) /\ Tail(q)[i] = q[i + 1]
    BY <1>2
  <2> QED
    BY <1>1, <1>2, <2>1 DEF Once
<1>10. Once(Tail(q), L2, o)
  <2>1. ASSUME NEW i \in 1 .. Len(Tail(q)), Update(Tail(q)[i], o),
               Tail(q)[i].order.status \in EndStatus, NEW j \in i + 1 .. Len(Tail(q))
        PROVE  ~Update(Tail(q)[j], o)
    <3>1. j \in 1 .. Len(Tail(q)) /\ j + 1 \in (i + 1) + 1 .. Len(q)
      BY <1>2
    <3>2. /\ i + 1 \in 1 .. Len(q) /\ Tail(q)[i] = q[i + 1] /\ Tail(q)[j] = q[j + 1]
      BY <1>2, <3>1
    <3> QED
      BY <1>1, <2>1, <3>1, <3>2 DEF Once
  <2> QED
    BY <1>9, <2>1 DEF Once, Listed
<1>11. BeingSaved(io2, L2, own, o)
  <2> SUFFICES ASSUME NEW i \in 1 .. Len(io2), Saves(io2[i], o)
               PROVE  /\ Listed(L2, o) /\ io2[i].order.status \in OpenStatus \cup EndStatus
                      /\ io2[i].order.status \in EndStatus => LastSave(io2, i, o)
                      /\ LastSave(io2, i, o) => L2[o] = io2[i].order
                      /\ io2[i].order.status = "REJECTED" =>
                             o \notin DOMAIN own /\ \A j \in 1 .. i - 1 : ~Saves(io2[j], o)
                      /\ o \notin DOMAIN own /\ io2[i].order.status \notin {"NEW", "REJECTED"}
                             => \E j \in 1 .. i - 1 : Saves(io2[j], o)
    BY DEF BeingSaved
  <2>1. Listed(L2, o)
    BY DEF Listed
  <2>2. CASE i \in 1 .. Len(io)
    <3>1. io2[i] = io[i] /\ Saves(io[i], o) /\ \A j \in 1 .. i - 1 : io2[j] = io[j]
      BY <1>3, <2>2
    <3>2. io[i].order.status \in OpenStatus \cup EndStatus /\ io[i].order.status \notin EndStatus
          /\ (o \notin DOMAIN own /\ io[i].order.status \notin {"NEW", "REJECTED"}
                  => \E j \in 1 .. i - 1 : Saves(io[j], o))
      BY <1>1, <1>7, <2>2, <3>1 DEF BeingSaved
    <3>3. Len(io) + 1 \in i + 1 .. Len(io2)
      BY <1>3, <1>4, <2>2
    <3>4. ~LastSave(io2, i, o)
      BY <1>3, <3>3 DEF LastSave
    <3>5. "REJECTED" \in EndStatus
      BY DEF EndStatus
    <3> QED
      BY <2>1, <3>1, <3>2, <3>4, <3>5
  <2>3. CASE i = Len(io) + 1
    <3>1. io2[i] = t /\ LastSave(io2, i, o)
      BY <1>3, <1>4, <2>3 DEF LastSave
    <3>2. \A j \in 1 .. i - 1 : j \in 1 .. Len(io) /\ io2[j] = io[j]
      BY <1>3, <1>4, <2>3
    <3>3. ASSUME t.order.status = "REJECTED"
          PROVE  o \notin DOMAIN own /\ \A j \in 1 .. i - 1 : ~Saves(io2[j], o)
      <4>1. ~Listed(L, o)
        BY <1>6, <3>3
      <4> QED
        BY <1>1, <1>8, <3>2, <4>1 DEF BeingSaved
    <3>4. ASSUME o \notin DOMAIN own, t.order.status \notin {"NEW", "REJECTED"}
          PROVE  \E j \in 1 .. i - 1 : Saves(io2[j], o)
      <4>1. Listed(L, o)
        <5>1. ASSUME ~Listed(L, o) PROVE FALSE
          <6>1. \E j \in 1 .. 1 - 1 : Update(q[j], o)
            BY <1>1, <1>2, <3>4, <5>1 DEF Once
          <6> QED
            BY <6>1
        <5> QED
          BY <5>1
      <4>2. ~NoSaves(io, o)
        BY <1>1, <3>4, <4>1 DEF Settled
      <4>3. PICK j \in 1 .. Len(io) : Saves(io[j], o)
        BY <4>2 DEF NoSaves
      <4>4. j \in 1 .. i - 1
        BY <1>4, <2>3
      <4> QED
        BY <3>2, <4>3, <4>4
    <3> QED
      BY <1>6, <2>1, <3>1, <3>3, <3>4
  <2> QED
    BY <1>3, <1>4, <2>2, <2>3
<1>12. Caching(Tail(q), L2, io2, C, st, own, o)
  BY <1>1, <1>8 DEF Caching, Listed
<1>13. Settled(L2, io2, D, own, o)
  <2>1. ~NoSaves(io2, o)
    BY <1>3, <1>4 DEF NoSaves
  <2> QED
    BY <2>1 DEF Settled
<1> QED
  BY <1>10, <1>11, <1>12, <1>13 DEF Filed, io2

\* A report that comes before the end of an order keeps its status when it is
\* merged with what the list has.
LEMMA StatusKept ==
    ASSUME NEW q \in Seq(OrderTasks), q # <<>>, NEW o, Update(q[1], o),
           NEW L, Base(L, o) \in Nat, NEW cur, cur.filled = Base(L, o),
           NEW io, NEW v \in Places, Fresh(q, L, io, v, o)
    PROVE  Merged(q[1].order, cur).status = q[1].order.status
<1> DEFINE t == q[1].order
<1>1. q[1] \in OrderTasks /\ 1 \in 1 .. Len(q)
  OBVIOUS
<1>2. t.filled \in Nat /\ t \in Orders /\ v.filled \in Nat
  BY <1>1, TaskType, IdsAssumption DEF Places
<1>3. CASE t.status \notin {"FILLED", "PARTIALLY_FILLED"}
  BY <1>3 DEF Merged
<1>4. CASE t.status \in {"FILLED", "PARTIALLY_FILLED"}
  <2>1. ~Gone(q, L, v.status, o)
    BY <1>1, <1>4 DEF Gone, OnlyCancels
  <2>2. Leads(q, o, Base(L, o), v.filled)
    BY <2>1 DEF Fresh
  <2>3. Fills(q[1], o) = t.filled
    BY DEF Update, Fills
  <2>4. Tells(q[1], o, Base(L, o) + t.filled)
    <3> HIDE DEF Base
    <3> QED
      BY <1>2, <2>2, <2>3, LeadsHandled
  <2>5. t.status = "FILLED" <=> Base(L, o) + t.filled = Quantity
    BY <1>4, <2>4 DEF Tells
  <2>6. Base(L, o) + t.filled = t.filled + cur.filled
    BY <1>2
  <2>7. Merged(t, cur).status = IF t.filled + cur.filled = Quantity THEN "FILLED" ELSE t.status
    BY <1>2, <1>4 DEF Merged, Orders
  <2> QED
    BY <1>4, <2>5, <2>6, <2>7
<1> QED
  BY <1>3, <1>4

LEMMA HandleFiles ==
    ASSUME IInv, crashes = 0, lost = {}, NEW own, DbOK(own), HandleUpdateOrder
    PROVE  DbOK(own)'
<1> DEFINE x == order_q[1].order
           o == x.id
           cur == get_order_by_id(o)
           y == Merged(x, cur)
           t == IoTask("update_order_in_db", 0, y)
<1>1. /\ order_q \in Seq(OrderTasks) /\ venue \in [Ids -> Places] /\ io_q \in Seq(IoTasks)
      /\ ListType /\ \A p \in Ids : Fresh(order_q, m_order_list, io_q, venue[p], p)
  BY DEF IInv, Types, IoType, FreshInv
<1>2. order_q # <<>> /\ Head(order_q).op = "handle_update_order"
  BY DEF HandleUpdateOrder, Running
<1>3. /\ Head(order_q) = order_q[1] /\ order_q[1] \in OrderTasks /\ 1 \in 1 .. Len(order_q)
      /\ x \in Orders /\ o \in Ids /\ x.filled \in Nat
      /\ Tail(order_q) \in Seq(OrderTasks) /\ Shift(order_q, Tail(order_q), 1)
      /\ Added(order_q, Tail(order_q), 1) = {}
  BY <1>1, <1>2, Taken, TaskType
<1>4. /\ m_order_list' = Set(m_order_list, o, y) /\ io_q' = Append(io_q, t)
      /\ order_q' = Tail(order_q)
      /\ UNCHANGED <<m_order_db_cache, docs, data_models, venue>>
  BY <1>3 DEF HandleUpdateOrder
<1>5. cur.filled = Base(m_order_list, o) /\ Base(m_order_list, o) \in Nat
  <2>1. Base(m_order_list, o) \in Nat
    BY <1>1, BaseType
  <2>2. cur.filled = Base(m_order_list, o)
    BY DEF get_order_by_id, Base, NoOrder, Order
  <2> QED
    BY <2>1, <2>2
<1>6. Update(order_q[1], o)
  BY <1>2, <1>3 DEF Update
<1> HIDE DEF cur
<1>7. y \in Orders /\ y.id = o
  <2>1. CASE x.status \in {"FILLED", "PARTIALLY_FILLED"}
    <3>1. y = [x EXCEPT !.filled = x.filled + cur.filled,
                        !.status = IF x.filled + cur.filled = Quantity THEN "FILLED"
                                   ELSE x.status]
      BY <2>1 DEF Merged
    <3>2. x.filled + cur.filled \in Nat
      BY <1>3, <1>5
    <3> QED
      BY <1>3, <2>1, <3>1, <3>2 DEF Orders, Statuses
  <2>2. CASE x.status \notin {"FILLED", "PARTIALLY_FILLED"}
    BY <1>3, <2>2 DEF Merged
  <2> QED
    BY <2>1, <2>2
<1>8. y.status = x.status
  <2>1. venue[o] \in Places /\ Fresh(order_q, m_order_list, io_q, venue[o], o)
    BY <1>1, <1>3
  <2> QED
    BY <1>1, <1>2, <1>5, <1>6, <2>1, StatusKept
<1>9. /\ DOMAIN m_order_list' = DOMAIN m_order_list \cup {o}
      /\ m_order_list'[o] = y
      /\ \A p \in DOMAIN m_order_list : p # o => m_order_list'[p] = m_order_list[p]
  BY <1>4 DEF Set
<1> HIDE DEF y
<1>10. t \in IoTasks /\ t.op = "update_order_in_db" /\ t.order = y
  BY <1>7 DEF IoTask, IoTasks, Saved
<1> HIDE DEF t
<1>11. PICK L2, io2, q2 : L2 = m_order_list' /\ io2 = Append(io_q, t) /\ q2 = Tail(order_q)
  OBVIOUS
<1>12. /\ io2 \in Seq(IoTasks) /\ Shift(io_q, io2, 0)
       /\ \A i \in Added(io_q, io2, 0) : io2[i] = t
  BY <1>1, <1>10, <1>11, IoPosted
<1>13. ASSUME NEW p \in Ids
       PROVE  Filed(q2, L2, io2, m_order_db_cache, docs, venue[p].status, own, p)
  <2>1. PICK st : st = venue[p].status
    OBVIOUS
  <2>2. Filed(order_q, m_order_list, io_q, m_order_db_cache, docs, st, own, p)
    BY <2>1 DEF DbOK
  <2>3. CASE p = o
    <3>1. Follows(order_q, m_order_list, o)
      BY <1>1, <1>3 DEF Fresh
    <3>2. Saves(t, o) /\ t.order.status = x.status /\ o \in DOMAIN L2 /\ L2[o] = t.order
      BY <1>7, <1>8, <1>9, <1>10, <1>11 DEF Saves
    <3>3. Filed(q2, L2, io2, m_order_db_cache, docs, st, own, o)
      BY <1>1, <1>2, <1>6, <1>10, <1>11, <2>2, <2>3, <3>1, <3>2, FiledHandled
    <3> QED
      BY <2>1, <2>3, <3>3
  <2>4. CASE p # o
    <3>1. \A i \in 1 .. 1 : ~Update(order_q[i], p)
      BY <1>6, <2>4 DEF Update
    <3>2. Once(order_q, m_order_list, p)
      BY <2>2 DEF Filed
    <3>3. Once(q2, m_order_list, p) /\ (NoUpdates(order_q, p) => NoUpdates(q2, p))
      BY <1>1, <1>3, <1>11, <3>1, <3>2, OnceQuiet
    <3>4. SavesAside(io_q, io2, 0, p)
      BY <1>7, <1>10, <1>12, <2>4 DEF SavesAside, Saves
    <3>5. \A e : p \in DOMAIN own => StoresAside(io_q, io2, 0, e)
      BY <1>10, <1>12 DEF StoresAside, Stores
    <3>6. /\ Alike(m_order_list, L2, p) /\ Alike(m_order_db_cache, m_order_db_cache, p)
          /\ Alike(own, own, p) /\ \A e : Alike(docs, docs, e)
      BY <1>9, <1>11, <2>4 DEF Alike
    <3>7. Filed(q2, L2, io2, m_order_db_cache, docs, st, own, p)
      BY <1>1, <1>12, <2>2, <3>3, <3>4, <3>5, <3>6, FiledElsewhere
    <3> QED
      BY <2>1, <3>7
  <2> QED
    BY <2>3, <2>4
<1>14. NoCancels(q2)
  BY <1>1, <1>2, <1>11 DEF DbOK, NoCancels
<1> QED
  BY <1>4, <1>11, <1>13, <1>14 DEF DbOK

\* The IO queue without its first task, and with database operations behind it.
Ran(io, io2) ==
    /\ io # <<>> /\ io2 \in Seq(IoTasks) /\ Shift(io, io2, 1)
    /\ \A i \in Added(io, io2, 1) : io2[i].op # "update_order_in_db"

\* All tasks of f, and those that io2 adds, are operations on the DataModel e.
Storing(f, e) == \A j \in 1 .. Len(f) : f[j].op # "update_order_in_db" /\ f[j].dm = e
AddsFor(io, io2, e) == \A i \in Added(io, io2, 1) : io2[i].dm = e

\* io2 has f and u behind the rest of io.
Behind(io, io2, f, u) ==
    /\ io # <<>> /\ io2 = (Tail(io) \o f) \o <<u>>
    /\ Storing(f, u.dm) /\ u.op # "update_order_in_db"

LEMMA IoRan ==
    ASSUME NEW io \in Seq(IoTasks), NEW io2, NEW f \in Seq(IoTasks), NEW u \in IoTasks,
           Behind(io, io2, f, u)
    PROVE  /\ Ran(io, io2) /\ Len(io2) \in 1 .. Len(io2) /\ io2[Len(io2)] = u
           /\ AddsFor(io, io2, u.dm)
<1> DEFINE r == Tail(io)
<1>1. /\ Len(io) \in Nat /\ Len(io) >= 1 /\ Len(r) = Len(io) - 1 /\ r \in Seq(IoTasks)
      /\ \A i \in 1 .. Len(io) - 1 : r[i] = io[i + 1]
  BY DEF Behind
<1>2. PICK w : w = <<u>>
  OBVIOUS
<1>3. w \in Seq(IoTasks) /\ Len(w) = 1 /\ w[1] = u
  BY <1>2
<1>4. PICK g : g = r \o f
  OBVIOUS
<1>5. /\ g \in Seq(IoTasks) /\ Len(g) = Len(r) + Len(f)
      /\ \A i \in 1 .. Len(r) + Len(f) : g[i] = IF i =< Len(r) THEN r[i] ELSE f[i - Len(r)]
  BY <1>1, <1>4, ConcatProperties
<1>6. io2 = g \o w
  BY <1>2, <1>4 DEF Behind
<1>7. /\ io2 \in Seq(IoTasks) /\ Len(io2) = Len(g) + Len(w)
      /\ \A i \in 1 .. Len(g) + Len(w) : io2[i] = IF i =< Len(g) THEN g[i] ELSE w[i - Len(g)]
  <2>1. g \in Seq(IoTasks) /\ w \in Seq(IoTasks)
    BY <1>3, <1>5
  <2> QED
    BY <1>6, <2>1, ConcatProperties
<1>8. Len(f) \in Nat /\ Len(g) \in Nat /\ Len(r) \in Nat /\ Len(io2) = Len(g) + 1
  BY <1>1, <1>3, <1>5, <1>7
<1> HIDE DEF r
<1>9. Len(io2) \in 1 .. Len(io2) /\ io2[Len(io2)] = u
  <2>1. /\ Len(g) + 1 \in 1 .. Len(g) + Len(w) /\ (Len(g) + 1) - Len(g) = 1
        /\ ~(Len(g) + 1 =< Len(g))
    BY <1>3, <1>8
  <2> QED
    BY <1>3, <1>7, <1>8, <2>1
<1>10. ASSUME NEW i \in 1 .. Len(io) - 1 PROVE io2[i] = io[i + 1]
  <2>1. /\ i \in 1 .. Len(g) + Len(w) /\ i =< Len(g) /\ i \in 1 .. Len(r) + Len(f)
        /\ i =< Len(r)
    BY <1>1, <1>3, <1>5, <1>8
  <2> QED
    BY <1>1, <1>5, <1>7, <2>1
<1>11. Shift(io, io2, 1)
  BY <1>1, <1>5, <1>8, <1>10 DEF Shift
<1>12. ASSUME NEW i \in Added(io, io2, 1)
       PROVE  io2[i].op # "update_order_in_db" /\ io2[i].dm = u.dm
  <2>1. i \in 1 .. Len(g) + Len(w) /\ ~(i =< Len(r)) /\ i =< Len(g) + 1 /\ i \in Nat
    BY <1>1, <1>3, <1>8 DEF Added
  <2>2. CASE i =< Len(g)
    <3>1. i \in 1 .. Len(r) + Len(f) /\ i - Len(r) \in 1 .. Len(f)
      BY <1>5, <1>8, <2>1, <2>2
    <3>2. io2[i] = f[i - Len(r)]
      BY <1>5, <1>7, <2>1, <2>2, <3>1
    <3> QED
      BY <3>1, <3>2 DEF Storing, Behind
  <2>3. CASE ~(i =< Len(g))
    <3>1. i = Len(io2)
      BY <1>8, <2>1, <2>3
    <3> QED
      BY <1>9, <3>1 DEF Behind
  <2> QED
    BY <2>2, <2>3
<1> QED
  BY <1>7, <1>9, <1>11, <1>12 DEF Ran, AddsFor, Behind

LEMMA IoTailRan ==
    ASSUME NEW io \in Seq(IoTasks), io # <<>>
    PROVE  Ran(io, Tail(io)) /\ Added(io, Tail(io), 1) = {}
<1>1. /\ Len(io) \in Nat /\ Len(io) >= 1 /\ Len(Tail(io)) = Len(io) - 1
      /\ Tail(io) \in Seq(IoTasks) /\ \A i \in 1 .. Len(io) - 1 : Tail(io)[i] = io[i + 1]
  OBVIOUS
<1> QED
  BY <1>1 DEF Ran, Shift, Added

\* The first task, which saved o, has been taken.
LEMMA SaveTaken ==
    ASSUME NEW io \in Seq(IoTasks), NEW io2, Ran(io, io2), NEW o, Saves(io[1], o)
    PROVE  /\ 1 \in 1 .. Len(io)
           /\ \A i \in 1 .. Len(io2) : Saves(io2[i], o) =>
                  /\ i + 1 \in 1 .. Len(io) /\ io2[i] = io[i + 1] /\ 1 \in 1 .. (i + 1) - 1
                  /\ LastSave(io, i + 1, o) <=> LastSave(io2, i, o)
           /\ LastSave(io, 1, o) <=> NoSaves(io2, o)
<1>0. io # <<>> /\ io2 \in Seq(IoTasks) /\ Shift(io, io2, 1)
  BY DEF Ran
<1>1. /\ \A i \in 1 .. Len(io2) :
             i \in Added(io, io2, 1) \/ (i + 1 \in 1 .. Len(io) /\ io2[i] = io[i + 1])
      /\ \A j \in 1 + 1 .. Len(io) : j - 1 \in 1 .. Len(io2) /\ io2[j - 1] = io[j]
      /\ Len(io) \in Nat /\ Len(io2) \in Nat /\ 1 \in 1 .. Len(io)
  BY <1>0, MovedTasks
<1>2. ASSUME NEW i \in 1 .. Len(io2), Saves(io2[i], o)
      PROVE  i + 1 \in 1 .. Len(io) /\ io2[i] = io[i + 1]
  BY <1>1, <1>2 DEF Ran, Saves
<1>3. ASSUME NEW i \in 0 .. Len(io2), i = 0 \/ Saves(io2[i], o)
      PROVE  (\A j \in (i + 1) + 1 .. Len(io) : ~Saves(io[j], o))
             <=> \A j \in i + 1 .. Len(io2) : ~Saves(io2[j], o)
  <2>1. ASSUME NEW j \in (i + 1) + 1 .. Len(io), Saves(io[j], o)
        PROVE  j - 1 \in i + 1 .. Len(io2) /\ Saves(io2[j - 1], o)
    <3>1. j \in 1 + 1 .. Len(io)
      BY <1>1
    <3>2. j - 1 \in 1 .. Len(io2) /\ io2[j - 1] = io[j]
      BY <1>1, <3>1
    <3> QED
      BY <1>1, <2>1, <3>2
  <2>2. ASSUME NEW j \in i + 1 .. Len(io2), Saves(io2[j], o)
        PROVE  j + 1 \in (i + 1) + 1 .. Len(io) /\ Saves(io[j + 1], o)
    <3>1. j \in 1 .. Len(io2)
      BY <1>1
    <3>2. j + 1 \in 1 .. Len(io) /\ io2[j] = io[j + 1]
      BY <1>2, <2>2, <3>1
    <3> QED
      BY <1>1, <2>2, <3>2
  <2> QED
    BY <2>1, <2>2
<1>4. LastSave(io, 1, o) <=> NoSaves(io2, o)
  <2>1. 0 \in 0 .. Len(io2) /\ 0 + 1 = 1
    BY <1>1
  <2>2. (\A j \in 1 + 1 .. Len(io) : ~Saves(io[j], o)) <=> \A j \in 1 .. Len(io2) : ~Saves(io2[j], o)
    BY <1>3, <2>1
  <2> QED
    BY <2>2 DEF LastSave, NoSaves
<1>5. ASSUME NEW i \in 1 .. Len(io2), Saves(io2[i], o)
      PROVE  /\ 1 \in 1 .. (i + 1) - 1
             /\ LastSave(io, i + 1, o) <=> LastSave(io2, i, o)
  <2>1. i \in 0 .. Len(io2) /\ 1 \in 1 .. (i + 1) - 1
    BY <1>1
  <2> QED
    BY <1>2, <1>3, <1>5, <2>1 DEF LastSave
<1> QED
  BY <1>1, <1>2, <1>4, <1>5

\* update_order_in_db of an order that stays: its document will be the order.
LEMMA FiledSaved ==
    ASSUME NEW io \in Seq(IoTasks), NEW io2, Ran(io, io2), NEW o, Saves(io[1], o),
           io[1].order.status \in {"NEW", "PARTIALLY_FILLED", "FILLED"},
           NEW own, NEW own2, o \in DOMAIN own2, NEW D, Writes(io2, D, own2[o], io[1].order),
           NEW C, NEW C2, o \in DOMAIN C2 <=> io[1].order.status # "FILLED",
           o \in DOMAIN C2 => C2[o].dm = own2[o] /\ C2[o].object.id = o,
           NEW q, NEW L, NEW st, Entry(q, L, st, o), Filed(q, L, io, C, D, st, own, o)
    PROVE  Filed(q, L, io2, C2, D, st, own2, o)
<1>1. /\ Once(q, L, o) /\ BeingSaved(io, L, own, o)
  BY DEF Filed
<1>2. /\ 1 \in 1 .. Len(io)
      /\ \A i \in 1 .. Len(io2) : Saves(io2[i], o) =>
             /\ i + 1 \in 1 .. Len(io) /\ io2[i] = io[i + 1] /\ 1 \in 1 .. (i + 1) - 1
             /\ LastSave(io, i + 1, o) <=> LastSave(io2, i, o)
      /\ LastSave(io, 1, o) <=> NoSaves(io2, o)
  BY SaveTaken
<1>3. /\ Listed(L, o) /\ LastSave(io, 1, o) => L[o] = io[1].order
      /\ io[1].order.status \in EndStatus => LastSave(io, 1, o)
      /\ Listed(L, o)
  BY <1>1, <1>2 DEF BeingSaved
<1>4. BeingSaved(io2, L, own2, o)
  <2> SUFFICES ASSUME NEW i \in 1 .. Len(io2), Saves(io2[i], o)
               PROVE  /\ io2[i].order.status \in OpenStatus \cup EndStatus
                      /\ io2[i].order.status \in EndStatus => LastSave(io2, i, o)
                      /\ LastSave(io2, i, o) => L[o] = io2[i].order
                      /\ io2[i].order.status # "REJECTED"
    BY <1>3 DEF BeingSaved
  <2>1. /\ i + 1 \in 1 .. Len(io) /\ io2[i] = io[i + 1] /\ 1 \in 1 .. (i + 1) - 1
        /\ LastSave(io, i + 1, o) <=> LastSave(io2, i, o)
    BY <1>2
  <2>2. /\ io[i + 1].order.status \in OpenStatus \cup EndStatus
        /\ io[i + 1].order.status \in EndStatus => LastSave(io, i + 1, o)
        /\ LastSave(io, i + 1, o) => L[o] = io[i + 1].order
        /\ io[i + 1].order.status = "REJECTED" => \A j \in 1 .. (i + 1) - 1 : ~Saves(io[j], o)
    BY <1>1, <2>1 DEF BeingSaved
  <2> QED
    BY <2>1, <2>2
<1>5. ASSUME o \notin DOMAIN C2
      PROVE  st = "closed" /\ NoUpdates(q, o) /\ NoSaves(io2, o)
  <2>1. io[1].order.status \in EndStatus
    BY <1>5 DEF EndStatus
  <2>2. NoSaves(io2, o) /\ L[o].status \in EndStatus
    BY <1>2, <1>3, <2>1
  <2> QED
    BY <1>1, <1>3, <2>2 DEF Once, Entry
<1>6. Caching(q, L, io2, C2, st, own2, o)
  BY <1>3, <1>5 DEF Caching
<1>7. Settled(L, io2, D, own2, o)
  BY <1>2, <1>3 DEF Settled
<1> QED
  BY <1>1, <1>4, <1>6, <1>7 DEF Filed

\* update_order_in_db of an order that is dropped.
LEMMA FiledDropped ==
    ASSUME NEW io \in Seq(IoTasks), NEW io2, Ran(io, io2), NEW o, Saves(io[1], o),
           io[1].order.status \in DropStatus, NEW own, NEW D,
           o \in DOMAIN own => Removes(io2, D, own[o]),
           NEW C, NEW C2, o \notin DOMAIN C2, NEW L, NEW L2, o \notin DOMAIN L2,
           NEW q, NEW st, Entry(q, L, st, o), Filed(q, L, io, C, D, st, own, o)
    PROVE  Filed(q, L2, io2, C2, D, st, own, o)
<1>1. Once(q, L, o) /\ BeingSaved(io, L, own, o)
  BY DEF Filed
<1>2. 1 \in 1 .. Len(io) /\ (LastSave(io, 1, o) <=> NoSaves(io2, o))
  BY SaveTaken
<1>3. io[1].order.status \in EndStatus
  BY DEF DropStatus, EndStatus
<1>4. LastSave(io, 1, o) /\ Listed(L, o) /\ L[o] = io[1].order
  BY <1>1, <1>2, <1>3 DEF BeingSaved
<1>5. NoSaves(io2, o) /\ NoUpdates(q, o) /\ st = "closed"
  BY <1>1, <1>2, <1>3, <1>4 DEF Once, Entry
<1>6. Once(q, L2, o)
  BY <1>5 DEF Once, NoUpdates, Listed
<1>7. BeingSaved(io2, L2, own, o)
  BY <1>5 DEF BeingSaved, NoSaves
<1>8. Caching(q, L2, io2, C2, st, own, o)
  BY <1>5 DEF Caching
<1>9. Settled(L2, io2, D, own, o)
  BY DEF Settled, Listed
<1> QED
  BY <1>6, <1>7, <1>8, <1>9 DEF Filed

\* A queue whose last task is an operation on the DataModel e.
LEMMA LastWrites ==
    ASSUME NEW io \in Seq(IoTasks), Len(io) \in 1 .. Len(io), NEW e, Stores(io[Len(io)], e), NEW D
    PROVE  /\ io[Len(io)].op = "update_data_model" => Writes(io, D, e, io[Len(io)].order)
           /\ io[Len(io)].op = "remove_data_model" => Removes(io, D, e)
<1>1. Len(io) \in Nat /\ ~NoStores(io, e)
  BY DEF NoStores
<1>2. \A i \in 1 .. Len(io) : LastStore(io, i, e) => i = Len(io)
  <2> SUFFICES ASSUME NEW i \in 1 .. Len(io), LastStore(io, i, e), i # Len(io) PROVE FALSE
    OBVIOUS
  <2>1. Len(io) \in i + 1 .. Len(io)
    BY <1>1
  <2> QED
    BY <2>1 DEF LastStore
<1> QED
  BY <1>1, <1>2 DEF Writes, Removes

\* A step of the IO thread that saves or drops another order than p.
Others(io, io2, L, L2, C, C2, own, own2, p) ==
    /\ Ran(io, io2) /\ \E o : Saves(io[1], o) /\ p # o
    /\ Alike(L, L2, p) /\ Alike(C, C2, p) /\ Alike(own, own2, p)
    /\ \E e : AddsFor(io, io2, e) /\ (p \in DOMAIN own => own[p] # e)

LEMMA OthersFiled ==
    ASSUME NEW io \in Seq(IoTasks), NEW io2, NEW L, NEW L2, NEW C, NEW C2, NEW own, NEW own2,
           NEW p, NEW q, NEW D, NEW st, Others(io, io2, L, L2, C, C2, own, own2, p),
           Filed(q, L, io, C, D, st, own, p)
    PROVE  Filed(q, L2, io2, C2, D, st, own2, p)
<1>1. io2 \in Seq(IoTasks) /\ Shift(io, io2, 1) /\ Ran(io, io2)
  BY DEF Ran, Others
<1>2. SavesAside(io, io2, 1, p)
  BY DEF SavesAside, Saves, Ran, Others
<1>3. p \in DOMAIN own => StoresAside(io, io2, 1, own[p])
  BY DEF StoresAside, Stores, Saves, AddsFor, Others
<1>4. Alike(L, L2, p) /\ Alike(C, C2, p) /\ Alike(own, own2, p)
  BY DEF Others
<1>5. \A d : Alike(D, D, d)
  BY DEF Alike
<1>6. Once(q, L, p)
  BY DEF Filed
<1> QED
  BY <1>1, <1>2, <1>3, <1>4, <1>5, <1>6, FiledElsewhere

\* A new DataModel is the order's own.
LEMMA OwningMore ==
    ASSUME NEW n \in Nat, NEW own, Owning(own, n), NEW o \in Ids, o \notin DOMAIN own,
           NEW own2, own2 = [p \in DOMAIN own \cup {o} |-> IF p = o THEN n + 1 ELSE own[p]]
    PROVE  /\ Owning(own2, n + 1) /\ o \in DOMAIN own2 /\ own2[o] = n + 1
           /\ \A p : p # o => Alike(own, own2, p)
           /\ \A p \in DOMAIN own : own[p] # n + 1
<1>1. /\ \A p \in DOMAIN own : own[p] \in 1 .. n
      /\ DOMAIN own \subseteq Ids
      /\ \A r, p \in DOMAIN own : own[r] = own[p] => r = p
      /\ \A d \in 1 .. n : \E p \in DOMAIN own : own[p] = d
  BY DEF Owning
<1>2. /\ DOMAIN own2 = DOMAIN own \cup {o} /\ own2[o] = n + 1
      /\ \A p \in DOMAIN own : own2[p] = own[p]
  OBVIOUS
<1>3. \A p \in DOMAIN own : own[p] # n + 1
  BY <1>1
<1>4. own2 \in [DOMAIN own2 -> 1 .. n + 1]
  <2>1. \A p \in DOMAIN own2 : own2[p] \in 1 .. n + 1
    BY <1>1, <1>2
  <2>2. own2 = [p \in DOMAIN own2 |-> own2[p]]
    BY <1>2
  <2> QED
    BY <2>1, <2>2
<1>5. \A r, p \in DOMAIN own2 : own2[r] = own2[p] => r = p
  BY <1>1, <1>2, <1>3
<1>6. ASSUME NEW d \in 1 .. n + 1 PROVE \E p \in DOMAIN own2 : own2[p] = d
  <2>1. CASE d = n + 1
    BY <1>2, <2>1
  <2>2. CASE d \in 1 .. n
    BY <1>1, <1>2, <2>2
  <2> QED
    BY <2>1, <2>2
<1>7. Owning(own2, n + 1)
  BY <1>1, <1>2, <1>4, <1>5, <1>6 DEF Owning
<1> QED
  BY <1>2, <1>3, <1>7 DEF Alike

\* What update_order_in_db knows of the order it is given.
LEMMA SavedKnown ==
    ASSUME IInv, crashes = 0, lost = {}, NEW own, DbOK(own), RunningIo("update_order_in_db")
    PROVE  LET x == io_q[1].order IN
           /\ io_q \in Seq(IoTasks) /\ io_q # <<>> /\ Head(io_q) = io_q[1]
           /\ x \in Orders /\ x \in Saved /\ x.id \in Ids /\ Saves(io_q[1], x.id)
           /\ Entry(order_q, m_order_list, venue[x.id].status, x.id)
           /\ Filed(order_q, m_order_list, io_q, m_order_db_cache, docs,
                    venue[x.id].status, own, x.id)
           /\ x.id \in DOMAIN m_order_db_cache =>
                  /\ x.id \in DOMAIN own /\ m_order_db_cache[x.id].dm = own[x.id]
                  /\ m_order_db_cache[x.id].object.id = x.id
           /\ x.id \notin DOMAIN m_order_db_cache => x.id \notin DOMAIN own
           /\ x.status = "CANCELED" => x.id \in DOMAIN own
           /\ x.status = "REJECTED" => x.id \notin DOMAIN own
           /\ data_models \in Nat
<1> DEFINE x == io_q[1].order
           o == x.id
<1>1. Types /\ data_models \in Nat
  BY DEF IInv, Types
<1>2. /\ io_q \in Seq(IoTasks) /\ io_q # <<>> /\ Head(io_q) = io_q[1] /\ x \in Orders
      /\ io_q[1].op = "update_order_in_db" /\ 1 \in 1 .. Len(io_q)
  BY <1>1, IoTaken
<1>3. o \in Ids /\ x \in Saved
  BY <1>2, NoOrderFacts
<1>4. Saves(io_q[1], o)
  BY <1>2 DEF Saves
<1>5. /\ Entry(order_q, m_order_list, venue[o].status, o)
      /\ Filed(order_q, m_order_list, io_q, m_order_db_cache, docs, venue[o].status, own, o)
  BY <1>3 DEF IInv, FreshInv, Fresh, DbOK
<1>6. /\ BeingSaved(io_q, m_order_list, own, o)
      /\ Caching(order_q, m_order_list, io_q, m_order_db_cache, venue[o].status, own, o)
  BY <1>5 DEF Filed
<1>7. ~NoSaves(io_q, o)
  BY <1>2, <1>4 DEF NoSaves
<1>8. /\ o \in DOMAIN m_order_db_cache =>
             /\ o \in DOMAIN own /\ m_order_db_cache[o].dm = own[o]
             /\ m_order_db_cache[o].object.id = o
      /\ o \notin DOMAIN m_order_db_cache => o \notin DOMAIN own
  BY <1>6, <1>7 DEF Caching
<1>9. /\ x.status = "REJECTED" => o \notin DOMAIN own
      /\ o \notin DOMAIN own /\ x.status \notin {"NEW", "REJECTED"}
             => \E j \in 1 .. 1 - 1 : Saves(io_q[j], o)
  BY <1>2, <1>4, <1>6 DEF BeingSaved
<1>10. x.status = "CANCELED" => o \in DOMAIN own
  BY <1>9
<1> QED
  BY <1>1, <1>2, <1>3, <1>4, <1>5, <1>8, <1>9, <1>10

LEMMA MadeIoTask ==
    ASSUME NEW op \in {"init_data_model", "update_data_model", "remove_data_model"},
           NEW dm \in Nat, NEW x \in Saved
    PROVE  LET t == IoTask(op, dm, x) IN
           t \in IoTasks /\ t.op = op /\ t.dm = dm /\ t.order = x
BY DEF IoTask, IoTasks

LEMMA SaveFiles ==
    ASSUME IInv, crashes = 0, lost = {}, NEW own, DbOK(own), SaveOrder
    PROVE  \E own2 : DbOK(own2)'
<1> DEFINE x == io_q[1].order
           o == x.id
           n == data_models
           s == [order_db(o) EXCEPT !.object = x]
           u == IoTask("update_data_model", s.dm, x)
           f == Created(o)
<1>1. Owning(own, n) /\ NoCancels(order_q)
  BY DEF DbOK
<1>2. RunningIo("update_order_in_db") /\ Head(io_q).order.status \in {"NEW", "PARTIALLY_FILLED", "FILLED"}
  BY DEF SaveOrder, Saving
<1>3. /\ io_q \in Seq(IoTasks) /\ io_q # <<>> /\ Head(io_q) = io_q[1]
      /\ x \in Saved /\ o \in Ids /\ Saves(io_q[1], o)
      /\ Entry(order_q, m_order_list, venue[o].status, o)
      /\ Filed(order_q, m_order_list, io_q, m_order_db_cache, docs, venue[o].status, own, o)
      /\ o \in DOMAIN m_order_db_cache =>
             o \in DOMAIN own /\ m_order_db_cache[o].dm = own[o]
      /\ o \notin DOMAIN m_order_db_cache => o \notin DOMAIN own
      /\ n \in Nat
  BY <1>2, SavedKnown
<1>4. /\ MakeOrderDb(o) /\ io_q' = (Tail(io_q) \o f) \o <<u>>
      /\ m_order_db_cache' = IF x.status = "FILLED" THEN Erase(m_order_db_cache, o)
                             ELSE Set(m_order_db_cache, o, s)
      /\ UNCHANGED <<m_order_list, order_q, docs, venue>>
      /\ x.status \in {"NEW", "PARTIALLY_FILLED", "FILLED"}
  BY <1>2, <1>3 DEF SaveOrder
<1>5. PICK own2 : own2 = IF o \in DOMAIN m_order_db_cache THEN own
                         ELSE [p \in DOMAIN own \cup {o} |-> IF p = o THEN n + 1 ELSE own[p]]
  OBVIOUS
<1>6. /\ Owning(own2, data_models') /\ o \in DOMAIN own2
      /\ own2[o] = order_db(o).dm /\ own2[o] \in Nat
      /\ \A p : p # o => Alike(own, own2, p) /\ (p \in DOMAIN own => own[p] # own2[o])
  <2>1. CASE o \in DOMAIN m_order_db_cache
    <3>1. own2 = own /\ data_models' = n /\ order_db(o) = m_order_db_cache[o]
      BY <1>4, <1>5, <2>1 DEF MakeOrderDb, order_db
    <3>2. o \in DOMAIN own /\ m_order_db_cache[o].dm = own[o]
      BY <1>3, <2>1
    <3>3. own[o] \in 1 .. n /\ \A p \in DOMAIN own : p # o => own[p] # own[o]
      BY <1>1, <3>2 DEF Owning
    <3> QED
      BY <1>1, <1>3, <3>1, <3>2, <3>3 DEF Alike
  <2>2. CASE o \notin DOMAIN m_order_db_cache
    <3>1. /\ own2 = [p \in DOMAIN own \cup {o} |-> IF p = o THEN n + 1 ELSE own[p]]
          /\ data_models' = n + 1 /\ order_db(o).dm = n + 1 /\ o \notin DOMAIN own
      BY <1>3, <1>4, <1>5, <2>2 DEF MakeOrderDb, order_db
    <3>2. PICK k \in Nat, c \in Ids : k = n /\ c = o
      BY <1>3
    <3>3. /\ own2 = [p \in DOMAIN own \cup {c} |-> IF p = c THEN k + 1 ELSE own[p]]
          /\ Owning(own, k) /\ c \notin DOMAIN own
      BY <1>1, <3>1, <3>2
    <3>4. /\ Owning(own2, k + 1) /\ c \in DOMAIN own2 /\ own2[c] = k + 1
          /\ \A p : p # c => Alike(own, own2, p)
          /\ \A p \in DOMAIN own : own[p] # k + 1
      BY <3>3, OwningMore
    <3> QED
      BY <3>1, <3>2, <3>4
  <2> QED
    BY <2>1, <2>2
<1>7. Types /\ CacheType
  BY DEF IInv, Types
<1>8. s = [dm |-> own2[o], object |-> x]
  <2>1. order_db(o) = [dm |-> order_db(o).dm, object |-> order_db(o).object]
    BY <1>3, <1>4, <1>7, OrderDb
  <2> QED
    BY <1>6, <2>1
<1> HIDE DEF s
<1>9. /\ u \in IoTasks /\ u.op = "update_data_model" /\ u.dm = own2[o] /\ u.order = x
  BY <1>3, <1>6, <1>8, MadeIoTask
<1> HIDE DEF u
<1>10. f \in Seq(IoTasks) /\ Storing(f, own2[o])
  <2>1. CASE o \in DOMAIN m_order_db_cache
    BY <2>1 DEF Created, Storing
  <2>2. CASE o \notin DOMAIN m_order_db_cache
    <3> DEFINE t == IoTask("init_data_model", n + 1, NoOrder)
    <3>1. f = <<t>> /\ order_db(o).dm = n + 1
      BY <2>2 DEF Created, order_db
    <3>2. t \in IoTasks /\ t.op = "init_data_model" /\ t.dm = n + 1
      BY <1>3, NoOrderFacts, MadeIoTask
    <3> HIDE DEF t, f
    <3> QED
      BY <1>6, <1>9, <3>1, <3>2 DEF Storing
  <2> QED
    BY <2>1, <2>2
<1> HIDE DEF f
<1>11. PICK io2 : io2 = (Tail(io_q) \o f) \o <<u>>
  OBVIOUS
<1>12. /\ Ran(io_q, io2) /\ Len(io2) \in 1 .. Len(io2) /\ io2[Len(io2)] = u
       /\ AddsFor(io_q, io2, own2[o])
  <2>1. Behind(io_q, io2, f, u)
    BY <1>3, <1>9, <1>10, <1>11 DEF Behind
  <2>2. /\ Ran(io_q, io2) /\ Len(io2) \in 1 .. Len(io2) /\ io2[Len(io2)] = u
        /\ AddsFor(io_q, io2, u.dm)
    BY <1>3, <1>9, <1>10, <2>1, IoRan
  <2> QED
    BY <1>9, <2>2
<1>13. Writes(io2, docs, own2[o], x)
  <2>1. io2 \in Seq(IoTasks) /\ Stores(io2[Len(io2)], own2[o])
    BY <1>9, <1>12 DEF Ran, Stores
  <2> QED
    BY <1>9, <1>12, <2>1, LastWrites
<1>14. PICK C2 : C2 = m_order_db_cache'
  OBVIOUS
<1>15. /\ \A p : p # o => Alike(m_order_db_cache, C2, p)
       /\ o \in DOMAIN C2 <=> x.status # "FILLED"
       /\ o \in DOMAIN C2 => C2[o] = s
  <2>1. CASE x.status = "FILLED"
    <3>1. C2 = [p \in DOMAIN m_order_db_cache \ {o} |-> m_order_db_cache[p]]
      BY <1>4, <1>14, <2>1 DEF Erase, Restrict
    <3> QED
      BY <2>1, <3>1 DEF Alike
  <2>2. CASE x.status # "FILLED"
    <3>1. C2 = [p \in DOMAIN m_order_db_cache \cup {o} |->
                    IF p = o THEN s ELSE m_order_db_cache[p]]
      BY <1>4, <1>14, <2>2 DEF Set
    <3> QED
      BY <2>2, <3>1 DEF Alike
  <2> QED
    BY <2>1, <2>2
<1>16. ASSUME NEW p \in Ids
       PROVE  Filed(order_q, m_order_list, io2, C2, docs, venue[p].status, own2, p)
  <2>1. PICK st : st = venue[p].status
    OBVIOUS
  <2>2. CASE p = o
    <3>1. o \in DOMAIN C2 => C2[o].dm = own2[o] /\ C2[o].object.id = o
      BY <1>8, <1>15
    <3>2. /\ Entry(order_q, m_order_list, st, o)
          /\ Filed(order_q, m_order_list, io_q, m_order_db_cache, docs, st, own, o)
      BY <1>3, <2>1, <2>2
    <3>3. Filed(order_q, m_order_list, io2, C2, docs, st, own2, o)
      BY <1>3, <1>4, <1>6, <1>12, <1>13, <1>15, <3>1, <3>2, FiledSaved
    <3> QED
      BY <2>1, <2>2, <3>3
  <2>3. CASE p # o
    <3>1. Filed(order_q, m_order_list, io_q, m_order_db_cache, docs, st, own, p)
      BY <2>1 DEF DbOK
    <3>2. Alike(m_order_list, m_order_list, p)
      BY DEF Alike
    <3>3. Others(io_q, io2, m_order_list, m_order_list, m_order_db_cache, C2, own, own2, p)
      BY <1>3, <1>6, <1>12, <1>15, <2>3, <3>2 DEF Others
    <3>4. Filed(order_q, m_order_list, io2, C2, docs, st, own2, p)
      BY <1>3, <3>1, <3>3, OthersFiled
    <3> QED
      BY <2>1, <3>4
  <2> QED
    BY <2>2, <2>3
<1>17. DbOK(own2)'
  BY <1>1, <1>4, <1>6, <1>11, <1>14, <1>16 DEF DbOK
<1> QED
  BY <1>17

LEMMA RemoveFiles ==
    ASSUME IInv, crashes = 0, lost = {}, NEW own, DbOK(own), RemoveCanceled
    PROVE  DbOK(own)'
<1> DEFINE x == io_q[1].order
           o == x.id
           u == IoTask("remove_data_model", own[o], NoOrder)
<1>1. Owning(own, data_models) /\ NoCancels(order_q)
  BY DEF DbOK
<1>2. RunningIo("update_order_in_db") /\ Head(io_q).order.status = "CANCELED"
  BY DEF RemoveCanceled, Saving
<1>3. /\ io_q \in Seq(IoTasks) /\ io_q # <<>> /\ Head(io_q) = io_q[1] /\ x.status = "CANCELED"
      /\ o \in Ids /\ Saves(io_q[1], o)
      /\ Entry(order_q, m_order_list, venue[o].status, o)
      /\ Filed(order_q, m_order_list, io_q, m_order_db_cache, docs, venue[o].status, own, o)
      /\ o \in DOMAIN own /\ data_models \in Nat
      /\ o \in DOMAIN m_order_db_cache
      /\ m_order_db_cache[o].dm = own[o] /\ m_order_db_cache[o].object.id = o
  BY <1>2, SavedKnown
<1>4. order_db(o) = m_order_db_cache[o] /\ Created(o) = <<>> /\ order_db(o).object.id = o
  BY <1>3 DEF order_db, Created
<1>5. /\ io_q' = (Tail(io_q) \o <<>>) \o <<u>>
      /\ m_order_db_cache' = Erase(Set(m_order_db_cache, o, order_db(o)), o)
      /\ m_order_list' = Erase(m_order_list, o)
      /\ MakeOrderDb(o)
      /\ UNCHANGED <<order_q, docs, venue>>
  <2>1. /\ MakeOrderDb(o)
        /\ io_q' = Tail(io_q) \o Created(o)
                      \o <<IoTask("remove_data_model", order_db(o).dm, NoOrder)>>
        /\ m_order_db_cache' = Erase(Set(m_order_db_cache, o, order_db(o)), order_db(o).object.id)
        /\ m_order_list' = Erase(m_order_list, order_db(o).object.id)
        /\ UNCHANGED <<order_q, docs, venue>>
    BY <1>3 DEF RemoveCanceled
  <2> QED
    BY <1>3, <1>4, <2>1
<1>6. data_models' = data_models
  BY <1>3, <1>5 DEF MakeOrderDb
<1>7. own[o] \in Nat /\ \A p \in DOMAIN own : p # o => own[p] # own[o]
  BY <1>1, <1>3 DEF Owning
<1>8. u \in IoTasks /\ u.op = "remove_data_model" /\ u.dm = own[o]
  BY <1>7, NoOrderFacts, MadeIoTask
<1> HIDE DEF u
<1>9. PICK f, io2 : f = <<>> /\ io2 = (Tail(io_q) \o f) \o <<u>>
  OBVIOUS
<1>10. /\ Ran(io_q, io2) /\ Len(io2) \in 1 .. Len(io2) /\ io2[Len(io2)] = u
       /\ AddsFor(io_q, io2, own[o])
  <2>1. Behind(io_q, io2, f, u) /\ f \in Seq(IoTasks)
    BY <1>3, <1>8, <1>9 DEF Behind, Storing
  <2>2. /\ Ran(io_q, io2) /\ Len(io2) \in 1 .. Len(io2) /\ io2[Len(io2)] = u
        /\ AddsFor(io_q, io2, u.dm)
    BY <1>3, <1>8, <2>1, IoRan
  <2> QED
    BY <1>8, <2>2
<1>11. Removes(io2, docs, own[o])
  <2>1. io2 \in Seq(IoTasks) /\ Stores(io2[Len(io2)], own[o])
    BY <1>8, <1>10 DEF Ran, Stores
  <2> QED
    BY <1>8, <1>10, <2>1, LastWrites
<1>12. PICK C2, L2 : C2 = m_order_db_cache' /\ L2 = m_order_list'
  OBVIOUS
<1>13. o \notin DOMAIN C2 /\ \A p : p # o => Alike(m_order_db_cache, C2, p)
  <2>1. PICK S : S = Set(m_order_db_cache, o, order_db(o))
    OBVIOUS
  <2>2. S = [p \in DOMAIN m_order_db_cache \cup {o} |->
                 IF p = o THEN order_db(o) ELSE m_order_db_cache[p]]
    BY <2>1 DEF Set
  <2>3. C2 = [p \in DOMAIN S \ {o} |-> S[p]]
    BY <1>5, <1>12, <2>1 DEF Erase, Restrict
  <2> QED
    BY <2>2, <2>3 DEF Alike
<1>14. o \notin DOMAIN L2 /\ \A p : p # o => Alike(m_order_list, L2, p)
  <2>1. L2 = [p \in DOMAIN m_order_list \ {o} |-> m_order_list[p]]
    BY <1>5, <1>12 DEF Erase, Restrict
  <2> QED
    BY <2>1 DEF Alike
<1>15. ASSUME NEW p \in Ids
       PROVE  Filed(order_q, L2, io2, C2, docs, venue[p].status, own, p)
  <2>1. PICK st : st = venue[p].status
    OBVIOUS
  <2>2. CASE p = o
    <3>1. /\ Entry(order_q, m_order_list, st, o) /\ x.status \in DropStatus
          /\ Filed(order_q, m_order_list, io_q, m_order_db_cache, docs, st, own, o)
      BY <1>3, <2>1, <2>2 DEF DropStatus
    <3>2. Filed(order_q, L2, io2, C2, docs, st, own, o)
      BY <1>3, <1>10, <1>11, <1>13, <1>14, <3>1, FiledDropped
    <3> QED
      BY <2>1, <2>2, <3>2
  <2>3. CASE p # o
    <3>1. Filed(order_q, m_order_list, io_q, m_order_db_cache, docs, st, own, p)
      BY <2>1 DEF DbOK
    <3>2. Others(io_q, io2, m_order_list, L2, m_order_db_cache, C2, own, own, p)
      <4>1. Alike(own, own, p)
        BY DEF Alike
      <4> QED
        BY <1>3, <1>7, <1>10, <1>13, <1>14, <2>3, <4>1 DEF Others
    <3>3. Filed(order_q, L2, io2, C2, docs, st, own, p)
      BY <1>3, <3>1, <3>2, OthersFiled
    <3> QED
      BY <2>1, <3>3
  <2> QED
    BY <2>2, <2>3
<1> QED
  BY <1>1, <1>5, <1>6, <1>9, <1>12, <1>15 DEF DbOK

LEMMA DropFiles ==
    ASSUME IInv, crashes = 0, lost = {}, NEW own, DbOK(own), DropRejected
    PROVE  DbOK(own)'
<1> DEFINE x == io_q[1].order
           o == x.id
<1>1. Owning(own, data_models) /\ NoCancels(order_q)
  BY DEF DbOK
<1>2. RunningIo("update_order_in_db") /\ Head(io_q).order.status = "REJECTED"
  BY DEF DropRejected, Saving
<1>3. /\ io_q \in Seq(IoTasks) /\ io_q # <<>> /\ Head(io_q) = io_q[1] /\ x.status = "REJECTED"
      /\ o \in Ids /\ Saves(io_q[1], o)
      /\ Entry(order_q, m_order_list, venue[o].status, o)
      /\ Filed(order_q, m_order_list, io_q, m_order_db_cache, docs, venue[o].status, own, o)
      /\ o \notin DOMAIN own /\ o \notin DOMAIN m_order_db_cache
  BY <1>2, SavedKnown
<1>4. /\ io_q' = Tail(io_q) /\ m_order_list' = Erase(m_order_list, o)
      /\ UNCHANGED <<order_q, docs, venue, m_order_db_cache, data_models>>
  BY <1>3 DEF DropRejected
<1>5. PICK io2, L2 : io2 = Tail(io_q) /\ L2 = m_order_list'
  OBVIOUS
<1>6. Ran(io_q, io2) /\ Added(io_q, io2, 1) = {}
  BY <1>3, <1>5, IoTailRan
<1>7. o \notin DOMAIN L2 /\ \A p : p # o => Alike(m_order_list, L2, p)
  <2>1. L2 = [p \in DOMAIN m_order_list \ {o} |-> m_order_list[p]]
    BY <1>4, <1>5 DEF Erase, Restrict
  <2> QED
    BY <2>1 DEF Alike
<1>8. ASSUME NEW p \in Ids
      PROVE  Filed(order_q, L2, io2, m_order_db_cache, docs, venue[p].status, own, p)
  <2>1. PICK st : st = venue[p].status
    OBVIOUS
  <2>2. CASE p = o
    <3>1. /\ Entry(order_q, m_order_list, st, o) /\ x.status \in DropStatus
          /\ Filed(order_q, m_order_list, io_q, m_order_db_cache, docs, st, own, o)
      BY <1>3, <2>1, <2>2 DEF DropStatus
    <3>2. Filed(order_q, L2, io2, m_order_db_cache, docs, st, own, o)
      BY <1>3, <1>6, <1>7, <3>1, FiledDropped
    <3> QED
      BY <2>1, <2>2, <3>2
  <2>3. CASE p # o
    <3>1. Filed(order_q, m_order_list, io_q, m_order_db_cache, docs, st, own, p)
      BY <2>1 DEF DbOK
    <3>2. /\ AddsFor(io_q, io2, 0) /\ (p \in DOMAIN own => own[p] # 0)
          /\ Alike(own, own, p) /\ Alike(m_order_db_cache, m_order_db_cache, p)
      <4>1. p \in DOMAIN own => own[p] # 0
        BY <1>1 DEF Owning
      <4> QED
        BY <1>6, <4>1 DEF AddsFor, Alike
    <3>3. Others(io_q, io2, m_order_list, L2, m_order_db_cache, m_order_db_cache, own, own, p)
      BY <1>3, <1>6, <1>7, <2>3, <3>2 DEF Others
    <3>4. Filed(order_q, L2, io2, m_order_db_cache, docs, st, own, p)
      BY <1>3, <3>1, <3>3, OthersFiled
    <3> QED
      BY <2>1, <3>4
  <2> QED
    BY <2>2, <2>3
<1> QED
  BY <1>1, <1>4, <1>5, <1>8 DEF DbOK

\* One database operation, which leaves the collection D2.
LEMMA StoreFiles ==
    ASSUME IInv, crashes = 0, lost = {}, NEW own, DbOK(own),
           NEW op, op # "update_order_in_db", NEW D2, Store(op, D2),
           \A d : d # io_q[1].dm => Alike(docs, D2, d),
           op = "update_data_model" =>
               io_q[1].dm \in DOMAIN D2 /\ D2[io_q[1].dm] = io_q[1].order,
           op = "remove_data_model" => io_q[1].dm \notin DOMAIN D2
    PROVE  DbOK(own)'
<1>1. Owning(own, data_models) /\ NoCancels(order_q) /\ Types
  BY DEF DbOK, IInv
<1>2. /\ RunningIo(op) /\ docs' = D2 /\ io_q' = Tail(io_q)
      /\ UNCHANGED <<m_order_list, order_q, m_order_db_cache, data_models, venue>>
  BY DEF Store
<1>3. io_q # <<>> /\ io_q[1].op = op /\ io_q \in Seq(IoTasks)
  BY <1>1, <1>2, IoTaken
<1>4. PICK io2 : io2 = Tail(io_q)
  OBVIOUS
<1>5. /\ Ran(io_q, io2) /\ Added(io_q, io2, 1) = {} /\ io2 \in Seq(IoTasks)
      /\ Shift(io_q, io2, 1)
  BY <1>3, <1>4, IoTailRan DEF Ran
<1>6. ASSUME NEW p \in Ids
      PROVE  Filed(order_q, m_order_list, io2, m_order_db_cache, D2, venue[p].status, own, p)
  <2>1. PICK st : st = venue[p].status
    OBVIOUS
  <2>2. Filed(order_q, m_order_list, io_q, m_order_db_cache, docs, st, own, p)
    BY <2>1 DEF DbOK
  <2>3. SavesAside(io_q, io2, 1, p)
    BY <1>3, <1>5 DEF SavesAside, Saves
  <2>4. /\ Alike(m_order_list, m_order_list, p) /\ Alike(own, own, p)
        /\ Alike(m_order_db_cache, m_order_db_cache, p)
    BY DEF Alike
  <2>5. CASE p \in DOMAIN own => own[p] # io_q[1].dm
    <3>1. p \in DOMAIN own => StoresAside(io_q, io2, 1, own[p]) /\ Alike(docs, D2, own[p])
      BY <1>5, <2>5 DEF StoresAside, Stores
    <3>2. Once(order_q, m_order_list, p)
      BY <2>2 DEF Filed
    <3>3. Filed(order_q, m_order_list, io2, m_order_db_cache, D2, st, own, p)
      BY <1>3, <1>5, <2>2, <2>3, <2>4, <3>1, <3>2, FiledElsewhere
    <3> QED
      BY <2>1, <3>3
  <2>6. CASE p \in DOMAIN own /\ own[p] = io_q[1].dm
    <3>1. /\ BeingSaved(io_q, m_order_list, own, p) /\ Once(order_q, m_order_list, p)
          /\ Caching(order_q, m_order_list, io_q, m_order_db_cache, st, own, p)
          /\ Settled(m_order_list, io_q, docs, own, p)
      BY <2>2 DEF Filed
    <3>2. BeingSaved(io2, m_order_list, own, p) /\ (NoSaves(io_q, p) <=> NoSaves(io2, p))
      BY <1>3, <1>5, <2>3, <2>4, <3>1, SavesMoved
    <3>3. Caching(order_q, m_order_list, io2, m_order_db_cache, st, own, p)
      BY <3>1, <3>2 DEF Caching
    <3>4. PICK e : e = own[p]
      OBVIOUS
    <3>5. /\ Stores(io_q[1], e)
          /\ io_q[1].op = "update_data_model" => e \in DOMAIN D2 /\ D2[e] = io_q[1].order
          /\ io_q[1].op = "remove_data_model" => e \notin DOMAIN D2
      BY <1>3, <2>6, <3>4 DEF Stores
    <3>6. ASSUME NEW x
          PROVE  /\ Writes(io_q, docs, e, x) => Writes(io2, D2, e, x)
                 /\ Removes(io_q, docs, e) => Removes(io2, D2, e)
      BY <1>3, <1>4, <3>5, StoresTaken
    <3>7. Settled(m_order_list, io2, D2, own, p)
      BY <3>1, <3>2, <3>4, <3>6 DEF Settled
    <3> QED
      BY <2>1, <3>1, <3>2, <3>3, <3>7 DEF Filed
  <2> QED
    BY <2>5, <2>6
<1> QED
  BY <1>1, <1>2, <1>4, <1>6 DEF DbOK

LEMMA DatabaseFiles ==
    ASSUME IInv, crashes = 0, lost = {}, NEW own, DbOK(own),
           InitDataModel \/ UpdateDataModel \/ RemoveDataModel
    PROVE  DbOK(own)'
<1>1. Types
  BY DEF IInv
<1>2. ASSUME NEW k, NEW x, NEW D2, D2 = Set(docs, k, x)
      PROVE  k \in DOMAIN D2 /\ D2[k] = x /\ \A d : d # k => Alike(docs, D2, d)
  BY <1>2 DEF Set, Alike
<1>3. CASE InitDataModel
  <2>1. PICK D2 : D2 = Set(docs, Head(io_q).dm, NoOrder) /\ Store("init_data_model", D2)
    BY <1>3 DEF InitDataModel
  <2>2. Head(io_q) = io_q[1]
    BY <1>1, <2>1, IoTaken DEF Store
  <2> QED
    BY <1>2, <2>1, <2>2, StoreFiles
<1>4. CASE UpdateDataModel
  <2>1. PICK D2 : /\ D2 = Set(docs, Head(io_q).dm, Head(io_q).order)
                  /\ Store("update_data_model", D2)
    BY <1>4 DEF UpdateDataModel
  <2>2. Head(io_q) = io_q[1]
    BY <1>1, <2>1, IoTaken DEF Store
  <2> QED
    BY <1>2, <2>1, <2>2, StoreFiles
<1>5. CASE RemoveDataModel
  <2>1. PICK D2 : D2 = Erase(docs, Head(io_q).dm) /\ Store("remove_data_model", D2)
    BY <1>5 DEF RemoveDataModel
  <2>2. Head(io_q) = io_q[1]
    BY <1>1, <2>1, IoTaken DEF Store
  <2>3. D2 = [d \in DOMAIN docs \ {io_q[1].dm} |-> docs[d]]
    BY <2>1, <2>2 DEF Erase, Restrict
  <2>4. io_q[1].dm \notin DOMAIN D2 /\ \A d : d # io_q[1].dm => Alike(docs, D2, d)
    BY <2>3 DEF Alike
  <2> QED
    BY <2>1, <2>4, StoreFiles
<1> QED
  BY <1>3, <1>4, <1>5

LEMMA DbStep == ASSUME IInv, DueInv, DbInv, Next PROVE DbInv'
<1> SUFFICES ASSUME crashes' = 0, cancels' = 0, lost' = {} PROVE \E own : DbOK(own)'
  BY DEF DbInv
<1>1. crashes \in Nat /\ cancels \in Nat
  BY DEF IInv, Types
<1>2. ~Stop
  BY <1>1 DEF Stop
<1>3. \A o \in Ids : ~Cancel(o)
  BY <1>1 DEF Cancel
<1>4. ~Crash /\ ~Terminate
  BY <1>2 DEF Crash, Terminate
<1>5. crashes = 0 /\ cancels = 0 /\ lost = {}
  <2>1. CASE \E o \in Ids : Exchange(o)
    BY <2>1 DEF Exchange, Accept, Reject, PartialFill, Fill, CancelOnExchange, Expire,
                AcceptUnanswered, AnswerLost, Loses, Report, managed
  <2>2. CASE \E o \in Ids : Place(o)
    BY <2>2 DEF Place, managed
  <2>3. CASE \E S \in SUBSET Ids : \E orders \in SetToSeqs(S) : ExecutePriceUpdate(orders)
    BY <2>3 DEF ExecutePriceUpdate, managed
  <2>4. CASE OrderThread
    BY <2>4 DEF OrderThread, HandleUpdateOrder, ExecutePlace, ExecuteCancel, managed
  <2>5. CASE IoThread
    BY <1>4, <2>5 DEF IoThread, DropRejected, RemoveCanceled, SaveOrder, InitDataModel,
                      UpdateDataModel, RemoveDataModel, Store
  <2>6. CASE Start \/ FailToStart
    BY <2>6 DEF Start, FailToStart
  <2> QED
    BY <1>3, <1>4, <2>1, <2>2, <2>3, <2>4, <2>5, <2>6 DEF Next
<1>6. PICK own : DbOK(own)
  BY <1>5 DEF DbInv
<1>7. engine = "up"
  BY <1>5 DEF IInv, FreshInv
<1>8. ~Start /\ ~FailToStart
  BY <1>7 DEF Start, FailToStart
<1>9. ASSUME NEW d \in {0, 1}, Relays(d), UNCHANGED managed PROVE DbOK(own)'
  BY <1>5, <1>6, <1>9, RelayStep
<1>10. ASSUME NEW o \in Ids, Exchange(o) \/ Place(o) PROVE DbOK(own)'
  BY <1>5, <1>9, <1>10, ExchangeRelays, PlaceRelays
<1>11. ASSUME NEW S \in SUBSET Ids, NEW orders \in SetToSeqs(S), ExecutePriceUpdate(orders)
       PROVE  DbOK(own)'
  BY <1>9, <1>11, PriceRelays
<1>12. ASSUME ExecutePlace PROVE DbOK(own)'
  BY <1>9, <1>12, AcceptRelays
<1>13. ASSUME ExecuteCancel PROVE FALSE
  <2>1. order_q \in Seq(OrderTasks) /\ order_q # <<>> /\ Head(order_q).op = "execute_cancel"
    BY <1>13 DEF ExecuteCancel, Running, IInv, Types
  <2>2. Head(order_q) = order_q[1] /\ 1 \in 1 .. Len(order_q)
    BY <2>1, Taken
  <2> QED
    BY <1>6, <2>1, <2>2 DEF DbOK, NoCancels
<1>14. ASSUME HandleUpdateOrder PROVE DbOK(own)'
  BY <1>5, <1>6, <1>14, HandleFiles
<1>15. ASSUME DropRejected \/ RemoveCanceled PROVE DbOK(own)'
  BY <1>5, <1>6, <1>15, DropFiles, RemoveFiles
<1>16. ASSUME SaveOrder PROVE \E own2 : DbOK(own2)'
  BY <1>5, <1>6, <1>16, SaveFiles
<1>17. ASSUME InitDataModel \/ UpdateDataModel \/ RemoveDataModel PROVE DbOK(own)'
  BY <1>5, <1>6, <1>17, DatabaseFiles
<1> QED
  BY <1>3, <1>4, <1>8, <1>10, <1>11, <1>12, <1>13, <1>14, <1>15, <1>16, <1>17
     DEF Next, OrderThread, IoThread

LEMMA DbInitially == Init => DbInv
<1> SUFFICES ASSUME Init PROVE DbInv
  OBVIOUS
<1>1. /\ DOMAIN m_order_list = {} /\ order_q = <<>> /\ io_q = <<>>
      /\ DOMAIN m_order_db_cache = {} /\ data_models = 0
  BY EmptyFacts DEF Init
<1>2. PICK own : own = EmptyMap
  OBVIOUS
<1>3. DOMAIN own = {} /\ own = [x \in {} |-> 0]
  BY <1>2, EmptyFacts DEF EmptyMap
<1>4. Owning(own, data_models) /\ NoCancels(order_q)
  BY <1>1, <1>3 DEF Owning, NoCancels
<1>5. ASSUME NEW o \in Ids
      PROVE  Filed(order_q, m_order_list, io_q, m_order_db_cache, docs,
                   venue[o].status, own, o)
  <2>1. Once(order_q, m_order_list, o)
    BY <1>1 DEF Once, Listed
  <2>2. BeingSaved(io_q, m_order_list, own, o)
    BY <1>1 DEF BeingSaved
  <2>3. Caching(order_q, m_order_list, io_q, m_order_db_cache, venue[o].status, own, o)
    BY <1>1, <1>3 DEF Caching
  <2>4. Settled(m_order_list, io_q, docs, own, o)
    BY <1>1, <1>3 DEF Settled, Listed
  <2> QED
    BY <2>1, <2>2, <2>3, <2>4 DEF Filed
<1>6. DbOK(own)
  BY <1>4, <1>5 DEF DbOK
<1> QED
  BY <1>6 DEF DbInv

LEMMA DbStutter == ASSUME DbInv, UNCHANGED vars PROVE DbInv'
BY DEF DbInv, DbOK, vars, memory

\* With both event bases idle each order in the list has the document of its
\* own DataModel, and every document is one of these.
LEMMA DbSettled == ASSUME IInv, DbInv PROVE DatabaseAgrees
<1> SUFFICES ASSUME crashes = 0, cancels = 0, lost = {}, io_q = <<>>
             PROVE  /\ Cardinality(DOMAIN docs) = Cardinality(DOMAIN m_order_list)
                    /\ Range(docs) = Range(m_order_list)
  BY DEF DatabaseAgrees
<1>1. PICK own : DbOK(own)
  BY DEF DbInv
<1>2. /\ DOMAIN m_order_list \subseteq Ids /\ DOMAIN docs \subseteq 1 .. data_models
  BY DEF IInv, Types, ListType, DocsType
<1>3. ASSUME NEW p \in Ids
      PROVE  /\ p \in DOMAIN m_order_list =>
                    /\ p \in DOMAIN own /\ own[p] \in DOMAIN docs
                    /\ docs[own[p]] = m_order_list[p]
             /\ p \notin DOMAIN m_order_list /\ p \in DOMAIN own => own[p] \notin DOMAIN docs
  <2>1. Settled(m_order_list, io_q, docs, own, p)
    BY <1>1 DEF DbOK, Filed
  <2>2. NoSaves(io_q, p) /\ \A e : NoStores(io_q, e)
    BY DEF NoSaves, NoStores
  <2> QED
    BY <2>1, <2>2 DEF Settled, Listed, Writes, Removes
<1>4. /\ DOMAIN own \subseteq Ids
      /\ \A p, r \in DOMAIN own : own[p] = own[r] => p = r
      /\ \A d \in DOMAIN docs : \E p \in DOMAIN own : own[p] = d
  BY <1>1, <1>2 DEF DbOK, Owning
<1>5. \A d \in DOMAIN docs : \E p \in DOMAIN m_order_list :
          own[p] = d /\ docs[d] = m_order_list[p]
  BY <1>3, <1>4
<1>6. \A p \in DOMAIN m_order_list : own[p] \in DOMAIN docs /\ docs[own[p]] = m_order_list[p]
  BY <1>2, <1>3
<1>7. Range(docs) = Range(m_order_list)
  BY <1>5, <1>6 DEF Range
<1>8. Cardinality(DOMAIN docs) = Cardinality(DOMAIN m_order_list)
  <2>1. PICK f : f = [p \in DOMAIN m_order_list |-> own[p]]
    OBVIOUS
  <2>2. f \in Bijection(DOMAIN m_order_list, DOMAIN docs)
    <3>1. f \in [DOMAIN m_order_list -> DOMAIN docs]
      BY <1>6, <2>1
    <3>2. \A p, r \in DOMAIN m_order_list : f[p] = f[r] => p = r
      BY <1>2, <1>3, <1>4, <2>1
    <3>3. \A d \in DOMAIN docs : \E p \in DOMAIN m_order_list : f[p] = d
      BY <1>5, <2>1
    <3> QED
      BY <3>1, <3>2, <3>3 DEF Bijection, Injection, Surjection, IsInjective
  <2>3. IsFiniteSet(DOMAIN m_order_list)
    BY <1>2, IdsAssumption, FS_Subset
  <2>4. ExistsBijection(DOMAIN m_order_list, DOMAIN docs)
    BY <2>2 DEF ExistsBijection
  <2> QED
    BY <2>3, <2>4, FS_Bijection
<1> QED
  BY <1>7, <1>8

\* Until the first crash, with no cancel in the simulator, no order expired and
\* no answer of a place request lost with its connection, an idle engine
\* has one document for each order in its list, with the list's data, and no
\* other: what OrderManager and SavableObject keep of an order in the cache, in
\* the queue of the IO event base and in the collection never comes apart.
THEOREM DatabaseFollows == Spec => []DatabaseAgrees
<1>1. Init => DbInv
  BY DbInitially
<1>2. IInv /\ DueInv /\ DbInv /\ [Next]_vars => DbInv'
  BY DbStep, DbStutter
<1>3. IInv /\ DbInv => DatabaseAgrees
  BY DbSettled
<1> QED
  BY <1>1, <1>2, <1>3, Invariance, PTL DEF Spec
=============================================================================
