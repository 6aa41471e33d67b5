---------------------------- MODULE OrderManager ----------------------------
(***************************************************************************)
(* server_app/order: OrderManager and SimulatorOrder, with the part of     *)
(* core/data_model (SavableObject, DataModel) that keeps orders in the     *)
(* database.                                                               *)
(*                                                                         *)
(* Two threads work on an order.  The ORDER event base runs                *)
(* handle_update_order and the simulator's tasks; the system IO event base *)
(* runs update_order_in_db and the tasks it posts to itself, each of which *)
(* is one database operation.  Both change m_order_list.  A crash empties  *)
(* both queues and all memory; the documents stay.                         *)
(*                                                                         *)
(* An order is its id, its status and its filled_quantity: fee,            *)
(* output_quantity and volumn_in_quote_currency are sums of the same form. *)
(* A document is named by the DataModel that inserted it, so m_id is "-1"  *)
(* exactly when the DataModel has no document.                             *)
(***************************************************************************)
EXTENDS Integers, Sequences, FiniteSets, Functions, SequencesExt

CONSTANTS Ids,           \* order ids, none of them 0
          Quantity,      \* the quantity of an order
          Modes,         \* the values SimulatorOrder::get_active() may have
          MaxCancels,    \* bound: calls of SimulatorOrder::cancel
          MaxCrashes,    \* bound: crashes that are not the code's own doing
          MaxLost,       \* bound: orders that expire or whose answer is lost
          MaxReports,    \* bound: reports of the exchange waiting to be handled
          MaxSaves       \* bound: database tasks waiting when one is posted

\* Ids are 64-bit integers, so there are finitely many.
ASSUME IdsAssumption == /\ Ids \subseteq Nat \ {0} /\ IsFiniteSet(Ids)
                        /\ Quantity \in Nat \ {0}
ASSUME BoundsAssumption == /\ Modes \subseteq BOOLEAN
                           /\ MaxCancels \in Nat /\ MaxCrashes \in Nat
                           /\ MaxLost \in Nat /\ MaxReports \in Nat /\ MaxSaves \in Nat

VARIABLES
    simulator,      \* SimulatorOrder::get_active()
    engine,         \* "up", "down", or "failed": it cannot be started again
    m_order_list,   \* id -> order, for the ids in the list
    order_q,        \* tasks of the ORDER event base
    io_q,           \* tasks of the system IO event base
    m_order_db_cache,   \* id -> SavableObject: its DataModel and its object
    docs,           \* the collection order_list: DataModel -> document
    data_models,    \* how many DataModels have been made
    venue,          \* what the exchange (or the simulator's list) has of an order
    due,            \* orders the exchange took although the connection of their
                    \* request broke, which place_on_exchange does not know yet
    lost,           \* history: these, and the orders that expired
    cancels, crashes

memory == <<m_order_list, order_q, io_q, m_order_db_cache>>
\* What no step outside the two event bases' own work on updates touches.
managed == <<simulator, engine, m_order_list, io_q, m_order_db_cache, docs,
             data_models, crashes>>

vars == <<simulator, engine, memory, docs, data_models, venue, due, lost, cancels, crashes>>

Statuses == {"NOT_AVAILABLE", "NEW", "CANCELED", "REJECTED", "PARTIALLY_FILLED", "FILLED"}

Order(id, status, filled) == [id |-> id, status |-> status, filled |-> filled]

\* A default-constructed Order; as a document, the empty one.
NoOrder == Order(0, "NOT_AVAILABLE", 0)

\* The entries of the event bases' queues.
OrderTask(op, order) == [op |-> op, order |-> order]
IoTask(op, dm, order) == [op |-> op, dm |-> dm, order |-> order]

EmptyMap == [x \in {} |-> NoOrder]

\* m without its entry for k, if there is one: unordered_map::erase.
Erase(m, k) == Restrict(m, DOMAIN m \ {k})

\* m with its entry for k set.
Set(m, k, v) == [x \in DOMAIN m \cup {k} |-> IF x = k THEN v ELSE m[x]]

-----------------------------------------------------------------------------
Init ==
    /\ simulator \in Modes /\ engine = "up"
    /\ m_order_list = EmptyMap /\ order_q = <<>> /\ io_q = <<>>
    /\ m_order_db_cache = EmptyMap
    /\ docs = EmptyMap /\ data_models = 0
    /\ venue = [o \in Ids |-> [status |-> "none", filled |-> 0]]
    /\ due = {} /\ lost = {} /\ cancels = 0 /\ crashes = 0

\* OrderManager::update_order, for several orders one after the other: nobody
\* calls it while the engine is down.
update_order(orders) ==
    order_q' = IF engine = "up"
               THEN order_q \o [i \in DOMAIN orders |->
                                   OrderTask("handle_update_order", orders[i])]
               ELSE order_q

-----------------------------------------------------------------------------
(* The exchange: its reports become calls of update_order. *)

Report(o, from, to, status, filled) ==
    /\ ~simulator /\ venue[o].status = from /\ Len(order_q) < MaxReports
    /\ venue' = [venue EXCEPT ![o] = [status |-> to, filled |-> @.filled + filled]]
    /\ update_order(<<Order(o, status, filled)>>)
    /\ UNCHANGED <<managed, cancels>>

Accept(o) == Report(o, "sent", "open", "NEW", 0) /\ UNCHANGED <<due, lost>>

\* The exchange did not take the order: it answered with a negative code, or
\* the connection broke before.
Reject(o) == Report(o, "sent", "closed", "REJECTED", 0) /\ UNCHANGED <<due, lost>>

PartialFill(o) ==
    /\ venue[o].filled + 1 < Quantity
    /\ Report(o, "open", "open", "PARTIALLY_FILLED", 1) /\ UNCHANGED <<due, lost>>

Fill(o) ==
    /\ Report(o, "open", "closed", "FILLED", Quantity - venue[o].filled)
    /\ UNCHANGED <<due, lost>>

CancelOnExchange(o) ==
    Report(o, "open", "closed", "CANCELED", 0) /\ UNCHANGED <<due, lost>>

Loses(o) == Cardinality(lost) < MaxLost /\ lost' = lost \cup {o}

\* A status on_message does not know, EXPIRED, leaves the Order it has made as
\* it was: NEW, with nothing filled.
Expire(o) == Report(o, "open", "closed", "NEW", 0) /\ Loses(o) /\ UNCHANGED due

\* The exchange takes the order and the connection breaks before its answer.
AcceptUnanswered(o) ==
    /\ engine = "up" /\ Loses(o) /\ due' = due \cup {o}
    /\ Report(o, "sent", "open", "NEW", 0)

\* Some seconds later send_binance_request answers -1, and place_on_exchange
\* reports REJECTED, whatever became of the order meanwhile.
AnswerLost(o) ==
    /\ o \in due /\ due' = due \ {o} /\ UNCHANGED lost
    /\ Report(o, venue[o].status, venue[o].status, "REJECTED", 0)

-----------------------------------------------------------------------------
(* OrderEntry and SimulatorOrder *)

\* OrderEntry::place.  An id is used once.
Place(o) ==
    /\ engine = "up" /\ venue[o].status = "none"
    /\ venue' = [venue EXCEPT ![o].status = "sent"]
    /\ order_q' = IF simulator
                  THEN Append(order_q, OrderTask("execute_place", Order(o, "NEW", 0)))
                  ELSE order_q
    /\ UNCHANGED <<managed, due, lost, cancels>>

\* SimulatorOrder::cancel, called with the caller's copy of the order.
Cancel(o) ==
    /\ engine = "up" /\ simulator /\ venue[o].status # "none"
    /\ cancels < MaxCancels /\ cancels' = cancels + 1
    /\ order_q' = Append(order_q, OrderTask("execute_cancel", Order(o, "NEW", 0)))
    /\ UNCHANGED <<managed, venue, due, lost>>

\* The ORDER event base takes a task of this kind, which may post others.
Running(op) == engine = "up" /\ order_q # <<>> /\ Head(order_q).op = op

Posts(op, order) ==
    order_q' = Append(Tail(order_q), OrderTask(op, order))

ExecutePlace ==
    /\ Running("execute_place")
    /\ venue' = [venue EXCEPT ![Head(order_q).order.id].status = "open"]
    /\ Posts("handle_update_order", Head(order_q).order)
    /\ UNCHANGED <<managed, due, lost, cancels>>

\* The order is erased from the simulator's list if it is there, and reported
\* as canceled in either case.
ExecuteCancel ==
    /\ Running("execute_cancel")
    /\ LET order == Head(order_q).order IN
       /\ venue' = [venue EXCEPT ![order.id].status = "closed"]
       /\ Posts("handle_update_order", [order EXCEPT !.status = "CANCELED"])
    /\ UNCHANGED <<managed, due, lost, cancels>>

\* execute_price_update: a price crosses the limits of some open orders, which
\* are filled in the order the hash map has them.  Prices are posted all the
\* time, so the task may run between any two others.
ExecutePriceUpdate(orders) ==
    /\ engine = "up" /\ simulator /\ orders # <<>>
    /\ \A i \in DOMAIN orders : venue[orders[i]].status = "open"
    /\ venue' = [o \in Ids |-> IF o \in Range(orders)
                               THEN [status |-> "closed", filled |-> Quantity]
                               ELSE venue[o]]
    /\ update_order([i \in DOMAIN orders |-> Order(orders[i], "FILLED", Quantity)])
    /\ UNCHANGED <<managed, due, lost, cancels>>

-----------------------------------------------------------------------------
(* OrderManager on the ORDER event base *)

\* get_order_by_id: a new id gets a default order.
get_order_by_id(id) ==
    IF id \in DOMAIN m_order_list THEN m_order_list[id] ELSE [NoOrder EXCEPT !.id = id]

\* Mutant: a fill replaces what was filled before.
Merged_Replaces(order, current) ==
    IF order.status \notin {"FILLED", "PARTIALLY_FILLED"} THEN order
    ELSE [order EXCEPT !.status = IF order.filled = Quantity THEN "FILLED" ELSE @]

\* Mutant: what was filled before is added twice.
Merged_Twice(order, current) ==
    LET filled == order.filled + 2 * current.filled IN
    IF order.status \notin {"FILLED", "PARTIALLY_FILLED"} THEN order
    ELSE [order EXCEPT !.filled = filled,
                       !.status = IF filled = Quantity THEN "FILLED" ELSE @]

\* The order that handle_update_order stores, notifies and saves: a fill adds
\* to what the list has of the order.
Merged(order, current) ==
    LET filled == order.filled + current.filled IN
    IF order.status \notin {"FILLED", "PARTIALLY_FILLED"} THEN order
    ELSE [order EXCEPT !.filled = filled,
                       !.status = IF filled = Quantity THEN "FILLED" ELSE @]

HandleUpdateOrder ==
    /\ Running("handle_update_order") /\ Len(io_q) < MaxSaves
    /\ LET order == Head(order_q).order
           merged == Merged(order, get_order_by_id(order.id))
       IN  /\ m_order_list' = Set(m_order_list, order.id, merged)
           /\ io_q' = Append(io_q, IoTask("update_order_in_db", 0, merged))
    /\ order_q' = Tail(order_q)
    /\ UNCHANGED <<simulator, engine, m_order_db_cache, docs, data_models, venue, due, lost,
                   cancels, crashes>>

-----------------------------------------------------------------------------
(* update_order_in_db and the tasks of SavableObject, on the IO event base *)

RunningIo(op) == engine = "up" /\ io_q # <<>> /\ Head(io_q).op = op

Saving(statuses) ==
    RunningIo("update_order_in_db") /\ Head(io_q).order.status \in statuses

\* A rejected order was never saved: it only leaves the list.
DropRejected ==
    /\ Saving({"REJECTED"})
    /\ m_order_list' = Erase(m_order_list, Head(io_q).order.id)
    /\ io_q' = Tail(io_q)
    /\ UNCHANGED <<simulator, engine, order_q, m_order_db_cache, docs, data_models,
                   venue, due, lost, cancels, crashes>>

\* The cached SavableObject of an order, or a new one with a default object,
\* whose DataModel a task is still to insert.
order_db(id) ==
    IF id \in DOMAIN m_order_db_cache THEN m_order_db_cache[id]
    ELSE [dm |-> data_models + 1, object |-> NoOrder]

Created(id) ==
    IF id \in DOMAIN m_order_db_cache THEN <<>>
    ELSE <<IoTask("init_data_model", data_models + 1, NoOrder)>>

MakeOrderDb(id) ==
    data_models' = IF id \in DOMAIN m_order_db_cache THEN data_models ELSE data_models + 1

\* Mutant: the document stays.
RemoveCanceled_KeepsDocument ==
    /\ Saving({"CANCELED"})
    /\ LET id == Head(io_q).order.id
           saved == order_db(id).object.id
       IN  /\ MakeOrderDb(id)
           /\ io_q' = Tail(io_q) \o Created(id)
           /\ m_order_db_cache' = Erase(Set(m_order_db_cache, id, order_db(id)), saved)
           /\ m_order_list' = Erase(m_order_list, saved)
    /\ UNCHANGED <<simulator, engine, order_q, docs, venue, due, lost, cancels, crashes>>

\* A canceled order: the document goes, and the id of the SavableObject's
\* object leaves the cache and the list (0 if the object has just been made).
RemoveCanceled ==
    /\ Saving({"CANCELED"})
    /\ LET id == Head(io_q).order.id
           saved == order_db(id).object.id
       IN  /\ MakeOrderDb(id)
           /\ io_q' = Tail(io_q) \o Created(id)
                       \o <<IoTask("remove_data_model", order_db(id).dm, NoOrder)>>
           /\ m_order_db_cache' = Erase(Set(m_order_db_cache, id, order_db(id)), saved)
           /\ m_order_list' = Erase(m_order_list, saved)
    /\ UNCHANGED <<simulator, engine, order_q, docs, venue, due, lost, cancels, crashes>>

\* Mutant: a partly filled order leaves the cache too.
SaveOrder_Forgets ==
    /\ Saving({"NEW", "PARTIALLY_FILLED", "FILLED"})
    /\ LET order == Head(io_q).order
           saved == [order_db(order.id) EXCEPT !.object = order]
       IN  /\ MakeOrderDb(order.id)
           /\ io_q' = Tail(io_q) \o Created(order.id)
                       \o <<IoTask("update_data_model", saved.dm, order)>>
           /\ m_order_db_cache' = IF order.status # "NEW"
                                   THEN Erase(m_order_db_cache, order.id)
                                   ELSE Set(m_order_db_cache, order.id, saved)
    /\ UNCHANGED <<simulator, engine, m_order_list, order_q, docs, venue, due, lost,
                   cancels, crashes>>

\* Any other order is assigned to its SavableObject; a filled one then leaves
\* the cache.
SaveOrder ==
    /\ Saving({"NEW", "PARTIALLY_FILLED", "FILLED"})
    /\ LET order == Head(io_q).order
           saved == [order_db(order.id) EXCEPT !.object = order]
       IN  /\ MakeOrderDb(order.id)
           /\ io_q' = Tail(io_q) \o Created(order.id)
                       \o <<IoTask("update_data_model", saved.dm, order)>>
           /\ m_order_db_cache' = IF order.status = "FILLED"
                                   THEN Erase(m_order_db_cache, order.id)
                                   ELSE Set(m_order_db_cache, order.id, saved)
    /\ UNCHANGED <<simulator, engine, m_order_list, order_q, docs, venue, due, lost,
                   cancels, crashes>>

\* One database operation.
Store(op, new_docs) ==
    /\ RunningIo(op) /\ docs' = new_docs /\ io_q' = Tail(io_q)
    /\ UNCHANGED <<simulator, engine, m_order_list, order_q, m_order_db_cache,
                   data_models, venue, due, lost, cancels, crashes>>

\* DataModel(db, collection): the empty document is inserted.
InitDataModel == Store("init_data_model", Set(docs, Head(io_q).dm, NoOrder))

\* DataModel::operator=(Json): the document is replaced, or inserted if there
\* is none.
UpdateDataModel == Store("update_data_model", Set(docs, Head(io_q).dm, Head(io_q).order))

\* DataModel::remove.
RemoveDataModel ==
    /\ RunningIo("remove_data_model") /\ Head(io_q).dm \in DOMAIN docs
    /\ Store("remove_data_model", Erase(docs, Head(io_q).dm))

-----------------------------------------------------------------------------
(* Crash and start *)

Stop ==
    /\ engine' = "down" /\ crashes' = crashes + 1
    /\ m_order_list' = EmptyMap /\ order_q' = <<>> /\ io_q' = <<>>
    /\ m_order_db_cache' = EmptyMap
    \* The simulator's list is in memory too.
    /\ venue' = [o \in Ids |-> IF simulator /\ venue[o].status \in {"sent", "open"}
                               THEN [venue[o] EXCEPT !.status = "closed"]
                               ELSE venue[o]]
    \* So are the coroutines of the requests.
    /\ due' = {}
    /\ UNCHANGED <<simulator, docs, data_models, lost, cancels>>

Crash == engine = "up" /\ crashes < MaxCrashes /\ Stop

\* DataModel::remove without a document makes an oid of "-1", which throws, and
\* a task that throws ends the program.
Terminate ==
    /\ RunningIo("remove_data_model") /\ Head(io_q).dm \notin DOMAIN docs
    /\ Stop

\* OrderManager::init, and with it load_objects_map: the first document of an
\* id counts, and the database gives them in any order.
Start ==
    /\ engine = "down" /\ NoOrder \notin Range(docs)
    /\ engine' = "up"
    /\ LET loaded == {docs[dm].id : dm \in DOMAIN docs} IN
       \E first \in [loaded -> DOMAIN docs] :
           /\ \A o \in loaded : docs[first[o]].id = o
           /\ m_order_list' = [o \in loaded |-> docs[first[o]]]
    /\ UNCHANGED <<simulator, order_q, io_q, m_order_db_cache, docs, data_models,
                   venue, due, lost, cancels, crashes>>

\* Order::from_json of an empty document looks up an instrument that does not
\* exist, and throws out of main.
FailToStart ==
    /\ engine = "down" /\ NoOrder \in Range(docs)
    /\ engine' = "failed"
    /\ UNCHANGED <<simulator, memory, docs, data_models, venue, due, lost, cancels, crashes>>

-----------------------------------------------------------------------------
Exchange(o) == \/ Accept(o) \/ Reject(o) \/ PartialFill(o) \/ Fill(o)
               \/ CancelOnExchange(o) \/ Expire(o) \/ AcceptUnanswered(o) \/ AnswerLost(o)

OrderThread == HandleUpdateOrder \/ ExecutePlace \/ ExecuteCancel

IoThread == \/ DropRejected \/ RemoveCanceled \/ SaveOrder
            \/ InitDataModel \/ UpdateDataModel \/ RemoveDataModel \/ Terminate

Next ==
    \/ \E o \in Ids : Exchange(o) \/ Place(o) \/ Cancel(o)
    \/ \E S \in SUBSET Ids : \E orders \in SetToSeqs(S) : ExecutePriceUpdate(orders)
    \/ OrderThread \/ IoThread
    \/ Crash \/ Start \/ FailToStart

Spec == Init /\ [][Next]_vars

\* The threads of the two event bases run their tasks.
Fairness == WF_vars(OrderThread) /\ WF_vars(IoThread)

LiveSpec == Spec /\ Fairness

-----------------------------------------------------------------------------
(* Properties *)

Orders == [id : Ids, status : Statuses, filled : Nat]

\* Every queue, map and document holds orders of the ids in use.
TypeOK ==
    /\ simulator \in BOOLEAN /\ engine \in {"up", "down", "failed"}
    /\ DOMAIN m_order_list \subseteq Ids
    /\ \A o \in DOMAIN m_order_list : m_order_list[o] \in Orders /\ m_order_list[o].id = o
    /\ \A i \in DOMAIN order_q : order_q[i].order \in Orders
    /\ \A i \in DOMAIN io_q : /\ io_q[i].order \in Orders \cup {NoOrder}
                              /\ io_q[i].dm \in 0 .. data_models
    /\ DOMAIN m_order_db_cache \subseteq Ids
    /\ \A o \in DOMAIN m_order_db_cache :
           /\ m_order_db_cache[o].dm \in 1 .. data_models
           /\ m_order_db_cache[o].object \in Orders \cup {NoOrder}
    /\ DOMAIN docs \subseteq 1 .. data_models
    /\ \A dm \in DOMAIN docs : docs[dm] \in Orders \cup {NoOrder}

\* What a task of the ORDER event base adds to the fills of an order.
Fills(task, o) == IF task.order.id = o THEN task.order.filled ELSE 0

\* The fills of an order in the first i tasks of a queue, for every i.
Sums(queue, o) ==
    LET sum[i \in 0 .. Len(queue)] ==
            IF i = 0 THEN 0 ELSE sum[i - 1] + Fills(queue[i], o)
    IN  sum

\* The fills of an order that are still in the queue of the ORDER event base.
Pending(o) == Sums(order_q, o)[Len(order_q)]

\* Until the first crash no fill is lost or counted twice: what the list says
\* an order has filled, with the reports still queued, is what was filled, and
\* it is FILLED exactly when that is the whole quantity.  This is said of the
\* orders that did not expire and whose place request was answered.
FillsAccounted ==
    engine = "up" /\ crashes = 0 =>
        \A o \in DOMAIN m_order_list \ lost :
            LET order == m_order_list[o] IN
            order.status \in {"NEW", "PARTIALLY_FILLED", "FILLED"} =>
                /\ order.filled + Pending(o) = venue[o].filled
                /\ order.status = "FILLED" <=> order.filled = Quantity

\* A fill is never counted twice, also across crashes, in the list or in the
\* database.
NeverOvercounted ==
    /\ \A o \in DOMAIN m_order_list : m_order_list[o].filled =< venue[o].filled
    /\ \A dm \in DOMAIN docs :
           docs[dm] # NoOrder => docs[dm].filled =< venue[docs[dm].id].filled

\* With no update queued and no crash so far, the orders the engine takes to be
\* open are those that are open at the exchange or in the simulator, the same
\* orders excepted.
OpenOrdersAgree ==
    engine = "up" /\ crashes = 0 /\ order_q = <<>> =>
        {o \in DOMAIN m_order_list \ lost :
             m_order_list[o].status \in {"NEW", "PARTIALLY_FILLED"}}
            = {o \in Ids \ lost : venue[o].status = "open"}

\* handle_update_order: the list agrees with the exchange about what is filled
\* and what is open, until the first crash, for every order but one that
\* expires (on_message reports it NEW with nothing filled) and one whose place
\* request the exchange took while its connection broke (place_on_exchange
\* reports it REJECTED); neither disturbs what the list has of the others.
ListAgrees == FillsAccounted /\ OpenOrdersAgree

\* update_order_in_db: with both queues empty and no crash so far, the database
\* has one document for each order in the list, with the list's data, and no
\* other, as long as the end of an order is reported once (the simulator's
\* cancel may repeat it) and no order was lost in one of those two ways.
DatabaseAgrees ==
    (/\ engine = "up" /\ crashes = 0 /\ cancels = 0 /\ lost = {}
     /\ order_q = <<>> /\ io_q = <<>>) =>
        /\ Cardinality(DOMAIN docs) = Cardinality(DOMAIN m_order_list)
        /\ Range(docs) = Range(m_order_list)

\* An order the exchange has canceled leaves the list and the database, unless
\* the engine crashes first.
CanceledForgotten ==
    \A o \in Ids :
        (~simulator /\ crashes = 0 /\ o \in DOMAIN m_order_list
           /\ m_order_list[o].status = "CANCELED")
        ~> \/ crashes > 0
           \/ /\ o \notin DOMAIN m_order_list
              /\ \A dm \in DOMAIN docs : docs[dm].id # o

\* When both threads have done their work, no order in the list is CANCELED: it
\* has been removed, as the comment in set_cancel_order says.
CanceledIsRemoved ==
    engine = "up" /\ order_q = <<>> /\ io_q = <<>> =>
        \A o \in DOMAIN m_order_list : m_order_list[o].status # "CANCELED"

\* After a crash the orders in the database can be loaded.
EngineStarts == engine # "failed"
=============================================================================
