----------------------------- MODULE OrderEntry -----------------------------
(***************************************************************************)
(* server_app/gateways: OrderEntry and BinanceOrderEntry with the          *)
(* perpetual quoter, and the exchange or SimulatorOrder behind them, seen  *)
(* from one strategy.                                                      *)
(*                                                                         *)
(* A strategy's orders are numbered in the order it makes them, which is   *)
(* what generate_order_id does.  The quoter has one HttpsClientRequest, so *)
(* requests reach the exchange in the order they were sent; what the       *)
(* exchange says comes back through OrderManager as order updates of the   *)
(* strategy's event base, whose queue is inbox.  With the simulator, the   *)
(* ORDER event base takes the place of the exchange.                       *)
(***************************************************************************)
EXTENDS Integers, Sequences, FiniteSets, SequencesExt

CONSTANTS MaxOrders,    \* bound: orders a strategy makes
          MaxAway,      \* bound: the same, with the simulator or once it has moved
          MaxInbox,     \* bound: updates waiting on the strategy's event base
          MaxRequests,  \* bound: requests on their way to the exchange, unless one
                        \*        handler makes more
          MaxFaults     \* bound: broken connections, expiries and partial fills

ASSUME EntryAssumption == /\ MaxOrders \in Nat /\ MaxAway \in Nat /\ MaxInbox \in Nat
                          /\ MaxRequests \in Nat /\ MaxFaults \in Nat

VARIABLES
    simulated,   \* SimulatorOrder::get_active()
    orders,      \* the orders made, with what the exchange has of each
    requests,    \* requests sent to the exchange and not yet executed
    disconnected,\* requests answered HTTPS_CLIENT_DISCONNECTED, asleep 5 s
    inbox,       \* queue of the strategy's event base
    faults,
    seen         \* history: what happened that a strategy does not expect

entry_vars == <<simulated, orders, requests, disconnected, inbox, faults, seen>>

\* The id that stands for every order of the account that the strategy did not
\* make.
Foreign == -1

\* A configuration changed the account, the instrument or is_real_trading:
\* requests go to another place than where earlier orders and requests are.
\* Which of them are where is not followed, and both are possible.
Elsewhere == "moved" \in seen

\* Which of the exchange and the simulator may have the orders and requests.
AtExchange == ~simulated \/ Elsewhere
AtSimulator == simulated \/ Elsewhere

Working == {id \in DOMAIN orders : orders[id].st \in {"sent", "open"}}

Request(op, id) == [op |-> op, id |-> id]

\* An Order handed to StrategyStateBase::update.  Of one that is filled, wholly
\* or in part, filled is the sum of its trades, by OrderManager's
\* handle_update_order.
Report(id, status, filled) ==
    [t |-> "order", id |-> id, st |-> status, side |-> orders[id].side, filled |-> filled]

Room == Len(inbox) < MaxInbox

Fault == faults < MaxFaults /\ faults' = faults + 1

EntryInit ==
    /\ simulated \in BOOLEAN
    /\ orders = <<>> /\ requests = <<>> /\ disconnected = {} /\ inbox = <<>>
    /\ faults = 0 /\ seen = {}

(***************************************************************************)
(* What a handler asks of m_order_entry: place for each side of            *)
(* out.place, cancel for each order of out.cancel, cancel_all if out.all.  *)
(***************************************************************************)
\* OrderEntry::place, cancel and cancel_all.
Sends(out) ==
    /\ Len(orders) + Len(out.place) =< IF simulated \/ Elsewhere THEN MaxAway ELSE MaxOrders
    /\ requests = <<>> \/ Len(requests) + Len(out.place) + Cardinality(out.cancel) =< MaxRequests
    /\ orders' = orders \o [i \in DOMAIN out.place |->
                              [side |-> out.place[i], st |-> "sent", filled |-> 0]]
    /\ requests' = requests
         \o [i \in DOMAIN out.place |-> Request("place", Len(orders) + i)]
         \o SetToSeq({Request("cancel", id) : id \in out.cancel})
         \o (IF out.all THEN <<Request("cancel_all", 0)>> ELSE <<>>)

\* The first request is of this kind and is taken.
Takes(op) ==
    /\ requests # <<>> /\ Head(requests).op = op
    /\ requests' = Tail(requests)

\* The exchange changes order id and says so on the user data stream.
Changes(id, st, filled, status) ==
    /\ Room
    /\ orders' = [orders EXCEPT ![id].st = st, ![id].filled = @ + filled]
    /\ inbox' = Append(inbox, Report(id, status, IF filled > 0 THEN orders[id].filled + filled
                                                 ELSE 0))

-----------------------------------------------------------------------------
(* The exchange, and SimulatorOrder's tasks on the ORDER event base. *)

\* SimulatorOrder::execute_place always accepts.
Accepted ==
    /\ Takes("place")
    /\ Changes(Head(requests).id, "open", 0, "NEW")
    /\ UNCHANGED <<simulated, disconnected, faults, seen>>

\* A GTX order that would trade at once is answered with a negative code,
\* and place_on_exchange reports the order REJECTED.
Rejected ==
    /\ AtExchange /\ Takes("place")
    /\ Changes(Head(requests).id, "rejected", 0, "REJECTED")
    /\ UNCHANGED <<simulated, disconnected, faults, seen>>

\* A cancel of an order that is not open is refused, and the answer ignored;
\* so is one of an order that is elsewhere.  What becomes of a foreign order is
\* one of the updates of foreign orders.
CanceledOnExchange ==
    /\ AtExchange /\ Takes("cancel")
    /\ LET id == Head(requests).id
       IN \/ /\ id \in DOMAIN orders /\ orders[id].st = "open"
             /\ Changes(id, "canceled", 0, "CANCELED")
             /\ seen' = IF orders[id].filled > 0 THEN seen \cup {"partial"} ELSE seen
          \/ /\ id \in DOMAIN orders /\ orders[id].st = "open" => Elsewhere
             /\ UNCHANGED <<orders, inbox, seen>>
    /\ UNCHANGED <<simulated, disconnected, faults>>

\* SimulatorOrder::execute_cancel: the order is CANCELED, even one that is
\* filled already.
execute_cancel ==
    /\ AtSimulator /\ Takes("cancel") /\ Room
    /\ LET id == Head(requests).id
       IN IF id \in DOMAIN orders
          THEN /\ orders' = [orders EXCEPT ![id].st = IF @ = "filled" THEN @ ELSE "canceled"]
               /\ inbox' = Append(inbox, Report(id, "CANCELED", 0))
               /\ seen' = IF orders[id].st = "filled" THEN seen \cup {"crossed"} ELSE seen
          ELSE UNCHANGED <<orders, inbox, seen>>
    /\ UNCHANGED <<simulated, disconnected, faults>>

\* cancel_all_on_exchange: spot, and then perpetual.  Each open order is
\* canceled and reported, except those that are elsewhere.
CanceledAll ==
    /\ AtExchange /\ Takes("cancel_all")
    /\ LET open == {id \in DOMAIN orders : orders[id].st = "open"}
       IN \E hit \in SUBSET open :
            /\ hit # open => Elsewhere
            /\ orders' = [id \in DOMAIN orders |->
                            IF id \in hit THEN [orders[id] EXCEPT !.st = "canceled"]
                            ELSE orders[id]]
            /\ inbox' = inbox \o [i \in 1..Cardinality(hit) |->
                                    Report(SetToSeq(hit)[i], "CANCELED", 0)]
    /\ UNCHANGED <<simulated, disconnected, faults, seen>>

\* SimulatorOrder::execute_cancel_all does nothing.
execute_cancel_all ==
    /\ AtSimulator /\ Takes("cancel_all")
    /\ UNCHANGED <<simulated, orders, disconnected, inbox, faults, seen>>

\* SimulatorOrder::execute_price_update fills whole orders.
Filled(id) ==
    /\ orders[id].st = "open"
    /\ Changes(id, "filled", 2 - orders[id].filled, "FILLED")
    /\ UNCHANGED <<simulated, requests, disconnected, faults, seen>>

PartiallyFilled(id) ==
    /\ AtExchange /\ orders[id].st = "open" /\ orders[id].filled = 0 /\ Fault
    /\ Changes(id, "open", 1, "PARTIALLY_FILLED")
    /\ UNCHANGED <<simulated, requests, disconnected, seen>>

\* A status the quoter's on_message does not know (EXPIRED) leaves the Order
\* it built with status NEW.
Expired(id) ==
    /\ AtExchange /\ orders[id].st = "open" /\ Fault
    /\ Changes(id, "canceled", 0, "NEW")
    /\ seen' = seen \cup {"expired"}
    /\ UNCHANGED <<simulated, requests, disconnected>>

\* The connection breaks with the first request on it: the exchange did or
\* did not execute it, and send_binance_request sleeps.
ConnectionBreaks(executed) ==
    /\ AtExchange /\ Fault
    /\ requests # <<>> /\ requests' = Tail(requests)
    /\ disconnected' = disconnected \cup {Head(requests)}
    /\ seen' = seen \cup {"break"}
    /\ LET r == Head(requests)
       IN IF r.op = "place" /\ executed THEN Changes(r.id, "open", 0, "NEW")
          ELSE IF r.op = "place" THEN /\ orders' = [orders EXCEPT ![r.id].st = "rejected"]
                                      /\ UNCHANGED inbox
          ELSE ~executed /\ UNCHANGED <<orders, inbox>>
    /\ UNCHANGED simulated

\* After 5 seconds it returns code -1; place_on_exchange takes the order as
\* rejected, cancel's and cancel_all's callers do not look.
AnswerDisconnected(r) ==
    /\ disconnected' = disconnected \ {r}
    /\ IF r.op = "place" THEN Room /\ inbox' = Append(inbox, Report(r.id, "REJECTED", 0))
       ELSE UNCHANGED inbox
    /\ UNCHANGED <<simulated, orders, requests, faults, seen>>

EntryNext ==
    \/ Accepted \/ Rejected \/ CanceledOnExchange \/ execute_cancel \/ CanceledAll
    \/ execute_cancel_all
    \/ \E id \in DOMAIN orders : Filled(id) \/ PartiallyFilled(id) \/ Expired(id)
    \/ \E executed \in BOOLEAN : ConnectionBreaks(executed)
    \/ \E r \in disconnected : AnswerDisconnected(r)
=============================================================================
