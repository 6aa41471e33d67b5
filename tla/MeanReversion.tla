--------------------------- MODULE MeanReversion ----------------------------
(***************************************************************************)
(* server_app/strategy_mean_reversion: what each handler does to the       *)
(* members of StrategyMeanReversionStateRun and of the shared              *)
(* SpreadCaptureConfigManager, and what it asks of the order entry.        *)
(*                                                                         *)
(* A snapshot is what the code asks of its mid price: above (the mid is    *)
(* above the mean), moved (the target price is not within price_precision  *)
(* of the order's) and loss (the mid passed the stop loss).                *)
(***************************************************************************)
EXTENDS Integers, Sequences

CONSTANT Window      \* VolatilityEstimator::window

\* An Order assigned nullptr.
NullOrder == [id |-> 0, st |-> "NOT_AVAILABLE", side |-> "BUY"]

HedgeStatuses ==
    {"PLACING_HEDGE_ORDER", "WAITING_FOR_HEDGE_ORDER_FILLED", "STOP_LOSS"}

\* SpreadCaptureConfigManager::reset: the order targets, and prices.clear().
SpreadReset ==
    [status |-> "NONE", initial |-> NullOrder, hedge |-> NullOrder, prices |-> 0]

\* init_states: the states are new objects, the spread capture is reset.
ReversionInit ==
    [spread |-> SpreadReset, m_initial_order |-> NullOrder,
     m_hedge_order |-> NullOrder, m_pnl |-> 0]

ReversionBegin(m) == [m EXCEPT !.m_pnl = 0, !.spread = SpreadReset]

ReversionEnd(m) == [m EXCEPT !.m_pnl = 0]

Opposite(side) == IF side = "BUY" THEN "SELL" ELSE "BUY"

AsOrder(o) == [id |-> o.id, st |-> o.st, side |-> o.side]

\* get_limit_order: a new order, not yet known to the exchange.
get_limit_order(id, side) == [id |-> id, st |-> "NOT_AVAILABLE", side |-> side]

\* SpreadCaptureConfigManager::handle_order_update
SpreadOrderUpdate(s, o) ==
    IF o.st \notin {"NEW", "FILLED"} THEN s
    ELSE IF s.status = "PLACING_INITIAL_ORDER" THEN [s EXCEPT !.initial = AsOrder(o)]
    ELSE IF s.status \in HedgeStatuses THEN [s EXCEPT !.hedge = AsOrder(o)]
    ELSE s

\* Mutant: a filled initial order is quoted again instead of hedged.
Targets_NoHedge(s, x) ==
    [s EXCEPT !.initial = [@ EXCEPT !.st = "NOT_AVAILABLE",
                                    !.side = IF x.above THEN "SELL" ELSE "BUY"],
              !.status = "PLACING_INITIAL_ORDER"]

\* handle_order_book_snapshot while no initial order is filled, or once it is.
Targets(s, x) ==
    IF s.initial.st # "FILLED"
    THEN [s EXCEPT !.hedge = NullOrder,
                   !.initial = [@ EXCEPT !.st = "NOT_AVAILABLE",
                                         !.side = IF x.above THEN "SELL" ELSE "BUY"],
                   !.status = "PLACING_INITIAL_ORDER"]
    ELSE [s EXCEPT !.hedge = [NullOrder EXCEPT !.side = Opposite(s.initial.side)],
                   !.status = "PLACING_HEDGE_ORDER"]

\* Both orders of the round are done.
RoundOver(s) ==
    [s EXCEPT !.initial = NullOrder, !.hedge = NullOrder, !.status = "NONE"]

\* SpreadCaptureConfigManager::handle_order_book_snapshot
SpreadSnapshot(s0, x) ==
    LET s == [s0 EXCEPT !.prices = IF @ < Window THEN @ + 1 ELSE @]
    IN IF s.prices < Window THEN s
       ELSE IF s.status \in {"NONE", "PLACING_INITIAL_ORDER"} THEN Targets(s, x)
       ELSE IF s.status = "PLACING_HEDGE_ORDER"
       THEN IF s.hedge.st = "NEW"
            THEN [s EXCEPT !.status = "WAITING_FOR_HEDGE_ORDER_FILLED"] ELSE s
       ELSE IF s.hedge.st = "FILLED" THEN RoundOver(s)
       ELSE IF s.status = "WAITING_FOR_HEDGE_ORDER_FILLED" /\ x.loss
       THEN [s EXCEPT !.status = "STOP_LOSS"]
       ELSE s

-----------------------------------------------------------------------------
(* StrategyMeanReversionStateRun.  next is the id the next order will have. *)

Quiet == [place |-> <<>>, cancel |-> {}, all |-> FALSE]
Does(m, out) == [mem |-> m, out |-> out]

\* The order's copy is kept, as the initial or as the hedge order.
Keeps(m, o) ==
    IF m.spread.status = "PLACING_INITIAL_ORDER"
    THEN [m EXCEPT !.m_initial_order = AsOrder(o)]
    ELSE IF m.spread.status \in HedgeStatuses
    THEN [m EXCEPT !.m_hedge_order = AsOrder(o)]
    ELSE m

Signed(side, n) == IF side = "BUY" THEN n ELSE -n

\* Canceled: placed again, as the initial order or as the stop loss.
Replaces(m, o, next) ==
    IF m.spread.status = "PLACING_INITIAL_ORDER"
    THEN LET side == m.spread.initial.side
         IN Does([m EXCEPT !.m_initial_order = get_limit_order(next, side)],
                 [Quiet EXCEPT !.place = <<side>>])
    ELSE IF m.spread.status = "STOP_LOSS"
    THEN Does([m EXCEPT !.m_hedge_order = get_limit_order(next, o.side)],
              [Quiet EXCEPT !.place = <<o.side>>])
    ELSE Does(m, Quiet)

\* handle_order_update, of any order of the account.
ReversionOrderUpdate(m0, o, next) ==
    LET m == [m0 EXCEPT !.spread = SpreadOrderUpdate(@, o)]
    IN CASE o.st = "NEW" -> Does(Keeps(m, o), Quiet)
         [] o.st = "REJECTED" -> Does(m, [Quiet EXCEPT !.place = <<o.side>>])
         [] o.st = "FILLED" ->
              Does(Keeps([m EXCEPT !.m_pnl = @ + Signed(o.side, o.filled)], o), Quiet)
         [] o.st = "CANCELED" -> Replaces(m, o, next)
         [] OTHER -> Does(m, Quiet)

\* is_same_order_info of the initial order and its target.
is_same_order_info(order, target, x) == ~x.moved /\ order.side = target.side

\* Mutant: the initial order is placed again while its cancel is under way.
PlacesInitial_Twice(m, x, next) ==
    IF m.m_initial_order.st = "NOT_AVAILABLE"
    THEN Does([m EXCEPT !.m_initial_order = get_limit_order(next, "BUY")],
              [Quiet EXCEPT !.place = <<"BUY">>])
    ELSE Does([m EXCEPT !.m_initial_order.st = "NOT_AVAILABLE"],
              [Quiet EXCEPT !.cancel = {m.m_initial_order.id}])

\* The branch PLACING_INITIAL_ORDER: the first order is a BUY whatever the
\* target's side; one that is not where it should be is canceled.
PlacesInitial(m, x, next) ==
    IF m.m_initial_order.id = 0 /\ m.m_initial_order.st = "NOT_AVAILABLE"
    THEN Does([m EXCEPT !.m_initial_order = get_limit_order(next, "BUY")],
              [Quiet EXCEPT !.place = <<"BUY">>])
    ELSE IF m.m_initial_order.st = "NEW"
            /\ ~is_same_order_info(m.m_initial_order, m.spread.initial, x)
    THEN Does([m EXCEPT !.m_initial_order.st = "NOT_AVAILABLE"],
              [Quiet EXCEPT !.cancel = {m.m_initial_order.id}])
    ELSE Does(m, Quiet)

\* handle_order_book_snapshot
ReversionSnapshot(m0, x, next) ==
    LET m == [m0 EXCEPT !.spread = SpreadSnapshot(@, x)]
        forgotten == [m EXCEPT !.m_initial_order = NullOrder, !.m_hedge_order = NullOrder]
    IN CASE m.spread.status = "PLACING_INITIAL_ORDER" -> PlacesInitial(m, x, next)
         [] m.spread.status = "PLACING_HEDGE_ORDER" ->
              Does([m EXCEPT !.m_hedge_order = get_limit_order(next, m.spread.hedge.side)],
                   [Quiet EXCEPT !.place = <<m.spread.hedge.side>>])
         [] m.spread.status = "WAITING_FOR_HEDGE_ORDER_FILLED" ->
              Does(IF m.m_hedge_order.st = "FILLED" THEN forgotten ELSE m, Quiet)
         [] m.spread.status = "STOP_LOSS" ->
              IF m.m_hedge_order.st = "NEW"
              THEN Does([m EXCEPT !.m_hedge_order.st = "NOT_AVAILABLE"],
                        [Quiet EXCEPT !.cancel = {m.m_hedge_order.id}])
              ELSE Does(m, Quiet)
         [] OTHER -> Does(forgotten, Quiet)

\* StrategyMeanReversionStateStop: only the spread capture goes on.
ReversionStopSnapshot(m, x) == [m EXCEPT !.spread = SpreadSnapshot(@, x)]
=============================================================================
