--------------------------- MODULE PriceArbitrage ---------------------------
(***************************************************************************)
(* server_app/strategy_price_arbitrage and strategy_trend_follow: what the *)
(* handlers of the two RUN states do to their members.  The calls that     *)
(* would place and cancel orders are commented out in the code: the order  *)
(* updates they get are of other orders of the account.                    *)
(***************************************************************************)
EXTENDS Integers, Sequences, Functions

ArbitrageInit == [open |-> [p \in {} |-> FALSE], is_placing_chain_orders |-> FALSE]

\* end() forgets the open orders, and not that a chain is under way.
ArbitrageEnd(m) == [m EXCEPT !.open = [p \in {} |-> FALSE]]

remove_open_order_by_price(m, price) ==
    [m EXCEPT !.open = Restrict(@, DOMAIN @ \ {price})]

\* check_place_order_at_price: the new order is marked as being handled.
check_place_order_at_price(m, price) ==
    IF m.is_placing_chain_orders \/ DOMAIN m.open # {} THEN m
    ELSE [m EXCEPT !.open = [p \in {price} |-> TRUE]]

\* check_cancel_order_at_price: orders outside the band around price, which
\* far tells, are marked as being handled.
check_cancel_order_at_price(m, far) ==
    [m EXCEPT !.open = [p \in DOMAIN @ |-> @[p] \/ p \in far]]

\* handle_price_update for the first instrument; the order is buy_at_lower_price
\* below the price, and both are named by the price.
ArbitragePriceUpdate(m, price, far) ==
    check_cancel_order_at_price(check_place_order_at_price(m, price), far)

\* handle_order_update.  leg is the order's place in the chain: 1 for the
\* LIMIT order, 2 and 3 for the MARKET orders of instruments 2 and 3.
ArbitrageOrderUpdate(m, o) ==
    CASE o.st = "NEW" /\ o.leg = 1 ->
           [m EXCEPT !.open = [p \in DOMAIN @ \cup {o.price} |->
                                  IF p = o.price THEN FALSE ELSE @[p]]]
      [] o.st = "FILLED" /\ o.leg = 1 ->
           [remove_open_order_by_price(m, o.price) EXCEPT !.is_placing_chain_orders = TRUE]
      [] o.st = "FILLED" /\ o.leg = 3 -> [m EXCEPT !.is_placing_chain_orders = FALSE]
      [] o.st \in {"CANCELED", "REJECTED"} -> remove_open_order_by_price(m, o.price)
      [] OTHER -> m

-----------------------------------------------------------------------------
(* StrategyTrendFollowStateRun *)

TrendInit == [m_inventory |-> 0]

\* on_config_change, which begin calls.
TrendBegin(m) == [m EXCEPT !.m_inventory = 0]

\* StrategyTrendFollow::on_config_change
TrendConfigChange(m, run) == IF run THEN TrendBegin(m) ELSE m

TrendOrderUpdate(m, o) ==
    IF o.st = "FILLED"
    THEN [m EXCEPT !.m_inventory = IF o.side = "BUY" THEN @ + 1 ELSE @ - 1]
    ELSE m
=============================================================================
