------------------------------ MODULE BuySpot -------------------------------
(***************************************************************************)
(* server_app/strategy_buy_spot: the buy points of StrategyBuySpotStateRun *)
(* and what its handlers do to them.  A price is a number of move_price    *)
(* steps; a buy point's SELL order is take_profit above it, which is also  *)
(* how an order update finds its buy point, so a reported order carries    *)
(* the price of its buy point.  The calls that would place and cancel      *)
(* orders are commented out in the code: what the strategy hears of are    *)
(* other orders of the account at those prices.                            *)
(***************************************************************************)
EXTENDS Integers, Sequences, FiniteSets, Functions, FiniteSetsExt

CONSTANTS Prices,          \* prices of the instrument, in steps
          MaxOpenOrders    \* m_config.max_open_orders

NewPoint == [status |-> "AVAILABLE", quantity |-> 0]

\* The constructor loads the buy points the database has, of at most one price:
\* update_buy_orders and the order updates make more.  They are as the
\* handlers leave them.
SpotInits ==
    {[points |-> saved] : saved \in
        {[p \in {} |-> NewPoint]} \cup
        UNION {[{p} -> [status : {"AVAILABLE", "PLACING", "PLACED", "CANCELING"},
                        quantity : {0}]
                       \cup [status : {"PLACING", "PLACED", "HOLD", "CANCELING"},
                             quantity : {1}]] : p \in Prices}}

\* What a canceled or abandoned point goes back to.
Released(b) == [b EXCEPT !.status = IF b.quantity = 0 THEN "AVAILABLE" ELSE "HOLD"]

SpotEnd(m) ==
    [m EXCEPT !.points = [p \in DOMAIN @ |->
        IF @[p].status # "HOLD" THEN Released(@[p]) ELSE @[p]]]

\* get_lower_nearest_price; with no buy point, get_a_price_point adds one
\* move_price below the current price.  All points are whole steps.
get_lower_nearest_price(price) == price - 1

\* add_new_buy_points
add_new_buy_points(points, lower) ==
    [p \in DOMAIN points \cup (lower - MaxOpenOrders + 1)..lower |->
        IF p \in DOMAIN points THEN points[p] ELSE NewPoint]

\* update_buy_orders
update_buy_orders(points, lower) ==
    [p \in DOMAIN points |->
        IF p \in (lower - MaxOpenOrders + 1)..lower /\ points[p].status = "AVAILABLE"
        THEN [points[p] EXCEPT !.status = "PLACING"]
        ELSE IF p < lower - MaxOpenOrders + 1
                /\ points[p].status = "PLACED" /\ points[p].quantity = 0
        THEN [points[p] EXCEPT !.status = "CANCELING"]
        ELSE points[p]]

\* The MaxOpenOrders lowest of a set of prices.
Lowest(S) == {p \in S : Cardinality({q \in S : q < p}) < MaxOpenOrders}

\* update_sell_orders.  && binds before ||: a point above the range is
\* CANCELING whatever its status was.
update_sell_orders(points) ==
    LET hold == Lowest({p \in DOMAIN points : points[p].status = "HOLD"})
    IN IF hold = {} THEN points
       ELSE [p \in DOMAIN points |->
               IF points[p].status = "HOLD" /\ p >= Min(hold) /\ p =< Max(hold)
               THEN [points[p] EXCEPT !.status = "PLACING"]
               ELSE IF \/ /\ points[p].status = "PLACED" /\ points[p].quantity > 0
                          /\ p < Min(hold)
                       \/ p > Max(hold)
               THEN [points[p] EXCEPT !.status = "CANCELING"]
               ELSE points[p]]

\* handle_price_update: a price outside min_price and max_price is only logged.
SpotPriceUpdate(m, price) ==
    LET lower == get_lower_nearest_price(price)
    IN [m EXCEPT !.points = update_sell_orders(
            update_buy_orders(add_new_buy_points(@, lower), lower))]

\* Mutant: a canceled order makes its point AVAILABLE, sold or not.
PointUpdate_Forgets(b, o) ==
    CASE o.st = "NEW" /\ o.type = "LIMIT" -> [b EXCEPT !.status = "PLACED"]
      [] o.st = "FILLED" /\ o.side = "BUY" -> [status |-> "HOLD", quantity |-> 1]
      [] o.st = "FILLED" /\ o.side # "BUY" -> NewPoint
      [] OTHER -> [b EXCEPT !.status = "AVAILABLE"]

\* The buy point's share of handle_order_update: a partial fill and a MARKET
\* order that is NEW change nothing.
PointUpdate(b, o) ==
    CASE o.st = "NEW" /\ o.type = "LIMIT" -> [b EXCEPT !.status = "PLACED"]
      [] o.st = "FILLED" /\ o.side = "BUY" -> [status |-> "HOLD", quantity |-> 1]
      [] o.st = "FILLED" /\ o.side # "BUY" -> NewPoint
      [] o.st \in {"CANCELED", "REJECTED"} -> Released(b)
      [] OTHER -> b

\* get_buy_point_by_price; with no buy point there the code dereferences null.
HasPoint(m, o) == o.price \in DOMAIN m.points

SpotOrderUpdate(m, o) == [m EXCEPT !.points[o.price] = PointUpdate(@, o)]
=============================================================================
