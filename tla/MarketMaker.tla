---------------------------- MODULE MarketMaker -----------------------------
(***************************************************************************)
(* server_app/strategy_market_maker: what each handler of                  *)
(* StrategyMarketMakerStateRun does to its members, and what it asks of    *)
(* the order entry.  A snapshot is what the code asks of the prices: moved *)
(* (the mid is m_price_gap away from m_last_quoted_price) and depth (price *)
(* levels with enough traded volume on both sides).                        *)
(***************************************************************************)
EXTENDS Integers, Sequences

MakerIdle == [place |-> <<>>, cancel |-> {}, all |-> FALSE]
MakerDoes(m, out) == [mem |-> m, out |-> out]

MakerInit ==
    [m_open_orders |-> {}, m_inventory |-> 0, m_last_quoted_price |-> 0,
     m_number_of_order_pair_per_quote |-> 1,
     m_is_closing_far_orders |-> FALSE, sleeping |-> 0]

\* start_close_far_orders posts task_close_far_orders and remove_old_trades, one
\* after the other.
Starts(m, is_running) == ~m.m_is_closing_far_orders /\ is_running
start_close_far_orders(m, is_running) ==
    IF Starts(m, is_running) THEN <<[t |-> "close"], [t |-> "trades"]>> ELSE <<>>

MakerEnd(m) ==
    [m EXCEPT !.m_open_orders = {}, !.m_inventory = 0, !.m_last_quoted_price = 0,
              !.m_number_of_order_pair_per_quote = 1]

\* quote_orders_at_price: so many pairs, unless a side has no level.
quote_orders_at_price(m, depth) ==
    IF depth = 0 THEN MakerDoes(m, MakerIdle)
    ELSE LET pairs == IF depth < m.m_number_of_order_pair_per_quote THEN depth
                      ELSE m.m_number_of_order_pair_per_quote
         IN MakerDoes([m EXCEPT !.m_last_quoted_price = 1],
                 [MakerIdle EXCEPT !.place = [i \in 1..(2 * pairs) |->
                                           IF i % 2 = 1 THEN "BUY" ELSE "SELL"]])

MakerSnapshot(m, x) ==
    IF m.m_last_quoted_price = 0 \/ m.m_open_orders = {} \/ x.moved
    THEN quote_orders_at_price(m, x.depth)
    ELSE MakerDoes(m, MakerIdle)

\* Mutant: only a fill takes an order out of m_open_orders.
MakerOrderUpdate_Keeps(m, o) ==
    CASE o.st = "NEW" -> [m EXCEPT !.m_open_orders = @ \cup {o.id}]
      [] o.st = "FILLED" -> [m EXCEPT !.m_open_orders = @ \ {o.id}]
      [] OTHER -> m

\* handle_order_update: of any order of the account.
MakerOrderUpdate(m, o) ==
    CASE o.st = "NEW" -> [m EXCEPT !.m_open_orders = @ \cup {o.id}]
      [] o.st = "FILLED" -> [m EXCEPT !.m_open_orders = @ \ {o.id},
                                      !.m_inventory = IF o.side = "BUY" THEN @ + 1 ELSE @ - 1]
      [] o.st \in {"CANCELED", "REJECTED"} -> [m EXCEPT !.m_open_orders = @ \ {o.id}]
      [] OTHER -> m

\* task_close_far_orders, up to its co_await: far of the open orders are
\* further than clear_orders_gap from the price.
MakerCloseFar(m, far) ==
    MakerDoes([m EXCEPT !.m_is_closing_far_orders = TRUE, !.sleeping = @ + 1],
         [MakerIdle EXCEPT !.cancel = far])

\* Its timer: one second has passed.
MakerWakes(m) == [m EXCEPT !.m_is_closing_far_orders = FALSE, !.sleeping = @ - 1]

\* remove_old_trades and update_15_mins_volume_stat: the volumes of the last
\* minutes give the pairs per quote.
MakerRemoveOldTrades(m, pairs) == [m EXCEPT !.m_number_of_order_pair_per_quote = pairs]
=============================================================================
