------------------------------ MODULE Strategy ------------------------------
(***************************************************************************)
(* server_app/strategy: StrategyManager, StrategyBase and                  *)
(* StrategyStateBase around one of the five strategies, on its own event   *)
(* base.  mem holds the members of the strategy's RUN state object; the    *)
(* handlers are those of the strategies' modules.                          *)
(***************************************************************************)
EXTENDS OrderEntry, MeanReversion, MarketMaker, BuySpot, PriceArbitrage

CONSTANTS Kinds,         \* strategies considered
          Simulated,     \* those considered with the simulator from the start, too
          Pairs,         \* pairs per quote that the market maker's volumes may give
          MaxConfigs,    \* bound: configurations applied
          MaxOthers,     \* bound: updates of other orders of the account
          MaxTrouble     \* bound: faults, configurations and those updates together

ASSUME StrategyAssumption ==
    /\ Kinds \subseteq {"MeanReversion", "MarketMaker", "BuySpot", "PriceArbitrage",
                        "TrendFollow"}
    /\ MaxConfigs \in Nat /\ MaxOthers \in Nat /\ MaxTrouble \in Nat
    /\ Window \in Nat \ {0} /\ Pairs \subseteq Nat \ {0}

VARIABLES kind,            \* which strategy this is
          m_current_state, \* saved: set by on_config_change
          m_previous_state,\* the state the last update ran in
          is_running,      \* m_config.is_running
          mem, configs, others

strategy_vars == <<kind, m_current_state, m_previous_state, is_running, mem, configs, others>>
vars == <<entry_vars, strategy_vars>>

init_states ==
    CASE kind = "MeanReversion" -> ReversionInit
      [] kind = "MarketMaker" -> MakerInit
      [] kind = "PriceArbitrage" -> ArbitrageInit
      [] OTHER -> TrendInit

\* add_strategy_list: init() has run; the state is the one saved, and so are
\* the buy points.
Init ==
    /\ EntryInit /\ kind \in Kinds /\ (simulated => kind \in Simulated)
    /\ m_current_state \in {"STOP", "RUN"} /\ m_previous_state = "UNKNOWN"
    /\ is_running = (m_current_state = "RUN")
    /\ IF kind = "BuySpot" THEN mem \in SpotInits ELSE mem = init_states
    /\ configs = 0 /\ others = 0

Posts(msg) == inbox' = Append(inbox, msg)

-----------------------------------------------------------------------------
(* What reaches the strategy's event base *)

\* OrderBookManager's update, StrategyManager::public_data, and an update of
\* an order the strategy did not make, by hand or by another strategy:
\* update_order tells every strategy of every order of the account.  What they
\* carry is chosen when they are handled.
Publish(t) ==
    /\ Room
    /\ CASE t = "snapshot" -> kind \in {"MeanReversion", "MarketMaker"}
         [] t = "price" -> kind \in {"BuySpot", "PriceArbitrage"}
         [] OTHER -> others < MaxOthers
    /\ Posts([t |-> t])
    /\ IF t = "other" THEN others' = others + 1 /\ seen' = seen \cup {"foreign"}
       ELSE UNCHANGED <<others, seen>>
    /\ UNCHANGED <<simulated, orders, requests, disconnected, faults, kind,
                   m_current_state, m_previous_state, is_running, mem, configs>>

\* StrategyBase::update_config, from the API: moved when the account, the
\* instrument or is_real_trading is another one.
UpdateConfig ==
    /\ Room /\ configs < MaxConfigs /\ configs' = configs + 1
    /\ \E run, moved \in BOOLEAN : Posts([t |-> "config", run |-> run, moved |-> moved])
    /\ UNCHANGED <<simulated, orders, requests, disconnected, faults, seen, kind,
                   m_current_state, m_previous_state, is_running, mem, others>>

-----------------------------------------------------------------------------
(* Tasks of the strategy's event base *)

Runs(t) == inbox # <<>> /\ Head(inbox).t = t

\* What every on_config_change makes of new_config.is_running.
StateOf(run) == IF run THEN "RUN" ELSE "STOP"

\* StrategyBase::apply_config, with SimulatorOrder::set_active, and each
\* strategy's on_config_change.  The mean reversion strategy is made anew by a
\* task of its own; the market maker's RUN state looks for far orders.
ApplyConfig ==
    /\ Runs("config")
    /\ is_running' = Head(inbox).run
    /\ simulated' \in IF Head(inbox).moved THEN BOOLEAN ELSE {simulated}
    /\ m_current_state' = StateOf(Head(inbox).run)
    /\ inbox' = Tail(inbox) \o
                CASE kind = "MeanReversion" -> <<[t |-> "init"]>>
                  [] kind = "MarketMaker" /\ Head(inbox).run ->
                         start_close_far_orders(mem, is_running')
                  [] OTHER -> <<>>
    /\ mem' = IF kind = "TrendFollow" THEN TrendConfigChange(mem, Head(inbox).run) ELSE mem
    /\ seen' = seen \cup {"config"} \cup (IF Head(inbox).moved THEN {"moved"} ELSE {})
    /\ UNCHANGED <<orders, requests, disconnected, faults, kind, m_previous_state,
                   configs, others>>

RunInit ==
    /\ Runs("init")
    /\ mem' = init_states /\ inbox' = Tail(inbox)
    /\ UNCHANGED <<simulated, orders, requests, disconnected, faults, seen, kind,
                   m_current_state, m_previous_state, is_running, configs, others>>

\* end() of the RUN state: mem, and whether cancel_all is called.
End(m) ==
    CASE kind = "MeanReversion" -> [mem |-> ReversionEnd(m), all |-> TRUE]
      [] kind = "MarketMaker" -> [mem |-> MakerEnd(m), all |-> TRUE]
      [] kind = "BuySpot" -> [mem |-> SpotEnd(m), all |-> FALSE]
      [] kind = "PriceArbitrage" -> [mem |-> ArbitrageEnd(m), all |-> FALSE]
      [] OTHER -> [mem |-> m, all |-> FALSE]

\* begin() of the RUN state.
Begin(m) ==
    CASE kind = "MeanReversion" -> ReversionBegin(m)
      [] kind = "TrendFollow" -> TrendBegin(m)
      [] OTHER -> m

\* The handler of the state for the update u.
Handle(m, u) ==
    LET next == Len(orders) + 1
    IN IF m_current_state = "STOP"
       THEN Does(IF kind = "MeanReversion" /\ u.t = "snapshot"
                 THEN ReversionStopSnapshot(m, u) ELSE m, Quiet)
       ELSE CASE kind = "MeanReversion" ->
                   IF u.t = "snapshot" THEN ReversionSnapshot(m, u, next)
                   ELSE ReversionOrderUpdate(m, u, next)
              [] kind = "MarketMaker" ->
                   IF u.t = "snapshot" THEN MakerSnapshot(m, u)
                   ELSE Does(MakerOrderUpdate(m, u), Quiet)
              [] kind = "BuySpot" ->
                   Does(IF u.t = "price" THEN SpotPriceUpdate(m, u.price)
                        ELSE SpotOrderUpdate(m, u), Quiet)
              [] kind = "PriceArbitrage" ->
                   Does(IF u.t = "price"
                        THEN ArbitragePriceUpdate(m, u.price, Prices \ {u.price})
                        ELSE ArbitrageOrderUpdate(m, u), Quiet)
              [] OTHER -> Does(TrendOrderUpdate(m, u), Quiet)

Snapshots ==
    [t : {"snapshot"}, above : BOOLEAN, moved : BOOLEAN, loss : BOOLEAN, depth : {0}]
Depths == UNION {0..pairs : pairs \in Pairs \cup {1}}
MakerSnapshots ==
    [t : {"snapshot"}, above : {FALSE}, moved : BOOLEAN, loss : {FALSE}, depth : Depths]

\* An update of a foreign order: any status an Order is reported with, in any
\* order; its price, type and leg (see ArbitrageOrderUpdate) are for the
\* strategies that look at them.
ForeignUpdates ==
    [t : {"order"}, id : {Foreign}, filled : {1},
     st : {"NEW", "PARTIALLY_FILLED", "FILLED", "CANCELED", "REJECTED"},
     side : {"BUY", "SELL"},
     price : IF kind \in {"BuySpot", "PriceArbitrage"} THEN Prices ELSE {0},
     type : IF kind = "BuySpot" THEN {"LIMIT", "MARKET"} ELSE {"LIMIT"},
     leg : IF kind = "PriceArbitrage" THEN 1..3 ELSE {1}]

\* The updates the first task of the event base may be.
Updates ==
    LET u == Head(inbox)
    IN CASE u.t = "snapshot" -> IF kind = "MeanReversion" THEN Snapshots ELSE MakerSnapshots
         [] u.t = "price" -> [t : {"price"}, price : Prices]
         [] u.t = "other" -> ForeignUpdates
         [] u.t = "order" -> {u}
         [] OTHER -> {}

\* A snapshot while PLACING_HEDGE_ORDER makes another hedge order unless the
\* last one is NEW: one that is not reported yet, and also one that is FILLED
\* already, is followed by a second.
HedgesTwice(m, u) ==
    /\ kind = "MeanReversion" /\ m_current_state = "RUN" /\ u.t = "snapshot"
    /\ m.spread.status = "PLACING_HEDGE_ORDER" /\ m.spread.hedge.st # "NEW"

\* Mutant: the state that ends does not clean up.
Changed_NoEnd(m) == [mem |-> IF m_current_state = "RUN" THEN Begin(m) ELSE m, all |-> FALSE]

\* StrategyBase::update sees that the state changed since the last update:
\* end() of the one, begin() of the other.
Changed(m) ==
    IF m_previous_state = m_current_state THEN [mem |-> m, all |-> FALSE]
    ELSE IF m_previous_state = "RUN" THEN End(m)
    ELSE IF m_current_state = "RUN" THEN [mem |-> Begin(m), all |-> FALSE]
    ELSE [mem |-> m, all |-> FALSE]

\* StrategyBase::update and StrategyStateBase::update
Update(u) ==
    /\ LET changed == Changed(mem)
           done == Handle(changed.mem, u)
           begins == m_previous_state # "RUN" /\ m_current_state = "RUN"
       IN /\ kind = "BuySpot" /\ u.t = "order" /\ m_current_state = "RUN"
                => HasPoint(changed.mem, u)
          /\ Sends([done.out EXCEPT !.all = changed.all])
          /\ mem' = done.mem
          /\ inbox' = Tail(inbox) \o
                (IF kind = "MarketMaker" /\ begins
                 THEN start_close_far_orders(mem, is_running) ELSE <<>>)
          /\ seen' = IF HedgesTwice(changed.mem, u) THEN seen \cup {"hedges"} ELSE seen
    /\ m_previous_state' = m_current_state
    /\ UNCHANGED <<simulated, disconnected, faults, kind, m_current_state, is_running,
                   configs, others>>

\* task_close_far_orders of the market maker.
CloseFarOrders ==
    /\ Runs("close")
    /\ \E far \in SUBSET mem.m_open_orders :
         /\ mem' = MakerCloseFar(mem, far).mem
         /\ Sends(MakerCloseFar(mem, far).out)
    /\ inbox' = Tail(inbox)
    /\ UNCHANGED <<simulated, disconnected, faults, seen, kind, m_current_state,
                   m_previous_state, is_running, configs, others>>

\* remove_old_trades, which was posted after it.  What another thread posts
\* between the two needs no place of its own: a quote with the pairs of before
\* is also one after it, of a book whose depth is less.
RemoveOldTrades ==
    /\ Runs("trades")
    /\ \E pairs \in Pairs : mem' = MakerRemoveOldTrades(mem, pairs)
    /\ inbox' = Tail(inbox)
    /\ UNCHANGED <<simulated, orders, requests, disconnected, faults, seen, kind,
                   m_current_state, m_previous_state, is_running, configs, others>>

\* The timer of a task_close_far_orders: the tasks are started again while the
\* strategy is to run.
CloseTimer ==
    /\ kind = "MarketMaker" /\ mem.sleeping > 0 /\ Room
    /\ mem' = MakerWakes(mem)
    /\ inbox' = inbox \o start_close_far_orders(mem', is_running)
    /\ UNCHANGED <<simulated, orders, requests, disconnected, faults, seen, kind,
                   m_current_state, m_previous_state, is_running, configs, others>>

Acts ==
    \/ \E t \in {"snapshot", "price", "other"} : Publish(t)
    \/ UpdateConfig \/ ApplyConfig \/ RunInit
    \/ inbox # <<>> /\ \E u \in Updates : Update(u)
    \/ CloseFarOrders \/ RemoveOldTrades \/ CloseTimer
    \/ EntryNext /\ UNCHANGED strategy_vars

Next == Acts /\ faults' + configs' + others' =< MaxTrouble

Spec == Init /\ [][Next]_vars

-----------------------------------------------------------------------------
(* Properties *)

\* What the orders ords of one side have filled, unit by unit; an order is for
\* 2.
Traded(ords, side) ==
    {u \in (DOMAIN ords) \X (1..2) : ords[u[1]].side = side /\ u[2] =< ords[u[1]].filled}

\* What orders have bought, less what they have sold.
PositionOf(ords) == Cardinality(Traded(ords, "BUY")) - Cardinality(Traded(ords, "SELL"))
Position == PositionOf(orders)

Clean == seen = {}

\* strategy_mr_state_run.cpp, handle_order_update and
\* handle_order_book_snapshot: as long as no connection breaks, no cancel
\* crosses a fill in the simulator or follows a partial fill, no order
\* expires, no configuration is applied, no other order of the account is
\* reported (the handler takes every one for its own) and at the next snapshot
\* the hedge order has been reported NEW and is not filled yet, the strategy
\* never has two orders working and never holds or owes more than one order's
\* quantity.
OneOrderAtRisk ==
    kind = "MeanReversion" /\ Clean =>
        /\ Cardinality(Working) =< 1
        /\ Position \in -2..2

\* spread_capture_config.cpp: under the same conditions, the status says what
\* the position is once every update is handled: none before the initial
\* order is filled, none after the hedge order is.
StatusTellsPosition ==
    (/\ kind = "MeanReversion" /\ Clean /\ inbox = <<>> /\ m_previous_state = "RUN"
     /\ \A id \in DOMAIN orders : orders[id].filled # 1) =>
        LET s == mem.spread
        IN Position = (IF s.status = "NONE" \/ s.hedge.st = "FILLED" THEN 0
                       ELSE IF s.initial.st = "FILLED" THEN Signed(s.initial.side, 2) ELSE 0)

\* What the market maker's list of its orders does not survive: a connection
\* that breaks (the order is then dropped as rejected), an order that expires
\* (it is then entered again as new) and a configuration (end() forgets all).
Undisturbed == \A x \in {"break", "expired", "config"} : x \notin seen

\* strategy_mm_state_run.cpp, handle_order_update: once every update is
\* handled, and unless it was disturbed, m_open_orders are, of the strategy's
\* own orders, those the exchange or the simulator has open, none missing and
\* none that ended, whatever was rejected, filled in one or two trades,
\* canceled or quoted twice on the way, and whatever other orders of the
\* account were reported and entered too.
OpenOrdersMirrored ==
    kind = "MarketMaker" /\ Undisturbed /\ inbox = <<>> /\ m_current_state = "RUN" =>
        mem.m_open_orders \ {Foreign} = {id \in DOMAIN orders : orders[id].st = "open"}

\* strategy_bs_state_run.cpp: what a buy point records of its coins and its
\* status agree through cancels, rejections, end(), the points the range check
\* marks CANCELING and any order of updates: a point that is AVAILABLE, where
\* the strategy will buy, records none, and one that is HOLD has some to sell.
\* Only a whole fill is recorded: the coins of a BUY that is partly filled and
\* then canceled are not in any point.
HeldNeverOffered ==
    kind = "BuySpot" => \A p \in DOMAIN mem.points :
        /\ mem.points[p].status = "AVAILABLE" => mem.points[p].quantity = 0
        /\ mem.points[p].status = "HOLD" => mem.points[p].quantity > 0

\* strategy_base.h, update and end(): once a stop is over (end() has run, and
\* its requests are executed) no order of the strategy is left on the
\* exchange, unless a connection broke, the trading was simulated
\* (SimulatorOrder::execute_cancel_all does nothing) or a configuration,
\* the stopping one included, changed the account, the instrument or
\* is_real_trading (end() then cancels at the new place).
StopsClean ==
    (/\ m_current_state = "STOP" /\ m_previous_state = "STOP"
     /\ ~simulated /\ ~Elsewhere /\ "break" \notin seen /\ requests = <<>>)
        => Working = {}
=============================================================================
