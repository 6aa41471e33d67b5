---------------------------- MODULE Instruments ----------------------------
(***************************************************************************)
(* Instruments: the cache of what the exchange lists, the subscribed ones, *)
(* the market data of the Binance gateway, and the documents of both       *)
(* collections, which tasks of the IO thread write some time later.        *)
(***************************************************************************)
EXTENDS ApiRoutes, SequencesExt

CONSTANTS Instruments, Spot     \* the spot ones; the others are perpetual

ASSUME InstrumentAssumption == IsFiniteSet(Instruments) /\ Spot \subseteq Instruments

VARIABLES
    listed,             \* instrument_list, in memory
    cache_docs,         \* documents of the cache: "none", "empty" or "full"
    subscribed,         \* cache_subscribed_instruments, in memory
    subscribed_docs,    \* documents of "subscribed_instruments", likewise
    io_tasks,           \* database tasks posted to the IO thread
    gateway_tasks,      \* order books to start on the GATEWAY thread
    m_instruments, m_websockets,    \* market data of spot instruments
    m_market_data                   \* order books and trades

documents == <<cache_docs, subscribed_docs>>
market_data == <<m_instruments, m_websockets, m_market_data, gateway_tasks>>
instrument_vars == <<listed, subscribed, io_tasks, documents, market_data>>

InstrumentsInit ==
    /\ listed = {} /\ subscribed = {} /\ io_tasks = <<>> /\ gateway_tasks = <<>>
    /\ m_instruments = {} /\ m_websockets = {} /\ m_market_data = {}
    /\ cache_docs = [i \in Instruments |-> "none"]
    /\ subscribed_docs = [i \in Instruments |-> "none"]

(* The process ends.                                                       *)
ForgetInstruments ==
    /\ listed' = {} /\ subscribed' = {} /\ io_tasks' = <<>> /\ gateway_tasks' = <<>>
    /\ m_instruments' = {} /\ m_websockets' = {} /\ m_market_data' = {}
    /\ UNCHANGED documents

(* A SavableObject with data: an empty document first, then the data.      *)
Saved(collection, i) ==
    << [op |-> "init", collection |-> collection, instrument |-> i],
       [op |-> "update", collection |-> collection, instrument |-> i] >>

(* Every instrument of a list is saved, one after the other.               *)
SavedAll(list) ==
    LET order == SetToSeq(list)
    IN  [n \in 1 .. 2 * Cardinality(list) |-> Saved("cache", order[(n + 1) \div 2])[2 - (n % 2)]]

Removed(i) == << [op |-> "remove", collection |-> "subscribed", instrument |-> i] >>

Written(docs, task) ==
    [docs EXCEPT ![task.instrument] =
        CASE task.op = "init" -> "empty" [] task.op = "update" -> "full" [] task.op = "remove" -> "none"]

RunIoTask ==
    /\ io_tasks # <<>>
    /\ LET task == Head(io_tasks)
       IN  IF task.collection = "cache"
           THEN cache_docs' = Written(cache_docs, task) /\ UNCHANGED subscribed_docs
           ELSE subscribed_docs' = Written(subscribed_docs, task) /\ UNCHANGED cache_docs
    /\ io_tasks' = Tail(io_tasks)
    /\ UNCHANGED <<listed, subscribed, market_data>>

(* start_websocket: nothing if the instrument is already there.            *)
RunGatewayTask ==
    /\ gateway_tasks # <<>>
    /\ m_market_data' = m_market_data \cup {Head(gateway_tasks)}
    /\ gateway_tasks' = Tail(gateway_tasks)
    /\ UNCHANGED <<listed, subscribed, io_tasks, documents, m_instruments, m_websockets>>

-----------------------------------------------------------------------------
(* Start of the gateways *)

InCache == {i \in Instruments : cache_docs[i] # "none"}
Subscribed == {i \in Instruments : subscribed_docs[i] # "none"}

(* What the exchange answers, for spot and for perpetual ones; a request   *)
(* that fails lists nothing.                                               *)
fetch_instruments == {{}, Spot, Instruments \ Spot, Instruments}

(* Gateway::init: the cache, if there is one, whatever is in it.           *)
Listed ==
    IF InCache # {} THEN {{i \in Instruments : cache_docs[i] = "full"}} ELSE fetch_instruments

(* get_subscribed_instruments throws for an empty document and for an      *)
(* instrument that is not listed: main ends.                               *)
Startable(list) == \A i \in Subscribed : subscribed_docs[i] = "full" /\ i \in list

(* BinanceMarketDataSpot::start closes every websocket and starts one for  *)
(* each instrument.                                                        *)
start_websockets(instruments) == m_websockets' = instruments

InitGateways(list) ==
    /\ listed' = list
    /\ io_tasks' = IF InCache # {} THEN <<>> ELSE SavedAll(list)
    /\ subscribed' = Subscribed
    /\ m_instruments' = Subscribed \cap Spot
    /\ start_websockets(Subscribed \cap Spot)
    /\ gateway_tasks' = SetToSeq(Subscribed)
    /\ UNCHANGED <<m_market_data, documents>>

-----------------------------------------------------------------------------
(* Requests *)

\* Mutant: the websockets are started before the instrument is added.
subscribe_instrument_StartFirst(i) ==
    /\ m_instruments' = m_instruments \cup ({i} \cap Spot)
    /\ start_websockets(m_instruments)
    /\ gateway_tasks' = Append(gateway_tasks, i)
    /\ UNCHANGED m_market_data

(* The order book, of a spot instrument too, starts on its own thread.     *)
subscribe_instrument(i) ==
    /\ m_instruments' = m_instruments \cup ({i} \cap Spot)
    /\ start_websockets(m_instruments')
    /\ gateway_tasks' = Append(gateway_tasks, i)
    /\ UNCHANGED m_market_data

(* A spot instrument keeps its websocket until the next start.             *)
unsubscribe_instrument(i) ==
    /\ m_instruments' = m_instruments \ {i}
    /\ m_market_data' = m_market_data \ ({i} \ Spot)
    /\ UNCHANGED <<m_websockets, gateway_tasks>>

add_subscribed_instrument(i) ==
    /\ subscribed' = subscribed \cup {i}
    /\ io_tasks' = io_tasks \o Saved("subscribed", i)

remove_subscribed_instrument(i) ==
    /\ subscribed' = subscribed \ {i}
    /\ io_tasks' = io_tasks \o Removed(i)

(* "Failed to ..." is answered with error false.                           *)
Repeated(i, method) ==
    /\ Admitted("POST", "/instrument_subscribe") /\ i \in listed
    /\ (method = "subscribe") = (i \in subscribed)
    /\ Refused
    /\ UNCHANGED <<phase, requests, user_vars, instrument_vars>>

Subscribe(i) ==
    /\ Admitted("POST", "/instrument_subscribe") /\ i \in listed \ subscribed
    /\ Counted /\ Ok
    /\ add_subscribed_instrument(i) /\ subscribe_instrument(i)
    /\ UNCHANGED <<phase, user_vars, listed, documents>>

Unsubscribe(i) ==
    /\ Admitted("POST", "/instrument_subscribe") /\ i \in listed \cap subscribed
    /\ Counted /\ Ok
    /\ remove_subscribed_instrument(i) /\ unsubscribe_instrument(i)
    /\ UNCHANGED <<phase, user_vars, listed, documents>>

(* The lookup of an instrument that is not listed throws out of the        *)
(* coroutine.                                                              *)
InstrumentFatal ==
    Admitted("POST", "/instrument_subscribe") /\ listed # Instruments

InstrumentRequests ==
    \E i \in Instruments :
        \/ Subscribe(i) \/ Unsubscribe(i)
        \/ \E method \in {"subscribe", "unsubscribe"} : Repeated(i, method)
=============================================================================
