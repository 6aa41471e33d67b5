--------------------------- MODULE Administration --------------------------
(***************************************************************************)
(* The engine as its dashboard sees it: it starts in two steps, serves     *)
(* requests while database and gateway tasks run, and may be killed at any *)
(* moment.  An exception or a null order entry in a handler ends it too:   *)
(* BasePromiseType::unhandled_exception is std::terminate.                 *)
(***************************************************************************)
EXTENDS Accounts, Instruments

admin_vars == <<phase, answer, requests, user_vars, account_vars, instrument_vars>>

AdminInit == ApiInit /\ AccountsInit /\ InstrumentsInit

-----------------------------------------------------------------------------
(* Start and end of the process *)

StartGateways ==
    /\ phase = "down" /\ answer' = "none"
    /\ \E list \in Listed :
          \/ Startable(list) /\ phase' = "starting" /\ InitGateways(list)
          \/ ~Startable(list) /\ phase' = "down" /\ UNCHANGED instrument_vars
    /\ UNCHANGED <<requests, user_vars, account_vars>>

StartAccounts ==
    /\ phase = "starting" /\ phase' = "serving" /\ answer' = "none"
    /\ LoadAccounts
    /\ UNCHANGED <<requests, user_vars, instrument_vars>>

(* Memory and the posted tasks are gone; the documents stay.               *)
Ends ==
    /\ phase' = "down" /\ answer' = "none"
    /\ ForgetAccounts /\ ForgetInstruments
    /\ UNCHANGED <<requests, user_vars>>

Crash == phase # "down" /\ Ends

(* A name of an exchange that is none picks a null factory.                *)
ExchangeFatal == Admitted("POST", "/add_account") /\ \E k \in Keys : account_docs[k] = NoAccount

(* The exchange may report a position in what the engine does not list.    *)
UnlistedPosition ==
    phase = "serving" /\ positions # Idle /\ ~(Instruments \ Spot \subseteq listed)

Terminates ==
    /\ PositionsFatal \/ InstrumentFatal \/ ExchangeFatal \/ UnlistedPosition
    /\ Ends

-----------------------------------------------------------------------------
Tasks ==
    /\ RunIoTask \/ RunGatewayTask
    /\ answer' = "none"
    /\ UNCHANGED <<phase, requests, user_vars, account_vars>>

AdminNext ==
    \/ StartGateways \/ StartAccounts \/ Crash \/ Terminates
    \/ UserRequests /\ UNCHANGED <<account_vars, instrument_vars>>
    \/ AccountRequests /\ UNCHANGED instrument_vars
    \/ PositionsArrive /\ UNCHANGED instrument_vars
    \/ InstrumentRequests /\ UNCHANGED account_vars
    \/ Tasks

-----------------------------------------------------------------------------
(* Properties *)

(* While the engine serves requests, its accounts, the accounts of its     *)
(* gateways, the order entries and the collection say the same of every    *)
(* account: which exist, and which of them trade (AccountManager::init,    *)
(* add_account, set_active_account, Gateway::add_account, remove_account). *)
AccountsAgree ==
    phase = "serving" =>
        /\ \A k \in Keys :
              IF account_docs[k] = NoAccount THEN all_accounts[k] = NoAccount
              ELSE LET d == account_docs[k]
                   IN  all_accounts[k] =
                          Account(d.exchange, d.is_active, d.is_active /\ get_order_entry(d.exchange))
        /\ \A e \in Exchanges : m_accounts[e] = {k \in Keys : account_docs[k] = Doc(e, TRUE)}

(* A request that is answered with a refusal has changed nothing: neither  *)
(* users, accounts and subscriptions nor what the gateways do.  An account *)
(* is added to its gateway before the exchange is asked whether it is good *)
(* (AccountManager::add_account).                                          *)
RefusedChangesNothing ==
    [][answer' = "refused" =>
          UNCHANGED <<phase, requests, user_vars, account_vars, instrument_vars>>]_admin_vars

(* Once its database tasks have run, an engine that serves has exactly its *)
(* subscriptions in the database: those a restart will find                *)
(* (SavableObject, add_ and remove_subscribed_instrument).                 *)
SubscriptionsSaved ==
    phase = "serving" /\ io_tasks = <<>> =>
        \A i \in Instruments : subscribed_docs[i] = IF i \in subscribed THEN "full" ELSE "none"

(* Once the tasks of the gateway have run, every subscribed instrument has *)
(* its order book, and every spot one its websocket, whatever the order in *)
(* which instruments were subscribed, unsubscribed and restarted           *)
(* (BinanceGateway::subscribe_instrument, unsubscribe_instrument).         *)
FeedsRun ==
    phase = "serving" /\ gateway_tasks = <<>> =>
        subscribed \subseteq m_market_data /\ subscribed \cap Spot \subseteq m_websockets

(* A subscription lasts: in the database for the next start, and as a feed *)
(* in this one.                                                            *)
SubscriptionsKept == SubscriptionsSaved /\ FeedsRun
=============================================================================
