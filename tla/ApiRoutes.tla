----------------------------- MODULE ApiRoutes -----------------------------
(***************************************************************************)
(* The dashboard's requests: the route table and how a request finds its   *)
(* handler, the checks every handler starts with, users and tokens.        *)
(*                                                                         *)
(* A handler is a coroutine on the thread of the server and runs to its    *)
(* end or its next co_await.  A token is the name it was made for; one     *)
(* that is expired or not signed by the engine is Forged.                  *)
(***************************************************************************)
EXTENDS Integers, Sequences, FiniteSets

CONSTANTS
    Names, Root,    \* user names
    Passwords,
    Urls,           \* bound: the urls that are asked for
    MaxRequests     \* bound: requests that change something

ASSUME ApiAssumption == Root \in Names

VARIABLES
    phase,      \* the process: "down", "starting" or "serving"
    answer,     \* what the last step answered: "ok", "refused" or "none"
    requests,
    users,      \* documents of the collection "user"
    tokens      \* the users for whom a token was generated

user_vars == <<users, tokens>>

Unknown == "no such user"
Forged == "forged"
Missing == "Missing token"

ApiInit ==
    /\ phase = "down" /\ answer = "none" /\ requests = 0
    /\ \/ users = [n \in Names |-> Unknown] /\ tokens = {}
       \/ /\ users = [n \in Names |-> IF n = Root THEN CHOOSE p \in Passwords : TRUE ELSE Unknown]
          /\ tokens = {Root}

-----------------------------------------------------------------------------
(* Routes *)

Methods == {"GET", "POST"}

(* The route groups.  Their name only has to occur in the url: each stands *)
(* for the urls that contain it.                                           *)
route_group_map == {"libraries", "templates", "#/"}

(* Pages of the dashboard.                                                 *)
pages == {"/", "/favicon.ico", "/websocket_client", "/scanning_market",
          "/excel_report_page", "/strategy_report_page", "/trade_errors_page",
          "/24h_orders_page", "/check_health"}

(* The handlers of the dashboard's interface.                              *)
route_map(method) ==
    IF method = "GET"
    THEN {"/account_list", "/account_field_name_list", "/gateway_list", "/exchange_id_list",
          "/instrument_list", "/instrument_subscribe", "/order_list", "/position_list",
          "/simulator_order", "/object_pool_info", "/flow_metric", "/crash_log",
          "/request_log", "/up_time", "/strategy_list", "/strategy_config",
          "/strategy_price_arbitrage_config", "/strategy_price_arbitrage_current_info"}
    ELSE {"/register_new_user", "/login", "/add_account", "/set_active_account",
          "/add_activate_account", "/activate_account_balances", "/instrument_subscribe",
          "/simulator_order", "/strategy_config", "/strategy_current_info",
          "/strategy_price_arbitrage_config"}

(* Files of the dashboard's folder.                                        *)
dashboard_folder == {"/index.html", "/app.js"}

(* A group, then the route of this method, then a file, then the 404 page. *)
Found(method, url) ==
    IF method = "GET" /\ url \in route_group_map \cup pages THEN "page"
    ELSE IF url \in route_map(method) THEN url
    ELSE IF url \in dashboard_folder THEN "page"
    ELSE "404"

Routed(method, handler) == {u \in Urls : Found(method, u) = handler} # {}

-----------------------------------------------------------------------------
(* Checks of a handler *)

need_check_authentication(handler) == handler \notin {"/register_new_user", "/login"}

(* The headers a request can carry a token in, in the order they are       *)
(* looked at.  Bound: one of them, or a wrong one before a good one.       *)
TokenHeaders == <<"token", "Authorization", "Cookie">>

Carried ==
    {<<Missing, Missing, Missing>>}
    \cup {[h \in 1 .. 3 |-> IF h = n THEN t ELSE Missing] :
              n \in 1 .. 3, t \in tokens \cup {Forged}}
    \cup {<<Forged, Missing, t>> : t \in tokens}

(* The first header that is there decides.                                 *)
TokenOf(carried) ==
    LET there == {h \in DOMAIN TokenHeaders : carried[h] # Missing}
    IN  IF there = {} THEN Missing
        ELSE carried[CHOOSE h \in there : \A g \in there : h <= g]

verify_token(token) == token \in tokens

(* Every token says type "user"; only that of root is let in.              *)
check_authentication(carried) ==
    LET token == TokenOf(carried)
    IN  token # Missing /\ verify_token(token) /\ token = Root

(* A request can reach the body of this handler.                           *)
Admitted(method, handler) ==
    /\ phase = "serving" /\ Routed(method, handler)
    /\ need_check_authentication(handler) =>
           {c \in Carried : check_authentication(c)} # {}

Ok == answer' = "ok"
Refused == answer' = "refused"
Counted == requests < MaxRequests /\ requests' = requests + 1

(* 404, 401 and, for a missing parameter, 400.                             *)
TurnedAway ==
    /\ phase = "serving"
    /\ \/ Routed("GET", "404") \/ Routed("POST", "404")
       \/ {c \in Carried : ~check_authentication(c)} # {}
    /\ Refused
    /\ UNCHANGED <<phase, requests, user_vars>>

(* Pages, and the handlers that only read.                                 *)
Read ==
    /\ \/ Admitted("GET", "page")
       \/ \E h \in route_map("GET") \ {"/position_list"} : Admitted("GET", h)
       \/ Admitted("POST", "/activate_account_balances")
    /\ Ok
    /\ UNCHANGED <<phase, requests, user_vars>>

-----------------------------------------------------------------------------
(* Users *)

register_new_user(name, password) ==
    /\ Admitted("POST", "/register_new_user")
    /\ \/ users[name] # Unknown /\ Refused /\ UNCHANGED <<users, requests>>
       \/ /\ users[name] = Unknown /\ Counted /\ Ok
          /\ users' = [users EXCEPT ![name] = password]
    /\ UNCHANGED <<phase, tokens>>

login(name, password) ==
    /\ Admitted("POST", "/login")
    /\ \/ users[name] # password /\ Refused /\ UNCHANGED tokens
       \/ users[name] = password /\ Ok /\ tokens' = tokens \cup {name}
    /\ UNCHANGED <<phase, requests, users>>

UserRequests ==
    \/ TurnedAway \/ Read
    \/ \E n \in Names, p \in Passwords : register_new_user(n, p) \/ login(n, p)
=============================================================================
