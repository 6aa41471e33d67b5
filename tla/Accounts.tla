------------------------------ MODULE Accounts -----------------------------
(***************************************************************************)
(* Trading accounts: AccountManager and AccountDB, the accounts and order  *)
(* entries of the gateways, the collection "activate_accounts", and the    *)
(* list of positions, a coroutine that asks the exchange for one account   *)
(* after the other while other requests are handled.                       *)
(***************************************************************************)
EXTENDS ApiRoutes

CONSTANTS Keys, NoKey

VARIABLES
    all_accounts,   \* memory, by key
    m_accounts,     \* the accounts of each gateway
    account_docs,   \* documents of the collection "account"
    activate_docs,  \* documents of "activate_accounts", by exchange
    positions       \* the list of positions that is under way

account_vars == <<all_accounts, m_accounts, account_docs, activate_docs, positions>>

Exchanges == {"BINANCE", "COINBASE"}
NoAccount == [exchange |-> "none"]

(* The gateway of Coinbase makes none.                                     *)
get_order_entry(exchange) == exchange = "BINANCE"

Doc(exchange, active) == [exchange |-> exchange, is_active |-> active]

(* An account in memory; entry says that it has an order entry.            *)
Account(exchange, active, entry) ==
    [exchange |-> exchange, is_active |-> active, entry |-> entry]

Idle == [waiting |-> NoKey, left |-> {}, stale |-> FALSE]

NoAccounts == [k \in Keys |-> NoAccount]
NoneActive == [e \in Exchanges |-> {}]

AccountsInit ==
    /\ all_accounts = NoAccounts /\ m_accounts = NoneActive /\ positions = Idle
    /\ account_docs = NoAccounts
    /\ activate_docs = [e \in Exchanges |-> NoKey]

(* The process ends.                                                       *)
ForgetAccounts ==
    /\ all_accounts' = NoAccounts /\ m_accounts' = NoneActive /\ positions' = Idle
    /\ UNCHANGED <<account_docs, activate_docs>>

(* create_account_from_data for every document; the active ones are added  *)
(* to their gateway.                                                       *)
LoadAccounts ==
    /\ all_accounts' = [k \in Keys |->
            LET d == account_docs[k]
            IN  IF d = NoAccount THEN NoAccount
                ELSE Account(d.exchange, d.is_active, d.is_active /\ get_order_entry(d.exchange))]
    /\ m_accounts' = [e \in Exchanges |->
            {k \in Keys : account_docs[k] # NoAccount /\ account_docs[k] = Doc(e, TRUE)}]
    /\ UNCHANGED <<account_docs, activate_docs, positions>>

(* The order entry of account k is destroyed, maybe under a coroutine.     *)
EntryGone(k) == positions' = [positions EXCEPT !.stale = @ \/ positions.waiting = k]

-----------------------------------------------------------------------------
(* Requests *)

\* Mutant: an account that failed its validation stays with its gateway.
add_account_Stays(k, exchange, active, valid) ==
    /\ Admitted("POST", "/add_account")
    /\ valid \/ exchange = "BINANCE"
    /\ account_docs[k] = NoAccount
    /\ LET stays == active
       IN  /\ m_accounts' = [m_accounts EXCEPT ![exchange] = IF stays THEN @ \cup {k} ELSE @ \ {k}]
           /\ \/ ~valid /\ Refused /\ UNCHANGED <<requests, all_accounts, account_docs>>
              \/ /\ valid /\ Counted /\ Ok
                 /\ all_accounts' = [all_accounts EXCEPT ![k] =
                        Account(exchange, active, stays /\ get_order_entry(exchange))]
                 /\ account_docs' = [account_docs EXCEPT ![k] = Doc(exchange, active)]
    /\ UNCHANGED <<phase, user_vars, activate_docs, positions>>

(* A new key is added to its gateway to ask the exchange for balances, and *)
(* taken out again when they are refused or the account is not active.     *)
add_account(k, exchange, active, valid) ==
    /\ Admitted("POST", "/add_account")
    /\ valid \/ exchange = "BINANCE"
    /\ account_docs[k] = NoAccount
    /\ LET stays == valid /\ active
       IN  /\ m_accounts' = [m_accounts EXCEPT ![exchange] = IF stays THEN @ \cup {k} ELSE @ \ {k}]
           /\ \/ ~valid /\ Refused /\ UNCHANGED <<requests, all_accounts, account_docs>>
              \/ /\ valid /\ Counted /\ Ok
                 /\ all_accounts' = [all_accounts EXCEPT ![k] =
                        Account(exchange, active, stays /\ get_order_entry(exchange))]
                 /\ account_docs' = [account_docs EXCEPT ![k] = Doc(exchange, active)]
    /\ UNCHANGED <<phase, user_vars, activate_docs, positions>>

(* A key that the database has.                                            *)
AddAgain(k) ==
    /\ Admitted("POST", "/add_account")
    /\ account_docs[k] # NoAccount
    /\ Refused
    /\ UNCHANGED <<phase, requests, user_vars, account_vars>>

\* Mutant: the gateway is not told.
set_active_account_NotTold(k, active) ==
    /\ Admitted("POST", "/set_active_account")
    /\ all_accounts[k] # NoAccount
    /\ Counted /\ Ok
    /\ LET e == all_accounts[k].exchange
       IN  /\ account_docs' = [account_docs EXCEPT ![k] = IF @ = NoAccount THEN @ ELSE Doc(e, active)]
           /\ all_accounts' = [all_accounts EXCEPT ![k].is_active = active]
    /\ UNCHANGED <<phase, user_vars, activate_docs, m_accounts, positions>>

(* Memory, database, gateway.  Being set active again makes a new order    *)
(* entry.                                                                  *)
set_active_account(k, active) ==
    /\ Admitted("POST", "/set_active_account")
    /\ all_accounts[k] # NoAccount
    /\ Counted /\ Ok
    /\ LET e == all_accounts[k].exchange
           there == k \in m_accounts[e]
       IN  /\ account_docs' = [account_docs EXCEPT ![k] = IF @ = NoAccount THEN @ ELSE Doc(e, active)]
           /\ all_accounts' = [all_accounts EXCEPT ![k] =
                  Account(e, active, IF active THEN get_order_entry(e) ELSE @.entry /\ ~there)]
           /\ m_accounts' = [m_accounts EXCEPT ![e] = IF active THEN @ \cup {k} ELSE @ \ {k}]
           /\ IF active \/ there THEN EntryGone(k) ELSE UNCHANGED positions
    /\ UNCHANGED <<phase, user_vars, activate_docs>>

SetUnknown(k) ==
    /\ Admitted("POST", "/set_active_account")
    /\ all_accounts[k] = NoAccount
    /\ Refused
    /\ UNCHANGED <<phase, requests, user_vars, account_vars>>

(* One document for each exchange, and none twice for a key.               *)
add_activate_account(k, exchange) ==
    /\ Admitted("POST", "/add_activate_account")
    /\ \/ /\ \E e \in Exchanges : activate_docs[e] = k
          /\ Refused /\ UNCHANGED <<requests, activate_docs>>
       \/ /\ \A e \in Exchanges : activate_docs[e] # k
          /\ Counted /\ Ok
          /\ activate_docs' = [activate_docs EXCEPT ![exchange] = k]
    /\ UNCHANGED <<phase, user_vars, all_accounts, m_accounts, account_docs, positions>>

-----------------------------------------------------------------------------
(* The list of positions.  The order entry is looked up when its turn      *)
(* comes; one that is null takes the process down.                         *)

get_active_accounts == {k \in Keys : all_accounts[k] # NoAccount /\ all_accounts[k].is_active}

HasEntry(k) == all_accounts[k].entry

AsksNext(left) ==
    \/ left = {} /\ Ok /\ positions' = Idle
    \/ \E k \in left :
          /\ HasEntry(k) /\ answer' = "none"
          /\ positions' = [waiting |-> k, left |-> left \ {k}, stale |-> FALSE]

(* Bound: one list at a time.                                              *)
PositionList ==
    /\ Admitted("GET", "/position_list") /\ positions = Idle
    /\ AsksNext(get_active_accounts)
    /\ UNCHANGED <<phase, requests, user_vars, all_accounts, m_accounts, account_docs, activate_docs>>

(* The exchange has answered.  If the order entry is gone the coroutine    *)
(* reads freed memory: it may go on, or take the process down.             *)
PositionsArrive ==
    /\ phase = "serving" /\ positions # Idle
    /\ AsksNext(positions.left)
    /\ UNCHANGED <<phase, requests, user_vars, all_accounts, m_accounts, account_docs, activate_docs>>

(* What ends in a null or a stale order entry.                             *)
PositionsFatal ==
    \/ /\ Admitted("GET", "/position_list") /\ positions = Idle
       /\ \E k \in get_active_accounts : ~HasEntry(k)
    \/ /\ phase = "serving" /\ positions # Idle
       /\ positions.stale \/ \E k \in positions.left : ~HasEntry(k)

AccountRequests ==
    \/ \E k \in Keys, e \in Exchanges :
          \/ \E active, valid \in BOOLEAN : add_account(k, e, active, valid)
          \/ add_activate_account(k, e)
    \/ \E k \in Keys : AddAgain(k) \/ SetUnknown(k) \/ \E b \in BOOLEAN : set_active_account(k, b)
    \/ PositionList
=============================================================================
