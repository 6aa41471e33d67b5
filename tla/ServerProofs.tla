---------------------------- MODULE ServerProofs ---------------------------
(***************************************************************************)
(* Proofs about the servers and about what the requests of the dashboard   *)
(* do, for every number of clients, connection objects, routes, accounts   *)
(* and instruments.                                                        *)
(***************************************************************************)
EXTENDS MCWebsocketServer, FiniteSetTheorems, SequenceTheorems, WellFoundedInduction, TLAPS

-----------------------------------------------------------------------------
(* Accounts. *)

Docs == {NoAccount} \cup [exchange : Exchanges, is_active : BOOLEAN]

AccountType ==
    /\ account_docs \in [Keys -> Docs]
    /\ m_accounts \in [Exchanges -> SUBSET Keys]
    /\ DOMAIN all_accounts = Keys

\* The account that is made from a document.
Loaded(d) == IF d = NoAccount THEN NoAccount
             ELSE Account(d.exchange, d.is_active, d.is_active /\ get_order_entry(d.exchange))

\* Memory, gateways and documents agree.
Agreed ==
    /\ \A k \in Keys : all_accounts[k] = Loaded(account_docs[k])
    /\ \A e \in Exchanges : m_accounts[e] = {k \in Keys : account_docs[k] = Doc(e, TRUE)}

AccountInv == AccountType /\ (phase = "serving" => Agreed)

LEMMA AgreedIs == AccountInv => AccountsAgree
BY DEF AccountInv, Agreed, Loaded, AccountsAgree

\* What a document can be.
LEMMA DocIs ==
    /\ \A d \in Docs :
          \/ d = NoAccount
          \/ d.exchange \in Exchanges /\ d.is_active \in BOOLEAN /\ d = Doc(d.exchange, d.is_active)
    /\ \A e \in Exchanges, b \in BOOLEAN :
          Doc(e, b) \in Docs /\ Doc(e, b) # NoAccount
          /\ Doc(e, b).exchange = e /\ Doc(e, b).is_active = b
    /\ \A e, f \in Exchanges, b \in BOOLEAN : Doc(e, b) = Doc(f, TRUE) <=> e = f /\ b
<1>1. \A d \in Docs :
          \/ d = NoAccount
          \/ d.exchange \in Exchanges /\ d.is_active \in BOOLEAN /\ d = Doc(d.exchange, d.is_active)
  <2> TAKE d \in Docs
  <2>1. CASE d = NoAccount
    BY <2>1
  <2>2. CASE d \in [exchange : Exchanges, is_active : BOOLEAN]
    BY <2>2 DEF Doc
  <2> QED
    BY <2>1, <2>2 DEF Docs
<1>2. \A e \in Exchanges, b \in BOOLEAN :
          Doc(e, b) \in Docs /\ Doc(e, b) # NoAccount
          /\ Doc(e, b).exchange = e /\ Doc(e, b).is_active = b
  <2> TAKE e \in Exchanges, b \in BOOLEAN
  <2>1. Doc(e, b).exchange = e
    BY DEF Doc
  <2>2. Doc(e, b).is_active = b
    BY DEF Doc
  <2>3. NoAccount.exchange = "none" /\ e # "none"
    BY DEF NoAccount, Exchanges
  <2>4. Doc(e, b) \in [exchange : Exchanges, is_active : BOOLEAN]
    BY DEF Doc
  <2> QED
    BY <2>1, <2>2, <2>3, <2>4 DEF Docs
<1>3. \A e, f \in Exchanges, b \in BOOLEAN : Doc(e, b) = Doc(f, TRUE) <=> e = f /\ b
  <2> TAKE e, f \in Exchanges, b \in BOOLEAN
  <2>1. Doc(e, b).exchange = e /\ Doc(f, TRUE).exchange = f
    BY <1>2
  <2>2. Doc(e, b).is_active = b /\ Doc(f, TRUE).is_active = TRUE
    BY <1>2
  <2>3. ASSUME Doc(e, b) = Doc(f, TRUE) PROVE e = f /\ b
    BY <2>1, <2>2, <2>3, Zenon
  <2>4. ASSUME e = f, b PROVE Doc(e, b) = Doc(f, TRUE)
    <3>1. b = TRUE
      BY <2>4
    <3> QED
      BY <2>4, <3>1, Zenon
  <2> QED
    BY <2>3, <2>4
<1> QED
  BY <1>1, <1>2, <1>3, Zenon

LEMMA AccountInit == AccountsInit => AccountType
BY DEF AccountsInit, AccountType, NoAccounts, NoneActive, Docs

\* init of AccountManager.
LEMMA LoadStep ==
    ASSUME AccountInv, LoadAccounts
    PROVE  AccountInv'
<1>1. account_docs' = account_docs /\ AccountType
  BY DEF LoadAccounts, AccountInv
<1>2. \A k \in Keys : all_accounts'[k] = Loaded(account_docs[k])
  BY DEF LoadAccounts, Loaded
<1>3. ASSUME NEW e \in Exchanges
      PROVE  m_accounts'[e] = {k \in Keys : account_docs[k] = Doc(e, TRUE)}
  <2>1. m_accounts'[e] = {k \in Keys : account_docs[k] # NoAccount /\ account_docs[k] = Doc(e, TRUE)}
    BY DEF LoadAccounts
  <2>2. Doc(e, TRUE) # NoAccount
    BY DocIs
  <2> QED
    BY <2>1, <2>2
<1>4. AccountType'
  BY <1>1 DEF AccountType, LoadAccounts
<1> QED
  BY <1>1, <1>2, <1>3, <1>4 DEF AccountInv, Agreed

\* add_account, whether the exchange takes the key or not.
LEMMA AddStep ==
    ASSUME AccountInv, NEW k \in Keys, NEW e \in Exchanges, NEW active \in BOOLEAN,
           NEW valid \in BOOLEAN, add_account(k, e, active, valid)
    PROVE  AccountInv' /\ (answer' = "refused" => UNCHANGED <<requests, user_vars, account_vars>>)
<1>1. phase = "serving" /\ phase' = phase /\ account_docs[k] = NoAccount
  BY DEF add_account, Admitted
<1>2. AccountType /\ Agreed
  BY <1>1 DEF AccountInv
<1>3. ASSUME NEW f \in Exchanges PROVE k \notin m_accounts[f]
  <2>1. Doc(f, TRUE) # NoAccount
    BY DocIs
  <2> QED
    BY <1>1, <1>2, <2>1 DEF Agreed
<1>4. m_accounts' = [m_accounts EXCEPT ![e] = IF valid /\ active THEN @ \cup {k} ELSE @ \ {k}]
  BY DEF add_account
<1>5. CASE ~valid
  <2>1. UNCHANGED <<requests, user_vars, all_accounts, account_docs, activate_docs, positions>>
    BY <1>5 DEF add_account
  <2>2. m_accounts' = m_accounts
    BY <1>2, <1>3, <1>4, <1>5 DEF AccountType
  <2> QED
    BY <1>1, <1>2, <2>1, <2>2 DEF AccountInv, AccountType, Agreed, account_vars
<1>6. CASE valid
  <2>1. /\ answer' = "ok"
        /\ all_accounts' = [all_accounts EXCEPT ![k] = Account(e, active, active /\ get_order_entry(e))]
        /\ account_docs' = [account_docs EXCEPT ![k] = Doc(e, active)]
    BY <1>6 DEF add_account, Ok
  <2>2. AccountType'
    BY <1>2, <1>4, <2>1, DocIs DEF AccountType
  <2>3. \A j \in Keys : all_accounts'[j] = Loaded(account_docs'[j])
    BY <1>2, <2>1, DocIs DEF AccountType, Agreed, Loaded
  <2>4. ASSUME NEW f \in Exchanges
        PROVE  m_accounts'[f] = {j \in Keys : account_docs'[j] = Doc(f, TRUE)}
    <3>1. m_accounts[f] = {j \in Keys : account_docs[j] = Doc(f, TRUE)}
      BY <1>2 DEF Agreed
    <3>2. \A j \in Keys : account_docs'[j] = Doc(f, TRUE) <=> IF j = k THEN e = f /\ active
                                                           ELSE account_docs[j] = Doc(f, TRUE)
      BY <1>2, <2>1, DocIs DEF AccountType
    <3>3. m_accounts'[f] = IF e = f /\ active THEN m_accounts[f] \cup {k} ELSE m_accounts[f] \ {k}
      BY <1>2, <1>3, <1>4, <1>6 DEF AccountType
    <3> QED
      BY <3>1, <3>2, <3>3
  <2> QED
    BY <2>1, <2>2, <2>3, <2>4 DEF AccountInv, Agreed
<1> QED
  BY <1>5, <1>6

\* set_active_account
LEMMA SetActiveStep ==
    ASSUME AccountInv, NEW k \in Keys, NEW active \in BOOLEAN, set_active_account(k, active)
    PROVE  AccountInv' /\ answer' = "ok"
<1>1. phase = "serving" /\ phase' = phase /\ all_accounts[k] # NoAccount /\ answer' = "ok"
  BY DEF set_active_account, Admitted, Ok
<1>2. AccountType /\ Agreed
  BY <1>1 DEF AccountInv
<1>3. PICK d : d = account_docs[k]
  OBVIOUS
<1>4. d \in Docs /\ d # NoAccount /\ all_accounts[k] = Loaded(d)
  BY <1>1, <1>2, <1>3 DEF AccountType, Agreed, Loaded
<1>5. PICK e \in Exchanges : e = d.exchange
  BY <1>4, DocIs
<1>6. /\ d = Doc(e, d.is_active) /\ d.is_active \in BOOLEAN
      /\ all_accounts[k] = Account(e, d.is_active, d.is_active /\ get_order_entry(e))
  BY <1>4, <1>5, DocIs DEF Loaded
<1>7. all_accounts[k].exchange = e /\ all_accounts[k].entry = (d.is_active /\ get_order_entry(e))
  BY <1>6 DEF Account
<1>8. k \in m_accounts[e] <=> d.is_active
  <2>1. k \in m_accounts[e] <=> d = Doc(e, TRUE)
    BY <1>2, <1>3 DEF Agreed
  <2>2. d = Doc(e, TRUE) <=> d.is_active
    BY <1>6, DocIs
  <2> QED
    BY <2>1, <2>2
<1>9. /\ account_docs' = [account_docs EXCEPT ![k] = Doc(e, active)]
      /\ m_accounts' = [m_accounts EXCEPT ![e] = IF active THEN @ \cup {k} ELSE @ \ {k}]
  BY <1>2, <1>3, <1>4, <1>7 DEF set_active_account, AccountType
<1>10. all_accounts' = [all_accounts EXCEPT ![k] = Account(e, active, active /\ get_order_entry(e))]
  <2>1. all_accounts' = [all_accounts EXCEPT ![k] =
           Account(e, active, IF active THEN get_order_entry(e)
                              ELSE all_accounts[k].entry /\ ~(k \in m_accounts[e]))]
    BY <1>7 DEF set_active_account
  <2>2. (IF active THEN get_order_entry(e) ELSE all_accounts[k].entry /\ ~(k \in m_accounts[e]))
        = (active /\ get_order_entry(e))
    BY <1>7, <1>8 DEF get_order_entry
  <2> QED
    BY <2>1, <2>2
<1>11. AccountType'
  BY <1>2, <1>9, <1>10, DocIs DEF AccountType
<1>12. \A j \in Keys : all_accounts'[j] = Loaded(account_docs'[j])
  BY <1>2, <1>9, <1>10, DocIs DEF AccountType, Agreed, Loaded
<1>13. ASSUME NEW f \in Exchanges
       PROVE  m_accounts'[f] = {j \in Keys : account_docs'[j] = Doc(f, TRUE)}
  <2>1. m_accounts[f] = {j \in Keys : account_docs[j] = Doc(f, TRUE)}
    BY <1>2 DEF Agreed
  <2>2. \A j \in Keys : account_docs'[j] = Doc(f, TRUE) <=> IF j = k THEN e = f /\ active
                                                         ELSE account_docs[j] = Doc(f, TRUE)
    BY <1>2, <1>9, DocIs DEF AccountType
  <2>3. m_accounts'[f] = IF e # f THEN m_accounts[f]
                         ELSE IF active THEN m_accounts[f] \cup {k} ELSE m_accounts[f] \ {k}
    BY <1>2, <1>9 DEF AccountType
  <2>4. e # f => k \notin m_accounts[f]
    <3>1. e # f => d # Doc(f, TRUE)
      BY <1>5, DocIs
    <3> QED
      BY <1>3, <2>1, <3>1
  <2> QED
    BY <2>1, <2>2, <2>3, <2>4
<1> QED
  BY <1>1, <1>11, <1>12, <1>13 DEF AccountInv, Agreed
\* A request of a user leaves the process where it is, and a refused one the
\* users too.
LEMMA UserStep ==
    ASSUME UserRequests
    PROVE  phase' = phase /\ (answer' = "refused" => UNCHANGED <<requests, user_vars>>)
<1>1. CASE TurnedAway \/ Read
  BY <1>1 DEF TurnedAway, Read, Ok, user_vars
<1>2. ASSUME NEW n \in Names, NEW p \in Passwords, register_new_user(n, p)
      PROVE  phase' = phase /\ (answer' = "refused" => UNCHANGED <<requests, user_vars>>)
  BY <1>2 DEF register_new_user, Ok, user_vars
<1>3. ASSUME NEW n \in Names, NEW p \in Passwords, login(n, p)
      PROVE  phase' = phase /\ (answer' = "refused" => UNCHANGED <<requests, user_vars>>)
  BY <1>3 DEF login, Ok, user_vars
<1> QED
  BY <1>1, <1>2, <1>3 DEF UserRequests

\* What leaves accounts and gateways alone, and does not start to serve.
LEMMA AccountsKept ==
    ASSUME AccountInv, UNCHANGED <<all_accounts, m_accounts, account_docs>>,
           phase' = "serving" => phase = "serving"
    PROVE  AccountInv'
BY DEF AccountInv, AccountType, Agreed

\* A step of the coroutine that lists positions.
LEMMA PositionStep ==
    ASSUME PositionList \/ PositionsArrive
    PROVE  /\ UNCHANGED <<phase, all_accounts, m_accounts, account_docs>> /\ answer' # "refused"
BY DEF PositionList, PositionsArrive, AsksNext, Ok

\* Every request about accounts.
LEMMA AccountStep ==
    ASSUME AccountInv, AccountRequests
    PROVE  /\ AccountInv' /\ phase' = phase
           /\ answer' = "refused" => UNCHANGED <<requests, user_vars, account_vars>>
<1>1. ASSUME NEW k \in Keys, NEW e \in Exchanges, NEW active \in BOOLEAN, NEW valid \in BOOLEAN,
             add_account(k, e, active, valid)
      PROVE  /\ AccountInv' /\ phase' = phase
             /\ answer' = "refused" => UNCHANGED <<requests, user_vars, account_vars>>
  <2>1. phase' = phase
    BY <1>1 DEF add_account
  <2> QED
    BY <1>1, <2>1, AddStep
<1>2. ASSUME NEW k \in Keys, NEW e \in Exchanges, add_activate_account(k, e)
      PROVE  /\ AccountInv' /\ phase' = phase
             /\ answer' = "refused" => UNCHANGED <<requests, user_vars, account_vars>>
  <2>1. UNCHANGED <<all_accounts, m_accounts, account_docs, phase>>
    BY <1>2 DEF add_activate_account
  <2>2. answer' = "refused" => UNCHANGED <<requests, user_vars, account_vars>>
    BY <1>2 DEF add_activate_account, Ok, account_vars
  <2> QED
    BY <2>1, <2>2, AccountsKept
<1>3. ASSUME NEW k \in Keys, AddAgain(k) \/ SetUnknown(k)
      PROVE  /\ AccountInv' /\ phase' = phase
             /\ answer' = "refused" => UNCHANGED <<requests, user_vars, account_vars>>
  <2>1. UNCHANGED <<phase, requests, user_vars, account_vars>>
    BY <1>3 DEF AddAgain, SetUnknown
  <2>2. UNCHANGED <<all_accounts, m_accounts, account_docs>>
    BY <2>1 DEF account_vars
  <2> QED
    BY <2>1, <2>2, AccountsKept
<1>4. ASSUME NEW k \in Keys, NEW b \in BOOLEAN, set_active_account(k, b)
      PROVE  /\ AccountInv' /\ phase' = phase
             /\ answer' = "refused" => UNCHANGED <<requests, user_vars, account_vars>>
  <2>1. phase' = phase
    BY <1>4 DEF set_active_account
  <2> QED
    BY <1>4, <2>1, SetActiveStep
<1>5. CASE PositionList
  BY <1>5, PositionStep, AccountsKept
<1> QED
  BY <1>1, <1>2, <1>3, <1>4, <1>5 DEF AccountRequests

LEMMA EndsAccounts ==
    ASSUME AccountInv, Ends
    PROVE  AccountInv' /\ answer' = "none"
<1>1. phase' = "down" /\ account_docs' = account_docs /\ answer' = "none"
  BY DEF Ends, ForgetAccounts
<1>2. AccountType'
  BY <1>1 DEF Ends, ForgetAccounts, AccountInv, AccountType, NoAccounts, NoneActive
<1> QED
  BY <1>1, <1>2 DEF AccountInv

\* Every step of the engine keeps accounts agreed, and a refusal changes nothing.
LEMMA AdminAccountStep ==
    ASSUME AccountInv, AdminNext
    PROVE  /\ AccountInv'
           /\ answer' = "refused" =>
                 UNCHANGED <<phase, requests, user_vars, account_vars, instrument_vars>>
<1>1. CASE StartGateways
  <2>1. phase' # "serving" /\ UNCHANGED account_vars /\ answer' = "none"
    BY <1>1 DEF StartGateways
  <2>2. UNCHANGED <<all_accounts, m_accounts, account_docs>>
    BY <2>1 DEF account_vars
  <2> QED
    BY <2>1, <2>2, AccountsKept
<1>2. CASE StartAccounts
  BY <1>2, LoadStep DEF StartAccounts
<1>3. CASE Crash \/ Terminates
  BY <1>3, EndsAccounts DEF Crash, Terminates
<1>4. CASE UserRequests /\ UNCHANGED <<account_vars, instrument_vars>>
  <2>1. UNCHANGED <<all_accounts, m_accounts, account_docs>>
    BY <1>4 DEF account_vars
  <2> QED
    BY <1>4, <2>1, UserStep, AccountsKept
<1>5. CASE AccountRequests /\ UNCHANGED instrument_vars
  BY <1>5, AccountStep
<1>6. CASE PositionsArrive /\ UNCHANGED instrument_vars
  BY <1>6, PositionStep, AccountsKept
<1>7. CASE InstrumentRequests /\ UNCHANGED account_vars
  <2>1. UNCHANGED <<all_accounts, m_accounts, account_docs>>
    BY <1>7 DEF account_vars
  <2>2. phase' = phase
    BY <1>7 DEF InstrumentRequests, Subscribe, Unsubscribe, Repeated
  <2>3. answer' = "refused" => UNCHANGED <<phase, requests, user_vars, instrument_vars>>
    BY <1>7 DEF InstrumentRequests, Subscribe, Unsubscribe, Repeated, Ok
  <2> QED
    BY <1>7, <2>1, <2>2, <2>3, AccountsKept
<1>8. CASE Tasks
  <2>1. UNCHANGED <<phase, account_vars>> /\ answer' = "none"
    BY <1>8 DEF Tasks
  <2>2. UNCHANGED <<all_accounts, m_accounts, account_docs>>
    BY <2>1 DEF account_vars
  <2> QED
    BY <2>1, <2>2, AccountsKept
<1> QED
  BY <1>1, <1>2, <1>3, <1>4, <1>5, <1>6, <1>7, <1>8 DEF AdminNext

\* A step of the composed system is one of the connections, which leaves what
\* the handlers keep alone, or one of the handlers, which leaves the connections
\* alone.
LEMMA Layers ==
    ASSUME [MCNext]_all_vars
    PROVE  \/ AdminNext /\ UNCHANGED vars
           \/ Next /\ UNCHANGED admin_vars
           \/ UNCHANGED <<vars, admin_vars>>
BY DEF MCNext, all_vars

LEMMA AccountInvStep == AccountInv /\ [MCNext]_all_vars => AccountInv'
<1> SUFFICES ASSUME AccountInv, [MCNext]_all_vars PROVE AccountInv'
  OBVIOUS
<1>1. CASE AdminNext
  BY <1>1, AdminAccountStep
<1>2. CASE UNCHANGED admin_vars
  <2>1. UNCHANGED <<phase, all_accounts, m_accounts, account_docs>>
    BY <1>2 DEF admin_vars, account_vars
  <2> QED
    BY <2>1, AccountsKept
<1> QED
  BY <1>1, <1>2, Layers

LEMMA AccountInvInit == MCInit => AccountInv
BY AccountInit DEF MCInit, AdminInit, ApiInit, AccountInv

\* Accounts in memory, accounts of the gateways, order entries and documents say
\* the same while AccountManager serves requests, for any accounts.
THEOREM AccountsStayAgreed == MCSpec => []AccountsAgree
BY AccountInvInit, AccountInvStep, AgreedIs, PTL DEF MCSpec

\* A request the handlers refuse has changed nothing: in particular add_account
\* leaves the gateway as it was when the exchange does not take the key, since
\* a key without a document is in no gateway.
THEOREM RefusalsChangeNothing == MCSpec => RefusedChangesNothing
<1>1. AccountInv /\ [MCNext]_all_vars =>
        [answer' = "refused" =>
            UNCHANGED <<phase, requests, user_vars, account_vars, instrument_vars>>]_admin_vars
  BY AdminAccountStep, Layers
<1> QED
  BY <1>1, AccountInvInit, AccountInvStep, PTL DEF MCSpec, RefusedChangesNothing
-----------------------------------------------------------------------------
(* Instruments. *)

\* SetToSeq lists a finite set, every element once.
LEMMA SetToSeqOK ==
    ASSUME NEW S, IsFiniteSet(S)
    PROVE  /\ Cardinality(S) \in Nat
           /\ SetToSeq(S) \in [1..Cardinality(S) -> S]
           /\ SetToSeq(S) \in Seq(S) /\ Len(SetToSeq(S)) = Cardinality(S)
           /\ \A x \in S : \E k \in 1..Cardinality(S) : SetToSeq(S)[k] = x
           /\ IsInjective(SetToSeq(S))
<1> DEFINE n == Cardinality(S)
<1>1. n \in Nat
  BY FS_CardinalityType
<1>2. \E f \in [1..n -> S] : IsInjective(f)
  <2>1. \E f : f \in Bijection(1..n, S)
    BY FS_CardinalityType, FS_NatBijection, Zenon DEF ExistsBijection
  <2>2. PICK f : f \in Bijection(1..n, S)
    BY <2>1
  <2>3. f \in [1..n -> S] /\ IsInjective(f)
    BY <2>2 DEF Bijection, Injection
  <2> QED
    BY <2>3
<1>3. PICK f : f = SetToSeq(S)
  OBVIOUS
<1>4. f \in [1..n -> S] /\ IsInjective(f)
  BY <1>2, <1>3 DEF SetToSeq
<1>5. f \in Injection(1..n, S)
  BY <1>4 DEF Injection
<1>6. IsFiniteSet(1..n) /\ Cardinality(1..n) = n
  <2> HIDE DEF n
  <2>1. 1 \in Int /\ n \in Int
    BY <1>1
  <2>2. IsFiniteSet(1..n) /\ Cardinality(1..n) = IF 1 > n THEN 0 ELSE n - 1 + 1
    BY <2>1, FS_Interval
  <2> QED
    BY <1>1, <2>2
<1>7. f \in Surjection(1..n, S)
  BY <1>5, <1>6, FS_Injection
<1>8. \A x \in S : \E k \in 1..n : f[k] = x
  BY <1>7 DEF Surjection
<1>9. f \in Seq(S) /\ Len(f) = n
  <2> HIDE DEF n
  <2> QED
    BY <1>1, <1>4
<1> QED
  BY <1>1, <1>3, <1>4, <1>8, <1>9

IoTasks == [op : {"init", "update", "remove"}, collection : {"cache", "subscribed"},
            instrument : Instruments]

InstrumentType ==
    /\ io_tasks \in Seq(IoTasks) /\ gateway_tasks \in Seq(Instruments)
    /\ DOMAIN subscribed_docs = Instruments
    /\ subscribed \subseteq Instruments

\* A database task about the subscription of an instrument.
Concerns(t, i) == t.collection = "subscribed" /\ t.instrument = i

\* The document of instrument i once the tasks have run: the last task about it
\* decides, and what there is if there is none.
WillBeSaved(q, docs, sub, i) ==
    \/ /\ \A n \in 1 .. Len(q) : ~Concerns(q[n], i)
       /\ docs[i] = IF i \in sub THEN "full" ELSE "none"
    \/ \E n \in 1 .. Len(q) :
          /\ Concerns(q[n], i) /\ q[n].op = IF i \in sub THEN "update" ELSE "remove"
          /\ \A m \in 1 .. Len(q) : Concerns(q[m], i) => m =< n

SavedInv == \A i \in Instruments : WillBeSaved(io_tasks, subscribed_docs, subscribed, i)

\* Every subscribed instrument has its order book or is about to get it, and the
\* websockets are those of the subscribed spot instruments, and maybe others.
FeedInv ==
    /\ \A i \in subscribed : i \in m_market_data \/ \E n \in 1 .. Len(gateway_tasks) : gateway_tasks[n] = i
    /\ subscribed \cap Spot \subseteq m_instruments /\ m_instruments \subseteq m_websockets

InstrumentInv == InstrumentType /\ (phase # "down" => SavedInv /\ FeedInv)

LEMMA InstrumentInvKeeps == InstrumentInv => SubscriptionsKept
<1> SUFFICES ASSUME InstrumentInv PROVE SubscriptionsKept
  OBVIOUS
<1>1. SubscriptionsSaved
  BY DEF InstrumentInv, SavedInv, WillBeSaved, SubscriptionsSaved
<1>2. FeedsRun
  BY DEF InstrumentInv, FeedInv, FeedsRun
<1> QED
  BY <1>1, <1>2 DEF SubscriptionsKept

\* The tasks that save the cache say nothing of a subscription.
LEMMA SavedAllIs ==
    ASSUME NEW list \in SUBSET Instruments
    PROVE  /\ SavedAll(list) \in Seq(IoTasks)
           /\ \A n \in 1 .. Len(SavedAll(list)) : SavedAll(list)[n].collection = "cache"
<1>1. IsFiniteSet(list)
  BY InstrumentAssumption, FS_Subset
<1>2. PICK c, order : c = Cardinality(list) /\ order = SetToSeq(list)
  OBVIOUS
<1>3. c \in Nat /\ order \in [1 .. c -> list]
  BY <1>1, <1>2, SetToSeqOK
<1>4. PICK all : all = [n \in 1 .. 2 * c |-> Saved("cache", order[(n + 1) \div 2])[2 - (n % 2)]]
  OBVIOUS
<1>5. ASSUME NEW n \in 1 .. 2 * c
      PROVE  all[n] \in IoTasks /\ all[n].collection = "cache"
  <2>1. (n + 1) \div 2 \in 1 .. c /\ n % 2 \in {0, 1}
    BY <1>3
  <2>2. PICK i : i = order[(n + 1) \div 2]
    OBVIOUS
  <2>3. i \in Instruments
    BY <1>3, <2>1, <2>2
  <2>4. 2 - (n % 2) \in {1, 2}
    BY <2>1
  <2>5. PICK k \in {1, 2} : k = 2 - (n % 2)
    BY <2>4
  <2>6. all[n] = Saved("cache", i)[k]
    BY <1>4, <2>2, <2>5
  <2>7. \A l \in {1, 2} : Saved("cache", i)[l] \in IoTasks /\ Saved("cache", i)[l].collection = "cache"
    BY <2>3 DEF Saved, IoTasks
  <2> QED
    BY <2>6, <2>7
<1>6. all \in [1 .. 2 * c -> IoTasks] /\ 2 * c \in Nat
  BY <1>3, <1>4, <1>5
<1>7. all \in Seq(IoTasks) /\ Len(all) = 2 * c
  BY <1>6
<1>8. SavedAll(list) = all
  BY <1>2, <1>4 DEF SavedAll
<1> QED
  BY <1>5, <1>7, <1>8

\* The last of the tasks that are appended.
LEMMA TasksAppended ==
    ASSUME NEW q \in Seq(IoTasks), NEW p \in Seq(IoTasks), Len(p) > 0
    PROVE  /\ q \o p \in Seq(IoTasks) /\ q \o p # <<>>
           /\ (q \o p)[Len(q \o p)] = p[Len(p)]
<1>1. PICK r : r = q \o p
  OBVIOUS
<1>2. r \in Seq(IoTasks) /\ Len(r) = Len(q) + Len(p) /\ Len(q) \in Nat /\ Len(p) \in Nat
  BY <1>1
<1>3. Len(p) \in 1 .. Len(p) /\ Len(r) # 0
  BY <1>2
<1>4. r[Len(q) + Len(p)] = p[Len(p)]
  BY <1>1, <1>2, <1>3
<1> QED
  BY <1>1, <1>2, <1>3, <1>4

\* Tasks about another instrument change nothing for this one.
LEMMA OthersAppended ==
    ASSUME NEW q \in Seq(IoTasks), NEW p \in Seq(IoTasks), NEW docs, NEW sub, NEW sub2, NEW i,
           WillBeSaved(q, docs, sub, i), i \in sub2 <=> i \in sub,
           \A n \in 1 .. Len(p) : ~Concerns(p[n], i)
    PROVE  WillBeSaved(q \o p, docs, sub2, i)
<1>1. PICK r : r = q \o p
  OBVIOUS
<1>2. r \in Seq(IoTasks) /\ Len(r) = Len(q) + Len(p) /\ Len(q) \in Nat /\ Len(p) \in Nat
  BY <1>1
<1>3. \A n \in 1 .. Len(q) : r[n] = q[n] /\ n \in 1 .. Len(r)
  BY <1>1, <1>2
<1>4. ASSUME NEW n \in 1 .. Len(r), Concerns(r[n], i) PROVE n \in 1 .. Len(q)
  <2>1. CASE n > Len(q)
    <3>1. PICK k \in 1 .. Len(p) : n = Len(q) + k
      <4>1. n - Len(q) \in 1 .. Len(p) /\ n = Len(q) + (n - Len(q))
        BY <1>2, <2>1
      <4> QED
        BY <4>1
    <3>2. r[n] = p[k]
      BY <1>1, <1>2, <3>1
    <3> QED
      BY <1>4, <3>1, <3>2
  <2> QED
    BY <1>2, <2>1
<1>5. WillBeSaved(r, docs, sub2, i)
  <2>1. CASE \A n \in 1 .. Len(q) : ~Concerns(q[n], i)
    <3>1. \A n \in 1 .. Len(r) : ~Concerns(r[n], i)
      BY <1>3, <1>4, <2>1
    <3> QED
      BY <2>1, <3>1 DEF WillBeSaved
  <2>2. CASE \E n \in 1 .. Len(q) : Concerns(q[n], i)
    <3>1. PICK n \in 1 .. Len(q) :
             /\ Concerns(q[n], i) /\ q[n].op = IF i \in sub THEN "update" ELSE "remove"
             /\ \A m \in 1 .. Len(q) : Concerns(q[m], i) => m =< n
      BY <2>2 DEF WillBeSaved
    <3>2. \A m \in 1 .. Len(r) : Concerns(r[m], i) => m =< n
      BY <1>3, <1>4, <3>1
    <3> QED
      BY <1>3, <3>1, <3>2 DEF WillBeSaved
  <2> QED
    BY <2>1, <2>2
<1> QED
  BY <1>1, <1>5

\* A task at the end decides about its instrument.
LEMMA LastDecides ==
    ASSUME NEW q \in Seq(IoTasks), q # <<>>, NEW docs, NEW sub, NEW i,
           Concerns(q[Len(q)], i), q[Len(q)].op = IF i \in sub THEN "update" ELSE "remove"
    PROVE  WillBeSaved(q, docs, sub, i)
<1>1. Len(q) \in 1 .. Len(q) /\ \A m \in 1 .. Len(q) : m =< Len(q)
  OBVIOUS
<1> QED
  BY <1>1 DEF WillBeSaved

\* The first task runs.
LEMMA TaskRuns ==
    ASSUME NEW q \in Seq(IoTasks), q # <<>>, NEW docs, NEW docs2, NEW sub, NEW i,
           WillBeSaved(q, docs, sub, i),
           Concerns(Head(q), i) /\ Head(q).op = "update" => docs2[i] = "full",
           Concerns(Head(q), i) /\ Head(q).op = "remove" => docs2[i] = "none",
           ~Concerns(Head(q), i) => docs2[i] = docs[i]
    PROVE  WillBeSaved(Tail(q), docs2, sub, i)
<1>1. PICK r : r = Tail(q)
  OBVIOUS
<1>2. r \in Seq(IoTasks) /\ Len(q) = Len(r) + 1 /\ Len(r) \in Nat /\ Head(q) = q[1]
  BY <1>1
<1>3. \A n \in 1 .. Len(r) : r[n] = q[n + 1] /\ n + 1 \in 1 .. Len(q)
  BY <1>1, <1>2
<1>4. \A n \in 1 .. Len(q) : n # 1 => \E k \in 1 .. Len(r) : n = k + 1
  <2> TAKE n \in 1 .. Len(q)
  <2> HAVE n # 1
  <2>1. n - 1 \in 1 .. Len(r) /\ n = (n - 1) + 1
    BY <1>2
  <2> QED
    BY <2>1
<1>5. CASE \A n \in 1 .. Len(q) : ~Concerns(q[n], i)
  <2>1. \A n \in 1 .. Len(r) : ~Concerns(r[n], i)
    BY <1>3, <1>5
  <2>2. 1 \in 1 .. Len(q)
    BY <1>2
  <2>3. docs2[i] = docs[i] /\ docs[i] = IF i \in sub THEN "full" ELSE "none"
    BY <1>2, <1>5, <2>2 DEF WillBeSaved
  <2> QED
    BY <1>1, <2>1, <2>3 DEF WillBeSaved
<1>6. CASE \E n \in 1 .. Len(q) : Concerns(q[n], i)
  <2>1. PICK n \in 1 .. Len(q) :
           /\ Concerns(q[n], i) /\ q[n].op = IF i \in sub THEN "update" ELSE "remove"
           /\ \A m \in 1 .. Len(q) : Concerns(q[m], i) => m =< n
    BY <1>6 DEF WillBeSaved
  <2>2. CASE n = 1
    <3>1. \A m \in 1 .. Len(r) : ~Concerns(r[m], i)
      BY <1>3, <2>1, <2>2
    <3>2. docs2[i] = IF i \in sub THEN "full" ELSE "none"
      BY <1>2, <2>1, <2>2
    <3> QED
      BY <1>1, <3>1, <3>2 DEF WillBeSaved
  <2>3. CASE n # 1
    <3>1. PICK k \in 1 .. Len(r) : n = k + 1
      BY <1>4, <2>3
    <3>2. Concerns(r[k], i) /\ r[k].op = IF i \in sub THEN "update" ELSE "remove"
      BY <1>3, <2>1, <3>1
    <3>3. ASSUME NEW m \in 1 .. Len(r), Concerns(r[m], i) PROVE m =< k
      <4>1. m + 1 =< n
        BY <1>3, <2>1, <3>3
      <4> QED
        BY <3>1, <4>1
    <3> QED
      BY <1>1, <3>2, <3>3 DEF WillBeSaved
  <2> QED
    BY <2>2, <2>3
<1> QED
  BY <1>5, <1>6
\* What leaves the subscriptions, their feeds and the posted tasks alone.
LEMMA InstrumentsKept ==
    ASSUME InstrumentInv, UNCHANGED instrument_vars, phase' = "down" \/ phase # "down"
    PROVE  InstrumentInv'
BY DEF InstrumentInv, InstrumentType, SavedInv, FeedInv, instrument_vars, documents, market_data

LEMMA EndsInstruments ==
    ASSUME InstrumentInv, Ends
    PROVE  InstrumentInv'
<1>1. phase' = "down" /\ subscribed_docs' = subscribed_docs
  BY DEF Ends, ForgetInstruments, documents
<1>2. io_tasks' = <<>> /\ gateway_tasks' = <<>> /\ subscribed' = {}
  BY DEF Ends, ForgetInstruments
<1>3. io_tasks' \in Seq(IoTasks) /\ gateway_tasks' \in Seq(Instruments)
  BY <1>2
<1> QED
  BY <1>1, <1>2, <1>3 DEF InstrumentInv, InstrumentType

\* init of the gateways: every document of a subscription is whole.
LEMMA StartStep ==
    ASSUME InstrumentInv, NEW list \in SUBSET Instruments, Startable(list), InitGateways(list)
    PROVE  InstrumentInv'
<1>1. /\ subscribed' = Subscribed /\ Subscribed \subseteq Instruments
      /\ gateway_tasks' = SetToSeq(Subscribed) /\ subscribed_docs' = subscribed_docs
      /\ m_instruments' = Subscribed \cap Spot /\ m_websockets' = Subscribed \cap Spot
  BY DEF InitGateways, start_websockets, Subscribed, documents
<1>2. IsFiniteSet(Subscribed)
  BY <1>1, InstrumentAssumption, FS_Subset
<1>3. /\ SetToSeq(Subscribed) \in Seq(Subscribed)
      /\ \A i \in Subscribed : \E n \in 1 .. Len(SetToSeq(Subscribed)) : SetToSeq(Subscribed)[n] = i
  BY <1>2, SetToSeqOK
<1>4. gateway_tasks' \in Seq(Instruments)
  <2>1. PICK g : g = SetToSeq(Subscribed)
    OBVIOUS
  <2>2. g \in Seq(Subscribed) /\ Subscribed \subseteq Instruments
    BY <1>1, <1>3, <2>1
  <2>3. Len(g) \in Nat /\ g \in [1 .. Len(g) -> Instruments]
    BY <2>2
  <2> QED
    BY <1>1, <2>1, <2>3
<1>5. FeedInv'
  BY <1>1, <1>3 DEF FeedInv
<1>6. io_tasks' \in Seq(IoTasks) /\ \A n \in 1 .. Len(io_tasks') : io_tasks'[n].collection = "cache"
  <2>1. CASE InCache # {}
    <3>1. io_tasks' = <<>>
      BY <2>1 DEF InitGateways
    <3> QED
      BY <3>1
  <2>2. CASE ~(InCache # {})
    <3>1. io_tasks' = SavedAll(list)
      BY <2>2 DEF InitGateways
    <3> QED
      BY <3>1, SavedAllIs
  <2> QED
    BY <2>1, <2>2
<1>7. ASSUME NEW i \in Instruments PROVE WillBeSaved(io_tasks', subscribed_docs', subscribed', i)
  <2>1. \A n \in 1 .. Len(io_tasks') : ~Concerns(io_tasks'[n], i)
    BY <1>6 DEF Concerns
  <2>2. subscribed_docs[i] = IF i \in Subscribed THEN "full" ELSE "none"
    BY DEF Startable, Subscribed
  <2> QED
    BY <1>1, <2>1, <2>2 DEF WillBeSaved
<1>8. SavedInv'
  BY <1>7 DEF SavedInv
<1> QED
  BY <1>1, <1>4, <1>5, <1>6, <1>8 DEF InstrumentInv, InstrumentType

\* A database task.
LEMMA IoStep ==
    ASSUME InstrumentInv, RunIoTask, phase' = phase
    PROVE  InstrumentInv'
<1>1. PICK t : t = Head(io_tasks)
  OBVIOUS
<1>2. io_tasks \in Seq(IoTasks) /\ io_tasks # <<>> /\ io_tasks' = Tail(io_tasks)
  BY DEF RunIoTask, InstrumentInv, InstrumentType
<1>3. t \in IoTasks /\ io_tasks' \in Seq(IoTasks)
  BY <1>1, <1>2
<1>4. t.op \in {"init", "update", "remove"} /\ t.instrument \in Instruments
  BY <1>3 DEF IoTasks
<1>5. UNCHANGED <<subscribed, gateway_tasks, m_instruments, m_websockets, m_market_data>>
  BY DEF RunIoTask, market_data
<1>6. \/ t.collection = "cache" /\ subscribed_docs' = subscribed_docs
      \/ t.collection # "cache" /\ subscribed_docs' = Written(subscribed_docs, t)
  BY <1>1 DEF RunIoTask
<1>7. DOMAIN subscribed_docs = Instruments
  BY DEF InstrumentInv, InstrumentType
<1>8. DOMAIN subscribed_docs' = Instruments
  BY <1>6, <1>7 DEF Written
<1>9. ASSUME NEW i \in Instruments
      PROVE  /\ Concerns(t, i) /\ t.op = "update" => subscribed_docs'[i] = "full"
             /\ Concerns(t, i) /\ t.op = "remove" => subscribed_docs'[i] = "none"
             /\ ~Concerns(t, i) => subscribed_docs'[i] = subscribed_docs[i]
  <2>1. t.collection \in {"cache", "subscribed"}
    BY <1>3 DEF IoTasks
  <2>2. CASE t.collection = "cache"
    BY <1>6, <2>2 DEF Concerns
  <2>3. CASE t.collection = "subscribed"
    <3>1. subscribed_docs' = Written(subscribed_docs, t)
      BY <1>6, <2>3
    <3> QED
      BY <1>4, <1>7, <2>3, <3>1 DEF Concerns, Written
  <2> QED
    BY <2>1, <2>2, <2>3
<1>10. ASSUME phase # "down", NEW i \in Instruments
       PROVE  WillBeSaved(io_tasks', subscribed_docs', subscribed', i)
  <2>1. WillBeSaved(io_tasks, subscribed_docs, subscribed, i)
    BY <1>10 DEF InstrumentInv, SavedInv
  <2>2. WillBeSaved(Tail(io_tasks), subscribed_docs', subscribed, i)
    BY <1>1, <1>2, <1>9, <2>1, TaskRuns
  <2> QED
    BY <1>2, <1>5, <2>2
<1>11. phase' # "down" => SavedInv'
  BY <1>10 DEF SavedInv
<1>12. phase' # "down" => FeedInv'
  BY <1>5 DEF InstrumentInv, FeedInv
<1> QED
  BY <1>3, <1>5, <1>8, <1>11, <1>12 DEF InstrumentInv, InstrumentType

\* An order book starts.
LEMMA GatewayStep ==
    ASSUME InstrumentInv, RunGatewayTask, phase' = phase
    PROVE  InstrumentInv'
<1>1. PICK i, q : i = Head(gateway_tasks) /\ q = gateway_tasks'
  OBVIOUS
<1>2. gateway_tasks \in Seq(Instruments) /\ gateway_tasks # <<>> /\ q = Tail(gateway_tasks)
  BY <1>1 DEF RunGatewayTask, InstrumentInv, InstrumentType
<1>3. q \in Seq(Instruments) /\ Len(gateway_tasks) = Len(q) + 1 /\ i = gateway_tasks[1]
  BY <1>1, <1>2
<1>4. \A n \in 1 .. Len(q) : q[n] = gateway_tasks[n + 1]
  BY <1>2, <1>3
<1>5. UNCHANGED <<subscribed, io_tasks, subscribed_docs, m_instruments, m_websockets>>
      /\ m_market_data' = m_market_data \cup {i}
  BY <1>1 DEF RunGatewayTask, documents
<1>6. ASSUME phase # "down", NEW j \in subscribed
      PROVE  j \in m_market_data' \/ \E n \in 1 .. Len(q) : q[n] = j
  <2>1. j \in m_market_data \/ \E n \in 1 .. Len(gateway_tasks) : gateway_tasks[n] = j
    BY <1>6 DEF InstrumentInv, FeedInv
  <2>2. ASSUME NEW n \in 1 .. Len(gateway_tasks), gateway_tasks[n] = j
        PROVE  j = i \/ \E k \in 1 .. Len(q) : q[k] = j
    <3>1. CASE n = 1
      BY <1>3, <2>2, <3>1
    <3>2. CASE n # 1
      <4>1. n - 1 \in 1 .. Len(q) /\ n = (n - 1) + 1
        BY <1>3, <3>2
      <4>2. PICK k \in 1 .. Len(q) : n = k + 1
        BY <4>1
      <4> QED
        BY <1>4, <2>2, <4>2
    <3> QED
      BY <3>1, <3>2
  <2> QED
    BY <1>5, <2>1, <2>2
<1>7. phase' # "down" => SavedInv'
  BY <1>5 DEF InstrumentInv, SavedInv
<1>8. phase' # "down" => FeedInv'
  BY <1>1, <1>5, <1>6 DEF InstrumentInv, FeedInv
<1> QED
  BY <1>1, <1>3, <1>5, <1>7, <1>8 DEF InstrumentInv, InstrumentType

LEMMA SubscribeStep ==
    ASSUME InstrumentInv, NEW i \in Instruments, Subscribe(i)
    PROVE  InstrumentInv'
<1>1. phase = "serving" /\ phase' = phase /\ InstrumentType /\ SavedInv /\ FeedInv
  BY DEF Subscribe, Admitted, InstrumentInv
<1>2. /\ subscribed' = subscribed \cup {i} /\ io_tasks' = io_tasks \o Saved("subscribed", i)
      /\ m_instruments' = m_instruments \cup ({i} \cap Spot) /\ m_websockets' = m_instruments'
      /\ gateway_tasks' = Append(gateway_tasks, i)
      /\ UNCHANGED <<m_market_data, subscribed_docs>>
  BY DEF Subscribe, add_subscribed_instrument, subscribe_instrument, start_websockets, documents
<1>3. PICK p : p = Saved("subscribed", i)
  OBVIOUS
<1>4. /\ p \in Seq(IoTasks) /\ Len(p) = 2
      /\ \A n \in 1 .. 2 : p[n].collection = "subscribed" /\ p[n].instrument = i
      /\ p[2].op = "update"
  BY <1>3 DEF Saved, IoTasks
<1>5. PICK q : q = io_tasks'
  OBVIOUS
<1>6. io_tasks \in Seq(IoTasks) /\ q = io_tasks \o p
  BY <1>1, <1>2, <1>3, <1>5 DEF InstrumentType
<1>7. q \in Seq(IoTasks) /\ q # <<>> /\ q[Len(q)] = p[2]
  <2>1. PICK io : io = io_tasks
    OBVIOUS
  <2>2. io \in Seq(IoTasks) /\ q = io \o p /\ p \in Seq(IoTasks)
    BY <1>4, <1>6, <2>1
  <2>3. Len(p) > 0 /\ Len(p) = 2
    BY <1>4
  <2>4. io \o p \in Seq(IoTasks) /\ io \o p # <<>> /\ (io \o p)[Len(io \o p)] = p[Len(p)]
    BY <2>2, <2>3, TasksAppended
  <2> QED
    BY <2>2, <2>3, <2>4
<1>8. ASSUME NEW j \in Instruments PROVE WillBeSaved(q, subscribed_docs', subscribed', j)
  <2>1. CASE j = i
    <3>1. Concerns(q[Len(q)], j) /\ q[Len(q)].op = "update" /\ j \in subscribed'
      BY <1>2, <1>4, <1>7, <2>1 DEF Concerns
    <3> QED
      BY <1>7, <3>1, LastDecides
  <2>2. CASE j # i
    <3>1. \A n \in 1 .. Len(p) : ~Concerns(p[n], j)
      BY <1>4, <2>2 DEF Concerns
    <3>2. j \in subscribed' <=> j \in subscribed
      BY <1>2, <2>2
    <3>3. WillBeSaved(io_tasks, subscribed_docs, subscribed, j)
      BY <1>1 DEF SavedInv
    <3>4. WillBeSaved(io_tasks \o p, subscribed_docs, subscribed', j)
      BY <1>4, <1>6, <3>1, <3>2, <3>3, OthersAppended
    <3> QED
      BY <1>2, <1>6, <3>4
  <2> QED
    BY <2>1, <2>2
<1>9. SavedInv'
  BY <1>5, <1>8 DEF SavedInv
<1>10. PICK g : g = gateway_tasks'
  OBVIOUS
<1>11. /\ g \in Seq(Instruments) /\ Len(g) = Len(gateway_tasks) + 1 /\ g[Len(g)] = i
       /\ Len(g) \in 1 .. Len(g)
       /\ \A n \in 1 .. Len(gateway_tasks) : g[n] = gateway_tasks[n] /\ n \in 1 .. Len(g)
  BY <1>1, <1>2, <1>10 DEF InstrumentType
<1>12. \A j \in subscribed' : j \in m_market_data' \/ \E n \in 1 .. Len(g) : g[n] = j
  BY <1>1, <1>2, <1>11 DEF FeedInv
<1>13. FeedInv'
  BY <1>1, <1>2, <1>10, <1>12 DEF FeedInv
<1> QED
  BY <1>1, <1>2, <1>5, <1>7, <1>9, <1>10, <1>11, <1>13 DEF InstrumentInv, InstrumentType

LEMMA UnsubscribeStep ==
    ASSUME InstrumentInv, NEW i \in Instruments, Unsubscribe(i)
    PROVE  InstrumentInv'
<1>1. phase = "serving" /\ phase' = phase /\ InstrumentType /\ SavedInv /\ FeedInv
  BY DEF Unsubscribe, Admitted, InstrumentInv
<1>2. /\ subscribed' = subscribed \ {i} /\ io_tasks' = io_tasks \o Removed(i)
      /\ m_instruments' = m_instruments \ {i}
      /\ m_market_data' = m_market_data \ ({i} \ Spot)
      /\ UNCHANGED <<m_websockets, gateway_tasks, subscribed_docs>>
  BY DEF Unsubscribe, remove_subscribed_instrument, unsubscribe_instrument, documents
<1>3. PICK p : p = Removed(i)
  OBVIOUS
<1>4. /\ p \in Seq(IoTasks) /\ Len(p) = 1
      /\ p[1].collection = "subscribed" /\ p[1].instrument = i /\ p[1].op = "remove"
  BY <1>3 DEF Removed, IoTasks
<1>5. PICK q : q = io_tasks'
  OBVIOUS
<1>6. io_tasks \in Seq(IoTasks) /\ q = io_tasks \o p
  BY <1>1, <1>2, <1>3, <1>5 DEF InstrumentType
<1>7. q \in Seq(IoTasks) /\ q # <<>> /\ q[Len(q)] = p[1]
  <2>1. PICK io : io = io_tasks
    OBVIOUS
  <2>2. io \in Seq(IoTasks) /\ q = io \o p /\ p \in Seq(IoTasks)
    BY <1>4, <1>6, <2>1
  <2>3. Len(p) > 0 /\ Len(p) = 1
    BY <1>4
  <2>4. io \o p \in Seq(IoTasks) /\ io \o p # <<>> /\ (io \o p)[Len(io \o p)] = p[Len(p)]
    BY <2>2, <2>3, TasksAppended
  <2> QED
    BY <2>2, <2>3, <2>4
<1>8. ASSUME NEW j \in Instruments PROVE WillBeSaved(q, subscribed_docs', subscribed', j)
  <2>1. CASE j = i
    <3>1. Concerns(q[Len(q)], j) /\ q[Len(q)].op = "remove" /\ j \notin subscribed'
      BY <1>2, <1>4, <1>7, <2>1 DEF Concerns
    <3> QED
      BY <1>7, <3>1, LastDecides
  <2>2. CASE j # i
    <3>1. \A n \in 1 .. Len(p) : ~Concerns(p[n], j)
      BY <1>4, <2>2 DEF Concerns
    <3>2. j \in subscribed' <=> j \in subscribed
      BY <1>2, <2>2
    <3>3. WillBeSaved(io_tasks, subscribed_docs, subscribed, j)
      BY <1>1 DEF SavedInv
    <3>4. WillBeSaved(io_tasks \o p, subscribed_docs, subscribed', j)
      BY <1>4, <1>6, <3>1, <3>2, <3>3, OthersAppended
    <3> QED
      BY <1>2, <1>6, <3>4
  <2> QED
    BY <2>1, <2>2
<1>9. SavedInv'
  BY <1>5, <1>8 DEF SavedInv
<1>10. FeedInv'
  BY <1>1, <1>2 DEF FeedInv
<1> QED
  BY <1>1, <1>2, <1>5, <1>7, <1>9, <1>10 DEF InstrumentInv, InstrumentType

LEMMA InstrumentInvStep == InstrumentInv /\ [MCNext]_all_vars => InstrumentInv'
<1> SUFFICES ASSUME InstrumentInv, [MCNext]_all_vars PROVE InstrumentInv'
  OBVIOUS
<1>1. CASE UNCHANGED instrument_vars /\ phase' = phase
  BY <1>1, InstrumentsKept
<1>2. CASE UNCHANGED admin_vars
  <2>1. UNCHANGED instrument_vars /\ phase' = phase
    BY <1>2 DEF admin_vars
  <2> QED
    BY <2>1, InstrumentsKept
<1>3. CASE StartGateways
  <2>1. PICK list \in Listed :
           \/ Startable(list) /\ phase' = "starting" /\ InitGateways(list)
           \/ ~Startable(list) /\ phase' = "down" /\ UNCHANGED instrument_vars
    BY <1>3 DEF StartGateways
  <2>2. list \subseteq Instruments
    BY InstrumentAssumption DEF Listed, fetch_instruments
  <2> QED
    BY <2>1, <2>2, StartStep, InstrumentsKept
<1>4. CASE StartAccounts
  BY <1>4, InstrumentsKept DEF StartAccounts
<1>5. CASE Crash \/ Terminates
  BY <1>5, EndsInstruments DEF Crash, Terminates
<1>6. CASE UserRequests /\ UNCHANGED <<account_vars, instrument_vars>>
  BY <1>6, UserStep, InstrumentsKept
<1>7. CASE AccountRequests /\ UNCHANGED instrument_vars
  <2>1. phase' = phase
    BY <1>7 DEF AccountRequests, add_account, add_activate_account, AddAgain, SetUnknown,
                set_active_account, PositionList
  <2> QED
    BY <1>7, <2>1, InstrumentsKept
<1>8. CASE PositionsArrive /\ UNCHANGED instrument_vars
  BY <1>8, PositionStep, InstrumentsKept
<1>9. CASE InstrumentRequests
  <2>1. ASSUME NEW i \in Instruments, NEW method, Repeated(i, method) PROVE InstrumentInv'
    <3>1. UNCHANGED <<phase, instrument_vars>>
      BY <2>1 DEF Repeated
    <3> QED
      BY <3>1, InstrumentsKept
  <2> QED
    BY <1>9, <2>1, SubscribeStep, UnsubscribeStep DEF InstrumentRequests
<1>10. CASE Tasks
  BY <1>10, IoStep, GatewayStep DEF Tasks
<1> QED
  BY <1>2, <1>3, <1>4, <1>5, <1>6, <1>7, <1>8, <1>9, <1>10, Layers DEF AdminNext

LEMMA InstrumentInvInit == MCInit => InstrumentInv
BY DEF MCInit, AdminInit, ApiInit, InstrumentsInit, InstrumentInv, InstrumentType

\* Whatever is subscribed and unsubscribed, in whatever order the database and
\* gateway tasks run and wherever the process ends and starts again: once the
\* tasks have run the documents are the subscriptions, and every subscription
\* has its feed.
THEOREM SubscriptionsLast == MCSpec => []SubscriptionsKept
BY InstrumentInvInit, InstrumentInvStep, InstrumentInvKeeps, PTL DEF MCSpec
-----------------------------------------------------------------------------
(* Connection objects and their descriptors. *)

LiveStages == {"tls", "ready", "open", "closing"}

PoolType ==
    /\ available \in Seq(Objects)
    /\ stage \in [Objects -> LiveStages \cup {"none", "pooled", "lost"}]
    /\ fd \in [Objects -> Fds \cup {0}]
    /\ client \in [Objects -> Clients \cup {NoOne}]
    /\ backlog \in Seq(Clients)

\* A connection has a descriptor and a client.  The HTTPS server forgets the
\* descriptor with the connection, the websocket server does not.
LiveFacts ==
    /\ \A o \in Objects : Live(o) => fd[o] \in Fds /\ client[o] \in Clients
    /\ kind = "https" => \A o \in Objects : ~Live(o) => fd[o] = 0

PoolInv == PoolType /\ LiveFacts /\ PoolConserved

\* A non-empty set of naturals has a least member.
LEMMA LeastNat ==
    ASSUME NEW S \in SUBSET Nat, S # {}
    PROVE  \E n \in S : \A k \in S : n =< k
<1> DEFINE less == {p \in Nat \X Nat : p[1] < p[2]}
<1>1. IsWellFoundedOn(less, Nat)
  BY NatLessThanWellFounded DEF OpToRel
<1>2. \A n, k \in Nat : <<k, n>> \notin less => n =< k
  OBVIOUS
<1> HIDE DEF less
<1>3. S \subseteq Nat
  OBVIOUS
<1>4. PICK n \in S : \A k \in S : <<k, n>> \notin less
  BY <1>1, <1>3, WFMin, Zenon
<1> QED
  BY <1>2, <1>3, <1>4

LEMMA LowestFree ==
    ASSUME FreeFds # {}
    PROVE  Lowest(FreeFds) \in FreeFds
<1>1. FreeFds \subseteq Nat
  BY FdsAssumption DEF FreeFds
<1>2. \E n \in FreeFds : \A k \in FreeFds : n =< k
  BY <1>1, LeastNat
<1> QED
  BY <1>2 DEF Lowest

\* The first item leaves a sequence, a new one joins it at the end.
LEMMA TailIs ==
    ASSUME NEW S, NEW s \in Seq(S), s # <<>>
    PROVE  /\ Tail(s) \in Seq(S) /\ Len(Tail(s)) = Len(s) - 1 /\ Len(s) \in Nat \ {0}
           /\ Head(s) \in S /\ Head(s) = s[1]
           /\ \A i \in 1 .. Len(s) - 1 : Tail(s)[i] = s[i + 1]
           /\ \A i \in 2 .. Len(s) : Tail(s)[i - 1] = s[i]
OBVIOUS

LEMMA AppendIs ==
    ASSUME NEW S, NEW s \in Seq(S), NEW x \in S
    PROVE  /\ Append(s, x) \in Seq(S) /\ Len(Append(s, x)) = Len(s) + 1 /\ Len(s) \in Nat
           /\ \A i \in 1 .. Len(s) : Append(s, x)[i] = s[i]
           /\ Append(s, x)[Len(s) + 1] = x
OBVIOUS

LEMMA InjectiveTail ==
    ASSUME NEW S, NEW s \in Seq(S), s # <<>>, IsInjective(s)
    PROVE  /\ IsInjective(Tail(s)) /\ Head(s) \in Range(s)
           /\ Range(Tail(s)) = Range(s) \ {Head(s)}
<1>1. PICK t : t = Tail(s)
  OBVIOUS
<1>2. /\ t \in Seq(S) /\ Len(t) = Len(s) - 1 /\ Len(s) \in Nat \ {0}
      /\ Head(s) \in S /\ Head(s) = s[1]
      /\ \A i \in 1 .. Len(s) - 1 : t[i] = s[i + 1]
      /\ \A i \in 2 .. Len(s) : t[i - 1] = s[i]
  BY <1>1, TailIs
<1>3. DOMAIN s = 1 .. Len(s) /\ DOMAIN t = 1 .. Len(s) - 1
  BY <1>2
<1>4. \A i, j \in 1 .. Len(s) : s[i] = s[j] => i = j
  BY <1>3 DEF IsInjective
<1>5. IsInjective(t)
  <2> SUFFICES ASSUME NEW i \in 1 .. Len(s) - 1, NEW j \in 1 .. Len(s) - 1, t[i] = t[j] PROVE i = j
    BY <1>3 DEF IsInjective
  <2>1. i + 1 \in 1 .. Len(s) /\ j + 1 \in 1 .. Len(s) /\ s[i + 1] = s[j + 1]
    BY <1>2
  <2>2. i + 1 = j + 1
    BY <1>4, <2>1
  <2> QED
    BY <2>2
<1>6. ASSUME NEW x \in Range(t) PROVE x \in Range(s) \ {Head(s)}
  <2>1. PICK i \in 1 .. Len(s) - 1 : x = t[i]
    BY <1>3, <1>6 DEF Range
  <2>2. i + 1 \in 1 .. Len(s) /\ 1 \in 1 .. Len(s) /\ i + 1 # 1 /\ x = s[i + 1]
    BY <1>2, <2>1
  <2> QED
    BY <1>2, <1>3, <1>4, <2>2 DEF Range
<1>7. ASSUME NEW x \in Range(s), x # Head(s) PROVE x \in Range(t)
  <2>1. PICK i \in 1 .. Len(s) : x = s[i]
    BY <1>3, <1>7 DEF Range
  <2>2. i \in 2 .. Len(s) /\ i - 1 \in 1 .. Len(s) - 1
    BY <1>2, <1>7, <2>1
  <2>3. t[i - 1] = x
    BY <1>2, <2>1, <2>2
  <2> QED
    BY <1>3, <2>2, <2>3 DEF Range
<1>8. Head(s) \in Range(s)
  BY <1>2, <1>3 DEF Range
<1> QED
  BY <1>1, <1>5, <1>6, <1>7, <1>8

LEMMA InjectiveAppended ==
    ASSUME NEW S, NEW s \in Seq(S), NEW x \in S, IsInjective(s), x \notin Range(s)
    PROVE  IsInjective(Append(s, x)) /\ Range(Append(s, x)) = Range(s) \cup {x}
<1>1. PICK t : t = Append(s, x)
  OBVIOUS
<1>2. /\ t \in Seq(S) /\ Len(t) = Len(s) + 1 /\ Len(s) \in Nat
      /\ \A i \in 1 .. Len(s) : t[i] = s[i]
      /\ t[Len(s) + 1] = x
  BY <1>1, AppendIs
<1>3. DOMAIN s = 1 .. Len(s) /\ DOMAIN t = 1 .. Len(s) + 1
  BY <1>2
<1>8. \A i \in 1 .. Len(s) : s[i] # x
  BY <1>3 DEF Range
<1>4. PICK m : m = Len(s) + 1
  OBVIOUS
<1>5. m \in Nat /\ t[m] = x /\ DOMAIN t = 1 .. m
      /\ \A i \in 1 .. m : i = m \/ (i \in 1 .. Len(s) /\ t[i] = s[i] /\ s[i] # x)
  BY <1>2, <1>3, <1>4, <1>8
<1>6. IsInjective(t)
  BY <1>3, <1>5 DEF IsInjective
<1>7. Range(t) = Range(s) \cup {x}
  <2>1. m \in 1 .. m /\ \A i \in 1 .. Len(s) : i \in 1 .. m /\ t[i] = s[i]
    BY <1>2, <1>4
  <2> QED
    BY <1>3, <1>5, <2>1 DEF Range
<1> QED
  BY <1>1, <1>6, <1>7

LEMMA PoolInvInit == MCInit => PoolInv
<1> SUFFICES ASSUME MCInit PROVE PoolInv
  OBVIOUS
<1>1. ServerInit
  BY DEF MCInit, Init
<1>2. PICK used \in SUBSET Objects : /\ available = SetToSeq(used)
                                     /\ stage = [o \in Objects |-> IF o \in used THEN "pooled" ELSE "none"]
  BY <1>1 DEF ServerInit
<1>3. IsFiniteSet(used)
  BY FdsAssumption, FS_Subset
<1>4. /\ Cardinality(used) \in Nat /\ available \in [1 .. Cardinality(used) -> used]
      /\ available \in Seq(used) /\ IsInjective(available)
      /\ \A x \in used : \E k \in 1 .. Cardinality(used) : available[k] = x
  BY <1>2, <1>3, SetToSeqOK
<1>5. available \in Seq(Objects)
  BY <1>4
<1>6. Range(available) = used
  BY <1>4 DEF Range
<1>7. fd = [o \in Objects |-> 0] /\ client = [o \in Objects |-> NoOne] /\ backlog = <<>>
  BY <1>1 DEF ServerInit
<1>8. PoolType
  BY <1>2, <1>5, <1>7 DEF PoolType
<1>9. \A o \in Objects : ~Live(o) /\ fd[o] = 0 /\ (stage[o] = "pooled" <=> o \in used)
  BY <1>2, <1>7 DEF Live
<1>10. {o \in Objects : stage[o] = "pooled"} = used
  BY <1>9
<1> QED
  BY <1>4, <1>6, <1>8, <1>9, <1>10 DEF PoolInv, LiveFacts, PoolConserved

LEMMA PoolKept ==
    ASSUME PoolInv, UNCHANGED <<available, fd, client, stage, kind>>, backlog' \in Seq(Clients)
    PROVE  PoolInv'
BY DEF PoolInv, PoolType, LiveFacts, PoolConserved, Live

\* A connection goes on to another stage.
LEMMA PoolRestaged ==
    ASSUME PoolInv, NEW o \in Objects, Live(o), NEW s \in LiveStages,
           stage' = [stage EXCEPT ![o] = s], UNCHANGED <<available, fd, client, backlog, kind>>
    PROVE  PoolInv'
<1>1. PoolType'
  BY DEF PoolInv, PoolType
<1>2. \A x \in Objects : (Live(x)' <=> Live(x)) /\ (stage'[x] = "pooled" <=> stage[x] = "pooled")
  BY DEF PoolInv, PoolType, Live, LiveStages
<1> QED
  BY <1>1, <1>2 DEF PoolInv, LiveFacts, PoolConserved

\* A connection is closed.
LEMMA PoolReleased ==
    ASSUME PoolInv, NEW o \in Objects, NEW closed \in Fds \cup {0},
           Live(o) \/ fd[o] = 0, kind = "https" => closed = 0,
           DelFd(o, closed), UNCHANGED <<backlog, kind>>
    PROVE  PoolInv' /\ (Live(o) => ~Live(o)')
<1>1. CASE ~Live(o)
  BY <1>1, PoolKept DEF DelFd, pool, PoolInv, PoolType
<1>2. CASE Live(o)
  <2>1. fd[o] # 0
    BY <1>2, FdsAssumption DEF PoolInv, LiveFacts
  <2>2. available' = Append(available, o) /\ stage' = [stage EXCEPT ![o] = "pooled"]
        /\ client' = [client EXCEPT ![o] = NoOne] /\ fd' = [fd EXCEPT ![o] = closed]
    BY <2>1 DEF DelFd
  <2>3. PoolType /\ o \notin Range(available) /\ IsInjective(available)
    BY <1>2 DEF PoolInv, PoolConserved, Live
  <2>4. PoolType'
    BY <2>2, <2>3 DEF PoolType
  <2>5. IsInjective(available') /\ Range(available') = Range(available) \cup {o}
    BY <2>2, <2>3, InjectiveAppended DEF PoolType
  <2>6. /\ stage'[o] = "pooled" /\ ~Live(o)' /\ fd'[o] = closed
        /\ \A x \in Objects \ {o} : /\ stage'[x] = stage[x] /\ fd'[x] = fd[x]
                                    /\ client'[x] = client[x] /\ (Live(x)' <=> Live(x))
    BY <2>2, <2>3 DEF PoolType, Live
  <2>7. LiveFacts'
    BY <2>6 DEF PoolInv, LiveFacts
  <2>8. Range(available') = {x \in Objects : stage'[x] = "pooled"}
    BY <2>5, <2>6 DEF PoolInv, PoolConserved
  <2>9. PoolConserved'
    BY <2>5, <2>6, <2>8 DEF PoolInv, PoolConserved
  <2> QED
    BY <2>4, <2>6, <2>7, <2>9 DEF PoolInv
<1> QED
  BY <1>1, <1>2

\* The object that leaves the pool.
LEMMA AcquiresIs ==
    ASSUME PoolInv, NEW held, NEW o \in Objects, Acquires(o, held)
    PROVE  /\ stage[o] = "pooled" /\ ~Live(o) /\ o = Head(available) /\ available # <<>> /\ backlog # <<>>
           /\ Tail(available) \in Seq(Objects) /\ IsInjective(Tail(available))
           /\ o \in Range(available) /\ Range(Tail(available)) = Range(available) \ {o}
           /\ Tail(backlog) \in Seq(Clients) /\ Head(backlog) \in Clients
           /\ recycled' = (recycled \/ o \in held) /\ Event(Listen)
           /\ UNCHANGED <<inbox, received, engine, draining>>
<1>1. PoolType /\ IsInjective(available)
  BY DEF PoolInv, PoolConserved
<1>2. available # <<>> /\ o = Head(available) /\ backlog # <<>>
  BY DEF Acquires
<1>3. /\ Tail(available) \in Seq(Objects)
      /\ Tail(backlog) \in Seq(Clients) /\ Head(backlog) \in Clients
  BY <1>1, <1>2, TailIs DEF PoolType
<1>4. /\ IsInjective(Tail(available)) /\ o \in Range(available)
      /\ Range(Tail(available)) = Range(available) \ {o}
  BY <1>1, <1>2, InjectiveTail DEF PoolType
<1>5. stage[o] = "pooled" /\ ~Live(o)
  BY <1>4 DEF PoolInv, PoolConserved, Live
<1> QED
  BY <1>2, <1>3, <1>4, <1>5 DEF Acquires, Event

\* A connection is accepted, with a descriptor no other has.
LEMMA PoolAccepts ==
    ASSUME PoolInv, NEW held, Accept(held), UNCHANGED kind
    PROVE  /\ PoolInv'
           /\ \E o \in Objects :
                 /\ stage[o] = "pooled" /\ ~Live(o) /\ stage' = [stage EXCEPT ![o] = "tls"]
                 /\ fd' = [fd EXCEPT ![o] = Lowest(FreeFds)] /\ Lowest(FreeFds) \in FreeFds
                 /\ client' = [client EXCEPT ![o] = Head(backlog)] /\ Head(backlog) \in Clients
                 /\ served' = [served EXCEPT ![Head(backlog)] = o] /\ backlog' = Tail(backlog)
                 /\ backlog # <<>> /\ recycled' = (recycled \/ o \in held)
<1>1. PICK o \in Objects :
         /\ Acquires(o, held) /\ available' = Tail(available)
         /\ FreeFds # {} /\ fd' = [fd EXCEPT ![o] = Lowest(FreeFds)]
         /\ client' = [client EXCEPT ![o] = Head(backlog)]
         /\ served' = [served EXCEPT ![Head(backlog)] = o]
         /\ stage' = [stage EXCEPT ![o] = "tls"] /\ backlog' = Tail(backlog)
  BY DEF Accept
<1>2. /\ stage[o] = "pooled" /\ ~Live(o) /\ backlog # <<>>
      /\ Tail(available) \in Seq(Objects) /\ IsInjective(Tail(available))
      /\ Range(Tail(available)) = Range(available) \ {o}
      /\ Tail(backlog) \in Seq(Clients) /\ Head(backlog) \in Clients
      /\ recycled' = (recycled \/ o \in held)
  BY <1>1, AcquiresIs
<1>3. PoolType /\ LiveFacts
  BY DEF PoolInv
<1>7. PICK n : n = Lowest(FreeFds)
  OBVIOUS
<1>8. n \in FreeFds /\ n \in Fds /\ \A x \in Objects : Live(x) => fd[x] # n
  BY <1>1, <1>7, LowestFree DEF FreeFds
<1>9. PoolType'
  BY <1>1, <1>2, <1>3, <1>7, <1>8 DEF PoolType, LiveStages
<1>10. /\ stage'[o] = "tls" /\ Live(o)' /\ fd'[o] = n /\ client'[o] \in Clients
       /\ \A x \in Objects \ {o} : /\ stage'[x] = stage[x] /\ fd'[x] = fd[x]
                                   /\ client'[x] = client[x] /\ (Live(x)' <=> Live(x))
  BY <1>1, <1>2, <1>3, <1>7 DEF PoolType, Live
<1>11. LiveFacts'
  BY <1>3, <1>8, <1>10 DEF LiveFacts
<1>12. Range(available') = {x \in Objects : stage'[x] = "pooled"}
  BY <1>1, <1>2, <1>10 DEF PoolInv, PoolConserved
<1>13. \A x, y \in Objects : Live(x)' /\ Live(y)' /\ x # y => fd'[x] # fd'[y]
  BY <1>8, <1>10 DEF PoolInv, PoolConserved
<1>14. PoolConserved'
  BY <1>1, <1>2, <1>12, <1>13 DEF PoolConserved
<1> QED
  BY <1>1, <1>2, <1>7, <1>8, <1>9, <1>11, <1>14 DEF PoolInv

\* An object that is lost, or back at once: no connection comes or goes.
LEMMA PoolUnused ==
    ASSUME PoolInv, NEW o \in Objects, stage[o] = "pooled", NEW n \in Fds \cup {0}, kind = "https" => n = 0,
           fd' = [fd EXCEPT ![o] = n], UNCHANGED <<client, kind>>, backlog' \in Seq(Clients),
           Tail(available) \in Seq(Objects), IsInjective(Tail(available)), o \in Range(available),
           Range(Tail(available)) = Range(available) \ {o},
           \/ available' = Tail(available) /\ stage' = [stage EXCEPT ![o] = "lost"]
           \/ available' = Append(Tail(available), o) /\ UNCHANGED stage
    PROVE  /\ PoolInv' /\ (\A x \in Objects : Live(x)' <=> Live(x)) /\ ~Live(o)
           /\ \A x \in Objects \ {o} : fd'[x] = fd[x] /\ stage'[x] = stage[x]
<1>1. PoolType /\ LiveFacts
  BY DEF PoolInv
<1>2. PICK rest : rest = Tail(available)
  OBVIOUS
<1>3. /\ stage'[o] \in {"pooled", "lost"} /\ ~Live(o) /\ ~Live(o)' /\ fd'[o] = n
      /\ \A x \in Objects \ {o} : /\ stage'[x] = stage[x] /\ fd'[x] = fd[x] /\ (Live(x)' <=> Live(x))
  BY <1>1 DEF PoolType, Live
<1>4. /\ available' \in Seq(Objects) /\ IsInjective(available')
      /\ Range(available') = IF stage'[o] = "pooled" THEN Range(available) ELSE Range(available) \ {o}
  <2>1. CASE available' = Append(rest, o) /\ UNCHANGED stage
    <3>2. rest \in Seq(Objects) /\ IsInjective(rest) /\ o \notin Range(rest)
      BY <1>2
    <3>3. IsInjective(Append(rest, o)) /\ Range(Append(rest, o)) = Range(rest) \cup {o}
      BY <3>2, InjectiveAppended
    <3>1. IsInjective(available') /\ Range(available') = Range(rest) \cup {o}
      BY <2>1, <3>3
    <3> QED
      BY <1>2, <2>1, <3>1, AppendIs
  <2>2. CASE available' = rest /\ stage' = [stage EXCEPT ![o] = "lost"]
    BY <1>1, <1>2, <2>2 DEF PoolType
  <2> QED
    BY <1>2, <2>1, <2>2
<1>5. PoolType'
  BY <1>1, <1>3, <1>4 DEF PoolType, LiveStages
<1>6. LiveFacts'
  BY <1>1, <1>3 DEF LiveFacts
<1>7. Range(available') = {x \in Objects : stage'[x] = "pooled"}
  BY <1>3, <1>4 DEF PoolInv, PoolConserved
<1>8. PoolConserved'
  BY <1>3, <1>4, <1>7 DEF PoolInv, PoolConserved
<1> QED
  BY <1>3, <1>5, <1>6, <1>8 DEF PoolInv

HttpOps == {"404", "request", "reply"}
HttpTasks == [op : HttpOps, object : Objects, arg : Clients]
ObjectTasks == [op : {"connect", "message"}, object : Objects, arg : {0}]
DisconnectTasks == [op : {"disconnect"}, object : Objects, arg : Fds]
WriteTasks == [op : {"write"}, object : {NoOne}, arg : [fd : Fds, route : Routes \cup {None}]]
ServerTasks == HttpTasks \cup ObjectTasks \cup DisconnectTasks \cup WriteTasks

\* Both, with what they post.
Unused(o, held) ==
    /\ Acquires(o, held) /\ stage[o] = "pooled"
    /\ \E n \in Fds \cup {0} :
          /\ fd' = [fd EXCEPT ![o] = n]
          /\ \/ tasks' = tasks
             \/ n \in FreeFds /\ kind = "websocket" /\ tasks' = Append(tasks, Task("disconnect", o, n))
    /\ stage' = stage \/ stage' = [stage EXCEPT ![o] = "lost"]
    /\ backlog' = backlog \/ backlog' = Tail(backlog)
    /\ away \subseteq away'
    /\ UNCHANGED <<client, served>>

LEMMA UnusedIs ==
    ASSUME PoolInv, NEW held, AcceptFails(held) \/ ClosesAtOnce, held = Held, UNCHANGED kind,
           tasks \in Seq(ServerTasks)
    PROVE  /\ PoolInv'
           /\ \E o \in Objects : Unused(o, held) /\ ~Live(o) /\ (\A x \in Objects : Live(x)' <=> Live(x))
                               /\ \A x \in Objects \ {o} : fd'[x] = fd[x] /\ stage'[x] = stage[x]
<1>1. CASE AcceptFails(held)
  <2>1. PICK o \in Objects : /\ Acquires(o, held) /\ available' = Tail(available)
                             /\ fd' = [fd EXCEPT ![o] = 0] /\ stage' = [stage EXCEPT ![o] = "lost"]
    BY <1>1 DEF AcceptFails
  <2>2. /\ UNCHANGED <<client, served, tasks>> /\ away \subseteq away'
        /\ backlog' = backlog \/ backlog' = Tail(backlog)
    BY <1>1 DEF AcceptFails
  <2>3. /\ stage[o] = "pooled" /\ Tail(available) \in Seq(Objects) /\ IsInjective(Tail(available))
        /\ o \in Range(available) /\ Range(Tail(available)) = Range(available) \ {o}
        /\ Tail(backlog) \in Seq(Clients)
    BY <2>1, AcquiresIs
  <2>4. backlog' \in Seq(Clients)
    BY <2>2, <2>3 DEF PoolInv, PoolType
  <2>5. /\ PoolInv' /\ (\A x \in Objects : Live(x)' <=> Live(x)) /\ ~Live(o)
        /\ \A x \in Objects \ {o} : fd'[x] = fd[x] /\ stage'[x] = stage[x]
    BY <2>1, <2>2, <2>3, <2>4, PoolUnused
  <2>6. Unused(o, held)
    BY <2>1, <2>2, <2>3 DEF Unused
  <2> QED
    BY <2>5, <2>6
<1>2. CASE ClosesAtOnce
  <2>1. PICK n, posted : /\ ActivateFails(Held, n, posted)
                         /\ \/ kind = "https" /\ n = 0 /\ posted = <<>>
                            \/ /\ kind = "websocket" /\ n = Lowest(FreeFds)
                               /\ posted = <<Task("disconnect", Head(available), n)>>
    BY <1>2 DEF ClosesAtOnce
  <2>2. PICK o \in Objects : /\ Acquires(o, held) /\ available' = Append(Tail(available), o)
                             /\ fd' = [fd EXCEPT ![o] = n]
    BY <2>1 DEF ActivateFails
  <2>3. /\ FreeFds # {} /\ backlog' = Tail(backlog) /\ away \subseteq away' /\ tasks' = tasks \o posted
        /\ UNCHANGED <<client, served, stage>>
    BY <2>1 DEF ActivateFails
  <2>4. /\ stage[o] = "pooled" /\ Tail(available) \in Seq(Objects) /\ IsInjective(Tail(available))
        /\ o \in Range(available) /\ Range(Tail(available)) = Range(available) \ {o} /\ o = Head(available)
        /\ Tail(backlog) \in Seq(Clients)
    BY <2>2, AcquiresIs
  <2>5. n \in Fds \cup {0} /\ (kind = "https" => n = 0) /\ (kind = "websocket" => n \in FreeFds)
    <3>1. kind = "websocket" => n = Lowest(FreeFds)
      BY <2>1
    <3> QED
      BY <2>1, <2>3, <3>1, LowestFree DEF FreeFds
  <2>6. /\ PoolInv' /\ (\A x \in Objects : Live(x)' <=> Live(x)) /\ ~Live(o)
        /\ \A x \in Objects \ {o} : fd'[x] = fd[x] /\ stage'[x] = stage[x]
    BY <2>2, <2>3, <2>4, <2>5, PoolUnused
  <2>7. \/ tasks' = tasks
        \/ n \in FreeFds /\ kind = "websocket" /\ tasks' = Append(tasks, Task("disconnect", o, n))
    <3>1. CASE posted = <<>>
      BY <2>3, <3>1
    <3>2. CASE kind = "websocket" /\ posted = <<Task("disconnect", Head(available), n)>>
      <4>1. tasks \o <<Task("disconnect", o, n)>> = Append(tasks, Task("disconnect", o, n))
        OBVIOUS
      <4> QED
        BY <2>3, <2>4, <2>5, <3>2, <4>1
    <3> QED
      BY <2>1, <3>1, <3>2
  <2>8. Unused(o, held)
    BY <2>2, <2>3, <2>4, <2>5, <2>7 DEF Unused
  <2> QED
    BY <2>6, <2>8
<1> QED
  BY <1>1, <1>2
-----------------------------------------------------------------------------
(* Tasks, and what they and the handlers keep. *)

Requests == [route : Routes \cup {None}, valid : BOOLEAN]

LoopType ==
    /\ tasks \in Seq(ServerTasks)
    /\ draining \in BOOLEAN /\ (draining => tasks # <<>>)
    /\ handling \subseteq [object : Objects, client : Clients]
    /\ recycled \in BOOLEAN
    /\ received = [c \in Clients |-> received[c]]

RegistryType ==
    /\ asks \in [Clients -> Requests]
    /\ upgrade_request \in [Objects -> Requests]
    /\ m_websocket_connections_by_fd \in [Fds -> Objects \cup {NoOne}]
    /\ m_websocket_routes_by_fd \in [Fds -> Routes \cup {None, NoOne}]
    /\ m_connected_fds \in [Routes -> SUBSET Fds]

\* What a task says of its object.
TaskSays(t) ==
    /\ t.op \in HttpOps => t.object \in Objects /\ t.arg \in Clients
    /\ t.op \in {"connect", "message"} => t.object \in Objects /\ t.arg = 0
    /\ t.op = "disconnect" => t.object \in Objects /\ t.arg \in Fds
    /\ t.op = "write" => /\ t.object = NoOne
                         /\ t.arg.fd \in Fds /\ t.arg.route \in Routes \cup {None}
    /\ t.op \in HttpOps \cup {"connect", "message", "disconnect", "write"}

LEMMA TaskIs ==
    /\ \A t \in ServerTasks : TaskSays(t) /\ t = Task(t.op, t.object, t.arg)
    /\ \A o \in Objects, c \in Clients, op \in HttpOps : Task(op, o, c) \in ServerTasks
    /\ \A o \in Objects : Task("connect", o, 0) \in ServerTasks /\ Task("message", o, 0) \in ServerTasks
    /\ \A o \in Objects, n \in Fds : Task("disconnect", o, n) \in ServerTasks
    /\ \A n \in Fds, r \in Routes \cup {None} : Task("write", NoOne, [fd |-> n, route |-> r]) \in ServerTasks
<1>1. ASSUME NEW t \in ServerTasks PROVE TaskSays(t) /\ t = Task(t.op, t.object, t.arg)
  <2>1. CASE t \in HttpTasks
    BY <2>1 DEF HttpTasks, HttpOps, TaskSays, Task
  <2>2. CASE t \in ObjectTasks
    BY <2>2 DEF ObjectTasks, HttpOps, TaskSays, Task
  <2>3. CASE t \in DisconnectTasks
    BY <2>3 DEF DisconnectTasks, HttpOps, TaskSays, Task
  <2>4. CASE t \in WriteTasks
    BY <2>4 DEF WriteTasks, HttpOps, TaskSays, Task
  <2> QED
    BY <2>1, <2>2, <2>3, <2>4 DEF ServerTasks
<1>2. \A o \in Objects, c \in Clients, op \in HttpOps : Task(op, o, c) \in HttpTasks
  BY DEF Task, HttpTasks
<1>3. \A o \in Objects : Task("connect", o, 0) \in ObjectTasks /\ Task("message", o, 0) \in ObjectTasks
  BY DEF Task, ObjectTasks
<1>4. \A o \in Objects, n \in Fds : Task("disconnect", o, n) \in DisconnectTasks
  BY DEF Task, DisconnectTasks
<1>5. \A n \in Fds, r \in Routes \cup {None} : Task("write", NoOne, [fd |-> n, route |-> r]) \in WriteTasks
  BY DEF Task, WriteTasks
<1> QED
  BY <1>1, <1>2, <1>3, <1>4, <1>5 DEF ServerTasks

LEMMA TaskFields ==
    ASSUME NEW op, NEW o, NEW arg
    PROVE  Task(op, o, arg).op = op /\ Task(op, o, arg).object = o /\ Task(op, o, arg).arg = arg
BY DEF Task

\* Of the sequence s the first d items are gone, and the items of p have joined.
Follows(t, s, d, p) ==
    /\ t \in Seq(ServerTasks) /\ Len(t) = Len(s) - d + Len(p)
    /\ Len(s) \in Nat /\ Len(p) \in Nat /\ Len(t) \in Nat
    /\ \A i \in DOMAIN t :
          \/ i + d \in DOMAIN s /\ t[i] = s[i + d]
          \/ \E k \in DOMAIN p : i = Len(s) - d + k /\ t[i] = p[k]
    /\ \A i \in DOMAIN s : i > d => i - d \in DOMAIN t /\ t[i - d] = s[i]
    /\ \A k \in DOMAIN p : Len(s) - d + k \in DOMAIN t /\ t[Len(s) - d + k] = p[k]

LEMMA ConcatFollows ==
    ASSUME NEW s \in Seq(ServerTasks), NEW p \in Seq(ServerTasks)
    PROVE  Follows(s \o p, s, 0, p)
<1>1. PICK t : t = s \o p
  OBVIOUS
<1>2. /\ t \in Seq(ServerTasks) /\ Len(t) = Len(s) + Len(p)
      /\ Len(s) \in Nat /\ Len(p) \in Nat /\ Len(t) \in Nat
      /\ \A i \in 1 .. Len(t) : t[i] = IF i =< Len(s) THEN s[i] ELSE p[i - Len(s)]
  BY <1>1
<1>3. DOMAIN s = 1 .. Len(s) /\ DOMAIN t = 1 .. Len(t) /\ DOMAIN p = 1 .. Len(p)
  BY <1>2
<1>4. ASSUME NEW i \in DOMAIN t
      PROVE  \/ i + 0 \in DOMAIN s /\ t[i] = s[i + 0]
             \/ \E k \in DOMAIN p : i = Len(s) - 0 + k /\ t[i] = p[k]
  <2>1. CASE i =< Len(s)
    BY <1>2, <1>3, <2>1
  <2>2. CASE i > Len(s)
    <3>1. PICK k : k = i - Len(s)
      OBVIOUS
    <3>2. k \in DOMAIN p /\ i = Len(s) - 0 + k /\ t[i] = p[k]
      BY <1>2, <1>3, <2>2, <3>1
    <3> QED
      BY <3>2
  <2> QED
    BY <1>2, <1>3, <2>1, <2>2
<1>5. ASSUME NEW i \in DOMAIN s PROVE i - 0 \in DOMAIN t /\ t[i - 0] = s[i]
  BY <1>2, <1>3
<1>6. ASSUME NEW k \in DOMAIN p PROVE Len(s) - 0 + k \in DOMAIN t /\ t[Len(s) - 0 + k] = p[k]
  <2>1. PICK i : i = Len(s) - 0 + k
    OBVIOUS
  <2>2. i \in DOMAIN t /\ ~(i =< Len(s)) /\ i - Len(s) = k
    BY <1>2, <1>3, <2>1
  <2> QED
    BY <1>2, <1>3, <2>1, <2>2
<1>7. Len(t) = Len(s) - 0 + Len(p)
  BY <1>2
<1>8. Follows(t, s, 0, p)
  BY <1>2, <1>4, <1>5, <1>6, <1>7 DEF Follows
<1> QED
  BY <1>1, <1>8

LEMMA AppendFollows ==
    ASSUME NEW s \in Seq(ServerTasks), NEW x \in ServerTasks
    PROVE  Follows(Append(s, x), s, 0, <<x>>)
<1>1. Append(s, x) = s \o <<x>> /\ <<x>> \in Seq(ServerTasks)
  OBVIOUS
<1>2. PICK t, p : t = Append(s, x) /\ p = <<x>>
  OBVIOUS
<1>3. Follows(t, s, 0, p)
  BY <1>1, <1>2, ConcatFollows
<1> QED
  BY <1>2, <1>3

LEMMA RunFollows ==
    ASSUME NEW s \in Seq(ServerTasks), s # <<>>, NEW p \in Seq(ServerTasks)
    PROVE  Follows(Tail(s) \o p, s, 1, p)
<1>1. PICK u : u = Tail(s)
  OBVIOUS
<1>2. /\ u \in Seq(ServerTasks) /\ Len(u) = Len(s) - 1 /\ Len(s) \in Nat \ {0}
      /\ \A i \in 1 .. Len(s) - 1 : u[i] = s[i + 1]
      /\ \A i \in 2 .. Len(s) : u[i - 1] = s[i]
  BY <1>1, TailIs
<1>3. PICK t : t = u \o p
  OBVIOUS
<1>4. Follows(t, u, 0, p)
  BY <1>2, <1>3, ConcatFollows
<1>5. /\ t \in Seq(ServerTasks) /\ Len(t) = Len(u) + Len(p)
      /\ Len(u) \in Nat /\ Len(p) \in Nat /\ Len(t) \in Nat
  BY <1>4 DEF Follows
<1>6. DOMAIN s = 1 .. Len(s) /\ DOMAIN u = 1 .. Len(s) - 1
  BY <1>2
<1>7. ASSUME NEW i \in DOMAIN t
      PROVE  \/ i + 1 \in DOMAIN s /\ t[i] = s[i + 1]
             \/ \E k \in DOMAIN p : i = Len(s) - 1 + k /\ t[i] = p[k]
  <2>1. i \in Nat /\ DOMAIN p \subseteq Nat
    BY <1>5
  <2>2. \/ i + 0 \in DOMAIN u /\ t[i] = u[i + 0]
        \/ \E k \in DOMAIN p : i = Len(u) - 0 + k /\ t[i] = p[k]
    BY <1>4, <1>7 DEF Follows
  <2>3. i + 0 = i
    BY <2>1
  <2>4. CASE i \in DOMAIN u /\ t[i] = u[i]
    BY <1>2, <1>6, <2>1, <2>4
  <2>5. ASSUME NEW k \in DOMAIN p, i = Len(u) - 0 + k, t[i] = p[k] PROVE i = Len(s) - 1 + k
    BY <1>2, <1>5, <2>1, <2>5
  <2> QED
    BY <2>2, <2>3, <2>4, <2>5
<1>8. ASSUME NEW i \in DOMAIN s, i > 1 PROVE i - 1 \in DOMAIN t /\ t[i - 1] = s[i]
  <2>1. PICK j : j = i - 1
    OBVIOUS
  <2>2. j \in DOMAIN u /\ j > 0 /\ j - 0 = j /\ u[j] = s[i]
    BY <1>2, <1>6, <1>8, <2>1
  <2>3. j \in DOMAIN t /\ t[j] = u[j]
    BY <1>4, <2>2 DEF Follows
  <2> QED
    BY <2>1, <2>2, <2>3
<1>9. ASSUME NEW k \in DOMAIN p PROVE Len(s) - 1 + k \in DOMAIN t /\ t[Len(s) - 1 + k] = p[k]
  <2>1. Len(u) - 0 + k = Len(s) - 1 + k
    BY <1>2, <1>5
  <2>2. Len(u) - 0 + k \in DOMAIN t /\ t[Len(u) - 0 + k] = p[k]
    BY <1>4 DEF Follows
  <2> QED
    BY <2>1, <2>2
<1>10. Len(t) = Len(s) - 1 + Len(p) /\ Len(s) \in Nat
  BY <1>2, <1>5
<1>11. Follows(t, s, 1, p)
  BY <1>5, <1>7, <1>8, <1>9, <1>10 DEF Follows
<1> QED
  BY <1>1, <1>3, <1>11
\* The task that runs is the first.
LEMMA Runs ==
    ASSUME LoopType, NEW op, NEW p \in Seq(ServerTasks), RunsTask(op, p)
    PROVE  /\ tasks # <<>> /\ 1 \in DOMAIN tasks /\ tasks[1] = Head(tasks)
           /\ Head(tasks) \in ServerTasks /\ Head(tasks).op = op /\ TaskSays(Head(tasks))
           /\ Follows(tasks', tasks, 1, p)
           /\ draining' \in BOOLEAN /\ (draining' <=> tasks' # <<>>) /\ batch' = batch
<1>1. tasks # <<>> /\ tasks \in Seq(ServerTasks)
  BY DEF LoopType, RunsTask
<1>2. tasks' = Tail(tasks) \o p
  BY DEF RunsTask
<1>3. PICK u : u = tasks'
  OBVIOUS
<1>4. Follows(u, tasks, 1, p)
  BY <1>1, <1>2, <1>3, RunFollows
<1>5. Head(tasks) \in ServerTasks /\ Head(tasks) = tasks[1] /\ 1 \in DOMAIN tasks
  BY <1>1
<1>6. TaskSays(Head(tasks))
  BY <1>5, TaskIs
<1>7. Head(tasks).op = op /\ draining' = (tasks' # <<>>) /\ batch' = batch
  BY DEF RunsTask
<1> QED
  BY <1>1, <1>3, <1>4, <1>5, <1>6, <1>7

\* What a posted task leaves.
LEMMA Posts ==
    ASSUME LoopType, NEW x \in ServerTasks, tasks' = Append(tasks, x)
    PROVE  Follows(tasks', tasks, 0, <<x>>) /\ tasks' # <<>>
<1>1. tasks \in Seq(ServerTasks)
  BY DEF LoopType
<1>2. PICK u : u = Append(tasks, x)
  OBVIOUS
<1>3. Follows(u, tasks, 0, <<x>>) /\ u # <<>>
  BY <1>1, <1>2, AppendFollows
<1> QED
  BY <1>2, <1>3

LEMMA Requested ==
    /\ \A q \in Requests : q.route \in Routes \cup {None} /\ q.valid \in BOOLEAN
    /\ \A q \in Requests : \A r : q = [route |-> r, valid |-> TRUE] <=> q.route = r /\ q.valid
    /\ \A r \in Routes \cup {None}, b \in BOOLEAN : [route |-> r, valid |-> b] \in Requests
<1>1. \A q \in Requests : q.route \in Routes \cup {None} /\ q.valid \in BOOLEAN
  BY DEF Requests
<1>2. ASSUME NEW q \in Requests, NEW r PROVE q = [route |-> r, valid |-> TRUE] <=> q.route = r /\ q.valid
  <2>1. ASSUME q = [route |-> r, valid |-> TRUE] PROVE q.route = r /\ q.valid
    BY <2>1
  <2>2. ASSUME q.route = r, q.valid PROVE q = [route |-> r, valid |-> TRUE]
    <3>1. q.valid = TRUE
      BY <1>1, <2>2
    <3>2. q = [route |-> q.route, valid |-> q.valid]
      BY DEF Requests
    <3> QED
      BY <2>2, <3>1, <3>2
  <2> QED
    BY <2>1, <2>2
<1>3. \A r \in Routes \cup {None}, b \in BOOLEAN : [route |-> r, valid |-> b] \in Requests
  BY DEF Requests
<1> QED
  BY <1>1, <1>2, <1>3

-----------------------------------------------------------------------------
(* Responses and broadcasts reach the client they are meant for. *)

\* Clients that wait to be accepted, each once, have not been before.
Waiting == IsInjective(backlog) /\ \A c \in Range(backlog) : served[c] = NoOne

TaskOwn(t) == t.op \in HttpOps => served[t.arg] = t.object
HandlerOwn(h) == served[h.client] = h.object

Reached(c, x) ==
    x.to = c \/ (x.to \in away /\ x.to \in Clients /\ served[c] # NoOne /\ served[x.to] = served[c])
Delivered(c, x) ==
    /\ Reached(c, x)
    /\ ~recycled /\ x.status \in Routes => asks[c] = [route |-> x.status, valid |-> TRUE]

\* A client is served by one object, from its accept until it is gone; what is
\* to be answered was asked through that object.
OwnInv ==
    /\ served \in [Clients -> Objects \cup {NoOne}] /\ Waiting
    /\ \A o \in Objects : Live(o) => served[client[o]] = o
    /\ \A c \in Clients : served[c] # NoOne => c \in away \/ (Live(served[c]) /\ client[served[c]] = c)
    /\ \A i \in DOMAIN tasks : TaskOwn(tasks[i])
    /\ \A h \in handling : HandlerOwn(h)
    /\ \A c \in Clients : \A x \in received[c] : Delivered(c, x)

LEMMA OwnInvIs == OwnInv => OwnResponse /\ RouteOnly
BY DEF OwnInv, OwnResponse, RouteOnly, Delivered, Reached

\* No connection is accepted, and the client of one that is closed is gone.
NoneAccepted ==
    /\ served' = served /\ away \subseteq away' /\ (Waiting => Waiting')
    /\ \A o \in Objects : Live(o)' => Live(o) /\ client'[o] = client[o]
    /\ \A o \in Objects : Live(o) => Live(o)' \/ client[o] \in away'

\* A step that accepts no connection keeps this, if what it posts, keeps or
\* delivers is for the client that asked.
LEMMA OwnKept ==
    ASSUME OwnInv, LoopType, NoneAccepted, recycled => recycled', UNCHANGED asks,
           handling' \subseteq [object : Objects, client : Clients],
           NEW d \in {0, 1}, NEW p, Follows(tasks', tasks, d, p),
           \A k \in DOMAIN p : TaskOwn(p[k])',
           \A h \in handling' : h \in handling \/ HandlerOwn(h)',
           \A c \in Clients : \A x \in received'[c] : x \in received[c] \/ Delivered(c, x)
    PROVE  OwnInv'
<1>1. served' \in [Clients -> Objects \cup {NoOne}] /\ Waiting'
  BY DEF OwnInv, NoneAccepted
<1>2. \A o \in Objects : Live(o)' => served'[client'[o]] = o
  BY DEF OwnInv, NoneAccepted
<1>3. ASSUME NEW c \in Clients, served'[c] # NoOne
      PROVE  c \in away' \/ (Live(served[c])' /\ client'[served'[c]] = c)
  <2>1. PICK o : o = served[c]
    OBVIOUS
  <2>2. o \in Objects /\ served'[c] = o
    BY <1>3, <2>1 DEF OwnInv, NoneAccepted
  <2>3. c \in away \/ (Live(o) /\ client[o] = c)
    BY <1>3, <2>1, <2>2 DEF OwnInv, NoneAccepted
  <2>4. c \in away' \/ (Live(o)' /\ client'[o] = c)
    BY <2>2, <2>3 DEF NoneAccepted
  <2> QED
    BY <2>2, <2>4 DEF Live
<1>4. ASSUME NEW i \in DOMAIN tasks' PROVE TaskOwn(tasks[i])'
  <2>1. CASE \E j \in DOMAIN tasks : tasks'[i] = tasks[j]
    BY <2>1 DEF OwnInv, TaskOwn, NoneAccepted
  <2>2. CASE \E k \in DOMAIN p : tasks'[i] = p[k]
    BY <2>2 DEF TaskOwn
  <2> QED
    BY <1>4, <2>1, <2>2 DEF Follows
<1>5. ASSUME NEW h \in handling' PROVE HandlerOwn(h)'
  BY <1>5 DEF OwnInv, HandlerOwn, NoneAccepted
<1>6. ASSUME NEW c \in Clients, NEW x \in received'[c] PROVE Delivered(c, x)'
  <2>1. Delivered(c, x)
    BY <1>6 DEF OwnInv
  <2> QED
    BY <2>1 DEF Delivered, Reached, NoneAccepted
<1> QED
  BY <1>1, <1>2, <1>3, <1>4, <1>5, <1>6 DEF OwnInv

\* Nothing posted, kept or delivered.
LEMMA OwnSame ==
    ASSUME OwnInv, LoopType, NoneAccepted, recycled => recycled', UNCHANGED <<asks, tasks, handling, received>>
    PROVE  OwnInv'
<1>1. tasks \in Seq(ServerTasks) /\ handling \subseteq [object : Objects, client : Clients]
  BY DEF LoopType
<1>2. PICK q : q = tasks
  OBVIOUS
<1>3. <<>> \in Seq(ServerTasks) /\ q \o <<>> = q
  BY <1>1, <1>2
<1>4. Follows(q, q, 0, <<>>)
  BY <1>1, <1>2, <1>3, ConcatFollows
<1>5. Follows(tasks', tasks, 0, <<>>)
  BY <1>2, <1>4
<1> QED
  BY <1>1, <1>5, OwnKept

\* Nothing changes of what a connection says.
LEMMA NoneAcceptedSame ==
    ASSUME UNCHANGED <<served, backlog, client, stage>>, away \subseteq away'
    PROVE  NoneAccepted
BY DEF NoneAccepted, Waiting, Live

\* The next client is given an object: it has asked nothing yet.
LEMMA OwnAccepts ==
    ASSUME OwnInv, LoopType, PoolInv, NEW o \in Objects, UNCHANGED <<asks, tasks, handling, received, away>>,
           recycled => recycled', backlog # <<>>, backlog' = Tail(backlog), ~Live(o),
           served' = [served EXCEPT ![Head(backlog)] = o],
           stage' = [stage EXCEPT ![o] = "tls"], client' = [client EXCEPT ![o] = Head(backlog)]
    PROVE  OwnInv'
<1>1. PICK c : c = Head(backlog)
  OBVIOUS
<1>2. /\ IsInjective(Tail(backlog)) /\ c \in Range(backlog) /\ c \in Clients
      /\ Range(Tail(backlog)) = Range(backlog) \ {c}
  <2>1. backlog \in Seq(Clients) /\ IsInjective(backlog)
    BY DEF OwnInv, Waiting, PoolInv, PoolType
  <2> QED
    BY <1>1, <2>1, InjectiveTail, TailIs
<1>3. /\ served[c] = NoOne /\ o # NoOne /\ served \in [Clients -> Objects \cup {NoOne}]
      /\ served'[c] = o /\ \A b \in Clients \ {c} : served'[b] = served[b]
  BY <1>1, <1>2, FdsAssumption DEF OwnInv, Waiting
<1>4. /\ Live(o)' /\ client'[o] = c
      /\ \A x \in Objects \ {o} : (Live(x)' <=> Live(x)) /\ client'[x] = client[x]
  BY <1>1 DEF PoolInv, PoolType, Live
<1>5. served' \in [Clients -> Objects \cup {NoOne}] /\ Waiting'
  BY <1>1, <1>2, <1>3 DEF OwnInv, Waiting, PoolInv, PoolType
<1>6. ASSUME NEW x \in Objects, Live(x)' PROVE served'[client'[x]] = x
  <2>1. CASE x = o
    BY <1>3, <1>4, <2>1
  <2>2. CASE x # o
    <3>1. client[x] \in Clients /\ served[client[x]] = x /\ x # NoOne
      BY <1>4, <1>6, <2>2, FdsAssumption DEF OwnInv, PoolInv, LiveFacts
    <3> QED
      BY <1>3, <1>4, <2>2, <3>1
  <2> QED
    BY <2>1, <2>2
<1>7. ASSUME NEW b \in Clients, served'[b] # NoOne
      PROVE  b \in away' \/ (Live(served[b])' /\ client'[served'[b]] = b)
  <2>1. PICK x : x = served'[b]
    OBVIOUS
  <2>2. b \in away \/ (Live(x)' /\ client'[x] = b)
    <3>1. CASE b = c
      BY <1>3, <1>4, <2>1, <3>1
    <3>2. CASE b # c
      <4>1. x = served[b] /\ x \in Objects
        BY <1>3, <1>7, <2>1, <3>2
      <4>2. b \in away \/ (Live(x) /\ client[x] = b)
        BY <1>7, <2>1, <4>1 DEF OwnInv
      <4> QED
        BY <1>4, <4>1, <4>2
    <3> QED
      BY <3>1, <3>2
  <2> QED
    BY <2>1, <2>2 DEF Live
<1>8. ASSUME NEW i \in DOMAIN tasks' PROVE TaskOwn(tasks[i])'
  <2>1. PICK t : t = tasks[i]
    OBVIOUS
  <2>2. t \in ServerTasks /\ TaskOwn(t)
    BY <1>8, <2>1 DEF OwnInv, LoopType
  <2>3. t.op \in HttpOps => t.object \in Objects /\ t.arg \in Clients
    BY <2>2, TaskIs DEF TaskSays
  <2>4. t.op \in HttpOps => served'[t.arg] = t.object
    BY <1>3, <2>2, <2>3, FdsAssumption DEF TaskOwn
  <2> QED
    BY <2>1, <2>4 DEF TaskOwn
<1>9. ASSUME NEW h \in handling' PROVE HandlerOwn(h)'
  <2>1. h.object \in Objects /\ h.client \in Clients /\ served[h.client] = h.object
    BY <1>9 DEF LoopType, OwnInv, HandlerOwn
  <2> QED
    BY <1>3, <2>1, FdsAssumption DEF HandlerOwn
<1>10. ASSUME NEW b \in Clients, NEW x \in received'[b] PROVE Delivered(b, x)'
  <2>1. Delivered(b, x)
    BY <1>10 DEF OwnInv
  <2>2. Reached(b, x)'
    BY <1>3, <2>1 DEF Delivered, Reached
  <2> QED
    BY <2>1, <2>2 DEF Delivered
<1> QED
  BY <1>5, <1>6, <1>7, <1>8, <1>9, <1>10 DEF OwnInv

ServerInv == PoolInv /\ LoopType /\ RegistryType /\ OwnInv

LEMMA ServerInvInit == MCInit => ServerInv
<1> SUFFICES ASSUME MCInit PROVE ServerInv
  OBVIOUS
<1>1. Init /\ ServerInit /\ HttpsServerInit
  BY DEF MCInit, Init
<1>2. /\ tasks = <<>> /\ draining = FALSE /\ handling = {} /\ recycled = FALSE
      /\ received = [c \in Clients |-> {}]
  BY <1>1 DEF ServerInit, HttpsServerInit
<1>3. LoopType
  <2>1. draining \in BOOLEAN /\ ~draining /\ recycled \in BOOLEAN
    BY <1>2, Zenon
  <2>2. tasks \in Seq(ServerTasks) /\ handling \subseteq [object : Objects, client : Clients]
    BY <1>2
  <2>3. received = [c \in Clients |-> received[c]]
    BY <1>2
  <2> QED
    BY <2>1, <2>2, <2>3 DEF LoopType
<1>4. OwnInv
  <2>1. backlog = <<>> /\ served = [c \in Clients |-> NoOne]
    BY <1>1 DEF ServerInit
  <2>2. \A o \in Objects : ~Live(o)
    BY <1>1 DEF ServerInit, Live
  <2>3. Waiting
    BY <2>1 DEF Waiting, IsInjective, Range
  <2> QED
    BY <1>2, <2>1, <2>2, <2>3 DEF OwnInv
<1>5. asks \in [Clients -> Requests]
  <2>1. PICK any : any = CHOOSE r \in Routes : TRUE
    OBVIOUS
  <2>2. any \in Routes
    BY <2>1, RoutesAssumption
  <2>3. CASE kind = "https"
    <3>1. asks = [c \in Clients |-> [route |-> None, valid |-> FALSE]]
      BY <1>1, <2>3 DEF Init
    <3> QED
      BY <3>1 DEF Requests
  <2>4. CASE kind # "https"
    <3>1. asks \in [Clients -> {[route |-> r, valid |-> TRUE] : r \in Routes \cup {None}}
                               \cup {[route |-> any, valid |-> FALSE]}]
      BY <1>1, <2>1, <2>4 DEF Init
    <3>2. {[route |-> r, valid |-> TRUE] : r \in Routes \cup {None}}
          \cup {[route |-> any, valid |-> FALSE]} \subseteq Requests
      <4>1. \A r \in Routes \cup {None} : [route |-> r, valid |-> TRUE] \in Requests
        BY DEF Requests
      <4>2. [route |-> any, valid |-> FALSE] \in Requests
        BY <2>2 DEF Requests
      <4> QED
        BY <4>1, <4>2
    <3> QED
      BY <3>1, <3>2
  <2> QED
    BY <2>3, <2>4
<1>6. upgrade_request \in [Objects -> Requests]
  <2>1. upgrade_request = [o \in Objects |-> [route |-> None, valid |-> FALSE]]
    BY <1>1 DEF Init
  <2> QED
    BY <2>1 DEF Requests
<1>7. RegistryType
  BY <1>1, <1>5, <1>6 DEF RegistryType, Init
<1> QED
  BY <1>3, <1>4, <1>7, PoolInvInit DEF ServerInv

LEMMA RegistryKept == RegistryType /\ UNCHANGED <<asks, websocket_vars>> => RegistryType'
BY DEF RegistryType, websocket_vars, registry

\* A step of a client, or of the loop, that leaves connections and tasks alone.
LEMMA QuietStep ==
    ASSUME ServerInv, backlog' \in Seq(Clients), draining' \in BOOLEAN, draining' => tasks # <<>>,
           UNCHANGED <<available, fd, client, stage, tasks, received, recycled, served>>,
           away \subseteq away', Waiting => Waiting',
           UNCHANGED <<kind, asks, handling, websocket_vars>>
    PROVE  ServerInv'
<1>1. PoolInv'
  BY PoolKept DEF ServerInv
<1>2. LoopType'
  BY DEF ServerInv, LoopType
<1>3. NoneAccepted
  BY DEF NoneAccepted, Live
<1>4. OwnInv'
  BY <1>3, OwnSame DEF ServerInv, LoopType
<1> QED
  BY <1>1, <1>2, <1>4, RegistryKept DEF ServerInv

LEMMA ClientsStep ==
    ASSUME ServerInv, NEW c \in Clients, Connect(c) \/ HangsUp(c) \/ ClientSends(c),
           UNCHANGED <<kind, asks, https_vars, websocket_vars>>
    PROVE  ServerInv'
<1>1. /\ UNCHANGED <<available, fd, client, stage, tasks, received, recycled, draining, served>>
      /\ away \subseteq away'
      /\ \/ backlog' = backlog
         \/ backlog' = Append(backlog, c) /\ c \notin Range(backlog) \cup Connected \cup away
  BY DEF Connect, HangsUp, ClientSends, Sends, pool, clients, loop
<1>2. backlog' \in Seq(Clients)
  BY <1>1 DEF ServerInv, PoolInv, PoolType
<1>4. ASSUME Waiting PROVE Waiting'
  <2>1. CASE backlog' = backlog
    BY <1>1, <1>4, <2>1 DEF Waiting
  <2>2. CASE backlog' = Append(backlog, c) /\ c \notin Range(backlog) \cup Connected \cup away
    <3>1. served[c] = NoOne
      <4>1. SUFFICES ASSUME served[c] # NoOne PROVE FALSE
        OBVIOUS
      <4>2. served[c] \in Objects /\ Live(served[c]) /\ client[served[c]] = c
        BY <2>2, <4>1 DEF ServerInv, OwnInv
      <4>3. c \in Connected
        BY <4>2 DEF Connected
      <4> QED
        BY <2>2, <4>3
    <3>2. IsInjective(backlog') /\ Range(backlog') = Range(backlog) \cup {c}
      BY <1>4, <2>2, InjectiveAppended DEF ServerInv, PoolInv, PoolType, Waiting
    <3> QED
      BY <1>1, <1>4, <3>1, <3>2 DEF Waiting
  <2> QED
    BY <1>1, <2>1, <2>2
<1>3. draining' \in BOOLEAN /\ (draining' => tasks # <<>>) /\ UNCHANGED handling
  BY <1>1 DEF ServerInv, LoopType, https_vars
<1> QED
  BY <1>1, <1>2, <1>3, <1>4, QuietStep

LEMMA LoopStep ==
    ASSUME ServerInv, EpollWait \/ StartDrain \/ AcquireThrows \/ (\E o \in Objects : StaleEvent(o)),
           UNCHANGED <<kind, asks, https_vars, websocket_vars>>
    PROVE  ServerInv'
<1>1. UNCHANGED <<available, fd, client, stage, tasks, received, recycled, backlog, served, away>>
  BY DEF EpollWait, StartDrain, AcquireThrows, StaleEvent, Event, pool, clients, loop
<1>5. away \subseteq away' /\ (Waiting => Waiting')
  BY <1>1 DEF Waiting
<1>4. draining' \in BOOLEAN /\ (draining' => draining \/ tasks # <<>>)
  <2>1. CASE StartDrain
    BY <2>1 DEF StartDrain
  <2>2. CASE draining' = draining
    BY <2>2 DEF ServerInv, LoopType
  <2> QED
    BY <2>1, <2>2 DEF EpollWait, AcquireThrows, StaleEvent, Event
<1>2. backlog' \in Seq(Clients)
  BY <1>1 DEF ServerInv, PoolInv, PoolType
<1>3. draining' \in BOOLEAN /\ (draining' => tasks # <<>>) /\ UNCHANGED handling
  BY <1>1, <1>4 DEF ServerInv, LoopType, https_vars
<1> QED
  BY <1>1, <1>2, <1>3, <1>5, QuietStep

\* A connection goes on, or is closed, and a task may be posted.
LEMMA PostingStep ==
    ASSUME ServerInv, PoolInv', NoneAccepted, NEW x \in ServerTasks, x.op \notin HttpOps,
           tasks' = Append(tasks, x), RegistryType', recycled' \in BOOLEAN, recycled => recycled',
           UNCHANGED <<asks, handling, draining, received>>
    PROVE  ServerInv'
<1>1. Follows(tasks', tasks, 0, <<x>>) /\ tasks' # <<>>
  BY Posts DEF ServerInv
<1>2. LoopType'
  BY <1>1 DEF ServerInv, LoopType, Follows
<1>3. PICK p : p = <<x>>
  OBVIOUS
<1>4. \A k \in DOMAIN p : TaskOwn(p[k])'
  <2>1. TaskOwn(x)'
    BY DEF TaskOwn
  <2>2. \A k \in DOMAIN p : p[k] = x
    BY <1>3
  <2> QED
    BY <2>1, <2>2 DEF TaskOwn, Live
<1>5. OwnInv'
  BY <1>1, <1>2, <1>3, <1>4, OwnKept DEF ServerInv, LoopType
<1> QED
  BY <1>2, <1>5 DEF ServerInv

LEMMA AcceptStep ==
    ASSUME ServerInv, Accept(Held), UNCHANGED <<kind, asks, https_vars, websocket_vars>>
    PROVE  ServerInv'
<1>1. UNCHANGED <<tasks, received, draining, handling, away>>
  BY DEF Accept, Acquires, Event, https_vars
<1>2. PICK o \in Objects :
         /\ ~Live(o) /\ stage' = [stage EXCEPT ![o] = "tls"]
         /\ client' = [client EXCEPT ![o] = Head(backlog)]
         /\ served' = [served EXCEPT ![Head(backlog)] = o] /\ backlog' = Tail(backlog)
         /\ backlog # <<>> /\ recycled' = (recycled \/ o \in Held)
  BY PoolAccepts DEF ServerInv
<1>3. PoolInv'
  BY PoolAccepts DEF ServerInv
<1>4. recycled' \in BOOLEAN /\ (recycled => recycled')
  BY <1>2 DEF ServerInv, LoopType
<1>5. OwnInv'
  BY <1>1, <1>2, <1>4, OwnAccepts DEF ServerInv
<1>6. LoopType'
  BY <1>1, <1>4 DEF ServerInv, LoopType
<1> QED
  BY <1>3, <1>5, <1>6, RegistryKept DEF ServerInv

\* An accept that comes to nothing.
LEMMA UnusedStep ==
    ASSUME ServerInv, AcceptFails(Held) \/ ClosesAtOnce, UNCHANGED <<kind, asks, https_vars, websocket_vars>>
    PROVE  ServerInv'
<1>1. LoopType /\ OwnInv /\ PoolInv /\ tasks \in Seq(ServerTasks)
  BY DEF ServerInv, LoopType
<1>2. PICK held : held = Held
  OBVIOUS
<1>3. PoolInv'
  BY <1>1, <1>2, UnusedIs
<1>4. PICK o \in Objects : Unused(o, held) /\ ~Live(o) /\ (\A x \in Objects : Live(x)' <=> Live(x))
  BY <1>1, <1>2, UnusedIs
<1>5. /\ recycled' = (recycled \/ o \in held) /\ UNCHANGED <<received, draining>>
      /\ backlog # <<>>
  BY <1>1, <1>4, AcquiresIs DEF Unused
<1>6. recycled' \in BOOLEAN /\ (recycled => recycled') /\ handling' = handling
  BY <1>1, <1>5 DEF LoopType, https_vars
<1>7. Waiting => Waiting'
  <2>1. UNCHANGED served /\ (backlog' = backlog \/ backlog' = Tail(backlog))
    BY <1>4 DEF Unused
  <2>2. CASE backlog' = backlog
    BY <2>1, <2>2 DEF Waiting
  <2>3. CASE backlog' = Tail(backlog)
    <3>1. backlog \in Seq(Clients)
      BY <1>1 DEF PoolInv, PoolType
    <3>2. IsInjective(backlog) => IsInjective(backlog') /\ Range(backlog') \subseteq Range(backlog)
      BY <1>5, <2>3, <3>1, InjectiveTail
    <3> QED
      BY <2>1, <3>2 DEF Waiting
  <2> QED
    BY <2>1, <2>2, <2>3
<1>8. NoneAccepted
  BY <1>4, <1>7 DEF Unused, NoneAccepted
<1>9. CASE tasks' = tasks
  <2>1. OwnInv'
    BY <1>1, <1>5, <1>6, <1>8, <1>9, OwnSame
  <2>2. LoopType'
    BY <1>1, <1>5, <1>6, <1>9 DEF LoopType
  <2> QED
    BY <1>3, <2>1, <2>2, RegistryKept DEF ServerInv
<1>10. ASSUME NEW n \in FreeFds, tasks' = Append(tasks, Task("disconnect", o, n)) PROVE ServerInv'
  <2>1. PICK x : x = Task("disconnect", o, n)
    OBVIOUS
  <2>2. x \in ServerTasks /\ x.op \notin HttpOps /\ tasks' = Append(tasks, x)
    BY <1>10, <2>1, TaskIs, TaskFields DEF HttpOps, FreeFds
  <2>3. RegistryType'
    BY RegistryKept DEF ServerInv
  <2> QED
    BY <1>3, <1>5, <1>6, <1>8, <2>2, <2>3, PostingStep
<1> QED
  BY <1>4, <1>9, <1>10 DEF Unused

LEMMA HandshakeStep ==
    ASSUME ServerInv, NEW o \in Objects, Handshake(o),
           UNCHANGED <<kind, asks, https_vars, websocket_vars>>
    PROVE  ServerInv'
<1>1. /\ Live(o) /\ stage' = [stage EXCEPT ![o] = "ready"]
      /\ UNCHANGED <<available, fd, client, backlog, tasks, received, recycled, draining, handling, served, away>>
  BY DEF Handshake, Event, Live, https_vars
<1>2. PoolInv'
  BY <1>1, PoolRestaged DEF ServerInv, LiveStages
<1>3. NoneAccepted
  BY <1>1 DEF NoneAccepted, Waiting, Live, ServerInv, PoolInv, PoolType
<1>4. OwnInv'
  BY <1>1, <1>3, OwnSame DEF ServerInv
<1>5. LoopType'
  BY <1>1 DEF ServerInv, LoopType
<1> QED
  BY <1>2, <1>4, <1>5, RegistryKept DEF ServerInv
\* A connection is closed: none is accepted.
LEMMA ReleaseAcceptsNone ==
    ASSUME PoolInv, NEW o \in Objects, NEW closed, DelFd(o, closed), UNCHANGED <<served, backlog>>
    PROVE  NoneAccepted
<1>1. CASE fd[o] = 0
  BY <1>1, NoneAcceptedSame DEF DelFd, pool
<1>2. CASE fd[o] # 0
  <2>1. /\ stage' = [stage EXCEPT ![o] = "pooled"] /\ client' = [client EXCEPT ![o] = NoOne]
        /\ away' = away \cup {client[o]}
    BY <1>2 DEF DelFd
  <2> QED
    BY <2>1 DEF PoolInv, PoolType, NoneAccepted, Waiting, Live
<1> QED
  BY <1>1, <1>2

\* A client gets one thing more.
LEMMA GetsIs ==
    ASSUME LoopType, NEW c \in Clients, NEW what, Gets(c, what)
    PROVE  /\ received' = [b \in Clients |-> received'[b]]
           /\ \A b \in Clients : \A x \in received'[b] : x \in received[b] \/ (x = what /\ b = c)
<1>1. received' = [received EXCEPT ![c] = received[c] \cup {what}]
  BY DEF Gets
<1>2. PICK before, after : before = received /\ after = received'
  OBVIOUS
<1>3. before = [b \in Clients |-> before[b]] /\ after = [before EXCEPT ![c] = before[c] \cup {what}]
  BY <1>1, <1>2 DEF LoopType
<1>4. DOMAIN after = Clients /\ after = [b \in Clients |-> after[b]]
  BY <1>3
<1>5. \A b \in Clients : after[b] = IF b = c THEN before[c] \cup {what} ELSE before[b]
  BY <1>3
<1> QED
  BY <1>2, <1>4, <1>5

LEMMA WriteToIs ==
    ASSUME ServerInv, kind = "https", NEW o \in Objects, NEW response, NEW buffer,
           WriteTo(o, response, buffer), UNCHANGED <<backlog, kind, served>>
    PROVE  /\ PoolInv' /\ NoneAccepted /\ received' = [b \in Clients |-> received'[b]]
           /\ \A c \in Clients : \A x \in received'[c] :
                 x \in received[c] \/ (x = response /\ Live(o) /\ client[o] = c)
<1>1. CASE Live(o) /\ Gets(client[o], response) /\ UNCHANGED pool
  <2>1. client[o] \in Clients
    BY <1>1 DEF ServerInv, PoolInv, LiveFacts
  <2>2. UNCHANGED <<available, fd, client, stage, away>>
    BY <1>1 DEF pool
  <2>3. PoolInv' /\ NoneAccepted
    BY <2>2, PoolKept, NoneAcceptedSame DEF ServerInv, PoolInv, PoolType
  <2>4. PICK c : c = client[o]
    OBVIOUS
  <2>5. /\ received' = [b \in Clients |-> received'[b]]
        /\ \A b \in Clients : \A x \in received'[b] : x \in received[b] \/ (x = response /\ b = c)
    BY <1>1, <2>1, <2>4, GetsIs DEF ServerInv
  <2> QED
    BY <1>1, <2>3, <2>4, <2>5
<1>2. CASE UNCHANGED <<received, pool>>
  <2>1. UNCHANGED <<available, fd, client, stage, away>>
    BY <1>2 DEF pool
  <2>2. PoolInv' /\ NoneAccepted
    BY <2>1, PoolKept, NoneAcceptedSame DEF ServerInv, PoolInv, PoolType
  <2> QED
    BY <1>2, <2>2 DEF ServerInv, LoopType
<1>3. CASE DelFd(o, 0) /\ UNCHANGED received
  <2>1. Live(o) \/ fd[o] = 0
    BY DEF ServerInv, PoolInv, LiveFacts
  <2>2. PoolInv'
    BY <1>3, <2>1, PoolReleased DEF ServerInv
  <2>3. NoneAccepted
    BY <1>3, ReleaseAcceptsNone DEF ServerInv
  <2> QED
    BY <1>3, <2>2, <2>3 DEF ServerInv, LoopType
<1> QED
  BY <1>1, <1>2, <1>3 DEF WriteTo, Release

\* The 404 of a request that is none, and the reply to one.
LEMMA Answers ==
    ASSUME ServerInv, kind = "https", NEW op, op \in HttpOps, NEW code, code \notin Routes,
           RunsTask(op, <<>>),
           NEW buffer,
           WriteTo(Head(tasks).object, [to |-> Head(tasks).arg, status |-> code], buffer),
           UNCHANGED <<kind, asks, websocket_vars, backlog, handling, recycled, served>>
    PROVE  ServerInv'
<1>2. LoopType /\ <<>> \in Seq(ServerTasks)
  BY DEF ServerInv
<1>3. /\ 1 \in DOMAIN tasks /\ tasks[1] = Head(tasks) /\ Head(tasks).op = op /\ TaskSays(Head(tasks))
      /\ Follows(tasks', tasks, 1, <<>>) /\ draining' \in BOOLEAN /\ (draining' <=> tasks' # <<>>)
  BY <1>2, Runs
<1>4. PICK t : t = Head(tasks)
  OBVIOUS
<1>5. t.object \in Objects /\ t.arg \in Clients /\ t.op \in HttpOps
  BY <1>3, <1>4 DEF TaskSays
<1>6. PICK response : response = [to |-> t.arg, status |-> code]
  OBVIOUS
<1>7. /\ PoolInv' /\ NoneAccepted /\ received' = [b \in Clients |-> received'[b]]
      /\ \A c \in Clients : \A x \in received'[c] :
            x \in received[c] \/ (x = response /\ Live(t.object) /\ client[t.object] = c)
  BY <1>4, <1>5, <1>6, WriteToIs
<1>8. served[t.arg] = t.object
  BY <1>3, <1>4, <1>5 DEF ServerInv, OwnInv, TaskOwn
<1>9. ASSUME NEW c \in Clients, NEW x \in received'[c]
      PROVE  x \in received[c] \/ Delivered(c, x)
  <2>1. ASSUME x = response, Live(t.object), client[t.object] = c PROVE Delivered(c, x)
    <3>1. x.to = t.arg /\ x.status = code
      BY <1>6, <2>1
    <3>2. served[c] = t.object /\ t.object # NoOne
      BY <1>5, <2>1, FdsAssumption DEF ServerInv, OwnInv
    <3>3. t.arg \in away \/ t.arg = c
      BY <1>5, <1>8, <2>1, <3>2 DEF ServerInv, OwnInv
    <3> QED
      BY <1>5, <1>8, <3>1, <3>2, <3>3 DEF Delivered, Reached
  <2> QED
    BY <1>7, <2>1
<1>10. LoopType'
  BY <1>2, <1>3, <1>7 DEF LoopType, Follows
<1>11. handling' \subseteq [object : Objects, client : Clients]
  BY <1>10 DEF LoopType
<1>12. PICK p : p = <<>>
  OBVIOUS
<1>13. OwnInv'
  <2>1. Follows(tasks', tasks, 1, p) /\ \A k \in DOMAIN p : TaskOwn(p[k])'
    BY <1>3, <1>12
  <2> QED
    BY <1>2, <1>7, <1>9, <1>11, <2>1, OwnKept DEF ServerInv
<1> QED
  BY <1>7, <1>10, <1>13, RegistryKept DEF ServerInv

LEMMA AnswerStep ==
    ASSUME ServerInv, kind = "https", Run404 \/ RunReply,
           UNCHANGED <<kind, asks, websocket_vars>>
    PROVE  ServerInv'
<1>1. 404 \notin Routes /\ 200 \notin Routes /\ "404" \in HttpOps /\ "reply" \in HttpOps
  BY RoutesAssumption DEF HttpOps
<1>2. CASE Run404
  BY <1>1, <1>2, Answers DEF Run404
<1>3. CASE RunReply
  BY <1>1, <1>3, Answers DEF RunReply
<1> QED
  BY <1>2, <1>3

LEMMA RequestStep ==
    ASSUME ServerInv, RunRequest, UNCHANGED <<kind, asks, websocket_vars>>
    PROVE  ServerInv'
<1>1. LoopType /\ <<>> \in Seq(ServerTasks) /\ RunsTask("request", <<>>)
  BY DEF ServerInv, RunRequest
<1>2. /\ 1 \in DOMAIN tasks /\ tasks[1] = Head(tasks) /\ Head(tasks).op = "request" /\ TaskSays(Head(tasks))
      /\ Follows(tasks', tasks, 1, <<>>) /\ draining' \in BOOLEAN /\ (draining' <=> tasks' # <<>>)
  BY <1>1, Runs
<1>3. PICK t, h : t = Head(tasks) /\ h = [object |-> t.object, client |-> t.arg]
  OBVIOUS
<1>4. t.object \in Objects /\ t.arg \in Clients /\ t.op \in HttpOps
  BY <1>2, <1>3 DEF TaskSays, HttpOps
<1>5. h \in [object : Objects, client : Clients] /\ h.object = t.object /\ h.client = t.arg
  BY <1>3, <1>4
<1>6. /\ handling' = handling \cup {h}
      /\ UNCHANGED <<available, fd, client, stage, backlog, received, recycled, served, away>>
  BY <1>3 DEF RunRequest, pool, clients
<1>7. PoolInv' /\ NoneAccepted
  BY <1>6, PoolKept, NoneAcceptedSame DEF ServerInv, PoolInv, PoolType
<1>8. LoopType'
  BY <1>1, <1>2, <1>5, <1>6 DEF LoopType, Follows
<1>9. HandlerOwn(h)'
  <2>1. TaskOwn(t)
    BY <1>2, <1>3 DEF ServerInv, OwnInv
  <2> QED
    BY <1>4, <1>5, <1>6, <2>1 DEF TaskOwn, HandlerOwn
<1>10. PICK p : p = <<>>
  OBVIOUS
<1>11. OwnInv'
  <2>1. Follows(tasks', tasks, 1, p) /\ \A k \in DOMAIN p : TaskOwn(p[k])'
    BY <1>2, <1>10
  <2>2. handling' \subseteq [object : Objects, client : Clients]
    BY <1>8 DEF LoopType
  <2>3. \A g \in handling' : g \in handling \/ HandlerOwn(g)'
    <3>1. ASSUME NEW g \in handling' PROVE g \in handling \/ HandlerOwn(g)'
      <4>1. CASE g = h
        BY <1>9, <3>1, <4>1 DEF HandlerOwn
      <4> QED
        BY <1>6, <4>1
    <3> QED
      BY <3>1
  <2> QED
    BY <1>1, <1>6, <1>7, <2>1, <2>2, <2>3, OwnKept DEF ServerInv
<1> QED
  BY <1>7, <1>8, <1>11, RegistryKept DEF ServerInv

LEMMA ReturnStep ==
    ASSUME ServerInv, NEW h \in handling, HandlerReturns(h), UNCHANGED <<kind, asks, websocket_vars>>
    PROVE  ServerInv'
<1>1. /\ handling' = handling \ {h} /\ tasks' = Append(tasks, Task("reply", h.object, h.client))
      /\ UNCHANGED <<available, fd, client, stage, backlog, received, recycled, draining, served, away>>
  BY DEF HandlerReturns, pool, clients, loop
<1>2. LoopType /\ h \in [object : Objects, client : Clients]
  BY DEF ServerInv, LoopType
<1>3. PICK x : x = Task("reply", h.object, h.client)
  OBVIOUS
<1>4. x \in ServerTasks /\ x.op = "reply" /\ x.object = h.object /\ x.arg = h.client
  BY <1>2, <1>3, TaskIs, TaskFields DEF HttpOps
<1>5. Follows(tasks', tasks, 0, <<x>>) /\ tasks' # <<>>
  BY <1>1, <1>2, <1>3, <1>4, Posts
<1>6. PoolInv' /\ NoneAccepted
  BY <1>1, PoolKept, NoneAcceptedSame DEF ServerInv, PoolInv, PoolType
<1>7. LoopType'
  BY <1>1, <1>2, <1>5 DEF LoopType, Follows
<1>8. TaskOwn(x)'
  BY <1>1, <1>4 DEF ServerInv, OwnInv, HandlerOwn, TaskOwn
<1>9. PICK p : p = <<x>>
  OBVIOUS
<1>10. OwnInv'
  <2>1. \A k \in DOMAIN p : p[k] = x
    BY <1>9
  <2>2. \A k \in DOMAIN p : TaskOwn(p[k])'
    BY <1>8, <2>1 DEF TaskOwn
  <2>3. handling' \subseteq [object : Objects, client : Clients]
    BY <1>7 DEF LoopType
  <2> QED
    BY <1>1, <1>2, <1>5, <1>6, <1>9, <2>2, <2>3, OwnKept DEF ServerInv
<1> QED
  BY <1>6, <1>7, <1>10, RegistryKept DEF ServerInv

LEMMA HandleReadStep ==
    ASSUME ServerInv, NEW o \in Objects, HandleRead(o), UNCHANGED <<kind, asks, websocket_vars>>
    PROVE  ServerInv'
<1>1. /\ Live(o) /\ UNCHANGED <<available, fd, client, stage, backlog, received, recycled, handling, draining>>
      /\ UNCHANGED <<served, away>>
      /\ \/ UNCHANGED tasks
         \/ \E op \in HttpOps : tasks' = Append(tasks, Task(op, o, client[o]))
  BY DEF HandleRead, Event, Reads, pool, HttpOps
<1>2. LoopType /\ client[o] \in Clients
  BY <1>1 DEF ServerInv, PoolInv, LiveFacts
<1>3. PoolInv' /\ NoneAccepted
  BY <1>1, PoolKept, NoneAcceptedSame DEF ServerInv, PoolInv, PoolType
<1>4. CASE UNCHANGED tasks
  <2>1. LoopType'
    BY <1>1, <1>2, <1>4 DEF LoopType
  <2>2. OwnInv'
    BY <1>1, <1>3, <1>4, OwnSame DEF ServerInv
  <2> QED
    BY <1>3, <2>1, <2>2, RegistryKept DEF ServerInv
<1>5. ASSUME NEW op \in HttpOps, tasks' = Append(tasks, Task(op, o, client[o])) PROVE ServerInv'
  <2>1. PICK x : x = Task(op, o, client[o])
    OBVIOUS
  <2>2. x \in ServerTasks /\ x.op = op /\ x.object = o /\ x.arg = client[o]
    BY <1>2, <2>1, TaskIs, TaskFields
  <2>3. Follows(tasks', tasks, 0, <<x>>) /\ tasks' # <<>>
    BY <1>2, <1>5, <2>1, <2>2, Posts
  <2>4. LoopType'
    BY <1>1, <1>2, <2>3 DEF LoopType, Follows
  <2>5. TaskOwn(x)'
    BY <1>1, <2>2 DEF TaskOwn, ServerInv, OwnInv
  <2>6. PICK p : p = <<x>>
    OBVIOUS
  <2>7. OwnInv'
    <3>1. \A k \in DOMAIN p : p[k] = x
      BY <2>6
    <3>2. \A k \in DOMAIN p : TaskOwn(p[k])'
      BY <2>5, <3>1 DEF TaskOwn, Live
    <3>3. handling' \subseteq [object : Objects, client : Clients]
      BY <2>4 DEF LoopType
    <3> QED
      BY <1>1, <1>2, <1>3, <2>3, <2>6, <3>2, <3>3, OwnKept DEF ServerInv
  <2> QED
    BY <1>3, <2>4, <2>7, RegistryKept DEF ServerInv
<1> QED
  BY <1>1, <1>4, <1>5

LEMMA DisconnectStep ==
    ASSUME ServerInv, kind = "https", NEW o \in Objects, Disconnect(o), UNCHANGED <<kind, asks, websocket_vars>>
    PROVE  ServerInv'
<1>1. /\ DelFd(o, 0) /\ (Live(o) \/ fd[o] = 0)
      /\ UNCHANGED <<backlog, received, recycled, handling, draining, tasks, served>>
  BY DEF Disconnect, Release, Event, clients, ServerInv, PoolInv, LiveFacts
<1>2. PoolInv' /\ NoneAccepted
  BY <1>1, PoolReleased, ReleaseAcceptsNone DEF ServerInv
<1>3. LoopType'
  BY <1>1 DEF ServerInv, LoopType
<1>4. OwnInv'
  BY <1>1, <1>2, OwnSame DEF ServerInv
<1> QED
  BY <1>2, <1>3, <1>4, RegistryKept DEF ServerInv
-----------------------------------------------------------------------------
(* The registry of the websocket server. *)

Accepted(o, r) == upgrade_request[o] = [route |-> r, valid |-> TRUE]
Registers(n) == m_websocket_connections_by_fd[n]
Pending(t) == \E i \in DOMAIN tasks : tasks[i] = t

\* A connection that has a descriptor whose on_disconnect is still to run has
\* not come to its upgrade, and will not before the tasks have run.
NotYet(o) ==
    \/ stage[o] = "tls" /\ (o \in batch => TaskFd \in batch \/ draining)
    \/ stage[o] = "ready" /\ o \notin batch /\ (TaskFd \in batch \/ draining)

BatchLive == \A o \in Objects : o \in batch => Live(o)

DisconnectsFirst ==
    \A i \in DOMAIN tasks : tasks[i].op = "disconnect" =>
        \A o \in Objects : Live(o) /\ fd[o] = tasks[i].arg => NotYet(o)

\* A registered connection is open, or its on_disconnect is still to run.
Registration ==
    \A n \in Fds : Registers(n) # NoOne =>
        /\ fd[Registers(n)] = n
        /\ stage[Registers(n)] \in {"open", "closing"} \/ Pending(Task("disconnect", Registers(n), n))

\* The sets of the routes are what the registered connections asked for.
RouteSets ==
    \A n \in Fds : \A r \in Routes :
        n \in m_connected_fds[r] <=> Registers(n) # NoOne /\ Accepted(Registers(n), r)

RouteNames ==
    \A n \in Fds : Registers(n) # NoOne =>
        m_websocket_routes_by_fd[n] = upgrade_request[Registers(n)].route

\* on_connect finds no registration under its descriptor; it runs once for an
\* object, before its on_disconnect.
ConnectsFresh ==
    \A i \in DOMAIN tasks : tasks[i].op = "connect" =>
        /\ stage[tasks[i].object] \in {"open", "pooled"}
        /\ fd[tasks[i].object] \in Fds
        /\ Registers(fd[tasks[i].object]) = NoOne

ConnectsThenDisconnects ==
    \A i \in DOMAIN tasks : tasks[i].op = "connect" /\ ~Live(tasks[i].object) =>
        \E j \in DOMAIN tasks : /\ j > i /\ tasks[j].op = "disconnect"
                                /\ tasks[j].arg = fd[tasks[i].object]

ConnectsOnce ==
    \A i, j \in DOMAIN tasks :
        tasks[i].op = "connect" /\ tasks[j].op = "connect" /\ tasks[i].object = tasks[j].object => i = j

\* A broadcast that is still to be written finds the connection it was meant
\* for, or none.
WritesMeant ==
    \A i \in DOMAIN tasks : tasks[i].op = "write" /\ tasks[i].arg.route \in Routes =>
        /\ \/ Registers(tasks[i].arg.fd) = NoOne
           \/ Accepted(Registers(tasks[i].arg.fd), tasks[i].arg.route)
        /\ \A j \in DOMAIN tasks :
              j < i /\ tasks[j].op = "connect" => fd[tasks[j].object] # tasks[i].arg.fd

RequestsKept ==
    \A o \in Objects :
        /\ stage[o] \in {"open", "closing"} => upgrade_request[o] = asks[client[o]]
        /\ stage[o] = "closing" => \A r \in Routes : ~Accepted(o, r)

OpenRegistered ==
    \A o \in Objects : stage[o] = "open" =>
        (\E i \in DOMAIN tasks : tasks[i].op = "connect" /\ tasks[i].object = o) \/ Registers(fd[o]) = o

Reg ==
    /\ BatchLive /\ DisconnectsFirst /\ Registration /\ RouteSets /\ RouteNames
    /\ ConnectsFresh /\ ConnectsThenDisconnects /\ ConnectsOnce /\ WritesMeant
    /\ RequestsKept /\ OpenRegistered

RegistryInv == kind = "websocket" /\ ~recycled => Reg

\* With no task left, the sets of the routes are the open connections let in.
LEMMA RegistryInvIs == ServerInv /\ RegistryInv => RegistryAgrees
<1> SUFFICES ASSUME ServerInv, RegistryInv, tasks = <<>>, ~recycled, kind = "websocket", NEW r \in Routes
             PROVE  m_connected_fds[r] =
                       {fd[o] : o \in {x \in Objects : stage[x] = "open" /\ asks[client[x]] = [route |-> r, valid |-> TRUE]}}
  BY DEF RegistryAgrees
<1>1. Reg /\ \A t : ~Pending(t)
  BY DEF RegistryInv, Pending
<1>2. ASSUME NEW n \in m_connected_fds[r]
      PROVE  \E o \in Objects : /\ stage[o] = "open" /\ asks[client[o]] = [route |-> r, valid |-> TRUE]
                                /\ n = fd[o]
  <2>1. n \in Fds
    BY DEF ServerInv, RegistryType
  <2>2. PICK o : o = Registers(n)
    OBVIOUS
  <2>3. o # NoOne /\ Accepted(o, r) /\ o \in Objects
    BY <1>1, <1>2, <2>1, <2>2 DEF Reg, RouteSets, ServerInv, RegistryType, Registers
  <2>4. fd[o] = n /\ stage[o] \in {"open", "closing"}
    BY <1>1, <2>1, <2>2, <2>3 DEF Reg, Registration
  <2>5. stage[o] = "open" /\ upgrade_request[o] = asks[client[o]]
    BY <1>1, <2>3, <2>4 DEF Reg, RequestsKept
  <2> QED
    BY <2>3, <2>4, <2>5 DEF Accepted
<1>3. ASSUME NEW o \in Objects, stage[o] = "open", asks[client[o]] = [route |-> r, valid |-> TRUE]
      PROVE  fd[o] \in m_connected_fds[r]
  <2>1. Registers(fd[o]) = o /\ Accepted(o, r)
    BY <1>1, <1>3 DEF Reg, OpenRegistered, RequestsKept, Accepted
  <2>2. fd[o] \in Fds /\ o # NoOne
    BY <1>3, FdsAssumption DEF ServerInv, PoolInv, LiveFacts, Live
  <2> QED
    BY <1>1, <2>1, <2>2 DEF Reg, RouteSets
<1> QED
  BY <1>2, <1>3

LEMMA RegistryInvInit == MCInit => RegistryInv
<1> SUFFICES ASSUME MCInit PROVE Reg
  BY DEF RegistryInv
<1>1. ServerInit /\ Init
  BY DEF MCInit, Init
<1>2. tasks = <<>> /\ batch = {} /\ \A o \in Objects : stage[o] \in {"pooled", "none"}
  BY <1>1 DEF ServerInit
<1>3. \A n \in Fds : Registers(n) = NoOne
  BY <1>1 DEF Init, Registers
<1>4. \A n \in Fds, r \in Routes : n \notin m_connected_fds[r]
  BY <1>1 DEF Init
<1>5. BatchLive /\ DisconnectsFirst /\ RequestsKept /\ OpenRegistered
  BY <1>2 DEF BatchLive, DisconnectsFirst, RequestsKept, OpenRegistered
<1>6. Registration /\ RouteSets /\ RouteNames
  BY <1>3, <1>4 DEF Registration, RouteSets, RouteNames
<1>7. ConnectsFresh /\ ConnectsThenDisconnects /\ ConnectsOnce /\ WritesMeant
  BY <1>2 DEF ConnectsFresh, ConnectsThenDisconnects, ConnectsOnce, WritesMeant
<1> QED
  BY <1>5, <1>6, <1>7 DEF Reg
\* Only the loop moves on.
LEMMA RegLoop ==
    ASSUME Reg, BatchLive', DisconnectsFirst',
           UNCHANGED <<stage, fd, client, tasks, websocket_vars, asks>>
    PROVE  Reg'
<1> USE DEF websocket_vars, registry, Registers, Accepted, Pending, Live
<1>1. Registration' /\ RouteSets' /\ RouteNames'
  BY DEF Reg, Registration, RouteSets, RouteNames
<1>2. ConnectsFresh' /\ ConnectsThenDisconnects' /\ ConnectsOnce'
  BY DEF Reg, ConnectsFresh, ConnectsThenDisconnects, ConnectsOnce
<1>3. WritesMeant' /\ RequestsKept' /\ OpenRegistered'
  BY DEF Reg, WritesMeant, RequestsKept, OpenRegistered
<1> QED
  BY <1>1, <1>2, <1>3 DEF Reg

LEMMA RegSame ==
    ASSUME Reg, UNCHANGED <<stage, fd, client, tasks, websocket_vars, asks, batch, draining>>
    PROVE  Reg'
<1>1. BatchLive' /\ DisconnectsFirst'
  BY DEF Reg, BatchLive, DisconnectsFirst, NotYet, Live
<1> QED
  BY <1>1, RegLoop

\* The loop waits, when it has handled its events and run its tasks: it sees
\* the task queue and the connections together.
LEMMA RegWait ==
    ASSUME Reg, EpollWait, UNCHANGED <<websocket_vars, asks>>
    PROVE  Reg'
<1>1. /\ UNCHANGED <<stage, fd, client, tasks, draining>>
      /\ batch = {} /\ ~draining /\ batch' = Ready
  BY DEF EpollWait, pool
<1>2. ASSUME NEW o \in Objects, o \in Ready PROVE Live(o)
  <2>1. o # Listen /\ o # TaskFd
    BY FdsAssumption
  <2> QED
    BY <1>2, <2>1 DEF Ready
<1>3. BatchLive'
  BY <1>1, <1>2 DEF BatchLive, Live
<1>4. DisconnectsFirst'
  <2> SUFFICES ASSUME NEW i \in DOMAIN tasks, tasks[i].op = "disconnect", NEW o \in Objects, Live(o),
                      fd[o] = tasks[i].arg
               PROVE  NotYet(o)'
    BY <1>1 DEF DisconnectsFirst, Live
  <2>1. NotYet(o)
    BY DEF Reg, DisconnectsFirst
  <2>2. stage[o] = "tls"
    BY <1>1, <2>1 DEF NotYet
  <2>3. TaskFd \in Ready
    BY DEF Ready
  <2> QED
    BY <1>1, <2>2, <2>3 DEF NotYet
<1> QED
  BY <1>1, <1>3, <1>4, RegLoop

LEMMA RegDrain ==
    ASSUME Reg, StartDrain, UNCHANGED <<websocket_vars, asks>>
    PROVE  Reg'
<1>1. /\ UNCHANGED <<stage, fd, client, tasks>>
      /\ batch' = batch \ {TaskFd} /\ (draining' <=> tasks # <<>>)
  BY DEF StartDrain, pool
<1>2. BatchLive'
  BY <1>1 DEF BatchLive, Live, Reg
<1>3. DisconnectsFirst'
  <2> SUFFICES ASSUME NEW i \in DOMAIN tasks, tasks[i].op = "disconnect", NEW o \in Objects, Live(o),
                      fd[o] = tasks[i].arg
               PROVE  NotYet(o)'
    BY <1>1 DEF DisconnectsFirst, Live
  <2>1. NotYet(o) /\ draining'
    BY <1>1 DEF Reg, DisconnectsFirst
  <2> QED
    BY <1>1, <2>1 DEF NotYet
<1> QED
  BY <1>1, <1>2, <1>3, RegLoop

\* An event of a connection, or of the listening socket, is handled.
LEMMA EventKeeps ==
    ASSUME NEW e, e # TaskFd, Event(e), NEW o, NotYet(o), UNCHANGED stage
    PROVE  NotYet(o)'
<1>1. batch' = batch \ {e} /\ draining' = draining
  BY DEF Event
<1> QED
  BY <1>1 DEF NotYet

LEMMA RegEvent ==
    ASSUME Reg, NEW e, e # TaskFd, Event(e), UNCHANGED <<stage, fd, client, tasks, websocket_vars, asks>>
    PROVE  Reg'
<1>1. BatchLive'
  BY DEF BatchLive, Live, Reg, Event
<1>2. DisconnectsFirst'
  <2> SUFFICES ASSUME NEW i \in DOMAIN tasks, tasks[i].op = "disconnect", NEW o \in Objects, Live(o),
                      fd[o] = tasks[i].arg
               PROVE  NotYet(o)'
    BY DEF DisconnectsFirst, Live
  <2>1. NotYet(o)
    BY DEF Reg, DisconnectsFirst
  <2> QED
    BY <2>1, EventKeeps
<1> QED
  BY <1>1, <1>2, RegLoop

\* A connection is accepted with an object no task names: no task has to do
\* with its object, and what is to run for its descriptor runs before its
\* upgrade is read.
LEMMA RegAccept ==
    ASSUME ServerInv, Reg, Accept(Held), ~recycled', UNCHANGED <<kind, websocket_vars, asks>>
    PROVE  Reg'
<1> USE DEF websocket_vars, registry, Registers, Accepted, Pending
<1>1. Event(Listen) /\ UNCHANGED tasks
  BY DEF Accept, Acquires
<1>2. Listen # TaskFd
  BY DEF Listen, TaskFd
<1>4. ASSUME NEW o \in Objects, stage[o] = "pooled", stage' = [stage EXCEPT ![o] = "tls"],
             fd' = [fd EXCEPT ![o] = Lowest(FreeFds)],
             client' = [client EXCEPT ![o] = Head(backlog)],
             recycled' = (recycled \/ o \in Held)
      PROVE  Reg'
  <2>1. o \notin Held /\ \A i \in DOMAIN tasks : tasks[i].object # o
    BY <1>4 DEF Held
  <2>2. PoolType /\ LoopType /\ RegistryType
    BY DEF ServerInv, PoolInv
  <2>3. /\ stage'[o] = "tls" /\ Live(o)'
        /\ \A x \in Objects \ {o} : /\ stage'[x] = stage[x] /\ fd'[x] = fd[x]
                                    /\ client'[x] = client[x] /\ (Live(x)' <=> Live(x))
    BY <1>4, <2>2 DEF PoolType, Live
  <2>4. ASSUME NEW i \in DOMAIN tasks, tasks[i].op \in {"connect", "disconnect"}
        PROVE  tasks[i].object \in Objects \ {o}
    <3>1. tasks[i] \in ServerTasks
      BY <2>2 DEF LoopType
    <3>2. TaskSays(tasks[i])
      BY <3>1, TaskIs
    <3> QED
      BY <2>1, <2>4, <3>2 DEF TaskSays
  <2>5. ASSUME NEW n \in Fds, Registers(n) # NoOne
        PROVE  Registers(n) \in Objects \ {o}
    <3>1. PICK p : p = Registers(n)
      OBVIOUS
    <3>2. p \in Objects
      BY <2>2, <2>5, <3>1 DEF RegistryType
    <3>3. stage[p] \in {"open", "closing"} \/ Pending(Task("disconnect", p, n))
      BY <2>5, <3>1 DEF Reg, Registration
    <3>4. CASE Pending(Task("disconnect", p, n))
      <4>1. PICK i \in DOMAIN tasks : tasks[i] = Task("disconnect", p, n)
        BY <3>4
      <4>2. tasks[i].object = p
        BY <4>1, TaskFields
      <4> QED
        BY <2>1, <3>1, <3>2, <4>2
    <3>5. CASE stage[p] \in {"open", "closing"}
      BY <1>4, <3>1, <3>2, <3>5
    <3> QED
      BY <3>3, <3>4, <3>5
  <2>6. batch' = batch \ {Listen} /\ draining' = draining /\ o \notin batch
    BY <1>1, <1>4 DEF Event, Reg, BatchLive, Live
  <2>7. BatchLive'
    BY <2>3, <2>6 DEF Reg, BatchLive
  <2>8. DisconnectsFirst'
    <3> SUFFICES ASSUME NEW i \in DOMAIN tasks, tasks[i].op = "disconnect", NEW x \in Objects, Live(x)',
                        fd'[x] = tasks[i].arg
                 PROVE  NotYet(x)'
      BY <1>1 DEF DisconnectsFirst
    <3>1. CASE x = o
      BY <2>3, <2>6, <3>1 DEF NotYet
    <3>2. CASE x # o
      <4>1. NotYet(x)
        BY <2>3, <3>2 DEF Reg, DisconnectsFirst
      <4> QED
        BY <1>2, <2>3, <2>6, <3>2, <4>1 DEF NotYet
    <3> QED
      BY <3>1, <3>2
  <2>9. Registration' /\ RouteSets' /\ RouteNames'
    <3>1. RouteSets' /\ RouteNames'
      BY DEF Reg, RouteSets, RouteNames
    <3>2. Registration'
      BY <1>1, <2>3, <2>5 DEF Reg, Registration
    <3> QED
      BY <3>1, <3>2
  <2>10. ConnectsFresh'
    BY <1>1, <2>3, <2>4 DEF Reg, ConnectsFresh
  <2>11. ConnectsThenDisconnects' /\ ConnectsOnce'
    BY <1>1, <2>3, <2>4 DEF Reg, ConnectsThenDisconnects, ConnectsOnce
  <2>12. WritesMeant'
    BY <1>1, <2>3, <2>4 DEF Reg, WritesMeant
  <2>13. RequestsKept'
    <3> SUFFICES ASSUME NEW x \in Objects, stage'[x] \in {"open", "closing"}
                 PROVE  /\ upgrade_request[x] = asks[client'[x]]
                        /\ stage'[x] = "closing" => \A r \in Routes : ~Accepted(x, r)
      BY DEF RequestsKept
    <3>1. x # o
      BY <2>3
    <3> QED
      BY <2>3, <3>1 DEF Reg, RequestsKept
  <2>14. OpenRegistered'
    BY <1>1, <2>3 DEF Reg, OpenRegistered
  <2> QED
    BY <2>7, <2>8, <2>9, <2>10, <2>11, <2>12, <2>13, <2>14 DEF Reg
<1>5. PoolInv /\ LoopType
  BY DEF ServerInv
<1> QED
  BY <1>4, <1>5, PoolAccepts

\* A posted task is the last.
LEMMA PostedLast ==
    ASSUME LoopType, NEW x \in ServerTasks, tasks' = Append(tasks, x)
    PROVE  \E m \in Nat : /\ m \in DOMAIN tasks' /\ tasks'[m] = x
                          /\ \A i \in DOMAIN tasks : i \in Nat /\ i < m /\ i \in DOMAIN tasks' /\ tasks'[i] = tasks[i]
                          /\ \A i \in DOMAIN tasks' : i = m \/ i \in DOMAIN tasks
<1>1. PICK s, t : s = tasks /\ t = tasks'
  OBVIOUS
<1>2. s \in Seq(ServerTasks) /\ t = Append(s, x)
  BY <1>1 DEF LoopType
<1>3. PICK m : m = Len(s) + 1
  OBVIOUS
<1>4. /\ m \in Nat /\ t[m] = x /\ DOMAIN s = 1 .. Len(s) /\ Len(s) \in Nat /\ DOMAIN t = 1 .. m
      /\ \A i \in 1 .. Len(s) : t[i] = s[i]
  BY <1>2, <1>3
<1>5. \A i \in DOMAIN s : i \in Nat /\ i < m /\ i \in DOMAIN t /\ t[i] = s[i]
  BY <1>3, <1>4
<1>6. \A i \in DOMAIN t : i = m \/ i \in DOMAIN s
  BY <1>3, <1>4
<1>7. m \in DOMAIN t
  BY <1>3, <1>4
<1> QED
  BY <1>1, <1>4, <1>5, <1>6, <1>7

\* The tasks that name an object.
LEMMA NamedObjects ==
    ASSUME LoopType, NEW i \in DOMAIN tasks
    PROVE  /\ tasks[i] \in ServerTasks /\ TaskSays(tasks[i])
           /\ tasks[i].op \in {"connect", "disconnect"} => tasks[i].object \in Objects
<1>1. tasks[i] \in ServerTasks
  BY DEF LoopType
<1>2. TaskSays(tasks[i])
  BY <1>1, TaskIs
<1> QED
  BY <1>1, <1>2 DEF TaskSays

\* An object that leaves the pool for a connection that comes to nothing, and
\* that no task names: it has no registration, and nothing has the descriptor
\* whose on_disconnect is posted.
LEMMA RegUnused ==
    ASSUME ServerInv, Reg, NEW o \in Objects, Unused(o, Held), ~Live(o), ~recycled',
           \A x \in Objects : Live(x)' <=> Live(x),
           \A x \in Objects \ {o} : fd'[x] = fd[x] /\ stage'[x] = stage[x],
           Event(Listen), UNCHANGED <<websocket_vars, asks>>
    PROVE  Reg'
<1> USE DEF websocket_vars, registry, Registers, Accepted, Pending
<1>1. PoolType /\ LoopType /\ RegistryType
  BY DEF ServerInv, PoolInv
<1>2. /\ o \notin Held /\ \A i \in DOMAIN tasks : tasks[i].object # o
      /\ client' = client /\ stage'[o] \in {"pooled", "lost"} /\ stage[o] = "pooled"
  BY <1>1 DEF Unused, Acquires, Held, PoolType
<1>3. /\ \A i \in DOMAIN tasks : i \in DOMAIN tasks' /\ tasks'[i] = tasks[i]
      /\ \A i \in DOMAIN tasks' :
            \/ i \in DOMAIN tasks
            \/ tasks'[i].op = "disconnect" /\ tasks'[i].arg \in FreeFds
  <2>1. CASE tasks' = tasks
    BY <2>1
  <2>2. ASSUME NEW n \in FreeFds, tasks' = Append(tasks, Task("disconnect", o, n))
        PROVE  /\ \A i \in DOMAIN tasks : i \in DOMAIN tasks' /\ tasks'[i] = tasks[i]
               /\ \A i \in DOMAIN tasks' :
                     \/ i \in DOMAIN tasks
                     \/ tasks'[i].op = "disconnect" /\ tasks'[i].arg \in FreeFds
    <3>1. PICK x : x = Task("disconnect", o, n)
      OBVIOUS
    <3>2. x \in ServerTasks /\ x.op = "disconnect" /\ x.arg = n /\ tasks' = Append(tasks, x)
      BY <2>2, <3>1, TaskIs, TaskFields DEF FreeFds
    <3>3. PICK m \in Nat :
             /\ m \in DOMAIN tasks' /\ tasks'[m] = x
             /\ \A i \in DOMAIN tasks : i \in Nat /\ i < m /\ i \in DOMAIN tasks' /\ tasks'[i] = tasks[i]
             /\ \A i \in DOMAIN tasks' : i = m \/ i \in DOMAIN tasks
      BY <1>1, <3>2, PostedLast
    <3> QED
      BY <3>2, <3>3
  <2> QED
    BY <2>1, <2>2 DEF Unused
<1>4. ASSUME NEW i \in DOMAIN tasks, tasks[i].op \in {"connect", "disconnect"}
      PROVE  tasks[i].object \in Objects \ {o}
  BY <1>1, <1>2, <1>4, NamedObjects
<1>5. ASSUME NEW n \in Fds, Registers(n) # NoOne
      PROVE  Registers(n) \in Objects \ {o}
  <2>1. PICK p : p = Registers(n)
    OBVIOUS
  <2>2. p \in Objects
    BY <1>1, <1>5, <2>1 DEF RegistryType
  <2>3. stage[p] \in {"open", "closing"} \/ Pending(Task("disconnect", p, n))
    BY <1>5, <2>1 DEF Reg, Registration
  <2>4. CASE Pending(Task("disconnect", p, n))
    <3>1. PICK i \in DOMAIN tasks : tasks[i] = Task("disconnect", p, n)
      BY <2>4
    <3>2. tasks[i].object = p
      BY <3>1, TaskFields
    <3> QED
      BY <1>2, <2>1, <2>2, <3>2
  <2>5. CASE stage[p] \in {"open", "closing"}
    BY <1>2, <2>1, <2>2, <2>5
  <2> QED
    BY <2>3, <2>4, <2>5
<1>6. batch' = batch \ {Listen} /\ draining' = draining /\ Listen # TaskFd
  BY DEF Event, Listen, TaskFd
<1>7. BatchLive'
  BY <1>6 DEF Reg, BatchLive
<1>8. DisconnectsFirst'
  <2> SUFFICES ASSUME NEW i \in DOMAIN tasks', tasks'[i].op = "disconnect", NEW x \in Objects, Live(x)',
                      fd'[x] = tasks'[i].arg
               PROVE  NotYet(x)'
    BY DEF DisconnectsFirst
  <2>1. Live(x) /\ x # o /\ fd[x] = tasks'[i].arg /\ stage'[x] = stage[x]
    OBVIOUS
  <2>2. tasks'[i].arg \notin FreeFds
    BY <2>1 DEF FreeFds
  <2>3. i \in DOMAIN tasks /\ tasks'[i] = tasks[i]
    BY <1>3, <2>2
  <2>4. NotYet(x)
    BY <2>1, <2>3 DEF Reg, DisconnectsFirst
  <2> QED
    BY <1>6, <2>1, <2>4 DEF NotYet
<1>9. RouteSets' /\ RouteNames'
  BY DEF Reg, RouteSets, RouteNames
<1>10. Registration'
  BY <1>3, <1>5 DEF Reg, Registration
<1>11. ConnectsFresh' /\ ConnectsThenDisconnects' /\ ConnectsOnce'
  <2>1. \A i \in DOMAIN tasks' : tasks'[i].op = "connect" =>
           i \in DOMAIN tasks /\ tasks'[i] = tasks[i] /\ tasks[i].object \in Objects \ {o}
    BY <1>3, <1>4
  <2>2. ConnectsFresh'
    BY <2>1 DEF Reg, ConnectsFresh
  <2>3. ConnectsThenDisconnects'
    BY <1>3, <2>1 DEF Reg, ConnectsThenDisconnects
  <2>4. ConnectsOnce'
    BY <2>1 DEF Reg, ConnectsOnce
  <2> QED
    BY <2>2, <2>3, <2>4
<1>12. WritesMeant'
  <2>1. \A i \in DOMAIN tasks' : tasks'[i].op \in {"connect", "write"} =>
           i \in DOMAIN tasks /\ tasks'[i] = tasks[i]
    BY <1>3
  <2>2. \A i \in DOMAIN tasks : tasks[i].op = "connect" => fd'[tasks[i].object] = fd[tasks[i].object]
    BY <1>4
  <2> QED
    BY <2>1, <2>2 DEF Reg, WritesMeant
<1>13. RequestsKept'
  <2> SUFFICES ASSUME NEW x \in Objects, stage'[x] \in {"open", "closing"}
               PROVE  /\ upgrade_request[x] = asks[client[x]]
                      /\ stage'[x] = "closing" => \A r \in Routes : ~Accepted(x, r)
    BY <1>2 DEF RequestsKept
  <2>1. x # o
    BY <1>2
  <2> QED
    BY <2>1 DEF Reg, RequestsKept
<1>14. OpenRegistered'
  <2> SUFFICES ASSUME NEW x \in Objects, stage'[x] = "open"
               PROVE  \/ \E i \in DOMAIN tasks' : tasks'[i].op = "connect" /\ tasks'[i].object = x
                      \/ Registers(fd'[x]) = x
    BY DEF OpenRegistered
  <2>1. x # o
    BY <1>2
  <2> QED
    BY <1>3, <2>1 DEF Reg, OpenRegistered
<1> QED
  BY <1>7, <1>8, <1>9, <1>10, <1>11, <1>12, <1>13, <1>14 DEF Reg

LEMMA RegHandshake ==
    ASSUME ServerInv, Reg, NEW o \in Objects, Handshake(o), UNCHANGED <<websocket_vars, asks>>
    PROVE  Reg'
<1> USE DEF websocket_vars, registry, Registers, Accepted, Pending
<1>1. /\ o \in batch /\ ~draining /\ batch' = batch \ {o} /\ draining' = draining
      /\ stage[o] = "tls" /\ stage' = [stage EXCEPT ![o] = "ready"]
      /\ UNCHANGED <<fd, client, tasks>>
  BY DEF Handshake, Event
<1>2. PoolType /\ LoopType /\ RegistryType
  BY DEF ServerInv, PoolInv
<1>3. /\ stage'[o] = "ready" /\ Live(o) /\ Live(o)'
      /\ \A x \in Objects \ {o} : stage'[x] = stage[x]
      /\ \A x \in Objects : Live(x)' <=> Live(x)
  BY <1>1, <1>2 DEF PoolType, Live
<1>4. o # TaskFd
  BY FdsAssumption
<1>5. BatchLive'
  BY <1>1, <1>3 DEF Reg, BatchLive
<1>6. DisconnectsFirst'
  <2> SUFFICES ASSUME NEW i \in DOMAIN tasks, tasks[i].op = "disconnect", NEW x \in Objects, Live(x),
                      fd[x] = tasks[i].arg
               PROVE  NotYet(x)'
    BY <1>1, <1>3 DEF DisconnectsFirst
  <2>1. NotYet(x)
    BY DEF Reg, DisconnectsFirst
  <2>2. CASE x = o
    BY <1>1, <1>3, <1>4, <2>1, <2>2 DEF NotYet
  <2>3. CASE x # o
    BY <1>1, <1>3, <1>4, <2>1, <2>3 DEF NotYet
  <2> QED
    BY <2>2, <2>3
<1>7. RouteSets' /\ RouteNames'
  BY DEF Reg, RouteSets, RouteNames
<1>8. Registration'
  <2> SUFFICES ASSUME NEW n \in Fds, Registers(n) # NoOne
               PROVE  /\ fd[Registers(n)] = n
                      /\ stage'[Registers(n)] \in {"open", "closing"} \/ Pending(Task("disconnect", Registers(n), n))
    BY <1>1 DEF Registration
  <2>1. Registers(n) \in Objects
    BY <1>2 DEF RegistryType
  <2>2. /\ fd[Registers(n)] = n
        /\ stage[Registers(n)] \in {"open", "closing"} \/ Pending(Task("disconnect", Registers(n), n))
    BY DEF Reg, Registration
  <2> QED
    BY <1>1, <1>3, <2>1, <2>2
<1>9. ConnectsFresh' /\ ConnectsThenDisconnects'
  <2>1. \A i \in DOMAIN tasks : tasks[i].op = "connect" => tasks[i].object \in Objects \ {o}
    BY <1>1, <1>2, NamedObjects DEF Reg, ConnectsFresh
  <2>2. ConnectsFresh'
    BY <1>1, <1>3, <2>1 DEF Reg, ConnectsFresh
  <2>3. ConnectsThenDisconnects'
    BY <1>1, <1>3, <2>1 DEF Reg, ConnectsThenDisconnects
  <2> QED
    BY <2>2, <2>3
<1>10. ConnectsOnce' /\ WritesMeant'
  BY <1>1 DEF Reg, ConnectsOnce, WritesMeant
<1>11. RequestsKept' /\ OpenRegistered'
  <2>1. \A x \in Objects : stage'[x] \in {"open", "closing"} => x # o /\ stage'[x] = stage[x]
    BY <1>3
  <2> QED
    BY <1>1, <2>1 DEF Reg, RequestsKept, OpenRegistered
<1> QED
  BY <1>5, <1>6, <1>7, <1>8, <1>9, <1>10, <1>11 DEF Reg

\* What release does to a connection of the websocket server.
LEMMA WsReleased ==
    ASSUME ServerInv, NEW o \in Objects, Live(o), WsRelease(o, tasks), kind = "websocket",
           UNCHANGED <<backlog, kind, served>>
    PROVE  /\ PoolInv' /\ NoneAccepted /\ UNCHANGED fd
           /\ stage' = [stage EXCEPT ![o] = "pooled"] /\ client' = [client EXCEPT ![o] = NoOne]
           /\ Task("disconnect", o, fd[o]) \in ServerTasks
           /\ tasks' = Append(tasks, Task("disconnect", o, fd[o]))
<1>1. fd[o] \in Fds /\ fd[o] # 0 /\ fd \in [Objects -> Fds \cup {0}]
  BY FdsAssumption DEF ServerInv, PoolInv, LiveFacts, PoolType
<1>2. PICK n : n = fd[o]
  OBVIOUS
<1>3. DelFd(o, n) /\ kind # "https"
  BY <1>2 DEF WsRelease
<1>4. PoolInv' /\ NoneAccepted
  BY <1>1, <1>2, <1>3, PoolReleased, ReleaseAcceptsNone DEF ServerInv
<1>5. /\ stage' = [stage EXCEPT ![o] = "pooled"] /\ client' = [client EXCEPT ![o] = NoOne]
      /\ fd' = [fd EXCEPT ![o] = n]
  BY <1>1, <1>2, <1>3 DEF DelFd
<1>6. fd' = fd
  BY <1>1, <1>2, <1>5
<1>7. PICK x : x = Task("disconnect", o, fd[o])
  OBVIOUS
<1>8. x \in ServerTasks
  BY <1>1, <1>7, TaskIs
<1>9. tasks' = Append(tasks, x)
  <2>1. tasks' = tasks \o <<x>> /\ tasks \in Seq(ServerTasks)
    BY <1>7 DEF WsRelease, ServerInv, LoopType
  <2>2. PICK s : s = tasks
    OBVIOUS
  <2>3. s \o <<x>> = Append(s, x)
    BY <1>8, <2>1, <2>2
  <2> QED
    BY <2>1, <2>2, <2>3
<1> QED
  BY <1>4, <1>5, <1>6, <1>7, <1>8, <1>9

\* A connection is closed: its on_disconnect comes after what is posted for it.
LEMMA RegRelease ==
    ASSUME ServerInv, Reg, NEW o \in Objects, Event(o), Live(o), WsRelease(o, tasks), kind = "websocket",
           UNCHANGED <<backlog, kind, served, websocket_vars, asks>>
    PROVE  Reg'
<1> USE DEF websocket_vars, registry, Registers, Accepted
<1>1. /\ UNCHANGED fd /\ stage' = [stage EXCEPT ![o] = "pooled"] /\ client' = [client EXCEPT ![o] = NoOne]
      /\ Task("disconnect", o, fd[o]) \in ServerTasks
      /\ tasks' = Append(tasks, Task("disconnect", o, fd[o]))
  BY WsReleased
<1>2. PICK x : x = Task("disconnect", o, fd[o])
  OBVIOUS
<1>3. x.op = "disconnect" /\ x.object = o /\ x.arg = fd[o] /\ x \in ServerTasks
  BY <1>1, <1>2, TaskFields
<1>4. PoolType /\ LoopType /\ RegistryType /\ PoolConserved /\ LiveFacts
  BY DEF ServerInv, PoolInv
<1>5. PICK m \in Nat : /\ m \in DOMAIN tasks' /\ tasks'[m] = x
                       /\ \A i \in DOMAIN tasks : i \in Nat /\ i < m /\ i \in DOMAIN tasks' /\ tasks'[i] = tasks[i]
                       /\ \A i \in DOMAIN tasks' : i = m \/ i \in DOMAIN tasks
  BY <1>1, <1>2, <1>3, <1>4, PostedLast
<1>6. batch' = batch \ {o} /\ draining' = draining /\ o # TaskFd
  BY FdsAssumption DEF Event
<1>7. /\ stage'[o] = "pooled" /\ ~Live(o)'
      /\ \A y \in Objects \ {o} : /\ stage'[y] = stage[y] /\ client'[y] = client[y]
                                  /\ (Live(y)' <=> Live(y))
  BY <1>1, <1>4 DEF PoolType, Live
<1>8. BatchLive'
  BY <1>6, <1>7 DEF Reg, BatchLive
<1>9. DisconnectsFirst'
  <2> SUFFICES ASSUME NEW i \in DOMAIN tasks', tasks'[i].op = "disconnect", NEW y \in Objects, Live(y)',
                      fd[y] = tasks'[i].arg
               PROVE  NotYet(y)'
    BY <1>1 DEF DisconnectsFirst
  <2>1. y # o /\ Live(y)
    BY <1>7
  <2>2. fd[y] # fd[o]
    BY <2>1 DEF ServerInv, PoolInv, PoolConserved
  <2>3. i \in DOMAIN tasks
    BY <1>3, <1>5, <2>2
  <2>4. NotYet(y)
    BY <1>5, <2>1, <2>3 DEF Reg, DisconnectsFirst
  <2> QED
    BY <1>6, <1>7, <2>1, <2>4 DEF NotYet
<1>10. RouteSets' /\ RouteNames'
  BY DEF Reg, RouteSets, RouteNames
<1>11. Registration'
  <2> SUFFICES ASSUME NEW n \in Fds, Registers(n) # NoOne
               PROVE  /\ fd[Registers(n)] = n
                      /\ stage'[Registers(n)] \in {"open", "closing"} \/ Pending(Task("disconnect", Registers(n), n))'
    BY <1>1 DEF Registration, Pending
  <2>1. Registers(n) \in Objects
    BY <1>4 DEF RegistryType
  <2>2. /\ fd[Registers(n)] = n
        /\ stage[Registers(n)] \in {"open", "closing"} \/ Pending(Task("disconnect", Registers(n), n))
    BY DEF Reg, Registration
  <2>3. CASE Registers(n) = o
    BY <1>2, <1>5, <2>2, <2>3 DEF Pending
  <2>4. CASE Registers(n) # o
    BY <1>5, <1>7, <2>1, <2>2, <2>4 DEF Pending
  <2> QED
    BY <2>2, <2>3, <2>4
<1>12. ConnectsFresh'
  <2> SUFFICES ASSUME NEW i \in DOMAIN tasks', tasks'[i].op = "connect"
               PROVE  /\ stage'[tasks'[i].object] \in {"open", "pooled"}
                      /\ fd[tasks'[i].object] \in Fds
                      /\ Registers(fd[tasks'[i].object]) = NoOne
    BY <1>1 DEF ConnectsFresh
  <2>1. i \in DOMAIN tasks /\ tasks'[i] = tasks[i]
    BY <1>3, <1>5
  <2>2. tasks[i].object \in Objects
    BY <1>4, <2>1, NamedObjects
  <2>3. /\ stage[tasks[i].object] \in {"open", "pooled"} /\ fd[tasks[i].object] \in Fds
        /\ Registers(fd[tasks[i].object]) = NoOne
    BY <2>1 DEF Reg, ConnectsFresh
  <2> QED
    BY <1>7, <2>1, <2>2, <2>3
<1>13. ConnectsThenDisconnects'
  <2> SUFFICES ASSUME NEW i \in DOMAIN tasks', tasks'[i].op = "connect", ~Live(tasks[i].object)'
               PROVE  \E j \in DOMAIN tasks' : /\ j > i /\ tasks'[j].op = "disconnect"
                                               /\ tasks'[j].arg = fd[tasks'[i].object]
    BY <1>1 DEF ConnectsThenDisconnects
  <2>1. i \in DOMAIN tasks /\ tasks'[i] = tasks[i] /\ i < m /\ i \in Nat
    BY <1>3, <1>5
  <2>2. tasks[i].object \in Objects
    BY <1>4, <2>1, NamedObjects
  <2>3. CASE tasks[i].object = o
    BY <1>3, <1>5, <2>1, <2>3
  <2>4. CASE tasks[i].object # o
    <3>1. ~Live(tasks[i].object)
      BY <1>7, <2>1, <2>2, <2>4 DEF Live
    <3>2. PICK j \in DOMAIN tasks : j > i /\ tasks[j].op = "disconnect" /\ tasks[j].arg = fd[tasks[i].object]
      BY <2>1, <3>1 DEF Reg, ConnectsThenDisconnects
    <3> QED
      BY <1>5, <2>1, <3>2
  <2> QED
    BY <2>3, <2>4
<1>14. ConnectsOnce'
  BY <1>3, <1>5 DEF Reg, ConnectsOnce
<1>15. WritesMeant'
  <2> SUFFICES ASSUME NEW i \in DOMAIN tasks', tasks'[i].op = "write", tasks'[i].arg.route \in Routes
               PROVE  /\ \/ Registers(tasks'[i].arg.fd) = NoOne
                         \/ Accepted(Registers(tasks'[i].arg.fd), tasks'[i].arg.route)
                      /\ \A j \in DOMAIN tasks' :
                            j < i /\ tasks'[j].op = "connect" => fd[tasks'[j].object] # tasks'[i].arg.fd
    BY <1>1 DEF WritesMeant
  <2>1. i \in DOMAIN tasks /\ tasks'[i] = tasks[i]
    BY <1>3, <1>5
  <2>2. \A j \in DOMAIN tasks' : tasks'[j].op = "connect" => j \in DOMAIN tasks /\ tasks'[j] = tasks[j]
    BY <1>3, <1>5
  <2> QED
    BY <2>1, <2>2 DEF Reg, WritesMeant
<1>16. RequestsKept'
  <2>1. \A y \in Objects : stage'[y] \in {"open", "closing"} => y # o /\ stage'[y] = stage[y] /\ client'[y] = client[y]
    BY <1>7
  <2> QED
    BY <2>1 DEF Reg, RequestsKept
<1>17. OpenRegistered'
  <2> SUFFICES ASSUME NEW y \in Objects, stage'[y] = "open"
               PROVE  \/ \E i \in DOMAIN tasks' : tasks'[i].op = "connect" /\ tasks'[i].object = y
                      \/ Registers(fd[y]) = y
    BY <1>1 DEF OpenRegistered
  <2>1. stage[y] = "open"
    BY <1>7
  <2> QED
    BY <1>5, <2>1 DEF Reg, OpenRegistered
<1> QED
  BY <1>8, <1>9, <1>10, <1>11, <1>12, <1>13, <1>14, <1>15, <1>16, <1>17 DEF Reg
\* The upgrade is read: nothing is registered under the descriptor, and no
\* on_disconnect of it is still to run.
LEMMA RegUpgrade ==
    ASSUME ServerInv, Reg, NEW o \in Objects, Event(o), stage[o] = "ready",
           stage' = [stage EXCEPT ![o] = "open"],
           upgrade_request' = [upgrade_request EXCEPT ![o] = asks[client[o]]],
           tasks' = Append(tasks, Task("connect", o, 0)),
           UNCHANGED <<fd, client, asks, registry>>
    PROVE  Reg'
<1> USE DEF registry, Registers
<1>1. PICK x : x = Task("connect", o, 0)
  OBVIOUS
<1>2. x.op = "connect" /\ x.object = o /\ x \in ServerTasks
  BY <1>1, TaskFields, TaskIs
<1>3. PoolType /\ LoopType /\ RegistryType /\ Live(o) /\ fd[o] \in Fds /\ o # NoOne /\ o # TaskFd
  BY FdsAssumption DEF ServerInv, PoolInv, LiveFacts, Live
<1>4. PICK m \in Nat : /\ m \in DOMAIN tasks' /\ tasks'[m] = x
                       /\ \A i \in DOMAIN tasks : i \in Nat /\ i < m /\ i \in DOMAIN tasks' /\ tasks'[i] = tasks[i]
                       /\ \A i \in DOMAIN tasks' : i = m \/ i \in DOMAIN tasks
  BY <1>1, <1>2, <1>3, PostedLast
<1>5. batch' = batch \ {o} /\ draining' = draining /\ o \in batch /\ ~draining
  BY DEF Event
<1>6. /\ stage'[o] = "open" /\ upgrade_request'[o] = asks[client[o]]
      /\ \A y \in Objects \ {o} : stage'[y] = stage[y] /\ upgrade_request'[y] = upgrade_request[y]
      /\ \A y \in Objects : Live(y)' <=> Live(y)
  BY <1>3 DEF PoolType, RegistryType, Live
<1>7. \A i \in DOMAIN tasks : tasks[i].op = "disconnect" => tasks[i].arg # fd[o]
  <2> SUFFICES ASSUME NEW i \in DOMAIN tasks, tasks[i].op = "disconnect", tasks[i].arg = fd[o] PROVE FALSE
    OBVIOUS
  <2>1. NotYet(o)
    BY <1>3 DEF Reg, DisconnectsFirst
  <2> QED
    BY <1>5, <2>1 DEF NotYet
<1>8. ASSUME NEW n \in Fds, Registers(n) # NoOne
      PROVE  /\ Registers(n) \in Objects \ {o} /\ n # fd[o]
             /\ \A r : Accepted(Registers(n), r)' <=> Accepted(Registers(n), r)
  <2>1. PICK p : p = Registers(n)
    OBVIOUS
  <2>2. p \in Objects /\ fd[p] = n /\ (stage[p] \in {"open", "closing"} \/ Pending(Task("disconnect", p, n)))
    BY <1>3, <1>8, <2>1 DEF Reg, Registration, RegistryType
  <2>3. ASSUME n = fd[o] PROVE FALSE
    <3>1. CASE Pending(Task("disconnect", p, n))
      <4>1. PICK i \in DOMAIN tasks : tasks[i] = Task("disconnect", p, n)
        BY <3>1 DEF Pending
      <4>2. tasks[i].op = "disconnect" /\ tasks[i].arg = n
        BY <4>1, TaskFields
      <4> QED
        BY <1>7, <2>3, <4>2
    <3>2. CASE stage[p] \in {"open", "closing"}
      <4>1. Live(p) /\ p # o /\ fd[p] = fd[o]
        BY <2>2, <2>3, <3>2 DEF Live
      <4> QED
        BY <1>3, <2>2, <4>1 DEF ServerInv, PoolInv, PoolConserved
    <3> QED
      BY <2>2, <3>1, <3>2
  <2>4. p # o
    BY <2>2, <2>3
  <2>5. upgrade_request'[p] = upgrade_request[p]
    BY <1>6, <2>2, <2>4
  <2> QED
    BY <2>1, <2>2, <2>3, <2>4, <2>5 DEF Accepted
<1>9. \A i \in DOMAIN tasks : tasks[i].op = "connect" => tasks[i].object \in Objects \ {o}
  BY <1>3, NamedObjects DEF Reg, ConnectsFresh
<1>10. BatchLive'
  BY <1>5, <1>6 DEF Reg, BatchLive
<1>11. DisconnectsFirst'
  <2> SUFFICES ASSUME NEW i \in DOMAIN tasks', tasks'[i].op = "disconnect", NEW y \in Objects, Live(y)',
                      fd[y] = tasks'[i].arg
               PROVE  NotYet(y)'
    BY DEF DisconnectsFirst
  <2>1. i \in DOMAIN tasks /\ tasks'[i] = tasks[i]
    BY <1>2, <1>4
  <2>2. y # o /\ Live(y)
    BY <1>6, <1>7, <2>1
  <2>3. NotYet(y)
    BY <2>1, <2>2 DEF Reg, DisconnectsFirst
  <2> QED
    BY <1>3, <1>5, <1>6, <2>2, <2>3 DEF NotYet
<1>12. Registration'
  <2> SUFFICES ASSUME NEW n \in Fds, Registers(n) # NoOne
               PROVE  /\ fd[Registers(n)] = n
                      /\ stage'[Registers(n)] \in {"open", "closing"} \/ Pending(Task("disconnect", Registers(n), n))'
    BY DEF Registration, Pending
  <2>1. Registers(n) \in Objects \ {o}
    BY <1>8
  <2>2. /\ fd[Registers(n)] = n
        /\ stage[Registers(n)] \in {"open", "closing"} \/ Pending(Task("disconnect", Registers(n), n))
    BY DEF Reg, Registration
  <2> QED
    BY <1>4, <1>6, <2>1, <2>2 DEF Pending
<1>13. RouteSets'
  <2> SUFFICES ASSUME NEW n \in Fds, NEW r \in Routes
               PROVE  n \in m_connected_fds[r] <=> Registers(n) # NoOne /\ Accepted(Registers(n), r)'
    BY DEF RouteSets, Accepted
  <2>1. n \in m_connected_fds[r] <=> Registers(n) # NoOne /\ Accepted(Registers(n), r)
    BY DEF Reg, RouteSets
  <2> QED
    BY <1>8, <2>1
<1>14. RouteNames'
  <2>1. \A n \in Fds : Registers(n) # NoOne => upgrade_request'[Registers(n)] = upgrade_request[Registers(n)]
    BY <1>6, <1>8
  <2> QED
    BY <2>1 DEF Reg, RouteNames
<1>15. ConnectsFresh'
  <2> SUFFICES ASSUME NEW i \in DOMAIN tasks', tasks'[i].op = "connect"
               PROVE  /\ stage'[tasks'[i].object] \in {"open", "pooled"}
                      /\ fd[tasks'[i].object] \in Fds
                      /\ Registers(fd[tasks'[i].object]) = NoOne
    BY DEF ConnectsFresh
  <2>1. CASE i = m
    BY <1>2, <1>3, <1>4, <1>6, <1>8, <2>1
  <2>2. CASE i \in DOMAIN tasks
    <3>1. tasks'[i] = tasks[i] /\ tasks[i].op = "connect" /\ tasks[i].object \in Objects \ {o}
      BY <1>4, <1>9, <2>2
    <3> QED
      BY <1>6, <2>2, <3>1 DEF Reg, ConnectsFresh
  <2> QED
    BY <1>4, <2>1, <2>2
<1>16. ConnectsThenDisconnects'
  <2> SUFFICES ASSUME NEW i \in DOMAIN tasks', tasks'[i].op = "connect", ~Live(tasks[i].object)'
               PROVE  \E j \in DOMAIN tasks' : /\ j > i /\ tasks'[j].op = "disconnect"
                                               /\ tasks'[j].arg = fd[tasks'[i].object]
    BY DEF ConnectsThenDisconnects
  <2>1. tasks'[i].object # o
    BY <1>6 DEF Live
  <2>2. i \in DOMAIN tasks /\ tasks'[i] = tasks[i]
    BY <1>2, <1>4, <2>1
  <2>3. tasks[i].object \in Objects /\ ~Live(tasks[i].object)
    BY <1>6, <1>9, <2>2 DEF Live
  <2>4. PICK j \in DOMAIN tasks : j > i /\ tasks[j].op = "disconnect" /\ tasks[j].arg = fd[tasks[i].object]
    BY <2>2, <2>3 DEF Reg, ConnectsThenDisconnects
  <2> QED
    BY <1>4, <2>2, <2>4
<1>17. ConnectsOnce'
  <2> SUFFICES ASSUME NEW i \in DOMAIN tasks', NEW j \in DOMAIN tasks', tasks'[i].op = "connect",
                      tasks'[j].op = "connect", tasks'[i].object = tasks'[j].object
               PROVE  i = j
    BY DEF ConnectsOnce
  <2>1. \A k \in DOMAIN tasks' : tasks'[k].op = "connect" =>
            k = m \/ (k \in DOMAIN tasks /\ tasks'[k] = tasks[k] /\ tasks[k].object # o)
    BY <1>4, <1>9
  <2> QED
    BY <1>2, <1>4, <2>1 DEF Reg, ConnectsOnce
<1>18. WritesMeant'
  <2> SUFFICES ASSUME NEW i \in DOMAIN tasks', tasks'[i].op = "write", tasks'[i].arg.route \in Routes
               PROVE  /\ \/ Registers(tasks'[i].arg.fd) = NoOne
                         \/ Accepted(Registers(tasks[i].arg.fd), tasks[i].arg.route)'
                      /\ \A j \in DOMAIN tasks' :
                            j < i /\ tasks'[j].op = "connect" => fd[tasks'[j].object] # tasks'[i].arg.fd
    BY DEF WritesMeant
  <2>1. i \in DOMAIN tasks /\ tasks'[i] = tasks[i] /\ i < m /\ i \in Nat
    BY <1>2, <1>4
  <2>2. tasks[i].arg.fd \in Fds
    BY <1>3, <2>1, NamedObjects DEF TaskSays
  <2>3. /\ \/ Registers(tasks[i].arg.fd) = NoOne
           \/ Accepted(Registers(tasks[i].arg.fd), tasks[i].arg.route)
        /\ \A j \in DOMAIN tasks : j < i /\ tasks[j].op = "connect" => fd[tasks[j].object] # tasks[i].arg.fd
    BY <2>1 DEF Reg, WritesMeant
  <2>4. \/ Registers(tasks'[i].arg.fd) = NoOne
        \/ Accepted(Registers(tasks[i].arg.fd), tasks[i].arg.route)'
    <3>1. PICK n, r : n = tasks[i].arg.fd /\ r = tasks[i].arg.route
      OBVIOUS
    <3>2. Registers(n) = NoOne \/ Accepted(Registers(n), r)'
      BY <1>8, <2>2, <2>3, <3>1
    <3> QED
      BY <2>1, <3>1, <3>2 DEF Accepted
  <2>5. \A j \in DOMAIN tasks' : j < i => j \in DOMAIN tasks /\ tasks'[j] = tasks[j]
    BY <1>4, <2>1
  <2> QED
    BY <2>1, <2>3, <2>4, <2>5
<1>19. RequestsKept'
  <2> SUFFICES ASSUME NEW y \in Objects, stage'[y] \in {"open", "closing"}
               PROVE  /\ upgrade_request'[y] = asks[client[y]]
                      /\ stage'[y] = "closing" => \A r \in Routes : ~Accepted(y, r)'
    BY DEF RequestsKept
  <2>1. CASE y = o
    BY <1>6, <2>1
  <2>2. CASE y # o
    BY <1>6, <2>2 DEF Reg, RequestsKept, Accepted
  <2> QED
    BY <2>1, <2>2
<1>20. OpenRegistered'
  <2> SUFFICES ASSUME NEW y \in Objects, stage'[y] = "open"
               PROVE  \/ \E i \in DOMAIN tasks' : tasks'[i].op = "connect" /\ tasks'[i].object = y
                      \/ Registers(fd[y]) = y
    BY DEF OpenRegistered
  <2>1. CASE y = o
    BY <1>2, <1>4, <2>1
  <2>2. CASE y # o
    BY <1>4, <1>6, <2>2 DEF Reg, OpenRegistered
  <2> QED
    BY <2>1, <2>2
<1> QED
  BY <1>10, <1>11, <1>12, <1>13, <1>14, <1>15, <1>16, <1>17, <1>18, <1>19, <1>20 DEF Reg
\* Where a task was before.
LEMMA Moved ==
    ASSUME LoopType, NEW d \in {0, 1}, NEW p, Follows(tasks', tasks, d, p)
    PROVE  /\ \A i \in DOMAIN tasks : i \in Nat \ {0}
           /\ \A i \in DOMAIN tasks' : i \in Nat \ {0}
           /\ \A i \in DOMAIN tasks' : \/ i + d \in DOMAIN tasks /\ tasks'[i] = tasks[i + d]
                                       \/ \E k \in DOMAIN p : tasks'[i] = p[k]
           /\ \A i \in DOMAIN tasks : i > d => i - d \in DOMAIN tasks' /\ tasks'[i - d] = tasks[i]
<1>1. tasks \in Seq(ServerTasks) /\ tasks' \in Seq(ServerTasks)
  BY DEF LoopType, Follows
<1>2. /\ \A i \in DOMAIN tasks : i \in Nat \ {0}
      /\ \A i \in DOMAIN tasks' : i \in Nat \ {0}
  BY <1>1
<1> QED
  BY <1>2 DEF Follows

\* A task runs that changes no registration, messages or writes are posted.
LEMMA RegTasks ==
    ASSUME ServerInv, Reg, NEW d \in {0, 1}, NEW p, Follows(tasks', tasks, d, p),
           d = 1 => /\ tasks[1].op # "disconnect"
                    /\ tasks[1].op = "connect" => ~Live(tasks[1].object),
           \A k \in DOMAIN p :
              /\ p[k].op \in {"message", "write"}
              /\ p[k].op = "write" /\ p[k].arg.route \in Routes =>
                    Registers(p[k].arg.fd) # NoOne /\ Accepted(Registers(p[k].arg.fd), p[k].arg.route),
           BatchLive',
           tasks' # <<>> => \A o \in Objects : NotYet(o) => NotYet(o)',
           UNCHANGED <<stage, fd, client, websocket_vars, asks>>
    PROVE  Reg'
<1> USE DEF websocket_vars, registry, Registers, Accepted, Live
<1>1. LoopType /\ RegistryType
  BY DEF ServerInv
<1>2. /\ \A i \in DOMAIN tasks : i \in Nat \ {0}
      /\ \A i \in DOMAIN tasks' : i \in Nat \ {0}
      /\ \A i \in DOMAIN tasks' : \/ i + d \in DOMAIN tasks /\ tasks'[i] = tasks[i + d]
                                  \/ \E k \in DOMAIN p : tasks'[i] = p[k]
      /\ \A i \in DOMAIN tasks : i > d => i - d \in DOMAIN tasks' /\ tasks'[i - d] = tasks[i]
  BY <1>1, Moved
<1>3. \A i \in DOMAIN tasks' : tasks'[i].op \in {"connect", "disconnect"} =>
          i + d \in DOMAIN tasks /\ tasks'[i] = tasks[i + d]
  BY <1>2
<1>4. \A i \in DOMAIN tasks : /\ tasks[i].op = "disconnect" => i > d
                              /\ tasks[i].op = "connect" /\ Live(tasks[i].object) => i > d
  BY <1>2
<1>5. DisconnectsFirst'
  <2> SUFFICES ASSUME NEW i \in DOMAIN tasks', tasks'[i].op = "disconnect", NEW o \in Objects, Live(o),
                      fd[o] = tasks'[i].arg
               PROVE  NotYet(o)'
    BY DEF DisconnectsFirst
  <2>1. i + d \in DOMAIN tasks /\ tasks'[i] = tasks[i + d]
    BY <1>3
  <2>2. NotYet(o)
    BY <2>1 DEF Reg, DisconnectsFirst
  <2>3. tasks' # <<>>
    OBVIOUS
  <2> QED
    BY <2>2, <2>3
<1>6. RouteSets' /\ RouteNames' /\ RequestsKept'
  BY DEF Reg, RouteSets, RouteNames, RequestsKept
<1>7. Registration'
  <2> SUFFICES ASSUME NEW n \in Fds, Registers(n) # NoOne
               PROVE  /\ fd[Registers(n)] = n
                      /\ stage[Registers(n)] \in {"open", "closing"} \/ Pending(Task("disconnect", Registers(n), n))'
    BY DEF Registration, Pending
  <2>1. /\ fd[Registers(n)] = n
        /\ stage[Registers(n)] \in {"open", "closing"} \/ Pending(Task("disconnect", Registers(n), n))
    BY DEF Reg, Registration
  <2>2. ASSUME NEW i \in DOMAIN tasks, tasks[i] = Task("disconnect", Registers(n), n)
        PROVE  Pending(Task("disconnect", Registers(n), n))'
    <3>1. tasks[i].op = "disconnect"
      BY <2>2, TaskFields
    <3> QED
      BY <1>2, <1>4, <2>2, <3>1 DEF Pending
  <2> QED
    BY <2>1, <2>2 DEF Pending
<1>8. ConnectsFresh' /\ ConnectsOnce'
  <2>1. ConnectsFresh'
    BY <1>3 DEF Reg, ConnectsFresh
  <2>2. ConnectsOnce'
    <3> SUFFICES ASSUME NEW i \in DOMAIN tasks', NEW j \in DOMAIN tasks', tasks'[i].op = "connect",
                        tasks'[j].op = "connect", tasks'[i].object = tasks'[j].object
                 PROVE  i = j
      BY DEF ConnectsOnce
    <3>1. i + d = j + d
      BY <1>3 DEF Reg, ConnectsOnce
    <3> QED
      BY <1>2, <3>1
  <2> QED
    BY <2>1, <2>2
<1>9. ConnectsThenDisconnects'
  <2> SUFFICES ASSUME NEW i \in DOMAIN tasks', tasks'[i].op = "connect", ~Live(tasks[i].object)'
               PROVE  \E j \in DOMAIN tasks' : /\ j > i /\ tasks'[j].op = "disconnect"
                                               /\ tasks'[j].arg = fd[tasks'[i].object]
    BY DEF ConnectsThenDisconnects
  <2>1. PICK i1 : i1 = i + d
    OBVIOUS
  <2>2. i1 \in DOMAIN tasks /\ tasks'[i] = tasks[i1] /\ ~Live(tasks[i1].object)
    BY <1>3, <2>1
  <2>3. PICK j \in DOMAIN tasks : j > i1 /\ tasks[j].op = "disconnect" /\ tasks[j].arg = fd[tasks[i1].object]
    BY <2>2 DEF Reg, ConnectsThenDisconnects
  <2>4. PICK k : k = j - d
    OBVIOUS
  <2>5. k \in DOMAIN tasks' /\ tasks'[k] = tasks[j] /\ k > i
    BY <1>2, <2>1, <2>2, <2>3, <2>4
  <2> QED
    BY <2>2, <2>3, <2>5
<1>10. OpenRegistered'
  <2> SUFFICES ASSUME NEW o \in Objects, stage[o] = "open"
               PROVE  \/ \E i \in DOMAIN tasks' : tasks'[i].op = "connect" /\ tasks'[i].object = o
                      \/ Registers(fd[o]) = o
    BY DEF OpenRegistered
  <2>1. ASSUME NEW i \in DOMAIN tasks, tasks[i].op = "connect", tasks[i].object = o
        PROVE  \E j \in DOMAIN tasks' : tasks'[j].op = "connect" /\ tasks'[j].object = o
    BY <1>2, <1>4, <2>1
  <2> QED
    BY <2>1 DEF Reg, OpenRegistered
<1>11. WritesMeant'
  <2> SUFFICES ASSUME NEW i \in DOMAIN tasks', tasks'[i].op = "write", tasks'[i].arg.route \in Routes
               PROVE  /\ \/ Registers(tasks'[i].arg.fd) = NoOne
                         \/ upgrade_request[Registers(tasks'[i].arg.fd)] = [route |-> tasks'[i].arg.route, valid |-> TRUE]
                      /\ \A j \in DOMAIN tasks' :
                            j < i /\ tasks'[j].op = "connect" => fd[tasks'[j].object] # tasks'[i].arg.fd
    BY DEF WritesMeant
  <2>1. CASE i + d \in DOMAIN tasks /\ tasks'[i] = tasks[i + d]
    <3>1. PICK i1 : i1 = i + d
      OBVIOUS
    <3>2. i1 \in DOMAIN tasks /\ tasks'[i] = tasks[i1]
      BY <2>1, <3>1
    <3>3. /\ \/ Registers(tasks[i1].arg.fd) = NoOne
             \/ Accepted(Registers(tasks[i1].arg.fd), tasks[i1].arg.route)
          /\ \A j \in DOMAIN tasks : j < i1 /\ tasks[j].op = "connect" => fd[tasks[j].object] # tasks[i1].arg.fd
      BY <3>2 DEF Reg, WritesMeant
    <3>4. ASSUME NEW j \in DOMAIN tasks', j < i, tasks'[j].op = "connect"
          PROVE  fd[tasks'[j].object] # tasks'[i].arg.fd
      <4>1. PICK j1 : j1 = j + d
        OBVIOUS
      <4>2. j1 \in DOMAIN tasks /\ tasks'[j] = tasks[j1] /\ j1 < i1
        BY <1>2, <1>3, <3>1, <3>4, <4>1
      <4> QED
        BY <3>2, <3>3, <3>4, <4>2
    <3> QED
      BY <3>2, <3>3, <3>4
  <2>2. CASE \E k \in DOMAIN p : tasks'[i] = p[k]
    <3>1. PICK k \in DOMAIN p : tasks'[i] = p[k]
      BY <2>2
    <3>2. Registers(tasks'[i].arg.fd) # NoOne
          /\ upgrade_request[Registers(tasks'[i].arg.fd)] = [route |-> tasks'[i].arg.route, valid |-> TRUE]
      BY <3>1
    <3>3. ASSUME NEW j \in DOMAIN tasks', tasks'[j].op = "connect"
          PROVE  fd[tasks'[j].object] # tasks'[i].arg.fd
      BY <1>3, <3>2, <3>3 DEF Reg, ConnectsFresh
    <3> QED
      BY <3>2, <3>3
  <2> QED
    BY <1>2, <2>1, <2>2
<1> QED
  BY <1>5, <1>6, <1>7, <1>8, <1>9, <1>10, <1>11 DEF Reg
\* A task that runs is the first; the others move up.
LEMMA MovedUp ==
    ASSUME LoopType, NEW op, RunsTask(op, <<>>)
    PROVE  /\ 1 \in DOMAIN tasks /\ tasks[1] = Head(tasks) /\ Head(tasks).op = op /\ TaskSays(Head(tasks))
           /\ \A i \in DOMAIN tasks : i \in Nat \ {0}
           /\ \A i \in DOMAIN tasks' : i \in Nat \ {0} /\ i + 1 \in DOMAIN tasks /\ tasks'[i] = tasks[i + 1]
           /\ \A i \in DOMAIN tasks : i > 1 => i - 1 \in DOMAIN tasks' /\ tasks'[i - 1] = tasks[i]
           /\ batch' = batch /\ (draining' <=> tasks' # <<>>) /\ draining
<1>1. <<>> \in Seq(ServerTasks)
  OBVIOUS
<1>2. /\ 1 \in DOMAIN tasks /\ tasks[1] = Head(tasks) /\ Head(tasks).op = op /\ TaskSays(Head(tasks))
      /\ Follows(tasks', tasks, 1, <<>>) /\ batch' = batch /\ (draining' <=> tasks' # <<>>)
  BY <1>1, Runs
<1>3. PICK d, p : d = 1 /\ p = <<>>
  OBVIOUS
<1>4. d \in {0, 1} /\ Follows(tasks', tasks, d, p) /\ \A k : k \notin DOMAIN p
  BY <1>2, <1>3
<1>5. /\ \A i \in DOMAIN tasks : i \in Nat \ {0}
      /\ \A i \in DOMAIN tasks' : i \in Nat \ {0}
      /\ \A i \in DOMAIN tasks' : \/ i + d \in DOMAIN tasks /\ tasks'[i] = tasks[i + d]
                                  \/ \E k \in DOMAIN p : tasks'[i] = p[k]
      /\ \A i \in DOMAIN tasks : i > d => i - d \in DOMAIN tasks' /\ tasks'[i - d] = tasks[i]
  BY <1>4, Moved
<1>6. draining
  BY DEF RunsTask
<1> QED
  BY <1>2, <1>3, <1>4, <1>5, <1>6

\* NotYet goes on while tasks are run.
LEMMA NotYetRuns ==
    ASSUME NEW o, NotYet(o), draining', UNCHANGED <<stage, batch>>
    PROVE  NotYet(o)'
BY DEF NotYet

\* on_connect of a connection that is still open: no registration is under its
\* descriptor, and nothing that is to run later means another connection.
LEMMA RegConnect ==
    ASSUME ServerInv, Reg, RunsTask("connect", <<>>), NEW o, o = Head(tasks).object, Live(o),
           NEW n, n = fd[o],
           m_websocket_connections_by_fd' = [m_websocket_connections_by_fd EXCEPT ![n] = o],
           m_websocket_routes_by_fd' = [m_websocket_routes_by_fd EXCEPT ![n] = upgrade_request[o].route],
           Registered(n, upgrade_request[o]),
           stage' = IF upgrade_request[o].route \in Routes /\ upgrade_request[o].valid
                    THEN stage ELSE [stage EXCEPT ![o] = "closing"],
           UNCHANGED <<fd, client, upgrade_request, asks>>
    PROVE  Reg'
<1> USE DEF Accepted
<1>1. PoolType /\ LoopType /\ RegistryType
  BY DEF ServerInv, PoolInv
<1>2. /\ 1 \in DOMAIN tasks /\ tasks[1] = Head(tasks) /\ Head(tasks).op = "connect" /\ TaskSays(Head(tasks))
      /\ \A i \in DOMAIN tasks : i \in Nat \ {0}
      /\ \A i \in DOMAIN tasks' : i \in Nat \ {0} /\ i + 1 \in DOMAIN tasks /\ tasks'[i] = tasks[i + 1]
      /\ \A i \in DOMAIN tasks : i > 1 => i - 1 \in DOMAIN tasks' /\ tasks'[i - 1] = tasks[i]
      /\ batch' = batch /\ (draining' <=> tasks' # <<>>) /\ draining
  BY <1>1, MovedUp
<1>3. o \in Objects /\ o # NoOne /\ stage[o] = "open" /\ n \in Fds /\ Registers(n) = NoOne
  <2>1. o \in Objects
    BY <1>2 DEF TaskSays
  <2>2. stage[o] \in {"open", "pooled"} /\ fd[o] \in Fds /\ Registers(fd[o]) = NoOne
    BY <1>2 DEF Reg, ConnectsFresh
  <2> QED
    BY <2>1, <2>2, FdsAssumption DEF Live
<1>4. /\ Registers(n)' = o
      /\ \A k \in Fds \ {n} : Registers(k)' = Registers(k) /\ m_websocket_routes_by_fd'[k] = m_websocket_routes_by_fd[k]
      /\ m_websocket_routes_by_fd'[n] = upgrade_request[o].route
  BY <1>1, <1>3 DEF Registers, RegistryType
<1>5. \A r \in Routes : m_connected_fds'[r] = IF Accepted(o, r) THEN m_connected_fds[r] \cup {n} ELSE m_connected_fds[r]
  <2>1. upgrade_request[o] \in Requests
    BY <1>1, <1>3 DEF RegistryType
  <2>2. \A r \in Routes : Accepted(o, r) <=> r = upgrade_request[o].route /\ upgrade_request[o].valid
    BY <2>1, Requested
  <2> QED
    BY <2>2 DEF Registered
<1>6. /\ stage'[o] \in {"open", "closing"}
      /\ stage'[o] = "closing" => \A r \in Routes : ~Accepted(o, r)
      /\ \A y \in Objects \ {o} : stage'[y] = stage[y]
      /\ \A y \in Objects : Live(y)' <=> Live(y)
  <2>1. stage' = stage \/ (stage' = [stage EXCEPT ![o] = "closing"]
                           /\ ~(upgrade_request[o].route \in Routes /\ upgrade_request[o].valid))
    OBVIOUS
  <2>2. upgrade_request[o] \in Requests
    BY <1>1, <1>3 DEF RegistryType
  <2>3. \A r \in Routes : Accepted(o, r) => upgrade_request[o].route \in Routes /\ upgrade_request[o].valid
    BY <2>2, Requested
  <2> QED
    BY <1>1, <1>3, <2>1, <2>3 DEF PoolType, Live
<1>7. \A i \in DOMAIN tasks : tasks[i].op = "disconnect" => tasks[i].arg # n
  <2> SUFFICES ASSUME NEW i \in DOMAIN tasks, tasks[i].op = "disconnect", tasks[i].arg = n PROVE FALSE
    OBVIOUS
  <2>1. NotYet(o)
    BY <1>3 DEF Reg, DisconnectsFirst
  <2> QED
    BY <1>3, <2>1 DEF NotYet
<1>8. ASSUME NEW i \in DOMAIN tasks, i > 1, tasks[i].op = "connect"
      PROVE  tasks[i].object \in Objects \ {o} /\ fd[tasks[i].object] \in Fds \ {n}
  <2>1. tasks[i].object \in Objects
    BY <1>1, <1>8, NamedObjects
  <2>2. tasks[i].object # o
    BY <1>2, <1>8 DEF Reg, ConnectsOnce
  <2>3. fd[tasks[i].object] \in Fds
    BY <1>8 DEF Reg, ConnectsFresh
  <2>4. CASE Live(tasks[i].object)
    BY <1>3, <2>1, <2>2, <2>3, <2>4 DEF ServerInv, PoolInv, PoolConserved
  <2>5. CASE ~Live(tasks[i].object)
    <3>1. PICK j \in DOMAIN tasks : tasks[j].op = "disconnect" /\ tasks[j].arg = fd[tasks[i].object]
      BY <1>8, <2>5 DEF Reg, ConnectsThenDisconnects
    <3> QED
      BY <1>7, <2>1, <2>2, <2>3, <3>1
  <2> QED
    BY <2>4, <2>5
<1>9. BatchLive'
  BY <1>2, <1>6 DEF Reg, BatchLive
<1>10. DisconnectsFirst'
  <2> SUFFICES ASSUME NEW i \in DOMAIN tasks', tasks'[i].op = "disconnect", NEW y \in Objects, Live(y),
                      fd[y] = tasks'[i].arg
               PROVE  NotYet(y)'
    BY <1>6 DEF DisconnectsFirst
  <2>1. i + 1 \in DOMAIN tasks /\ tasks'[i] = tasks[i + 1]
    BY <1>2
  <2>2. NotYet(y) /\ y # o
    BY <1>7, <2>1 DEF Reg, DisconnectsFirst
  <2>3. draining' /\ stage'[y] = stage[y]
    BY <1>2, <1>6, <2>2
  <2> QED
    BY <1>2, <2>2, <2>3 DEF NotYet
<1>11. Registration'
  <2> SUFFICES ASSUME NEW k \in Fds, Registers(k)' # NoOne
               PROVE  /\ fd[Registers(k)'] = k
                      /\ stage'[Registers(k)'] \in {"open", "closing"} \/ Pending(Task("disconnect", Registers(k), k))'
    BY DEF Registration, Pending
  <2>1. CASE k = n
    BY <1>4, <1>6, <2>1
  <2>2. CASE k # n
    <3>1. PICK y : y = Registers(k)
      OBVIOUS
    <3>2. y = Registers(k)' /\ y \in Objects /\ fd[y] = k
          /\ (stage[y] \in {"open", "closing"} \/ Pending(Task("disconnect", y, k)))
      BY <1>1, <1>4, <2>2, <3>1 DEF Reg, Registration, RegistryType, Registers
    <3>3. stage'[y] = stage[y]
      BY <1>6, <2>2, <3>2
    <3>4. Pending(Task("disconnect", y, k)) => Pending(Task("disconnect", y, k))'
      <4> SUFFICES ASSUME NEW i \in DOMAIN tasks, tasks[i] = Task("disconnect", y, k)
                   PROVE  \E j \in DOMAIN tasks' : tasks'[j] = Task("disconnect", y, k)
        BY DEF Pending, Task
      <4>1. tasks[i].op = "disconnect"
        BY TaskFields
      <4>2. i > 1
        BY <1>2, <4>1
      <4> QED
        BY <1>2, <4>2
    <3>5. Pending(Task("disconnect", y, k))' => Pending(Task("disconnect", Registers(k), k))'
      BY <3>2 DEF Pending, Task
    <3> QED
      BY <3>2, <3>3, <3>4, <3>5
  <2> QED
    BY <2>1, <2>2
<1>12. RouteSets'
  <2> SUFFICES ASSUME NEW k \in Fds, NEW r \in Routes
               PROVE  k \in m_connected_fds'[r] <=> Registers(k)' # NoOne /\ Accepted(Registers(k), r)'
    BY DEF RouteSets
  <2>1. k \in m_connected_fds[r] <=> Registers(k) # NoOne /\ Accepted(Registers(k), r)
    BY DEF Reg, RouteSets
  <2>2. CASE k = n
    <3>1. Accepted(Registers(k), r)' <=> Accepted(o, r)
      BY <1>4, <2>2
    <3> QED
      BY <1>3, <1>4, <1>5, <2>1, <2>2, <3>1
  <2>3. CASE k # n
    <3>1. Accepted(Registers(k), r)' <=> Accepted(Registers(k), r)
      BY <1>4, <2>3
    <3> QED
      BY <1>4, <1>5, <2>1, <2>3, <3>1
  <2> QED
    BY <2>2, <2>3
<1>13. RouteNames'
  BY <1>4 DEF Reg, RouteNames
<1>14. ConnectsFresh'
  <2> SUFFICES ASSUME NEW i \in DOMAIN tasks', tasks'[i].op = "connect"
               PROVE  /\ stage'[tasks'[i].object] \in {"open", "pooled"}
                      /\ fd[tasks'[i].object] \in Fds
                      /\ Registers(fd[tasks[i].object])' = NoOne
    BY DEF ConnectsFresh
  <2>1. PICK i1 : i1 = i + 1
    OBVIOUS
  <2>2. i1 \in DOMAIN tasks /\ i1 > 1 /\ tasks'[i] = tasks[i1]
    BY <1>2, <2>1
  <2>3. tasks[i1].object \in Objects \ {o} /\ fd[tasks[i1].object] \in Fds \ {n}
    BY <1>8, <2>2
  <2>4. stage[tasks[i1].object] \in {"open", "pooled"} /\ Registers(fd[tasks[i1].object]) = NoOne
    BY <2>2 DEF Reg, ConnectsFresh
  <2>5. PICK k : k = fd[tasks[i1].object]
    OBVIOUS
  <2>6. Registers(k)' = NoOne /\ fd'[tasks'[i].object] = k
    BY <1>4, <2>2, <2>3, <2>4, <2>5
  <2>7. Registers(fd[tasks[i].object])' = NoOne
    BY <2>6 DEF Registers
  <2> QED
    BY <1>6, <2>2, <2>3, <2>4, <2>7
<1>15. ConnectsOnce'
  <2> SUFFICES ASSUME NEW i \in DOMAIN tasks', NEW j \in DOMAIN tasks', tasks'[i].op = "connect",
                      tasks'[j].op = "connect", tasks'[i].object = tasks'[j].object
               PROVE  i = j
    BY DEF ConnectsOnce
  <2>1. i + 1 = j + 1
    BY <1>2 DEF Reg, ConnectsOnce
  <2> QED
    BY <1>2, <2>1
<1>16. ConnectsThenDisconnects'
  <2> SUFFICES ASSUME NEW i \in DOMAIN tasks', tasks'[i].op = "connect", ~Live(tasks[i].object)'
               PROVE  \E j \in DOMAIN tasks' : /\ j > i /\ tasks'[j].op = "disconnect"
                                               /\ tasks'[j].arg = fd[tasks'[i].object]
    BY DEF ConnectsThenDisconnects
  <2>1. PICK i1 : i1 = i + 1
    OBVIOUS
  <2>2. i1 \in DOMAIN tasks /\ i1 > 1 /\ i \in Nat /\ tasks'[i] = tasks[i1]
    BY <1>2, <2>1
  <2>3. tasks[i1].object \in Objects /\ ~Live(tasks[i1].object)
    BY <1>6, <1>8, <2>2 DEF Live
  <2>4. PICK j \in DOMAIN tasks : j > i1 /\ tasks[j].op = "disconnect" /\ tasks[j].arg = fd[tasks[i1].object]
    BY <2>2, <2>3 DEF Reg, ConnectsThenDisconnects
  <2>5. PICK k : k = j - 1
    OBVIOUS
  <2>6. k \in DOMAIN tasks' /\ tasks'[k] = tasks[j] /\ k > i
    BY <1>2, <2>1, <2>2, <2>4, <2>5
  <2> QED
    BY <2>2, <2>4, <2>6
<1>17. WritesMeant'
  <2> SUFFICES ASSUME NEW i \in DOMAIN tasks', tasks'[i].op = "write", tasks'[i].arg.route \in Routes
               PROVE  /\ \/ Registers(tasks[i].arg.fd)' = NoOne
                         \/ Accepted(Registers(tasks[i].arg.fd), tasks[i].arg.route)'
                      /\ \A j \in DOMAIN tasks' :
                            j < i /\ tasks'[j].op = "connect" => fd[tasks'[j].object] # tasks'[i].arg.fd
    BY DEF WritesMeant
  <2>1. PICK i1 : i1 = i + 1
    OBVIOUS
  <2>2. i1 \in DOMAIN tasks /\ i1 > 1 /\ i \in Nat /\ tasks'[i] = tasks[i1]
    BY <1>2, <2>1
  <2>3. /\ \/ Registers(tasks[i1].arg.fd) = NoOne
           \/ Accepted(Registers(tasks[i1].arg.fd), tasks[i1].arg.route)
        /\ \A j \in DOMAIN tasks : j < i1 /\ tasks[j].op = "connect" => fd[tasks[j].object] # tasks[i1].arg.fd
    BY <2>2 DEF Reg, WritesMeant
  <2>4. PICK k, r : k = tasks[i1].arg.fd /\ r = tasks[i1].arg.route
    OBVIOUS
  <2>5. k \in Fds /\ k # n
    <3>1. k \in Fds
      BY <1>1, <2>2, <2>4, NamedObjects DEF TaskSays
    <3>2. fd[tasks[1].object] # k
      BY <1>2, <2>2, <2>3, <2>4
    <3> QED
      BY <1>2, <3>1, <3>2
  <2>6. /\ Registers(k)' = Registers(k) /\ tasks'[i].arg.fd = k /\ tasks'[i].arg.route = r
        /\ Registers(k) = NoOne \/ upgrade_request[Registers(k)] = [route |-> r, valid |-> TRUE]
    BY <1>4, <2>2, <2>3, <2>4, <2>5
  <2>7. \/ Registers(tasks[i].arg.fd)' = NoOne
        \/ Accepted(Registers(tasks[i].arg.fd), tasks[i].arg.route)'
    BY <2>6 DEF Registers
  <2>8. ASSUME NEW j \in DOMAIN tasks', j < i, tasks'[j].op = "connect"
        PROVE  fd[tasks'[j].object] # tasks'[i].arg.fd
    <3>1. PICK j1 : j1 = j + 1
      OBVIOUS
    <3>2. j1 \in DOMAIN tasks /\ tasks'[j] = tasks[j1] /\ j1 < i1
      BY <1>2, <2>1, <2>8, <3>1
    <3> QED
      BY <2>2, <2>3, <2>8, <3>2
  <2> QED
    BY <2>7, <2>8
<1>18. RequestsKept'
  <2> SUFFICES ASSUME NEW y \in Objects, stage'[y] \in {"open", "closing"}
               PROVE  /\ upgrade_request[y] = asks[client[y]]
                      /\ stage'[y] = "closing" => \A r \in Routes : ~Accepted(y, r)
    BY DEF RequestsKept
  <2>1. CASE y = o
    BY <1>3, <1>6, <2>1 DEF Reg, RequestsKept
  <2>2. CASE y # o
    BY <1>6, <2>2 DEF Reg, RequestsKept
  <2> QED
    BY <2>1, <2>2
<1>19. OpenRegistered'
  <2> SUFFICES ASSUME NEW y \in Objects, stage'[y] = "open"
               PROVE  \/ \E i \in DOMAIN tasks' : tasks'[i].op = "connect" /\ tasks'[i].object = y
                      \/ Registers(fd[y])' = y
    BY DEF OpenRegistered, Registers
  <2>1. CASE y = o
    BY <1>4, <2>1 DEF Registers
  <2>2. CASE y # o
    <3>1. stage[y] = "open" /\ Live(y) /\ fd[y] \in Fds \ {n}
      BY <1>3, <1>6, <2>2 DEF Live, ServerInv, PoolInv, PoolConserved, LiveFacts
    <3>2. CASE Registers(fd[y]) = y
      <4>1. PICK k : k = fd[y]
        OBVIOUS
      <4>2. Registers(k)' = y
        BY <1>4, <3>1, <3>2, <4>1
      <4> QED
        BY <4>1, <4>2 DEF Registers
    <3>3. CASE \E i \in DOMAIN tasks : tasks[i].op = "connect" /\ tasks[i].object = y
      <4>1. PICK i \in DOMAIN tasks : tasks[i].op = "connect" /\ tasks[i].object = y
        BY <3>3
      <4>2. i > 1
        BY <1>2, <2>2, <4>1
      <4> QED
        BY <1>2, <4>1, <4>2
    <3> QED
      BY <3>1, <3>2, <3>3 DEF Reg, OpenRegistered
  <2> QED
    BY <2>1, <2>2
<1> QED
  BY <1>9, <1>10, <1>11, <1>12, <1>13, <1>14, <1>15, <1>16, <1>17, <1>18, <1>19 DEF Reg
\* on_disconnect: what is registered under the descriptor goes, and it is not a
\* connection that is open.
LEMMA RegDisconnect ==
    ASSUME ServerInv, Reg, RunsTask("disconnect", <<>>), NEW n, n = Head(tasks).arg,
           m_websocket_connections_by_fd' = [m_websocket_connections_by_fd EXCEPT ![n] = NoOne],
           m_websocket_routes_by_fd' = [m_websocket_routes_by_fd EXCEPT ![n] = NoOne],
           Unregistered(n),
           UNCHANGED <<stage, fd, client, upgrade_request, asks>>
    PROVE  Reg'
<1> USE DEF Accepted, Live
<1>1. PoolType /\ LoopType /\ RegistryType
  BY DEF ServerInv, PoolInv
<1>2. /\ 1 \in DOMAIN tasks /\ tasks[1] = Head(tasks) /\ Head(tasks).op = "disconnect" /\ TaskSays(Head(tasks))
      /\ \A i \in DOMAIN tasks : i \in Nat \ {0}
      /\ \A i \in DOMAIN tasks' : i \in Nat \ {0} /\ i + 1 \in DOMAIN tasks /\ tasks'[i] = tasks[i + 1]
      /\ \A i \in DOMAIN tasks : i > 1 => i - 1 \in DOMAIN tasks' /\ tasks'[i - 1] = tasks[i]
      /\ batch' = batch /\ (draining' <=> tasks' # <<>>) /\ draining
  BY <1>1, MovedUp
<1>3. n \in Fds
  BY <1>2 DEF TaskSays
<1>4. /\ Registers(n)' = NoOne
      /\ \A k \in Fds \ {n} : Registers(k)' = Registers(k) /\ m_websocket_routes_by_fd'[k] = m_websocket_routes_by_fd[k]
  BY <1>1, <1>3 DEF Registers, RegistryType
<1>5. ASSUME NEW r \in Routes PROVE m_connected_fds'[r] = m_connected_fds[r] \ {n}
  <2>1. m_connected_fds'[r] = IF r = m_websocket_routes_by_fd[n] THEN m_connected_fds[r] \ {n} ELSE m_connected_fds[r]
    BY DEF Unregistered
  <2>2. ASSUME n \in m_connected_fds[r] PROVE r = m_websocket_routes_by_fd[n]
    <3>1. PICK p : p = Registers(n)
      OBVIOUS
    <3>2. p # NoOne /\ upgrade_request[p] = [route |-> r, valid |-> TRUE]
      BY <1>3, <2>2, <3>1 DEF Reg, RouteSets
    <3>3. m_websocket_routes_by_fd[n] = upgrade_request[p].route
      BY <1>3, <3>1, <3>2 DEF Reg, RouteNames
    <3> QED
      BY <3>2, <3>3
  <2>3. m_connected_fds[r] \in SUBSET Fds
    BY <1>1 DEF RegistryType
  <2> QED
    BY <2>1, <2>2, <2>3
<1>6. \A o \in Objects : Live(o) /\ fd[o] = n => stage[o] # "open"
  BY <1>2 DEF Reg, DisconnectsFirst, NotYet
<1>7. BatchLive'
  BY <1>2 DEF Reg, BatchLive
<1>8. DisconnectsFirst'
  <2> SUFFICES ASSUME NEW i \in DOMAIN tasks', tasks'[i].op = "disconnect", NEW y \in Objects, Live(y),
                      fd[y] = tasks'[i].arg
               PROVE  NotYet(y)'
    BY DEF DisconnectsFirst
  <2>1. i + 1 \in DOMAIN tasks /\ tasks'[i] = tasks[i + 1]
    BY <1>2
  <2>2. NotYet(y)
    BY <2>1 DEF Reg, DisconnectsFirst
  <2>3. draining'
    BY <1>2
  <2> QED
    BY <1>2, <2>2, <2>3, NotYetRuns
<1>9. Registration'
  <2> SUFFICES ASSUME NEW k \in Fds, Registers(k)' # NoOne
               PROVE  /\ fd[Registers(k)'] = k
                      /\ stage[Registers(k)'] \in {"open", "closing"} \/ Pending(Task("disconnect", Registers(k), k))'
    BY DEF Registration, Pending
  <2>1. k # n
    BY <1>4
  <2>2. PICK y : y = Registers(k)
    OBVIOUS
  <2>3. y = Registers(k)' /\ fd[y] = k
        /\ (stage[y] \in {"open", "closing"} \/ Pending(Task("disconnect", y, k)))
    BY <1>4, <2>1, <2>2 DEF Reg, Registration
  <2>4. Pending(Task("disconnect", y, k)) => Pending(Task("disconnect", y, k))'
    <3> SUFFICES ASSUME NEW i \in DOMAIN tasks, tasks[i] = Task("disconnect", y, k)
                 PROVE  \E j \in DOMAIN tasks' : tasks'[j] = Task("disconnect", y, k)
      BY DEF Pending, Task
    <3>1. tasks[i].arg = k
      BY TaskFields
    <3>2. i > 1
      BY <1>2, <2>1, <3>1
    <3> QED
      BY <1>2, <3>2
  <2>5. Pending(Task("disconnect", y, k))' => Pending(Task("disconnect", Registers(k), k))'
    BY <2>3 DEF Pending, Task
  <2> QED
    BY <2>3, <2>4, <2>5
<1>10. RouteSets'
  <2> SUFFICES ASSUME NEW k \in Fds, NEW r \in Routes
               PROVE  k \in m_connected_fds'[r] <=> Registers(k)' # NoOne /\ Accepted(Registers(k), r)'
    BY DEF RouteSets
  <2>1. k \in m_connected_fds[r] <=> Registers(k) # NoOne /\ Accepted(Registers(k), r)
    BY DEF Reg, RouteSets
  <2>2. CASE k = n
    BY <1>4, <1>5, <2>2
  <2>3. CASE k # n
    <3>1. Accepted(Registers(k), r)' <=> Accepted(Registers(k), r)
      BY <1>4, <2>3
    <3> QED
      BY <1>4, <1>5, <2>1, <2>3, <3>1
  <2> QED
    BY <2>2, <2>3
<1>11. RouteNames'
  BY <1>4 DEF Reg, RouteNames
<1>12. \A k \in Fds : Registers(k) = NoOne => Registers(k)' = NoOne
  BY <1>4
<1>13. ConnectsFresh'
  <2> SUFFICES ASSUME NEW i \in DOMAIN tasks', tasks'[i].op = "connect"
               PROVE  /\ stage[tasks'[i].object] \in {"open", "pooled"}
                      /\ fd[tasks'[i].object] \in Fds
                      /\ Registers(fd[tasks[i].object])' = NoOne
    BY DEF ConnectsFresh
  <2>1. PICK k : k = fd[tasks'[i].object]
    OBVIOUS
  <2>2. stage[tasks'[i].object] \in {"open", "pooled"} /\ k \in Fds /\ Registers(k) = NoOne
    BY <1>2, <2>1 DEF Reg, ConnectsFresh
  <2>3. Registers(k)' = NoOne
    BY <1>12, <2>2
  <2>4. Registers(fd[tasks[i].object])' = NoOne
    BY <2>1, <2>3 DEF Registers
  <2> QED
    BY <2>1, <2>2, <2>4
<1>14. ConnectsOnce'
  <2> SUFFICES ASSUME NEW i \in DOMAIN tasks', NEW j \in DOMAIN tasks', tasks'[i].op = "connect",
                      tasks'[j].op = "connect", tasks'[i].object = tasks'[j].object
               PROVE  i = j
    BY DEF ConnectsOnce
  <2>1. i + 1 = j + 1
    BY <1>2 DEF Reg, ConnectsOnce
  <2> QED
    BY <1>2, <2>1
<1>15. ConnectsThenDisconnects'
  <2> SUFFICES ASSUME NEW i \in DOMAIN tasks', tasks'[i].op = "connect", ~Live(tasks[i].object)'
               PROVE  \E j \in DOMAIN tasks' : /\ j > i /\ tasks'[j].op = "disconnect"
                                               /\ tasks'[j].arg = fd[tasks'[i].object]
    BY DEF ConnectsThenDisconnects
  <2>1. PICK i1 : i1 = i + 1
    OBVIOUS
  <2>2. i1 \in DOMAIN tasks /\ i1 > 1 /\ i \in Nat /\ tasks'[i] = tasks[i1]
    BY <1>2, <2>1
  <2>3. ~Live(tasks[i1].object)
    BY <2>2
  <2>4. PICK j \in DOMAIN tasks : j > i1 /\ tasks[j].op = "disconnect" /\ tasks[j].arg = fd[tasks[i1].object]
    BY <2>2, <2>3 DEF Reg, ConnectsThenDisconnects
  <2>5. PICK k : k = j - 1
    OBVIOUS
  <2>6. k \in DOMAIN tasks' /\ tasks'[k] = tasks[j] /\ k > i
    BY <1>2, <2>1, <2>2, <2>4, <2>5
  <2> QED
    BY <2>2, <2>4, <2>6
<1>16. WritesMeant'
  <2> SUFFICES ASSUME NEW i \in DOMAIN tasks', tasks'[i].op = "write", tasks'[i].arg.route \in Routes
               PROVE  /\ \/ Registers(tasks[i].arg.fd)' = NoOne
                         \/ Accepted(Registers(tasks[i].arg.fd), tasks[i].arg.route)'
                      /\ \A j \in DOMAIN tasks' :
                            j < i /\ tasks'[j].op = "connect" => fd[tasks'[j].object] # tasks'[i].arg.fd
    BY DEF WritesMeant
  <2>1. PICK i1 : i1 = i + 1
    OBVIOUS
  <2>2. i1 \in DOMAIN tasks /\ i1 > 1 /\ i \in Nat /\ tasks'[i] = tasks[i1]
    BY <1>2, <2>1
  <2>3. /\ \/ Registers(tasks[i1].arg.fd) = NoOne
           \/ Accepted(Registers(tasks[i1].arg.fd), tasks[i1].arg.route)
        /\ \A j \in DOMAIN tasks : j < i1 /\ tasks[j].op = "connect" => fd[tasks[j].object] # tasks[i1].arg.fd
    BY <2>2 DEF Reg, WritesMeant
  <2>4. PICK k, r : k = tasks[i1].arg.fd /\ r = tasks[i1].arg.route
    OBVIOUS
  <2>5. k \in Fds
    BY <1>1, <2>2, <2>4, NamedObjects DEF TaskSays
  <2>6. /\ Registers(k)' = NoOne \/ Registers(k)' = Registers(k)
        /\ tasks'[i].arg.fd = k /\ tasks'[i].arg.route = r
        /\ Registers(k) = NoOne \/ upgrade_request[Registers(k)] = [route |-> r, valid |-> TRUE]
    BY <1>4, <2>2, <2>3, <2>4, <2>5
  <2>7. \/ Registers(tasks[i].arg.fd)' = NoOne
        \/ Accepted(Registers(tasks[i].arg.fd), tasks[i].arg.route)'
    BY <2>6 DEF Registers
  <2>8. ASSUME NEW j \in DOMAIN tasks', j < i, tasks'[j].op = "connect"
        PROVE  fd[tasks'[j].object] # tasks'[i].arg.fd
    <3>1. PICK j1 : j1 = j + 1
      OBVIOUS
    <3>2. j1 \in DOMAIN tasks /\ tasks'[j] = tasks[j1] /\ j1 < i1
      BY <1>2, <2>1, <2>8, <3>1
    <3> QED
      BY <2>2, <2>3, <2>8, <3>2
  <2> QED
    BY <2>7, <2>8
<1>17. RequestsKept'
  BY DEF Reg, RequestsKept
<1>18. OpenRegistered'
  <2> SUFFICES ASSUME NEW y \in Objects, stage[y] = "open"
               PROVE  \/ \E i \in DOMAIN tasks' : tasks'[i].op = "connect" /\ tasks'[i].object = y
                      \/ Registers(fd[y])' = y
    BY DEF OpenRegistered, Registers
  <2>1. CASE Registers(fd[y]) = y
    <3>1. PICK k : k = fd[y]
      OBVIOUS
    <3>2. k # n /\ k \in Fds
      BY <1>6, <3>1 DEF ServerInv, PoolInv, LiveFacts
    <3>3. Registers(k)' = y
      BY <1>4, <2>1, <3>1, <3>2
    <3> QED
      BY <3>1, <3>3 DEF Registers
  <2>2. CASE \E i \in DOMAIN tasks : tasks[i].op = "connect" /\ tasks[i].object = y
    <3>1. PICK i \in DOMAIN tasks : tasks[i].op = "connect" /\ tasks[i].object = y
      BY <2>2
    <3>2. i > 1
      BY <1>2, <3>1
    <3> QED
      BY <1>2, <3>1, <3>2
  <2> QED
    BY <2>1, <2>2 DEF Reg, OpenRegistered
<1> QED
  BY <1>7, <1>8, <1>9, <1>10, <1>11, <1>13, <1>14, <1>15, <1>16, <1>17, <1>18 DEF Reg
\* A connection is closed by the websocket server.
LEMMA WsReleaseStep ==
    ASSUME ServerInv, RegistryInv, kind = "websocket", NEW o \in Objects, Event(o), Live(o),
           WsRelease(o, tasks),
           UNCHANGED <<kind, asks, handling, websocket_vars, backlog, received, served, recycled>>
    PROVE  ServerInv' /\ RegistryInv'
<1>1. /\ PoolInv' /\ NoneAccepted
      /\ Task("disconnect", o, fd[o]) \in ServerTasks
      /\ tasks' = Append(tasks, Task("disconnect", o, fd[o]))
  BY WsReleased
<1>2. PICK x : x = Task("disconnect", o, fd[o])
  OBVIOUS
<1>3. x \in ServerTasks /\ x.op \notin HttpOps /\ tasks' = Append(tasks, x)
  BY <1>1, <1>2, TaskFields DEF HttpOps
<1>4. draining' = draining /\ recycled \in BOOLEAN
  BY DEF Event, ServerInv, LoopType
<1>5. RegistryType'
  BY RegistryKept DEF ServerInv
<1>6. ServerInv'
  BY <1>1, <1>3, <1>4, <1>5, PostingStep
<1>7. RegistryInv'
  BY RegRelease DEF RegistryInv
<1> QED
  BY <1>6, <1>7

LEMMA UpgradeStep ==
    ASSUME ServerInv, RegistryInv, kind = "websocket", NEW o \in Objects, HandleUpgrade(o),
           UNCHANGED <<kind, asks, https_vars>>
    PROVE  ServerInv' /\ RegistryInv'
<1>1. /\ Event(o) /\ stage[o] = "ready" /\ Live(o)
      /\ UNCHANGED <<backlog, received, served, recycled, registry, handling>>
  BY DEF HandleUpgrade, Reads, https_vars
<1>2. CASE Unit(o) = "upgrade"
  <2>1. /\ stage' = [stage EXCEPT ![o] = "open"]
        /\ upgrade_request' = [upgrade_request EXCEPT ![o] = asks[client[o]]]
        /\ tasks' = Append(tasks, Task("connect", o, 0))
        /\ UNCHANGED <<available, fd, client, away>>
    BY <1>2 DEF HandleUpgrade
  <2>2. PoolInv'
    BY <1>1, <2>1, PoolRestaged DEF ServerInv, LiveStages
  <2>3. NoneAccepted
    BY <1>1, <2>1 DEF NoneAccepted, Waiting, Live, ServerInv, PoolInv, PoolType
  <2>4. RegistryType'
    <3>1. client[o] \in Clients
      BY <1>1 DEF ServerInv, PoolInv, LiveFacts
    <3>2. RegistryType /\ asks[client[o]] \in Requests
      BY <3>1 DEF ServerInv, RegistryType
    <3> QED
      BY <1>1, <2>1, <3>2 DEF RegistryType, registry
  <2>5. PICK x : x = Task("connect", o, 0)
    OBVIOUS
  <2>6. x \in ServerTasks /\ x.op \notin HttpOps /\ tasks' = Append(tasks, x)
    BY <2>1, <2>5, TaskIs, TaskFields DEF HttpOps
  <2>7. draining' = draining /\ recycled \in BOOLEAN
    BY <1>1 DEF Event, ServerInv, LoopType
  <2>8. ServerInv'
    BY <1>1, <2>2, <2>3, <2>4, <2>6, <2>7, PostingStep
  <2>9. RegistryInv'
    BY <1>1, <2>1, RegUpgrade DEF RegistryInv
  <2> QED
    BY <2>8, <2>9
<1>3. CASE Unit(o) # "upgrade"
  <2>1. WsRelease(o, tasks) /\ UNCHANGED websocket_vars
    BY <1>1, <1>3 DEF HandleUpgrade, websocket_vars
  <2> QED
    BY <1>1, <2>1, WsReleaseStep
<1> QED
  BY <1>2, <1>3

\* A text becomes a task.
LEMMA TextStep ==
    ASSUME ServerInv, RegistryInv, kind = "websocket", NEW o \in Objects, Event(o),
           tasks' = Append(tasks, Task("message", o, 0)),
           UNCHANGED <<kind, asks, handling, pool, websocket_vars, backlog, received, served, recycled>>
    PROVE  ServerInv' /\ RegistryInv'
<1>1. UNCHANGED <<available, fd, client, stage, away>> /\ LoopType /\ recycled \in BOOLEAN
  BY DEF pool, ServerInv, LoopType
<1>2. PoolInv' /\ NoneAccepted
  BY <1>1, PoolKept, NoneAcceptedSame DEF ServerInv, PoolInv, PoolType
<1>3. PICK x, d, p : x = Task("message", o, 0) /\ d = 0 /\ p = <<x>>
  OBVIOUS
<1>4. x \in ServerTasks /\ x.op = "message" /\ x.op \notin HttpOps /\ tasks' = Append(tasks, x)
  BY <1>3, TaskIs, TaskFields DEF HttpOps
<1>5. batch' = batch \ {o} /\ draining' = draining /\ o # TaskFd
  BY FdsAssumption DEF Event
<1>6. RegistryType'
  BY RegistryKept DEF ServerInv
<1>7. ServerInv'
  BY <1>1, <1>2, <1>4, <1>5, <1>6, PostingStep
<1>8. ASSUME Reg PROVE Reg'
  <2>1. d \in {0, 1} /\ d # 1 /\ Follows(tasks', tasks, d, p)
    BY <1>1, <1>3, <1>4, Posts
  <2>2. \A k \in DOMAIN p : p[k].op = "message"
    BY <1>3, <1>4
  <2>3. BatchLive'
    BY <1>1, <1>5, <1>8 DEF Reg, BatchLive, Live
  <2>4. \A y \in Objects : NotYet(y) => NotYet(y)'
    BY <1>1, <1>5, EventKeeps
  <2> QED
    BY <1>1, <1>8, <2>1, <2>2, <2>3, <2>4, RegTasks
<1> QED
  BY <1>7, <1>8 DEF RegistryInv

LEMMA PingStep ==
    ASSUME ServerInv, RegistryInv, kind = "websocket", NEW o \in Objects, Event(o), Live(o),
           Gets(client[o], [to |-> client[o], status |-> "pong"]) \/ UNCHANGED received,
           UNCHANGED <<kind, asks, handling, pool, websocket_vars, backlog, served, tasks, recycled>>
    PROVE  ServerInv' /\ RegistryInv'
<1>1. UNCHANGED <<available, fd, client, stage, away, draining>> /\ LoopType
  BY DEF pool, ServerInv, Event
<1>2. PoolInv' /\ NoneAccepted
  BY <1>1, PoolKept, NoneAcceptedSame DEF ServerInv, PoolInv, PoolType
<1>3. o # TaskFd
  BY FdsAssumption
<1>4. RegistryInv'
  BY <1>1, <1>3, RegEvent DEF RegistryInv
<1>5. PICK c, what : c = client[o] /\ what = [to |-> c, status |-> "pong"]
  OBVIOUS
<1>6. c \in Clients /\ what.to = c /\ what.status \notin Routes
  BY <1>5, RoutesAssumption DEF ServerInv, PoolInv, LiveFacts
<1>7. /\ received' = [b \in Clients |-> received'[b]]
      /\ \A b \in Clients : \A x \in received'[b] : x \in received[b] \/ (x = what /\ b = c)
  <2>1. CASE Gets(c, what)
    BY <1>1, <1>6, <2>1, GetsIs
  <2>2. CASE UNCHANGED received
    BY <1>1, <2>2 DEF LoopType
  <2> QED
    BY <1>5, <2>1, <2>2
<1>8. LoopType'
  BY <1>1, <1>7 DEF LoopType
<1>9. \A b \in Clients : \A x \in received'[b] : x \in received[b] \/ Delivered(b, x)
  BY <1>6, <1>7 DEF Delivered, Reached
<1>10. PICK q, p : q = tasks /\ p = <<>>
  OBVIOUS
<1>11. q \in Seq(ServerTasks) /\ p \in Seq(ServerTasks) /\ q \o p = q /\ DOMAIN p = {}
  BY <1>1, <1>10 DEF LoopType
<1>12. Follows(tasks', tasks, 0, p)
  <2>1. Follows(q, q, 0, p)
    BY <1>11, ConcatFollows
  <2> QED
    BY <1>10, <2>1
<1>13. OwnInv'
  <2>1. handling' \subseteq [object : Objects, client : Clients]
    BY <1>8 DEF LoopType
  <2>2. \A k \in DOMAIN p : TaskOwn(p[k])'
    BY <1>11
  <2> QED
    BY <1>1, <1>2, <1>9, <1>12, <2>1, <2>2, OwnKept DEF ServerInv
<1> QED
  BY <1>2, <1>4, <1>8, <1>13, RegistryKept DEF ServerInv

LEMMA FrameStep ==
    ASSUME ServerInv, RegistryInv, kind = "websocket", NEW o \in Objects, HandleFrame(o),
           UNCHANGED <<kind, asks, https_vars>>
    PROVE  ServerInv' /\ RegistryInv'
<1>1. Event(o) /\ Live(o) /\ UNCHANGED <<handling, backlog, served, websocket_vars, recycled>>
  BY DEF HandleFrame, Reads, https_vars
<1>2. CASE tasks' = Append(tasks, Task("message", o, 0)) /\ UNCHANGED <<pool, received>>
  BY <1>1, <1>2, TextStep
<1>3. CASE /\ Gets(client[o], [to |-> client[o], status |-> "pong"]) \/ UNCHANGED received
           /\ UNCHANGED <<pool, tasks>>
  BY <1>1, <1>3, PingStep
<1>4. CASE WsRelease(o, tasks) /\ UNCHANGED received
  BY <1>1, <1>4, WsReleaseStep
<1> QED
  BY <1>2, <1>3, <1>4 DEF HandleFrame
\* A task of the websocket server runs.
LEMMA RunStep ==
    ASSUME ServerInv, PoolInv', NoneAccepted, RegistryType', NEW op, NEW p \in Seq(ServerTasks),
           \A k \in DOMAIN p : p[k].op \notin HttpOps, RunsTask(op, p),
           UNCHANGED <<recycled, asks, handling>>,
           received' = [b \in Clients |-> received'[b]],
           \A b \in Clients : \A x \in received'[b] : x \in received[b] \/ Delivered(b, x)
    PROVE  ServerInv'
<1>1. LoopType
  BY DEF ServerInv
<1>2. Follows(tasks', tasks, 1, p) /\ draining' \in BOOLEAN /\ (draining' <=> tasks' # <<>>)
  BY <1>1, Runs
<1>3. LoopType'
  BY <1>1, <1>2 DEF LoopType, Follows
<1>4. \A k \in DOMAIN p : TaskOwn(p[k])'
  BY DEF TaskOwn
<1>5. handling' \subseteq [object : Objects, client : Clients]
  BY <1>3 DEF LoopType
<1>6. OwnInv'
  BY <1>1, <1>2, <1>4, <1>5, OwnKept DEF ServerInv
<1> QED
  BY <1>3, <1>6 DEF ServerInv

LEMMA ConnectStep ==
    ASSUME ServerInv, RegistryInv, kind = "websocket", RunConnect, UNCHANGED <<kind, asks, https_vars>>
    PROVE  ServerInv' /\ RegistryInv'
<1>1. /\ RunsTask("connect", <<>>)
      /\ UNCHANGED <<available, fd, client, away, backlog, received, served, upgrade_request, recycled, handling>>
  BY DEF RunConnect, clients, https_vars
<1>2. PICK o, n, p : o = Head(tasks).object /\ n = fd[o] /\ p = <<>>
  OBVIOUS
<1>3. LoopType /\ RegistryType /\ PoolInv /\ p \in Seq(ServerTasks) /\ DOMAIN p = {}
  BY <1>2 DEF ServerInv
<1>4. /\ 1 \in DOMAIN tasks /\ tasks[1] = Head(tasks) /\ Head(tasks).op = "connect" /\ TaskSays(Head(tasks))
      /\ batch' = batch /\ (draining' <=> tasks' # <<>>)
  BY <1>1, <1>3, MovedUp
<1>5. o \in Objects
  BY <1>2, <1>4 DEF TaskSays
<1>6. received' = [b \in Clients |-> received'[b]]
  BY <1>1, <1>3 DEF LoopType
<1>7. CASE ~Live(o)
  <2>1. UNCHANGED <<registry, stage>>
    BY <1>2, <1>7 DEF RunConnect, HasCallbacks
  <2>2. UNCHANGED websocket_vars
    BY <1>1, <2>1 DEF websocket_vars
  <2>3. PoolInv' /\ NoneAccepted
    BY <1>1, <1>3, <2>1, PoolKept, NoneAcceptedSame DEF PoolInv, PoolType
  <2>4. RegistryType'
    BY <1>3, <2>2, RegistryKept
  <2>5. ServerInv'
    BY <1>1, <1>2, <1>3, <1>6, <2>3, <2>4, RunStep
  <2>6. ASSUME Reg PROVE Reg'
    <3>1. PICK d : d = 1
      OBVIOUS
    <3>2. d \in {0, 1} /\ Follows(tasks', tasks, d, p)
      BY <1>1, <1>2, <1>3, <3>1, Runs
    <3>3. tasks[1].op # "disconnect" /\ ~Live(tasks[1].object)
      BY <1>2, <1>4, <1>7
    <3>4. BatchLive'
      BY <1>4, <2>1, <2>6 DEF Reg, BatchLive, Live
    <3>5. tasks' # <<>> => \A y \in Objects : NotYet(y) => NotYet(y)'
      BY <1>4, <2>1, NotYetRuns
    <3>6. \A k \in DOMAIN p : /\ p[k].op \in {"message", "write"}
                               /\ p[k].arg.route \notin Routes
      BY <1>3
    <3> QED
      BY <1>1, <2>1, <2>2, <2>6, <3>2, <3>3, <3>4, <3>5, <3>6, RegTasks
  <2> QED
    BY <1>1, <2>5, <2>6 DEF RegistryInv
<1>8. CASE Live(o)
  <2>1. /\ m_websocket_connections_by_fd' = [m_websocket_connections_by_fd EXCEPT ![n] = o]
        /\ m_websocket_routes_by_fd' = [m_websocket_routes_by_fd EXCEPT ![n] = upgrade_request[o].route]
        /\ Registered(n, upgrade_request[o])
        /\ stage' = IF upgrade_request[o].route \in Routes /\ upgrade_request[o].valid
                    THEN stage ELSE [stage EXCEPT ![o] = "closing"]
    BY <1>2, <1>8 DEF RunConnect, HasCallbacks
  <2>2. n \in Fds /\ upgrade_request[o] \in Requests
    BY <1>2, <1>3, <1>5, <1>8 DEF PoolInv, LiveFacts, RegistryType
  <2>3. upgrade_request[o].route \in Routes \cup {None}
    BY <2>2, Requested
  <2>4. m_connected_fds' \in [Routes -> SUBSET Fds]
    BY <1>3, <2>1, <2>2 DEF Registered, RegistryType
  <2>5. RegistryType'
    BY <1>1, <1>3, <1>5, <2>1, <2>2, <2>3, <2>4 DEF RegistryType
  <2>6. PoolInv'
    <3>1. CASE stage' = stage
      BY <1>1, <1>3, <3>1, PoolKept DEF PoolInv, PoolType
    <3>2. CASE stage' = [stage EXCEPT ![o] = "closing"]
      BY <1>1, <1>3, <1>5, <1>8, <3>2, PoolRestaged DEF LiveStages
    <3> QED
      BY <2>1, <3>1, <3>2
  <2>7. NoneAccepted
    <3>1. stage' = stage \/ stage' = [stage EXCEPT ![o] = "closing"]
      BY <2>1
    <3> QED
      BY <1>1, <1>3, <1>5, <1>8, <3>1 DEF NoneAccepted, Waiting, Live, PoolInv, PoolType
  <2>8. ServerInv'
    BY <1>1, <1>2, <1>3, <1>6, <2>5, <2>6, <2>7, RunStep
  <2>9. ASSUME Reg PROVE Reg'
    BY <1>1, <1>2, <1>8, <2>1, <2>9, RegConnect
  <2> QED
    BY <1>1, <2>8, <2>9 DEF RegistryInv
<1> QED
  BY <1>7, <1>8

LEMMA MessageStep ==
    ASSUME ServerInv, RegistryInv, kind = "websocket", RunMessage, UNCHANGED <<kind, asks, https_vars>>
    PROVE  ServerInv' /\ RegistryInv'
<1>1. UNCHANGED <<available, fd, client, stage, away, backlog, received, served, websocket_vars, recycled, handling>>
  BY DEF RunMessage, pool, clients, https_vars
<1>2. LoopType /\ RegistryType /\ PoolInv /\ tasks # <<>>
  BY DEF ServerInv, LoopType, RunMessage
<1>3. PICK o, n : o = Head(tasks).object /\ n = fd[o]
  OBVIOUS
<1>4. o \in Objects
  <2>1. Head(tasks) \in ServerTasks /\ Head(tasks).op = "message"
    BY <1>2 DEF LoopType, RunMessage
  <2> QED
    BY <1>3, <2>1, TaskIs DEF TaskSays
<1>5. PICK w : w = Task("write", NoOne, [fd |-> n, route |-> None])
  OBVIOUS
<1>6. w.op = "write" /\ w.arg.route = None /\ None \notin Routes /\ "write" \notin HttpOps
  BY <1>5, TaskFields, RoutesAssumption DEF HttpOps
<1>7. \/ RunsTask("message", <<>>)
      \/ Live(o) /\ RunsTask("message", <<w>>)
  BY <1>3, <1>5 DEF RunMessage, HasCallbacks
<1>8. PICK p \in Seq(ServerTasks) : RunsTask("message", p) /\ \A k \in DOMAIN p : p[k] = w
  <2>1. CASE RunsTask("message", <<>>)
    <3>1. PICK e : e = <<>>
      OBVIOUS
    <3>2. e \in Seq(ServerTasks) /\ \A k \in DOMAIN e : e[k] = w
      BY <3>1
    <3> QED
      BY <2>1, <3>1, <3>2
  <2>2. CASE Live(o) /\ RunsTask("message", <<w>>)
    <3>1. n \in Fds
      BY <1>2, <1>3, <1>4, <2>2 DEF PoolInv, LiveFacts
    <3>2. w \in ServerTasks
      BY <1>5, <3>1, TaskIs
    <3>3. <<w>> \in Seq(ServerTasks) /\ \A k \in DOMAIN <<w>> : <<w>>[k] = w
      BY <3>2
    <3> QED
      BY <2>2, <3>3
  <2> QED
    BY <1>7, <2>1, <2>2
<1>9. /\ tasks[1] = Head(tasks) /\ Head(tasks).op = "message" /\ Follows(tasks', tasks, 1, p)
      /\ batch' = batch /\ (draining' <=> tasks' # <<>>)
  BY <1>2, <1>8, Runs
<1>10. PoolInv' /\ NoneAccepted
  BY <1>1, <1>2, PoolKept, NoneAcceptedSame DEF PoolInv, PoolType
<1>11. RegistryType' /\ received' = [b \in Clients |-> received'[b]]
  BY <1>1, <1>2, RegistryKept DEF LoopType
<1>12. ServerInv'
  BY <1>1, <1>6, <1>8, <1>10, <1>11, RunStep
<1>13. ASSUME Reg PROVE Reg'
  <2>1. PICK d : d = 1
    OBVIOUS
  <2>2. d \in {0, 1} /\ Follows(tasks', tasks, d, p)
    BY <1>9, <2>1
  <2>3. BatchLive'
    BY <1>1, <1>9, <1>13 DEF Reg, BatchLive, Live
  <2>4. tasks' # <<>> => \A y \in Objects : NotYet(y) => NotYet(y)'
    BY <1>1, <1>9, NotYetRuns
  <2>5. \A k \in DOMAIN p : p[k].op = "write" /\ p[k].arg.route \notin Routes
    BY <1>6, <1>8
  <2> QED
    BY <1>1, <1>9, <1>13, <2>2, <2>3, <2>4, <2>5, RegTasks
<1> QED
  BY <1>1, <1>12, <1>13 DEF RegistryInv

LEMMA OnDisconnectStep ==
    ASSUME ServerInv, RegistryInv, kind = "websocket", RunDisconnect, UNCHANGED <<kind, asks, https_vars>>
    PROVE  ServerInv' /\ RegistryInv'
<1>1. /\ RunsTask("disconnect", <<>>)
      /\ UNCHANGED <<available, fd, client, stage, away, backlog, received, served, upgrade_request, recycled, handling>>
  BY DEF RunDisconnect, pool, clients, https_vars
<1>2. PICK n, p : n = Head(tasks).arg /\ p = <<>>
  OBVIOUS
<1>3. LoopType /\ RegistryType /\ PoolInv /\ p \in Seq(ServerTasks) /\ DOMAIN p = {}
  BY <1>2 DEF ServerInv
<1>4. /\ m_websocket_connections_by_fd' = [m_websocket_connections_by_fd EXCEPT ![n] = NoOne]
      /\ m_websocket_routes_by_fd' = [m_websocket_routes_by_fd EXCEPT ![n] = NoOne]
      /\ Unregistered(n)
  BY <1>2 DEF RunDisconnect
<1>5. PoolInv' /\ NoneAccepted
  BY <1>1, <1>3, PoolKept, NoneAcceptedSame DEF PoolInv, PoolType
<1>6. m_connected_fds' \in [Routes -> SUBSET Fds]
  BY <1>3, <1>4 DEF Unregistered, RegistryType
<1>7. RegistryType' /\ received' = [b \in Clients |-> received'[b]]
  BY <1>1, <1>3, <1>4, <1>6 DEF RegistryType, LoopType
<1>8. ServerInv'
  BY <1>1, <1>2, <1>3, <1>5, <1>7, RunStep
<1>9. ASSUME Reg PROVE Reg'
  BY <1>1, <1>2, <1>4, <1>9, RegDisconnect
<1> QED
  BY <1>1, <1>8, <1>9 DEF RegistryInv

\* A frame is written: the connection under the descriptor is of the route.
LEMMA WriteStep ==
    ASSUME ServerInv, RegistryInv, kind = "websocket", RunWrite, UNCHANGED <<kind, asks, https_vars>>
    PROVE  ServerInv' /\ RegistryInv'
<1>1. /\ RunsTask("write", <<>>)
      /\ UNCHANGED <<available, fd, client, stage, away, backlog, served, websocket_vars, recycled, handling>>
  BY DEF RunWrite, pool, https_vars
<1>2. PICK t, p : t = Head(tasks) /\ p = <<>>
  OBVIOUS
<1>3. LoopType /\ RegistryType /\ PoolInv /\ p \in Seq(ServerTasks) /\ DOMAIN p = {}
  BY <1>2 DEF ServerInv
<1>4. /\ 1 \in DOMAIN tasks /\ tasks[1] = t /\ t.op = "write" /\ TaskSays(t)
      /\ batch' = batch /\ (draining' <=> tasks' # <<>>)
  BY <1>1, <1>2, <1>3, MovedUp
<1>5. PICK n, r, o : n = t.arg.fd /\ r = t.arg.route /\ o = Registers(n)
  OBVIOUS
<1>6. n \in Fds /\ r \in Routes \cup {None}
  BY <1>4, <1>5 DEF TaskSays
<1>7. \/ o # NoOne /\ stage[o] = "open" /\ Gets(client[o], [to |-> client[o], status |-> r])
      \/ UNCHANGED received
  BY <1>2, <1>5 DEF RunWrite, Registers
<1>8. PoolInv' /\ NoneAccepted
  BY <1>1, <1>3, PoolKept, NoneAcceptedSame DEF PoolInv, PoolType
<1>9. /\ received' = [b \in Clients |-> received'[b]]
      /\ \A b \in Clients : \A x \in received'[b] : x \in received[b] \/ Delivered(b, x)
  <2>1. CASE UNCHANGED received
    BY <1>3, <2>1 DEF LoopType
  <2>2. CASE o # NoOne /\ stage[o] = "open" /\ Gets(client[o], [to |-> client[o], status |-> r])
    <3>1. o \in Objects
      BY <1>3, <1>5, <1>6, <2>2 DEF RegistryType, Registers
    <3>2. PICK c, what : c = client[o] /\ what = [to |-> c, status |-> r]
      OBVIOUS
    <3>3. c \in Clients /\ what.to = c /\ what.status = r
      BY <1>3, <2>2, <3>1, <3>2 DEF PoolInv, LiveFacts, Live
    <3>4. /\ received' = [b \in Clients |-> received'[b]]
          /\ \A b \in Clients : \A x \in received'[b] : x \in received[b] \/ (x = what /\ b = c)
      BY <1>3, <2>2, <3>2, <3>3, GetsIs
    <3>5. ASSUME ~recycled, r \in Routes PROVE asks[c] = [route |-> r, valid |-> TRUE]
      <4>1. Reg
        BY <3>5 DEF RegistryInv
      <4>2. Accepted(o, r)
        BY <1>4, <1>5, <2>2, <3>5, <4>1 DEF Reg, WritesMeant
      <4>3. upgrade_request[o] = asks[client[o]]
        BY <2>2, <3>1, <4>1 DEF Reg, RequestsKept
      <4> QED
        BY <3>2, <4>2, <4>3 DEF Accepted
    <3>6. Delivered(c, what)
      BY <3>3, <3>5 DEF Delivered, Reached
    <3> QED
      BY <3>4, <3>6
  <2> QED
    BY <1>7, <2>1, <2>2
<1>10. RegistryType'
  BY <1>1, <1>3, RegistryKept
<1>11. ServerInv'
  BY <1>1, <1>2, <1>3, <1>8, <1>9, <1>10, RunStep
<1>12. ASSUME Reg PROVE Reg'
  <2>1. PICK d : d = 1
    OBVIOUS
  <2>2. d \in {0, 1} /\ Follows(tasks', tasks, d, p)
    BY <1>1, <1>2, <1>3, <2>1, Runs
  <2>3. BatchLive'
    BY <1>1, <1>4, <1>12 DEF Reg, BatchLive, Live
  <2>4. tasks' # <<>> => \A y \in Objects : NotYet(y) => NotYet(y)'
    BY <1>1, <1>4, NotYetRuns
  <2> QED
    BY <1>1, <1>3, <1>4, <1>12, <2>2, <2>3, <2>4, RegTasks
<1> QED
  BY <1>1, <1>11, <1>12 DEF RegistryInv

\* A broadcast names the descriptors that are in the set of its route.
LEMMA BroadcastStep ==
    ASSUME ServerInv, RegistryInv, kind = "websocket", NEW r \in Routes, Broadcast(r),
           UNCHANGED <<kind, asks, https_vars>>
    PROVE  ServerInv' /\ RegistryInv'
<1>1. /\ UNCHANGED <<available, fd, client, stage, away, backlog, received, served>>
      /\ UNCHANGED <<batch, draining, websocket_vars, recycled, handling>>
  BY DEF Broadcast, pool, clients, loop, https_vars
<1>2. LoopType /\ RegistryType /\ PoolInv
  BY DEF ServerInv
<1>3. PICK fds, p : /\ fds = SetToSeq(m_connected_fds[r])
                    /\ p = [i \in DOMAIN fds |-> Task("write", NoOne, [fd |-> fds[i], route |-> r])]
  OBVIOUS
<1>4. m_connected_fds[r] \subseteq Fds /\ IsFiniteSet(m_connected_fds[r])
  BY <1>2, FdsAssumption, FS_Subset DEF RegistryType
<1>5. PICK S, c : S = m_connected_fds[r] /\ c = Cardinality(S)
  OBVIOUS
<1>6. c \in Nat /\ fds \in [1 .. c -> S]
  BY <1>3, <1>4, <1>5, SetToSeqOK
<1>7. \A i \in 1 .. c : /\ p[i] = Task("write", NoOne, [fd |-> fds[i], route |-> r])
                        /\ fds[i] \in S /\ fds[i] \in Fds
  BY <1>3, <1>4, <1>5, <1>6
<1>8. \A i \in 1 .. c : p[i] \in ServerTasks
  BY <1>7, TaskIs
<1>9. p \in Seq(ServerTasks) /\ DOMAIN p = 1 .. c
  <2>1. DOMAIN p = 1 .. c
    BY <1>3, <1>6
  <2>2. p = [i \in 1 .. c |-> p[i]]
    BY <1>3, <1>6
  <2>3. p \in [1 .. c -> ServerTasks]
    BY <1>8, <2>2
  <2> QED
    BY <1>6, <2>1, <2>3
<1>10. \A k \in DOMAIN p : p[k].op = "write" /\ p[k].arg.fd \in S /\ p[k].arg.fd \in Fds /\ p[k].arg.route = r
  <2> SUFFICES ASSUME NEW k \in 1 .. c
               PROVE  p[k].op = "write" /\ p[k].arg.fd \in S /\ p[k].arg.fd \in Fds /\ p[k].arg.route = r
    BY <1>9
  <2>1. PICK a : a = [fd |-> fds[k], route |-> r]
    OBVIOUS
  <2>2. p[k].op = "write" /\ p[k].arg = a
    BY <1>7, <2>1, TaskFields
  <2>3. a.fd = fds[k] /\ a.route = r
    BY <2>1
  <2> QED
    BY <1>7, <2>2, <2>3
<1>11. Follows(tasks', tasks, 0, p)
  <2>1. PICK q : q = tasks
    OBVIOUS
  <2>2. q \in Seq(ServerTasks) /\ tasks' = q \o p
    BY <1>2, <1>3, <2>1 DEF LoopType, Broadcast
  <2>3. Follows(q \o p, q, 0, p)
    BY <1>9, <2>2, ConcatFollows
  <2> QED
    BY <2>1, <2>2, <2>3
<1>12. PoolInv' /\ NoneAccepted
  BY <1>1, <1>2, PoolKept, NoneAcceptedSame DEF PoolInv, PoolType
<1>13. tasks # <<>> => tasks' # <<>>
  <2>1. PICK q, u : q = tasks /\ u = tasks'
    OBVIOUS
  <2>2. q \in Seq(ServerTasks) /\ Follows(u, q, 0, p)
    BY <1>2, <1>11, <2>1 DEF LoopType
  <2>3. q # <<>> => Len(q) > 0 /\ Len(u) > 0
    BY <2>2 DEF Follows
  <2>4. u # <<>> \/ Len(u) = 0
    OBVIOUS
  <2> QED
    BY <2>1, <2>3, <2>4
<1>14. LoopType'
  BY <1>1, <1>2, <1>11, <1>13 DEF LoopType, Follows
<1>15. OwnInv'
  <2>1. handling' \subseteq [object : Objects, client : Clients]
    BY <1>14 DEF LoopType
  <2>2. \A k \in DOMAIN p : TaskOwn(p[k])'
    BY <1>10 DEF TaskOwn, HttpOps
  <2> QED
    BY <1>1, <1>2, <1>11, <1>12, <2>1, <2>2, OwnKept DEF ServerInv
<1>16. RegistryType'
  BY <1>1, <1>2, RegistryKept
<1>17. ASSUME Reg PROVE Reg'
  <2>1. PICK d : d = 0
    OBVIOUS
  <2>2. d \in {0, 1} /\ d # 1 /\ Follows(tasks', tasks, d, p)
    BY <1>11, <2>1
  <2>3. BatchLive'
    BY <1>1, <1>17 DEF Reg, BatchLive, Live
  <2>4. \A y \in Objects : NotYet(y) => NotYet(y)'
    BY <1>1 DEF NotYet
  <2>5. \A k \in DOMAIN p : Registers(p[k].arg.fd) # NoOne /\ Accepted(Registers(p[k].arg.fd), p[k].arg.route)
    BY <1>5, <1>10, <1>17 DEF Reg, RouteSets
  <2> QED
    BY <1>1, <1>10, <1>17, <2>2, <2>3, <2>4, <2>5, RegTasks
<1> QED
  BY <1>1, <1>12, <1>14, <1>15, <1>16, <1>17 DEF ServerInv, RegistryInv
-----------------------------------------------------------------------------
(* Every step of the servers. *)

LEMMA SharedStep ==
    ASSUME ServerInv, RegistryInv, Shared \/ (\E c \in Clients : ClientSends(c)),
           UNCHANGED <<kind, asks, https_vars, websocket_vars>>
    PROVE  ServerInv' /\ RegistryInv'
<1>1. ASSUME NEW c \in Clients, Connect(c) \/ HangsUp(c) \/ ClientSends(c) PROVE ServerInv' /\ RegistryInv'
  <2>1. UNCHANGED <<stage, fd, client, tasks, batch, draining, recycled>>
    BY <1>1 DEF Connect, HangsUp, ClientSends, Sends, pool, clients, loop
  <2>2. RegistryInv'
    BY <2>1, RegSame DEF RegistryInv
  <2> QED
    BY <1>1, <2>2, ClientsStep
<1>2. CASE EpollWait
  <2>1. recycled' = recycled
    BY <1>2 DEF EpollWait
  <2>2. RegistryInv'
    BY <1>2, <2>1, RegWait DEF RegistryInv
  <2> QED
    BY <1>2, <2>2, LoopStep
<1>3. CASE StartDrain
  <2>1. recycled' = recycled
    BY <1>3 DEF StartDrain
  <2>2. RegistryInv'
    BY <1>3, <2>1, RegDrain DEF RegistryInv
  <2> QED
    BY <1>3, <2>2, LoopStep
<1>7. CASE AcquireThrows
  <2>1. UNCHANGED <<stage, fd, client, tasks, recycled>> /\ Event(Listen) /\ Listen # TaskFd
    BY <1>7 DEF AcquireThrows, pool, Listen, TaskFd
  <2>2. RegistryInv'
    BY <2>1, RegEvent DEF RegistryInv
  <2> QED
    BY <1>7, <2>2, LoopStep
<1>8. CASE AcceptFails(Held) \/ ClosesAtOnce
  <2>1. PoolInv /\ tasks \in Seq(ServerTasks)
    BY DEF ServerInv, LoopType
  <2>2. PICK held : held = Held
    OBVIOUS
  <2>3. PICK o \in Objects :
           /\ Unused(o, held) /\ ~Live(o) /\ \A x \in Objects : Live(x)' <=> Live(x)
           /\ \A x \in Objects \ {o} : fd'[x] = fd[x] /\ stage'[x] = stage[x]
    BY <1>8, <2>1, <2>2, UnusedIs
  <2>4. Event(Listen) /\ (recycled => recycled')
    BY <2>3 DEF Unused, Acquires
  <2>5. RegistryInv'
    BY <2>2, <2>3, <2>4, RegUnused DEF RegistryInv
  <2> QED
    BY <1>8, <2>5, UnusedStep
<1>4. CASE Accept(Held)
  <2>1. recycled => recycled'
    BY <1>4 DEF Accept, Acquires
  <2>2. RegistryInv'
    BY <1>4, <2>1, RegAccept DEF RegistryInv
  <2> QED
    BY <1>4, <2>2, AcceptStep
<1>5. ASSUME NEW o \in Objects, Handshake(o) PROVE ServerInv' /\ RegistryInv'
  <2>1. recycled' = recycled
    BY <1>5 DEF Handshake
  <2>2. RegistryInv'
    BY <1>5, <2>1, RegHandshake DEF RegistryInv
  <2> QED
    BY <1>5, <2>2, HandshakeStep
<1>6. ASSUME NEW o \in Objects, StaleEvent(o) PROVE ServerInv' /\ RegistryInv'
  <2>1. UNCHANGED <<stage, fd, client, tasks, recycled>> /\ Event(o) /\ o # TaskFd
    BY <1>6, FdsAssumption DEF StaleEvent, pool
  <2>2. RegistryInv'
    BY <2>1, RegEvent DEF RegistryInv
  <2> QED
    BY <1>6, <2>2, LoopStep
<1> QED
  BY <1>1, <1>2, <1>3, <1>4, <1>5, <1>6, <1>7, <1>8 DEF Shared

LEMMA HttpsStep ==
    ASSUME ServerInv, kind = "https", HttpsServerNext, UNCHANGED <<kind, asks, websocket_vars>>
    PROVE  ServerInv'
BY DisconnectStep, HandleReadStep, AnswerStep, RequestStep, ReturnStep DEF HttpsServerNext

LEMMA WebsocketStep ==
    ASSUME ServerInv, RegistryInv, kind = "websocket", Websocket, UNCHANGED <<kind, asks, https_vars>>
    PROVE  ServerInv' /\ RegistryInv'
<1>1. ASSUME NEW o \in Objects, WsDisconnect(o) PROVE ServerInv' /\ RegistryInv'
  <2>1. /\ Event(o) /\ Live(o) /\ WsRelease(o, tasks)
        /\ UNCHANGED <<handling, websocket_vars, backlog, received, served, recycled>>
    BY <1>1 DEF WsDisconnect, HungUp, clients, https_vars
  <2> QED
    BY <2>1, WsReleaseStep
<1>2. ASSUME NEW o \in Objects, HandleUpgrade(o) PROVE ServerInv' /\ RegistryInv'
  BY <1>2, UpgradeStep
<1>3. ASSUME NEW o \in Objects, HandleFrame(o) PROVE ServerInv' /\ RegistryInv'
  BY <1>3, FrameStep
<1> QED
  BY <1>1, <1>2, <1>3, ConnectStep, MessageStep, OnDisconnectStep, WriteStep DEF Websocket

LEMMA ServersStay ==
    ASSUME ServerInv, RegistryInv, UNCHANGED <<server_vars, https_vars, websocket_vars, kind, asks>>
    PROVE  ServerInv' /\ RegistryInv'
<1>1. /\ UNCHANGED <<available, fd, client, stage, backlog, tasks, received, recycled, draining, batch>>
      /\ UNCHANGED <<handling, served, away>>
  BY DEF server_vars, pool, clients, loop, https_vars
<1>2. backlog' \in Seq(Clients) /\ draining' \in BOOLEAN /\ (draining' => tasks # <<>>)
  BY <1>1 DEF ServerInv, PoolInv, PoolType, LoopType
<1>5. away \subseteq away' /\ (Waiting => Waiting')
  BY <1>1 DEF Waiting
<1>3. ServerInv'
  BY <1>1, <1>2, <1>5, QuietStep
<1>4. RegistryInv'
  BY <1>1, RegSame DEF RegistryInv
<1> QED
  BY <1>3, <1>4

LEMMA ServersStep == ServerInv /\ RegistryInv /\ [MCNext]_all_vars => ServerInv' /\ RegistryInv'
<1> SUFFICES ASSUME ServerInv, RegistryInv, [MCNext]_all_vars PROVE ServerInv' /\ RegistryInv'
  OBVIOUS
<1>1. CASE UNCHANGED vars
  BY <1>1, ServersStay DEF vars
<1>2. CASE Next
  <2>1. UNCHANGED <<kind, asks>>
    BY <1>2 DEF Next
  <2>2. CASE Shared /\ UNCHANGED <<https_vars, websocket_vars>>
    BY <2>1, <2>2, SharedStep
  <2>3. CASE (\E c \in Clients : ClientSends(c)) /\ UNCHANGED <<https_vars, websocket_vars>>
    BY <2>1, <2>3, SharedStep
  <2>4. CASE kind = "https" /\ HttpsServerNext /\ UNCHANGED websocket_vars
    <3>1. ServerInv'
      BY <2>1, <2>4, HttpsStep
    <3>2. RegistryInv'
      BY <2>1, <2>4 DEF RegistryInv
    <3> QED
      BY <3>1, <3>2
  <2>5. CASE kind = "websocket" /\ Websocket /\ UNCHANGED https_vars
    BY <2>1, <2>5, WebsocketStep
  <2>6. CASE kind = "websocket" /\ (\E r \in Routes : Broadcast(r)) /\ UNCHANGED https_vars
    BY <2>1, <2>6, BroadcastStep
  <2>7. CASE UNCHANGED <<server_vars, https_vars, websocket_vars>>
    BY <2>1, <2>7, ServersStay
  <2> QED
    BY <1>2, <2>2, <2>3, <2>4, <2>5, <2>6, <2>7 DEF Next
<1> QED
  BY <1>1, <1>2, Layers

\* Every connection object is in the pool once, or serves a client, or was lost
\* to an accept that failed, and no two connections have one descriptor, for any
\* number of clients, objects and descriptors, in either server, whatever is
\* closed by events, stale ones too, tasks, failing writes and failing accepts.
THEOREM ObjectsConserved == MCSpec => []PoolConserved
<1>1. ServerInv => PoolConserved
  BY DEF ServerInv, PoolInv
<1> QED
  BY <1>1, ServerInvInit, RegistryInvInit, ServersStep, PTL DEF MCSpec

\* A client gets the responses to its own requests, however long handlers wait
\* and whatever is closed and accepted meanwhile, except that a response to a
\* client that has gone reaches the next client of the same object: none goes
\* astray over a descriptor number alone.
THEOREM ResponsesOwn == MCSpec => []OwnResponse
<1>1. ServerInv => OwnResponse
  BY OwnInvIs DEF ServerInv
<1> QED
  BY <1>1, ServerInvInit, RegistryInvInit, ServersStep, PTL DEF MCSpec

\* A client is sent broadcasts of its own route only, and the sets of the routes
\* agree with the connections when no task is left, although descriptors are
\* used again while writes and on_disconnect of the last connection wait.
THEOREM RoutesStayKept == MCSpec => []RoutesKept
<1>1. ServerInv /\ RegistryInv => RoutesKept
  BY OwnInvIs, RegistryInvIs DEF ServerInv, RoutesKept
<1> QED
  BY <1>1, ServerInvInit, RegistryInvInit, ServersStep, PTL DEF MCSpec
=============================================================================
