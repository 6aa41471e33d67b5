-------------------------- MODULE BinanceOrderBook --------------------------
(***************************************************************************)
(* gateways/binance/.../binance_order_book.cpp: keeping a local order book *)
(* in step with the exchange.                                              *)
(*                                                                         *)
(* The exchange numbers its changes.  A websocket carries them in messages *)
(* with the range U..u and the end pu of the message before; a REST        *)
(* request, on a connection of its own, answers with the whole book at     *)
(* some lastUpdateId.  Messages are buffered until the snapshot is there.  *)
(*                                                                         *)
(* A change sets one price.  The book is kept as the number of the last    *)
(* change applied to each price; 0 is the level of an empty book.          *)
(*                                                                         *)
(* All handlers run on one event base.  Its queue is a FIFO, so that a     *)
(* posted re_fetch_order_book runs before the session it destroys can read *)
(* another message: the actions of the websocket wait for it, an answer to *)
(* a snapshot request does not.                                            *)
(***************************************************************************)
EXTENDS Naturals, Sequences, FiniteSets, FiniteSetsExt

CONSTANTS Prices,
          MaxId,            \* bound: changes on the exchange
          MaxRequests,      \* bound: snapshot requests
          MaxLost,          \* bound: messages lost or repeated by the stream
          MaxFailed,        \* bound: requests answered with an error
          MaxDisconnects    \* bound: disconnects of the websocket

ASSUME BoundsAssumption ==
    {MaxId, MaxRequests, MaxLost, MaxFailed, MaxDisconnects} \subseteq Nat

VARIABLES
    log,        \* the exchange: the price that change k sets
    sent,       \* the exchange: u of the last message of the stream
    connected,  \* the websocket session is up
    wire,       \* messages of the session not handled yet
    requests,   \* snapshot requests under way: [n, last], last = None until served
    nrequests, faults, failures, disconnects,    \* bounded counters
    re_fetch,   \* re_fetch_order_book tasks posted and not run
    m_sync_state, m_has_received_first_update,
    m_snapshot_last_update_id, m_package_last_update_id,
    m_buffered_updates,
    book,       \* what OrderBookManager has been told
    bridged     \* history: the snapshot was joined to the stream by a buffered message

exchange == <<log, sent>>
counters == <<nrequests, faults, failures, disconnects>>
state == <<m_sync_state, m_has_received_first_update, m_snapshot_last_update_id,
           m_package_last_update_id, m_buffered_updates, book, bridged>>
vars == <<exchange, connected, wire, requests, counters, re_fetch, state>>

Ids == 1 .. MaxId
NotServed == MaxId + 1

\* The book b after the changes with numbers in ids, in order.
After(b, ids) ==
    [p \in Prices |->
        LET ks == {k \in ids : log[k] = p} IN IF ks = {} THEN b[p] ELSE Max(ks)]

Empty == [p \in Prices |-> 0]

\* The exchange's book at lastUpdateId = v.
BookAt(v) == After(Empty, 1 .. v)

Init ==
    /\ log = <<>> /\ sent = 0
    /\ connected = FALSE /\ wire = <<>>
    /\ requests = {}
    /\ nrequests = 0 /\ faults = 0 /\ failures = 0 /\ disconnects = 0
    /\ re_fetch = 0
    /\ m_sync_state = "None" /\ m_has_received_first_update = FALSE
    /\ m_snapshot_last_update_id = 0 /\ m_package_last_update_id = 0
    /\ m_buffered_updates = <<>>
    /\ book = Empty /\ bridged = FALSE

-----------------------------------------------------------------------------
(* The exchange and the network. *)

Change(p) ==
    /\ Len(log) < MaxId
    /\ log' = Append(log, p)
    /\ UNCHANGED <<sent, connected, wire, requests, counters, re_fetch, state>>

Message == [U |-> sent + 1, u |-> Len(log), pu |-> sent]

\* The stream's next message reaches the session, if there is one ...
Emit ==
    /\ sent < Len(log)
    /\ sent' = Len(log)
    /\ wire' = IF connected THEN Append(wire, Message) ELSE wire
    /\ UNCHANGED <<log, connected, requests, counters, re_fetch, state>>

\* ... or is lost ...
Lose ==
    /\ sent < Len(log) /\ connected /\ faults < MaxLost
    /\ sent' = Len(log)
    /\ faults' = faults + 1
    /\ UNCHANGED <<log, connected, wire, requests, nrequests, failures,
                   disconnects, re_fetch, state>>

\* ... or comes twice.
Repeat ==
    /\ wire # <<>> /\ faults < MaxLost
    /\ wire' = Append(wire, wire[Len(wire)])
    /\ faults' = faults + 1
    /\ UNCHANGED <<exchange, connected, requests, nrequests, failures,
                   disconnects, re_fetch, state>>

\* start_fetching_order_book's websocket is connected and subscribed.
Connect ==
    /\ ~connected /\ re_fetch = 0
    /\ connected' = TRUE
    /\ UNCHANGED <<exchange, wire, requests, counters, re_fetch, state>>

\* on_disconnect.
Disconnect ==
    /\ connected /\ re_fetch = 0 /\ disconnects < MaxDisconnects
    /\ connected' = FALSE /\ wire' = <<>>
    /\ disconnects' = disconnects + 1
    /\ re_fetch' = re_fetch + 1
    /\ UNCHANGED <<exchange, requests, nrequests, faults, failures, state>>

\* The exchange reads its book for a request.
Serve(r) ==
    /\ r \in requests /\ r.last = NotServed
    /\ requests' = (requests \ {r}) \cup {[r EXCEPT !.last = Len(log)]}
    /\ UNCHANGED <<exchange, connected, wire, counters, re_fetch, state>>

\* The connection of a request breaks: an error response has an empty body,
\* whose lastUpdateId reads as 0.
Fail(r) ==
    /\ r \in requests /\ r.last # 0 /\ failures < MaxFailed
    /\ requests' = (requests \ {r}) \cup {[r EXCEPT !.last = 0]}
    /\ failures' = failures + 1
    /\ UNCHANGED <<exchange, connected, wire, nrequests, faults, disconnects,
                   re_fetch, state>>

-----------------------------------------------------------------------------
(* The handlers. *)

\* apply_update: the changes of the message go to the OrderBookManager.
Apply(m) ==
    /\ book' = After(book, m.U .. m.u)
    /\ m_package_last_update_id' = m.u

\* Mutant: no look at pu.
CheckApplyUpdate_NoChain(m) ==
    /\ IF m_package_last_update_id # 0 /\ m.u =< m_package_last_update_id
       THEN UNCHANGED <<book, m_package_last_update_id>>
       ELSE Apply(m)
    /\ UNCHANGED re_fetch

\* check_apply_update.
CheckApplyUpdate(m) ==
    LET last == m_package_last_update_id IN
    \/ /\ last # 0 /\ m.u =< last                \* duplicate / old update
       /\ UNCHANGED <<book, m_package_last_update_id, re_fetch>>
    \/ /\ last # 0 /\ m.u > last /\ m.pu # last  \* chain broken
       /\ re_fetch' = re_fetch + 1
       /\ UNCHANGED <<book, m_package_last_update_id>>
    \/ /\ last = 0 \/ (m.u > last /\ m.pu = last)
       /\ Apply(m)
       /\ UNCHANGED re_fetch

\* on_message for the session's first message: it is buffered, and the
\* snapshot is requested.
FirstMessage ==
    /\ wire # <<>> /\ re_fetch = 0 /\ ~m_has_received_first_update
    /\ nrequests < MaxRequests
    /\ m_has_received_first_update' = TRUE
    /\ m_sync_state' = "Buffering"
    /\ nrequests' = nrequests + 1
    /\ requests' = requests \cup {[n |-> nrequests + 1, last |-> NotServed]}
    /\ m_buffered_updates' = Append(m_buffered_updates, Head(wire))
    /\ wire' = Tail(wire)
    /\ UNCHANGED <<exchange, connected, faults, failures, disconnects, re_fetch,
                   m_snapshot_last_update_id, m_package_last_update_id, book, bridged>>

BufferMessage ==
    /\ wire # <<>> /\ re_fetch = 0
    /\ m_has_received_first_update /\ m_sync_state = "Buffering"
    /\ m_buffered_updates' = Append(m_buffered_updates, Head(wire))
    /\ wire' = Tail(wire)
    /\ UNCHANGED <<exchange, connected, requests, counters, re_fetch, m_sync_state,
                   m_has_received_first_update, m_snapshot_last_update_id,
                   m_package_last_update_id, book, bridged>>

LiveMessage ==
    /\ wire # <<>> /\ re_fetch = 0
    /\ m_has_received_first_update /\ m_sync_state = "Synced"
    /\ CheckApplyUpdate(Head(wire))
    /\ wire' = Tail(wire)
    /\ UNCHANGED <<exchange, connected, requests, counters, m_sync_state,
                   m_has_received_first_update, m_snapshot_last_update_id,
                   m_buffered_updates, bridged>>

-----------------------------------------------------------------------------
(* process_buffered_updates_after_snapshot for lastUpdateId = v.           *)

\* The buffered messages that are not older than the snapshot.
Kept(v) == {i \in 1 .. Len(m_buffered_updates) : m_buffered_updates[i].u >= v}

\* The first one kept must bridge lastUpdateId, any other must follow the one
\* before it.
Joins(v, i) ==
    LET m == m_buffered_updates[i]
        before == {j \in Kept(v) : j < i}
    IN  IF before = {} THEN m.U =< v /\ v =< m.u
        ELSE m.pu = m_buffered_updates[Max(before)].u

\* The loop stops at the first message that does not join.
Stop(v) == Min({i \in Kept(v) : ~Joins(v, i)} \cup {Len(m_buffered_updates) + 1})

Joined(v) == {i \in Kept(v) : i < Stop(v)}

\* The rest of send_request_get_snapshot, when its answer is there.
HandleSnapshot(r) ==
    LET v == r.last
        ok == Stop(v) > Len(m_buffered_updates)
        ids == UNION {m_buffered_updates[i].U .. m_buffered_updates[i].u : i \in Joined(v)}
    IN
    /\ r \in requests /\ v # NotServed
    /\ requests' = requests \ {r}
    /\ m_snapshot_last_update_id' = v
    /\ book' = After(BookAt(v), ids)
    /\ IF Joined(v) = {} THEN UNCHANGED m_package_last_update_id
       ELSE m_package_last_update_id' = m_buffered_updates[Max(Joined(v))].u
    /\ bridged' = (Joined(v) # {})
    /\ m_buffered_updates' =
           SubSeq(m_buffered_updates, Stop(v) + 1, Len(m_buffered_updates))
    /\ \/ ok /\ m_sync_state' = "Synced" /\ UNCHANGED re_fetch
       \/ ~ok /\ re_fetch' = re_fetch + 1 /\ UNCHANGED m_sync_state
    /\ UNCHANGED <<exchange, connected, wire, counters, m_has_received_first_update>>

\* Mutant: the first message of the new session is not recognised.
ReFetch_KeepsFirst ==
    /\ re_fetch > 0
    /\ re_fetch' = re_fetch - 1
    /\ connected' = FALSE /\ wire' = <<>>
    /\ m_sync_state' = "Buffering" /\ m_has_received_first_update' = TRUE
    /\ m_snapshot_last_update_id' = 0 /\ m_package_last_update_id' = 0
    /\ m_buffered_updates' = <<>> /\ bridged' = FALSE
    /\ UNCHANGED <<exchange, requests, counters, book>>

\* re_fetch_order_book: everything is reset but a snapshot request under way.
ReFetch ==
    /\ re_fetch > 0
    /\ re_fetch' = re_fetch - 1
    /\ connected' = FALSE /\ wire' = <<>>
    /\ m_sync_state' = "None" /\ m_has_received_first_update' = FALSE
    /\ m_snapshot_last_update_id' = 0 /\ m_package_last_update_id' = 0
    /\ m_buffered_updates' = <<>> /\ bridged' = FALSE
    /\ UNCHANGED <<exchange, requests, counters, book>>

-----------------------------------------------------------------------------
Network == Emit \/ Lose \/ Repeat \/ Connect \/ Disconnect \/ \E p \in Prices : Change(p)

Rest == \E r \in requests : Serve(r) \/ Fail(r)

Handlers == FirstMessage \/ BufferMessage \/ LiveMessage \/ ReFetch

Next == Network \/ Rest \/ Handlers \/ \E r \in requests : HandleSnapshot(r)

Spec == Init /\ [][Next]_vars

\* The event base runs its tasks, and the exchange answers a request or its
\* connection breaks.
Fairness == /\ WF_vars(ReFetch)
            /\ WF_vars(\E r \in requests : HandleSnapshot(r))
            /\ WF_vars(\E r \in requests : Serve(r))

LiveSpec == Spec /\ Fairness

-----------------------------------------------------------------------------
(* Properties *)

Messages == [U : Ids, u : Ids, pu : 0 .. MaxId]

\* The identifiers stay in the range of the exchange's numbering, and the
\* buffer holds messages of the stream.
TypeOK ==
    /\ log \in Seq(Prices) /\ sent \in 0 .. Len(log)
    /\ connected \in BOOLEAN /\ wire \in Seq(Messages)
    /\ requests \subseteq [n : 1 .. MaxRequests, last : 0 .. NotServed]
    /\ re_fetch \in Nat
    /\ m_sync_state \in {"None", "Buffering", "Synced"}
    /\ m_has_received_first_update \in BOOLEAN
    /\ m_snapshot_last_update_id \in 0 .. MaxId
    /\ m_package_last_update_id \in 0 .. MaxId
    /\ m_buffered_updates \in Seq(Messages)
    /\ book \in [Prices -> 0 .. MaxId] /\ bridged \in BOOLEAN

\* Once a buffered message has joined the snapshot to the stream, the book is
\* the exchange's book at the last message applied, whatever was lost, repeated
\* or failed on the way, until a re-fetch has been asked for.
InSync ==
    m_sync_state = "Synced" /\ bridged /\ re_fetch = 0
        => book = BookAt(m_package_last_update_id)

\* While messages are buffered a snapshot request is under way, and in the
\* first connection at most one: its answer belongs to the session that is up.
\* (After a disconnect the request of the session before it is still there.)
OneRequest ==
    /\ disconnects = 0 => Cardinality(requests) =< 1
    /\ m_sync_state = "Buffering" /\ re_fetch = 0 => requests # {}

\* The session's book and its requests are sound: what is trusted is the
\* exchange's book, and what is not is being asked for.
SyncSound == InSync /\ OneRequest

\* Buffering does not last: the snapshot comes, or everything starts again.
BufferingEnds == m_sync_state = "Buffering" ~> m_sync_state # "Buffering"

\* A message applied right after the snapshot bridges its lastUpdateId, as the
\* comment in process_buffered_updates_after_snapshot demands.
FirstUpdateBridges ==
    [][m_package_last_update_id = 0 /\ m_package_last_update_id' # 0
       /\ LiveMessage
          => Head(wire).U =< m_snapshot_last_update_id
             /\ m_snapshot_last_update_id =< Head(wire).u]_vars
=============================================================================
