-------------------------- MODULE WebsocketServer --------------------------
(***************************************************************************)
(* core/network/https_websocket_server and server_app/websocket_server_    *)
(* route: routes of broadcasts over the connections of PooledServer.       *)
(*                                                                         *)
(* After the upgrade a client is registered under its descriptor number in *)
(* m_websocket_connections_by_fd, m_websocket_routes_by_fd and the set of  *)
(* its route, from which the ORDER thread broadcasts.  Registration and    *)
(* its end are tasks, and so is every write to a descriptor.               *)
(*                                                                         *)
(* The runs check both servers, chosen in Init.                            *)
(***************************************************************************)
EXTENDS HttpsServer

CONSTANTS Routes,          \* routes that broadcast; both ask for a token
          MaxBroadcasts,   \* bound
          MaxUnits         \* bound: units a client sends

VARIABLES
    kind,                            \* "https" or "websocket"
    asks,                            \* what each client's upgrade request says
    m_websocket_connections_by_fd, m_websocket_routes_by_fd,
    m_connected_fds,                 \* of each route
    upgrade_request,                 \* websocket_upgrade_request of each object
    broadcasts, units                \* counters

registry == <<m_websocket_connections_by_fd, m_websocket_routes_by_fd, m_connected_fds>>
websocket_vars == <<registry, upgrade_request>>
vars == <<server_vars, https_vars, websocket_vars, kind, asks, broadcasts, units>>

None == "none"      \* the route of a path that is no route

\* What else a client can be sent is no broadcast.
ASSUME RoutesAssumption ==
    /\ Routes # {} /\ MaxBroadcasts \in Nat /\ MaxUnits \in Nat
    /\ \A r \in Routes : r \notin {None, "pong", NoOne} /\ r \notin {200, 404}

Init ==
    /\ ServerInit /\ HttpsServerInit
    /\ kind \in {"https", "websocket"}
    /\ asks \in IF kind = "https" THEN {[c \in Clients |-> [route |-> None, valid |-> FALSE]]}
                ELSE [Clients -> {[route |-> r, valid |-> TRUE] : r \in Routes \cup {None}}
                                 \cup {[route |-> CHOOSE r \in Routes : TRUE, valid |-> FALSE]}]
    /\ m_websocket_connections_by_fd = [n \in Fds |-> NoOne]
    /\ m_websocket_routes_by_fd = [n \in Fds |-> NoOne]
    /\ m_connected_fds = [r \in Routes |-> {}]
    /\ upgrade_request = [o \in Objects |-> [route |-> None, valid |-> FALSE]]
    /\ broadcasts = 0 /\ units = [c \in Clients |-> 0]

-----------------------------------------------------------------------------
(* HttpWebsocketConnectionIO *)

\* release: on_disconnect becomes a task, and refresh resets the object, the
\* callbacks included, but not the descriptor.
WsRelease(o, before) ==
    /\ DelFd(o, fd[o])
    /\ tasks' = before \o <<Task("disconnect", o, fd[o])>>

WsDisconnect(o) ==
    /\ Event(o) /\ HungUp(o)
    /\ WsRelease(o, tasks)
    /\ UNCHANGED <<clients, websocket_vars, recycled, engine>>

\* handle_http_upgrade_bytes: a good request is answered and on_connect posted;
\* for any other the connection is closed.
HandleUpgrade(o) ==
    /\ Event(o) /\ stage[o] = "ready" /\ Reads(o)
    /\ IF Unit(o) = "upgrade"
       THEN /\ stage' = [stage EXCEPT ![o] = "open"]
            /\ upgrade_request' = [upgrade_request EXCEPT ![o] = asks[client[o]]]
            /\ tasks' = Append(tasks, Task("connect", o, 0))
            /\ UNCHANGED <<available, fd, client, away>>
       ELSE WsRelease(o, tasks) /\ UNCHANGED upgrade_request
    /\ UNCHANGED <<backlog, received, served, registry, recycled, engine>>

\* handle_websocket_bytes: a text becomes a task, a ping is answered unless the
\* connection is closing, and a Close ends it; a part of a TLS record reads as
\* zero bytes, which is taken for the end of the connection.
HandleFrame(o) ==
    /\ Event(o) /\ stage[o] \in {"open", "closing"} /\ Reads(o)
    /\ \/ /\ Unit(o) = "text" /\ tasks' = Append(tasks, Task("message", o, 0))
          /\ UNCHANGED <<pool, received>>
       \/ /\ Unit(o) = "ping"
          /\ IF stage[o] = "open" THEN Gets(client[o], [to |-> client[o], status |-> "pong"])
                                  ELSE UNCHANGED received
          /\ UNCHANGED <<pool, tasks>>
       \/ Unit(o) = "close" /\ WsRelease(o, tasks) /\ UNCHANGED received
    /\ UNCHANGED <<backlog, served, websocket_vars, recycled, engine>>

-----------------------------------------------------------------------------
(* HttpsWebsocketServer *)

\* The route's on_connect, for a route that exists and a token that is valid.
Registered(n, request) ==
    m_connected_fds' = [r \in Routes |-> IF r = request.route /\ request.valid
                                         THEN m_connected_fds[r] \cup {n} ELSE m_connected_fds[r]]

\* A lost object has them too, but is registered and found under -1, if at all.
HasCallbacks(o) == Live(o)

\* run_on_connect with the on_connect of the server: an object that has been
\* released has no callback any more.  A rejected client is sent a Close, and
\* its connection stays until it hangs up.
RunConnect ==
    /\ RunsTask("connect", <<>>)
    /\ LET o == Head(tasks).object
           n == fd[o]
           request == upgrade_request[o]
           accepted == request.route \in Routes /\ request.valid
       IN  IF ~HasCallbacks(o) THEN UNCHANGED <<registry, stage>>
           ELSE /\ m_websocket_connections_by_fd' = [m_websocket_connections_by_fd EXCEPT ![n] = o]
                /\ m_websocket_routes_by_fd' = [m_websocket_routes_by_fd EXCEPT ![n] = request.route]
                /\ Registered(n, request)
                /\ stage' = IF accepted THEN stage ELSE [stage EXCEPT ![o] = "closing"]
    /\ UNCHANGED <<available, fd, client, away, clients, upgrade_request, recycled, engine>>

\* on_message: the route none answers, the others do not.
RunMessage ==
    /\ draining /\ Head(tasks).op = "message"
    /\ LET o == Head(tasks).object
           answers == HasCallbacks(o) /\ m_websocket_routes_by_fd[fd[o]] = None
       IN  RunsTask("message", IF answers THEN <<Task("write", NoOne, [fd |-> fd[o], route |-> None])>>
                               ELSE <<>>)
    /\ UNCHANGED <<pool, clients, websocket_vars, recycled, engine>>

\* Mutant: a descriptor stays in the set of its route.
Unregistered_Late(n) == UNCHANGED m_connected_fds

Unregistered(n) ==
    m_connected_fds' = [r \in Routes |-> IF r = m_websocket_routes_by_fd[n]
                                         THEN m_connected_fds[r] \ {n} ELSE m_connected_fds[r]]

\* on_disconnect
RunDisconnect ==
    /\ RunsTask("disconnect", <<>>)
    /\ LET n == Head(tasks).arg IN
       /\ m_websocket_connections_by_fd' = [m_websocket_connections_by_fd EXCEPT ![n] = NoOne]
       /\ Unregistered(n)
       /\ m_websocket_routes_by_fd' = [m_websocket_routes_by_fd EXCEPT ![n] = NoOne]
    /\ UNCHANGED <<pool, clients, upgrade_request, recycled, engine>>

\* The callback of OrderManager or OrderBookManager, on their thread: a write
\* is posted for each descriptor of the route.
Broadcast(r) ==
    /\ broadcasts < MaxBroadcasts /\ m_connected_fds[r] # {}
    /\ broadcasts' = broadcasts + 1
    /\ LET fds == SetToSeq(m_connected_fds[r]) IN
       tasks' = tasks \o [i \in DOMAIN fds |-> Task("write", NoOne, [fd |-> fds[i], route |-> r])]
    /\ UNCHANGED <<pool, clients, loop, websocket_vars, recycled, engine>>

\* write_to_connection_task and write_text: the frame is written, or lost when
\* the socket takes no more.
RunWrite ==
    /\ RunsTask("write", <<>>)
    /\ LET o == m_websocket_connections_by_fd[Head(tasks).arg.fd]
           r == Head(tasks).arg.route
       IN  \/ /\ o # NoOne /\ stage[o] = "open" /\ client[o] \notin away
              /\ Gets(client[o], [to |-> client[o], status |-> r])
           \/ UNCHANGED received
    /\ UNCHANGED <<pool, backlog, inbox, served, websocket_vars, recycled, engine>>

-----------------------------------------------------------------------------
Running == engine = "running"

ClientSends(c) ==
    /\ units[c] < MaxUnits /\ units' = [units EXCEPT ![c] = @ + 1]
    /\ \E u \in CASE units[c] = 0 -> {"hello"}
                  [] units[c] > 0 /\ kind = "https" -> HttpsUnits
                  [] units[c] = 1 /\ kind = "websocket" -> {"upgrade", "close"}
                  [] OTHER -> {"text", "ping", "close"} : Sends(c, u)

\* A connection that cannot be activated is closed as any other.
ClosesAtOnce ==
    \/ kind = "https" /\ ActivateFails(Held, 0, <<>>)
    \/ kind = "websocket" /\ available # <<>>
       /\ ActivateFails(Held, Lowest(FreeFds), <<Task("disconnect", Head(available), Lowest(FreeFds))>>)

Shared ==
    \/ \E c \in Clients : Connect(c) \/ HangsUp(c)
    \/ EpollWait \/ StartDrain
    \/ AcquireThrows \/ Accept(Held) \/ AcceptFails(Held) \/ ClosesAtOnce
    \/ \E o \in Objects : Handshake(o) \/ StaleEvent(o)

Websocket ==
    \/ \E o \in Objects : WsDisconnect(o) \/ HandleUpgrade(o) \/ HandleFrame(o)
    \/ RunConnect \/ RunMessage \/ RunDisconnect \/ RunWrite

Next ==
    /\ \/ Running /\ (\/ Shared /\ UNCHANGED <<https_vars, websocket_vars, broadcasts, units>>
                      \/ (\E c \in Clients : ClientSends(c)) /\ UNCHANGED <<https_vars, websocket_vars, broadcasts>>
                      \/ kind = "https" /\ HttpsServerNext /\ UNCHANGED <<websocket_vars, broadcasts, units>>
                      \/ kind = "websocket" /\ Websocket /\ UNCHANGED <<https_vars, broadcasts, units>>
                      \/ kind = "websocket" /\ (\E r \in Routes : Broadcast(r)) /\ UNCHANGED <<https_vars, units>>)
       \/ UNCHANGED <<server_vars, https_vars, websocket_vars, broadcasts, units>>
    /\ UNCHANGED <<kind, asks>>

Spec == Init /\ [][Next]_vars

-----------------------------------------------------------------------------
(* Properties *)

\* When no task is left, a descriptor is in the set of a route exactly when an
\* open connection of a client that was let in there has it.
RegistryAgrees ==
    tasks = <<>> /\ ~recycled /\ kind = "websocket" =>
        \A r \in Routes : m_connected_fds[r] =
            {fd[o] : o \in {x \in Objects : stage[x] = "open" /\ asks[client[x]] = [route |-> r, valid |-> TRUE]}}

\* A client only gets broadcasts of the route it asked for, with a valid token,
\* although broadcasts name a descriptor number, which may be another client's
\* by the time they are written.
RouteOnly ==
    ~recycled => \A c \in Clients : \A x \in received[c] :
        x.status \in Routes => asks[c] = [route |-> x.status, valid |-> TRUE]

\* The clients of a route are those who were let in there, in the registry of
\* the route and in what they are sent, unless an object was recycled while an
\* event of the same batch still meant its old connection.
RoutesKept == RegistryAgrees /\ RouteOnly
=============================================================================
