---------------------------- MODULE HttpsServer ----------------------------
(***************************************************************************)
(* core/system_io/https_server_io with core/network/https_server: requests *)
(* over the connections of PooledServer.                                   *)
(*                                                                         *)
(* A request is complete when its body is (a first part is kept in         *)
(* save_buffer); it is handled by a coroutine that keeps the connection    *)
(* object, not the connection, and may wait for other event bases before   *)
(* it writes the response.                                                 *)
(***************************************************************************)
EXTENDS PooledServer

VARIABLES
    save_buffer,     \* objects that hold the first part of a request
    handling         \* requests whose handler waits: [object, client]

https_vars == <<save_buffer, handling>>

HttpsServerInit == save_buffer = {} /\ handling = {}

\* HttpsSocketConnection::release and refresh
Release(o) == DelFd(o, 0) /\ save_buffer' = save_buffer \ {o}

\* The client is gone: read says so, or the mask of the event, which may mean
\* the client before when the object was released and taken in the same batch.
Disconnect(o) ==
    /\ Event(o) /\ (HungUp(o) \/ o \in hup)
    /\ Release(o)
    /\ UNCHANGED <<clients, tasks, handling, recycled, engine>>

\* HttpSocketConnection::handle_read.  A unit is a request, its first or second
\* part, or a part of a TLS record, which reads as nothing: nothing, after
\* nothing, is no request, and is answered with 404.
HandleRead(o) ==
    /\ Event(o) /\ stage[o] = "ready" /\ Reads(o)
    /\ LET kept == o \in save_buffer
           posted == CASE Unit(o) = "request" -> "request"
                       [] Unit(o) = "second" -> IF kept THEN "request" ELSE "404"
                       [] Unit(o) = "record" -> IF kept THEN "none" ELSE "404"
                       [] OTHER -> "none"
       IN  /\ tasks' = IF posted = "none" THEN tasks
                       ELSE Append(tasks, Task(posted, o, client[o]))
           /\ save_buffer' = IF posted = "none" THEN save_buffer \cup {o} ELSE save_buffer \ {o}
    /\ UNCHANGED <<pool, backlog, received, served, handling, recycled, engine>>

\* What write_to_socket_io of an object leads to: the client at its other end
\* gets the response, the response is lost when TLS asks to try again, or the
\* write fails and the connection is closed.  An object without a connection
\* has no TLS, and its descriptor is -1.  Of the first parts, buffer is left.
WriteTo(o, response, buffer) ==
    \/ /\ Live(o) /\ client[o] \notin away /\ Gets(client[o], response)
       /\ save_buffer' = buffer /\ UNCHANGED pool
    \/ Live(o) /\ save_buffer' = buffer /\ UNCHANGED <<received, pool>>
    \/ Release(o) /\ UNCHANGED received

\* send_404_response, which cleans the save buffer, whatever came meanwhile
Run404 ==
    /\ RunsTask("404", <<>>)
    /\ WriteTo(Head(tasks).object, [to |-> Head(tasks).arg, status |-> 404],
               save_buffer \ {Head(tasks).object})
    /\ UNCHANGED <<backlog, inbox, served, handling, recycled, engine>>

\* execute_request, up to the co_await of the handler
RunRequest ==
    /\ RunsTask("request", <<>>)
    /\ handling' = handling \cup {[object |-> Head(tasks).object, client |-> Head(tasks).arg]}
    /\ UNCHANGED <<pool, clients, save_buffer, recycled, engine>>

\* The handler has returned, on this or another thread.
HandlerReturns(h) ==
    /\ h \in handling /\ handling' = handling \ {h}
    /\ tasks' = Append(tasks, Task("reply", h.object, h.client))
    /\ UNCHANGED <<pool, clients, loop, save_buffer, recycled, engine>>

RunReply ==
    /\ RunsTask("reply", <<>>)
    /\ WriteTo(Head(tasks).object, [to |-> Head(tasks).arg, status |-> 200], save_buffer)
    /\ UNCHANGED <<backlog, inbox, served, handling, recycled, engine>>

HttpsUnits == {"request", "first", "second", "record"}

Held == {tasks[i].object : i \in DOMAIN tasks} \cup {h.object : h \in handling}

HttpsServerNext ==
    \/ \E o \in Objects : Disconnect(o) \/ HandleRead(o)
    \/ Run404 \/ RunRequest \/ RunReply
    \/ \E h \in handling : HandlerReturns(h)

\* A response goes to the client that asked, however long its handler waits.
\* The coroutine that answers keeps the object: when the client has gone by
\* then, and only then, the response goes to a client that was given the same
\* object since, and never to one that merely has the descriptor.
OwnResponse ==
    \A c \in Clients : \A r \in received[c] :
        r.to = c \/ (r.to \in away /\ served[r.to] = served[c])
=============================================================================
