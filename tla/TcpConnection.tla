--------------------------- MODULE TcpConnection ---------------------------
(***************************************************************************)
(* core/network/tcp_connection on core/system_io: one TLS connection of a  *)
(* client and the epoll loop that serves it.                               *)
(*                                                                         *)
(* A TCPConnection owns an I/O object (HttpsClientRequestIO) registered    *)
(* with epoll, edge-triggered.  Data written before the handshake is done  *)
(* waits in m_write_queue; data read is handed to whoever awaits           *)
(* wait_for_data, or queued.  When the object is released, the connection  *)
(* is made again five seconds later.                                       *)
(*                                                                         *)
(* Everything runs on the one thread of an event base: the tasks of its    *)
(* queue, drained when the base's eventfd is reported, and the events of   *)
(* the connection's descriptor.  A datum is one write of the client or one *)
(* unit of the peer's stream; a chunk is what one read finds.              *)
(***************************************************************************)
EXTENDS Naturals, Sequences

CONSTANT Room      \* data the socket's send buffer takes

ASSUME RoomAssumption == Room \in Nat

VARIABLES
    io,             \* m_io_object: "none", "connecting", "handshaking", "open"
    m_write_queue, m_write_event_enabled,
    out_interest,   \* EPOLLOUT is among the events the kernel watches
    edges,          \* what has happened to the descriptor and is not reported
    reported,       \* events of the descriptor in the current batch
    batch,          \* entries of the current epoll_wait not handled yet
    tasks,          \* task events of the event base
    sndbuf, rcvbuf, \* the socket's buffers
    peer,           \* the other end: "none", "up", "closed"
    m_waiting_data_value,   \* somebody awaits data
    m_pending_data_queue,
    asleep,         \* how many re_connect tasks are in sleep_for
    dropped         \* history: data that write gave up

socket == <<sndbuf, rcvbuf, peer>>
writing == <<m_write_queue, m_write_event_enabled, out_interest, dropped>>
reading == <<m_waiting_data_value, m_pending_data_queue>>
loop == <<reported, batch>>
tcp_vars == <<io, writing, edges, loop, tasks, socket, reading, asleep>>

Hello == [of |-> "hello", part |-> "hello"]      \* the peer's part of the handshake

\* The TCPConnection as its constructor leaves it: connect() has run and the
\* coroutine that awaits data is about to start.
TcpInit ==
    /\ io = "connecting"
    /\ m_write_queue = <<>> /\ m_write_event_enabled = FALSE /\ out_interest = TRUE
    /\ edges = {} /\ reported = {} /\ batch = <<>>
    /\ sndbuf = <<>> /\ rcvbuf = <<>> /\ peer = "none"
    /\ m_waiting_data_value = FALSE /\ m_pending_data_queue = <<>>
    /\ asleep = 0 /\ dropped = {}

Writable == io # "connecting" /\ Len(sndbuf) < Room

-----------------------------------------------------------------------------
(* The peer and the network *)

\* What the kernel notes on data from the peer: the descriptor is readable,
\* and writable too if that is watched.
InEdge == {"IN"} \cup (IF out_interest /\ Writable THEN {"OUT"} ELSE {})

\* The connection is established, or refused.
PeerAccepts ==
    /\ io = "connecting" /\ peer = "none"
    /\ peer' = "up" /\ edges' = edges \cup {"OUT"}
    /\ UNCHANGED <<io, writing, loop, tasks, sndbuf, rcvbuf, reading, asleep>>

PeerRefuses ==
    /\ io = "connecting" /\ peer = "none"
    /\ peer' = "closed" /\ edges' = edges \cup {"HUP"}
    /\ UNCHANGED <<io, writing, loop, tasks, sndbuf, rcvbuf, reading, asleep>>

PeerHello ==
    /\ io = "handshaking" /\ peer = "up" /\ rcvbuf = <<>>
    /\ rcvbuf' = <<Hello>> /\ edges' = edges \cup InEdge
    /\ UNCHANGED <<io, writing, loop, tasks, sndbuf, peer, reading, asleep>>

\* The peer takes the oldest datum; a full buffer becomes writable again.
PeerTakes ==
    /\ peer = "up" /\ sndbuf # <<>>
    /\ sndbuf' = Tail(sndbuf)
    /\ edges' = IF Len(sndbuf) = Room /\ out_interest THEN edges \cup {"OUT"} ELSE edges
    /\ UNCHANGED <<io, writing, loop, tasks, rcvbuf, peer, reading, asleep>>

PeerSends(u) ==
    /\ io = "open" /\ peer = "up"
    /\ rcvbuf' = Append(rcvbuf, u) /\ edges' = edges \cup InEdge
    /\ UNCHANGED <<io, writing, loop, tasks, sndbuf, peer, reading, asleep>>

PeerCloses ==
    /\ peer = "up"
    /\ peer' = "closed" /\ edges' = edges \cup {"HUP"}
    /\ UNCHANGED <<io, writing, loop, tasks, sndbuf, rcvbuf, reading, asleep>>

-----------------------------------------------------------------------------
(* EpollBase::loop *)

\* One batch: the eventfd of the tasks and the descriptor, in either order.
EpollWait ==
    /\ batch = <<>>
    /\ LET fd == IF edges # {} THEN {"fd"} ELSE {}
           task == IF tasks # <<>> THEN {"task"} ELSE {}
       IN  \/ \E e \in fd \cup task : fd \cup task = {e} /\ batch' = <<e>>
           \/ fd \cup task = {"fd", "task"} /\ batch' \in {<<"fd", "task">>, <<"task", "fd">>}
    /\ reported' = edges /\ edges' = {}
    /\ UNCHANGED <<io, writing, tasks, socket, reading, asleep>>

\* The next task of the drain runs and posts the tasks given; the drain ends
\* with the queue empty.
RunsTask(op, posted) ==
    /\ batch # <<>> /\ Head(batch) = "task"
    /\ tasks # <<>> /\ Head(tasks).op = op
    /\ tasks' = Tail(tasks) \o posted
    /\ batch' = IF tasks' = <<>> THEN Tail(batch) ELSE batch
    /\ UNCHANGED reported

Task(op, arg) == [op |-> op, arg |-> arg]

-----------------------------------------------------------------------------
(* SystemIOObject: writing *)

\* enable_write_event: the modification of the events re-arms the descriptor.
EnableWriteEvent ==
    /\ m_write_event_enabled' = TRUE
    /\ out_interest' = (out_interest \/ ~m_write_event_enabled)
    /\ edges' = IF ~m_write_event_enabled /\ Writable /\ peer # "none"
                THEN edges \cup {"OUT"} ELSE edges

\* SystemIOObject::write on an I/O object that exists.  TLS takes a datum as a
\* whole or answers 0, which is none of the cases that queue it.
Write(d) ==
    \/ /\ m_write_queue # <<>> \/ io # "open"
       /\ m_write_queue' = Append(m_write_queue, d) /\ EnableWriteEvent
       /\ UNCHANGED <<sndbuf, dropped>>
    \/ /\ m_write_queue = <<>> /\ io = "open"
       /\ IF Len(sndbuf) < Room
          THEN sndbuf' = Append(sndbuf, d) /\ UNCHANGED dropped
          ELSE dropped' = dropped \cup {d} /\ UNCHANGED sndbuf
       /\ UNCHANGED <<m_write_queue, m_write_event_enabled, out_interest, edges>>

\* check_to_write when everything queued fits: the queue goes out and EPOLLOUT
\* is no longer watched.
Fits == Len(sndbuf) + Len(m_write_queue) =< Room

\* Mutant: the queue is written from its back.
CheckToWrite_Back ==
    /\ sndbuf' = sndbuf \o [i \in DOMAIN m_write_queue |->
                               m_write_queue[Len(m_write_queue) + 1 - i]]
    /\ m_write_queue' = <<>>
    /\ m_write_event_enabled' = FALSE
    /\ out_interest' = (out_interest /\ ~m_write_event_enabled)

\* Mutant: the queue is not flushed by the event that ends the handshake.
CheckToWrite_NotYet ==
    /\ m_write_event_enabled' = FALSE
    /\ out_interest' = (out_interest /\ ~m_write_event_enabled)
    /\ UNCHANGED <<sndbuf, m_write_queue>>

CheckToWrite ==
    /\ sndbuf' = sndbuf \o m_write_queue /\ m_write_queue' = <<>>
    /\ m_write_event_enabled' = FALSE
    /\ out_interest' = (out_interest /\ ~m_write_event_enabled)

-----------------------------------------------------------------------------
(* HttpsClientRequestIO and TCPConnection: events of the descriptor *)

EventOf(events) == batch # <<>> /\ Head(batch) = "fd" /\ reported \cap events # {}
EventHandled == batch' = Tail(batch) /\ reported' = {}

\* del_fd, release and TCPConnection::on_disconnect: the object is gone, and
\* re_connect starts, after what the user's on_disconnect has posted.  What it
\* had not written or read is gone too.
Disconnected(posted) ==
    /\ EventHandled
    /\ io' = "none" /\ peer' = "none" /\ sndbuf' = <<>> /\ rcvbuf' = <<>>
    /\ edges' = {} /\ m_write_queue' = <<>> /\ m_write_event_enabled' = FALSE
    /\ out_interest' = TRUE
    /\ tasks' = tasks \o posted \o <<Task("re_connect", 0)>>
    /\ UNCHANGED <<reading, asleep, dropped>>

\* An error or hang-up comes before anything that could still be read; TLS may
\* fail in the handshake; a queue that does not fit counts as an error.
Breaks == \/ EventOf({"HUP"})
          \/ EventOf({"IN", "OUT"}) /\ io = "handshaking"
          \/ EventOf({"OUT"}) /\ io = "open" /\ ~Fits

\* check_connect_and_handshake on the first event: TCP is connected, and the
\* handshake has been started.
HandleConnected ==
    /\ EventOf({"IN", "OUT"}) /\ "HUP" \notin reported /\ io = "connecting"
    /\ io' = "handshaking" /\ EventHandled
    /\ UNCHANGED <<writing, edges, tasks, socket, reading, asleep>>

HandleHandshaking ==
    /\ EventOf({"IN", "OUT"}) /\ "HUP" \notin reported
    /\ io = "handshaking" /\ rcvbuf = <<>>
    /\ EventHandled
    /\ UNCHANGED <<io, writing, edges, tasks, socket, reading, asleep>>

\* The handshake is done and on_connect posts the tasks given; if the event says
\* writable as well, handle_write follows and sends what was queued.
HandleHandshakeDone(posted) ==
    /\ EventOf({"IN", "OUT"}) /\ "HUP" \notin reported
    /\ io = "handshaking" /\ rcvbuf = <<Hello>>
    /\ io' = "open" /\ rcvbuf' = <<>> /\ EventHandled
    /\ tasks' = tasks \o posted
    /\ IF "OUT" \in reported THEN Fits /\ CheckToWrite
                             ELSE UNCHANGED <<sndbuf, m_write_queue, m_write_event_enabled, out_interest>>
    /\ UNCHANGED <<edges, peer, reading, asleep, dropped>>

\* Mutant: a chunk nobody waits for is let go.
Received_Drops(chunk) ==
    /\ tasks' = IF m_waiting_data_value THEN Append(tasks, Task("data", chunk)) ELSE tasks
    /\ m_waiting_data_value' = FALSE /\ UNCHANGED m_pending_data_queue

\* on_response_received: the chunk resumes the coroutine that waits for data.
Received(chunk) ==
    IF m_waiting_data_value
    THEN /\ tasks' = Append(tasks, Task("data", chunk))
         /\ m_waiting_data_value' = FALSE /\ UNCHANGED m_pending_data_queue
    ELSE m_pending_data_queue' = Append(m_pending_data_queue, chunk)
         /\ UNCHANGED <<tasks, m_waiting_data_value>>

\* handle_read_data, then check_to_write if the event says so.
HandleData ==
    /\ EventOf({"IN", "OUT"}) /\ "HUP" \notin reported /\ io = "open"
    /\ EventHandled
    /\ IF "IN" \in reported /\ rcvbuf # <<>>
       THEN Received(rcvbuf) /\ rcvbuf' = <<>>
       ELSE UNCHANGED <<tasks, reading, rcvbuf>>
    /\ IF "OUT" \in reported THEN Fits /\ CheckToWrite
                             ELSE UNCHANGED <<sndbuf, m_write_queue, m_write_event_enabled, out_interest>>
    /\ UNCHANGED <<io, edges, peer, asleep, dropped>>

\* wait_for_data, called by a task: queued data is there at once.  posted is
\* what the task posts besides.
AwaitsData ==
    IF m_pending_data_queue # <<>>
    THEN /\ m_pending_data_queue' = Tail(m_pending_data_queue)
         /\ UNCHANGED m_waiting_data_value
    ELSE m_waiting_data_value' = TRUE /\ UNCHANGED m_pending_data_queue

DataPosted ==
    IF m_pending_data_queue # <<>> THEN <<Task("data", Head(m_pending_data_queue))>>
                                   ELSE <<>>

-----------------------------------------------------------------------------
(* TCPConnection::re_connect *)

RunReConnect ==
    /\ RunsTask("re_connect", <<>>)
    /\ asleep' = asleep + 1
    /\ UNCHANGED <<io, writing, edges, socket, reading>>

\* The timer's event base resumes re_connect.
TimerFires ==
    /\ asleep > 0
    /\ asleep' = asleep - 1 /\ tasks' = Append(tasks, Task("connect", 0))
    /\ UNCHANGED <<io, writing, edges, loop, socket, reading>>

\* connect(): a new object, unless ::connect fails at once, which releases it
\* and starts re_connect again.
RunConnect ==
    /\ RunsTask("connect", <<>>)
    /\ io' = "connecting" /\ edges' = {}
    /\ UNCHANGED <<writing, socket, reading, asleep>>

RunConnectFails ==
    /\ RunsTask("connect", <<Task("re_connect", 0)>>)
    /\ UNCHANGED <<io, writing, edges, socket, reading, asleep>>
=============================================================================
