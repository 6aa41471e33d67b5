-------------------------- MODULE WebsocketClient --------------------------
(***************************************************************************)
(* core/network/https_client_websocket: a websocket on a TCPConnection.    *)
(*                                                                         *)
(* The connection moves from the HttpsClientWebsocket to a request object  *)
(* that asks to switch protocols, and from there to the session, whose     *)
(* coroutine hands text frames to on_message and answers pings.  Frames    *)
(* are units of the peer's stream (their bytes are in WebsocketFrame).     *)
(*                                                                         *)
(* on_tcp_disconnect reads the port from m_tcp_connection, which is null   *)
(* as soon as connect() has moved it: the process ends.                    *)
(*                                                                         *)
(* The runs check both users of a connection, chosen in Init: a REST       *)
(* client (ws = "none") and a websocket.                                   *)
(***************************************************************************)
EXTENDS HttpsClient

CONSTANTS MaxFrames,       \* bound: frames the peer sends
          Switch           \* the request to switch protocols, one of Requests

ASSUME SwitchAssumption == Switch \in Requests /\ MaxFrames \in Nat

VARIABLES
    ws,          \* who holds the connection: "none" (a REST client), "tcp",
                 \* "rest", "starting" or "session", or "closed" after a Close
    sent,        \* frames the peer has sent, numbered
    handled,     \* numbers of the frames the session has handled
    missed,      \* history: frames that came with the answer to the switch
    pinging      \* send_ping_at_15_second_interval sleeps

ws_vars == <<ws, sent, handled, missed, pinging>>
vars == <<https_vars, ws_vars>>

Init ==
    /\ HttpsInit
    /\ sent = 0 /\ handled = <<>> /\ missed = 0 /\ pinging = FALSE
    /\ \/ ws = "none" /\ tasks = <<Task("wait", 0)>>
       \/ ws = "tcp" /\ tasks = <<>> /\ ~local

Frame(kind, n) == [of |-> kind, part |-> "frame", n |-> n]
Switched == [of |-> Switch, part |-> "body"]     \* the answer has no body to wait for

Rest(A) == ws = "none" /\ A /\ UNCHANGED ws_vars
Running == engine = "running"

-----------------------------------------------------------------------------
(* HttpsClientWebsocket: connect and send_switch_protocol_request *)

\* on_tcp_connect
WsHandshakeDone ==
    /\ ws = "tcp" /\ HandleHandshakeDone(<<Task("ws_connect", 0)>>)
    /\ UNCHANGED <<local, answers, parser, to_send, engine, ws_vars>>

\* connect(): the request object takes the connection, its coroutine starts to
\* wait for data and the request follows it.
RunWsConnect ==
    /\ RunsTask("ws_connect", <<Task("wait", 0), Task("send", Switch)>>)
    /\ ws' = "rest" /\ answers' = [answers EXCEPT ![Switch] = Pending]
    /\ UNCHANGED <<io, writing, edges, socket, reading, asleep>>
    /\ UNCHANGED <<local, parser, to_send, engine, sent, handled, missed, pinging>>

\* The data the request object reads.  The answer resumes connect(); frames
\* behind it are only logged, whatever the status is.
RunSwitchData ==
    /\ tasks # <<>> /\ Head(tasks).op = "data" /\ ws \in {"rest", "starting"}
    /\ LET chunk == Head(tasks).arg
           frames == SelectSeq(chunk, LAMBDA u : u.part = "frame")
           answered == ws = "rest" /\ m_response_futures # <<>> /\ Len(chunk) > Len(frames)
       IN  /\ missed' = missed + Len(frames)
           /\ m_response_futures' = IF answered THEN <<>> ELSE m_response_futures
           /\ answers' = [answers EXCEPT ![Switch] = IF answered THEN Switch ELSE @]
           /\ \* a request object that is destroyed does not wait again
              IF ws = "rest"
              THEN /\ AwaitsData
                   /\ RunsTask("data", (IF answered THEN <<Task("session", 0)>> ELSE <<>>) \o DataPosted)
              ELSE RunsTask("data", <<>>) /\ UNCHANGED reading
    /\ UNCHANGED <<io, writing, edges, socket, asleep>>
    /\ UNCHANGED <<local, m_current_response, torn, to_send, engine>>
    /\ UNCHANGED <<ws, sent, handled, pinging>>

\* The rest of connect(): the session takes the connection, and its coroutine
\* and the user's on_connect are posted.
RunSession ==
    /\ RunsTask("session", <<Task("wait", 0), Task("on_connect", 0)>>)
    /\ ws' = "starting"
    /\ UNCHANGED <<io, writing, edges, socket, reading, asleep>>
    /\ UNCHANGED <<local, answers, parser, to_send, engine, sent, handled, missed, pinging>>

\* wait_for_tcp_data of the request object, or of the session.  The FutureValue
\* of the request object that is overwritten only releases its coroutine.
RunWsWait ==
    /\ ws # "none"
    /\ RunsTask("wait", DataPosted) /\ AwaitsData
    /\ ws' = IF ws = "starting" THEN "session" ELSE ws
    /\ UNCHANGED <<io, writing, edges, socket, asleep>>
    /\ UNCHANGED <<local, answers, parser, to_send, engine, sent, handled, missed, pinging>>

\* on_connect subscribes, and the ping coroutine starts.
RunOnConnect ==
    /\ RunsTask("on_connect", <<>>) /\ Write("subscribe")
    /\ pinging' = TRUE
    /\ UNCHANGED <<io, rcvbuf, peer, reading, asleep>>
    /\ UNCHANGED <<local, answers, parser, to_send, engine, ws, sent, handled, missed>>

PingTimer ==
    /\ pinging /\ pinging' = FALSE
    /\ tasks' = Append(tasks, Task("ping", 0))
    /\ UNCHANGED <<io, writing, edges, loop, socket, reading, asleep>>
    /\ UNCHANGED <<local, answers, parser, to_send, engine, ws, sent, handled, missed>>

RunPing ==
    /\ RunsTask("ping", <<>>) /\ Write("ping")
    /\ pinging' = TRUE
    /\ UNCHANGED <<io, rcvbuf, peer, reading, asleep>>
    /\ UNCHANGED <<local, answers, parser, to_send, engine, ws, sent, handled, missed>>

-----------------------------------------------------------------------------
(* HttpsClientWebsocketSession::wait_for_tcp_data *)

\* One frame; the coroutine then goes on with the frames of the chunk or awaits
\* data.  After a Close it returns, and the session stays.
RunFrame ==
    /\ ws = "session" /\ tasks # <<>> /\ Head(tasks).op = "data"
    /\ LET frame == Head(Head(tasks).arg)
           rest == Tail(Head(tasks).arg)
           closes == frame.of = "close"
       IN  /\ IF closes \/ rest # <<>>
              THEN /\ RunsTask("data", IF closes THEN <<>> ELSE <<Task("data", rest)>>)
                   /\ UNCHANGED reading
              ELSE RunsTask("data", DataPosted) /\ AwaitsData
           /\ handled' = Append(handled, frame.n)
           /\ IF frame.of = "text"
              THEN UNCHANGED <<writing, edges, sndbuf>>
              ELSE Write(IF closes THEN "close" ELSE "pong")
           /\ ws' = IF closes THEN "closed" ELSE ws
    /\ UNCHANGED <<io, rcvbuf, peer, asleep>>
    /\ UNCHANGED <<local, answers, parser, to_send, engine, sent, missed, pinging>>

\* on_tcp_disconnect
WsDisconnect ==
    /\ ws # "none" /\ Breaks
    /\ Disconnected(<<>>)
    /\ engine' = IF ws = "tcp" THEN "running" ELSE "crashed"
    /\ UNCHANGED <<local, answers, parser, to_send, ws_vars>>

-----------------------------------------------------------------------------
(* The peer *)

WsPeerTakes ==
    /\ ws # "none" /\ PeerTakes
    /\ to_send' = IF Head(sndbuf) = Switch THEN <<Switched>> ELSE to_send
    /\ UNCHANGED <<local, answers, parser, engine, ws_vars>>

WsPeerAnswers ==
    /\ ws # "none" /\ to_send # <<>> /\ PeerSends(Head(to_send)) /\ to_send' = <<>>
    /\ UNCHANGED <<local, answers, parser, engine, ws_vars>>

WsPeerFrame(kind) ==
    /\ ws # "none" /\ to_send = <<>> /\ sent < MaxFrames
    /\ answers[Switch] = Switch \/ Contains(rcvbuf \o FlattenSeq(Unparsed), Switched)
    /\ PeerSends(Frame(kind, sent + 1)) /\ sent' = sent + 1
    /\ UNCHANGED <<local, answers, parser, to_send, engine, ws, handled, missed, pinging>>

-----------------------------------------------------------------------------
ClientStep == RunSend \/ RunDestroy \/ RunWait \/ RunData \/ Disconnect
ServerStep == TakesRequest \/ SendsUnit

NoClient == UNCHANGED <<local, answers, parser, to_send, engine, ws_vars>>

Peer == PeerAccepts \/ PeerRefuses \/ PeerHello
Loop == \/ EpollWait \/ HandleConnected \/ HandleHandshaking \/ HandleData
        \/ RunReConnect \/ TimerFires \/ RunConnect \/ RunConnectFails
        \/ ws = "none" /\ HandleHandshakeDone(<<>>)

Next ==
    \/ /\ Running
       /\ \/ Rest(\E r \in Requests : Call(r))
          \/ Rest(ClientStep) \/ Rest(ServerStep)
          \/ (Loop \/ Peer \/ PeerCloses) /\ NoClient
          \/ WsHandshakeDone \/ RunWsConnect \/ RunSwitchData \/ RunSession
          \/ RunWsWait \/ RunOnConnect \/ PingTimer \/ RunPing \/ RunFrame \/ WsDisconnect
          \/ ws = "rest" /\ RunSend /\ UNCHANGED ws_vars
          \/ WsPeerTakes \/ WsPeerAnswers
          \/ \E kind \in {"text", "ping", "close"} : WsPeerFrame(kind)
    \/ ~Running /\ UNCHANGED vars

\* The loop and the timers run; a peer that is up goes on with its part of the
\* exchange, unless the connection breaks.
Fairness ==
    /\ WF_vars(Running /\ Loop /\ NoClient)
    /\ WF_vars(Running /\ Peer /\ NoClient)
    /\ WF_vars(Running /\ Rest(ClientStep))
    /\ WF_vars(Running /\ Rest(ServerStep))

Spec == Init /\ [][Next]_vars /\ Fairness

-----------------------------------------------------------------------------
(* Properties *)

TypeOK ==
    /\ io \in {"none", "connecting", "handshaking", "open"}
    /\ edges \cup reported \subseteq {"IN", "OUT", "HUP"}
    /\ batch \in {<<>>, <<"fd">>, <<"task">>, <<"fd", "task">>, <<"task", "fd">>}
    /\ Len(sndbuf) =< Room
    /\ engine \in {"running", "gone", "undefined", "crashed"}
    /\ ws \in {"none", "tcp", "rest", "starting", "session", "closed"}

\* A caller gets the response of its own request, or an error.  Responses are
\* matched by order alone, so this needs requests to reach the peer in the
\* order of the futures.  It is lost for good when a connection breaks between
\* the header and the body of a response, for the parser keeps the header.
OwnAnswer ==
    ~torn => \A r \in Requests : answers[r] \in {Idle, Pending, Error, r}

\* The futures that wait are those of the requests under way: responses being
\* read, then requests at the peer, in the send buffer, and in the queue, in
\* that order, as long as no write was dropped.
InFlight ==
    LET units == FlattenSeq(Unparsed) \o rcvbuf \o to_send
        bodies == SelectSeq(units, LAMBDA u : u.part = "body")
    IN  ws = "none" /\ io # "none" /\ ~torn /\ dropped = {} /\ Running =>
            m_response_futures = [i \in DOMAIN bodies |-> bodies[i].of] \o sndbuf \o m_write_queue

\* The session handles the frames in the order they were sent and without a
\* gap; only those that came before its coroutine waited are missed.
FramesInOrder == \A i \in DOMAIN handled : handled[i] = missed + i

\* Every request is answered in the end, with an error if the connection breaks;
\* there is no timeout, so a peer that is up must answer.
EveryRequestAnswered ==
    \A r \in Requests : ws = "none" =>
        (answers[r] = Pending ~> (answers[r] # Pending \/ torn \/ dropped # {} \/ ~Running))

\* What the reconnecting connection promises ("Retry connection after 5
\* seconds"): the engine survives a disconnect of a websocket.
SurvivesDisconnect == engine # "crashed"
=============================================================================
