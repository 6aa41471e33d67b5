---------------------------- MODULE HttpsClient ----------------------------
(***************************************************************************)
(* core/network/https_client_request: requests and their responses over a  *)
(* TCPConnection.                                                          *)
(*                                                                         *)
(* A request is written at once and its future queued; the responses the   *)
(* parser completes answer the futures in order, and a disconnect answers  *)
(* every one of them with an error.  A response is two units, its header   *)
(* and its body, so that a read, or a disconnect, may come between them.   *)
(*                                                                         *)
(* The client is a member of its user (the futures quoter) and takes       *)
(* requests while others are pending, or a local variable of a coroutine   *)
(* (the spot quoter), destroyed when that coroutine has its answer.        *)
(***************************************************************************)
EXTENDS TcpConnection, SequencesExt

CONSTANT Requests

VARIABLES
    local,                \* the client is a local variable of its one caller
    answers,              \* what each request's caller has been told
    m_response_futures,   \* requests not answered yet, oldest first
    m_current_response,   \* whose header is parsed and whose body is not there
    to_send,              \* units the peer has not sent yet
    torn,                 \* history: a disconnect came between the two units
    engine                \* "running", or "undefined" after a stale pointer

parser == <<m_response_futures, m_current_response, torn>>
https_vars == <<tcp_vars, local, answers, parser, to_send, engine>>

Idle == "idle"            \* not called yet
Pending == "pending"      \* called and not answered
Error == "error"          \* create_error_response
Nobody == "nobody"

HttpsInit ==
    /\ TcpInit
    /\ local \in BOOLEAN
    /\ answers = [r \in Requests |-> Idle]
    /\ m_response_futures = <<>> /\ m_current_response = Nobody
    /\ to_send = <<>> /\ torn = FALSE /\ engine = "running"

Head_(r) == [of |-> r, part |-> "head"]
Body(r) == [of |-> r, part |-> "body"]

-----------------------------------------------------------------------------
(* The caller *)

\* get, post, put and del: a coroutine that runs as a task of the event base.
\* A local client serves one request.
Call(r) ==
    /\ answers[r] = Idle
    /\ local => \A q \in Requests : answers[q] = Idle
    /\ answers' = [answers EXCEPT ![r] = Pending]
    /\ tasks' = Append(tasks, Task("send", r))
    /\ UNCHANGED <<io, writing, edges, loop, socket, reading, asleep>>
    /\ UNCHANGED <<local, parser, to_send, engine>>

\* What follows from answering the requests of qs: a local client's caller resumes.
Resumes(qs) == IF local /\ qs # {} THEN <<Task("resume", 0)>> ELSE <<>>
Answer(qs, f(_)) == answers' = [r \in Requests |-> IF r \in qs THEN f(r) ELSE answers[r]]

\* send_request
RunSend ==
    /\ tasks # <<>>
    /\ LET r == Head(tasks).arg IN
       \/ /\ io = "none" /\ RunsTask("send", Resumes({r}))
          /\ Answer({r}, LAMBDA q : Error)
          /\ UNCHANGED <<writing, edges, sndbuf, m_response_futures>>
       \/ /\ io # "none" /\ RunsTask("send", <<>>)
          /\ Write(r) /\ m_response_futures' = Append(m_response_futures, r)
          /\ UNCHANGED answers
    /\ UNCHANGED <<io, rcvbuf, peer, reading, asleep>>
    /\ UNCHANGED <<local, m_current_response, torn, to_send, engine>>

\* The caller of a local client resumes, and the client goes out of scope: the
\* destructors of the client, the connection and the I/O object end in del_fd.
\* An event of the descriptor that waits in the same batch has the address of
\* the object that is gone.
RunDestroy ==
    /\ RunsTask("resume", <<>>)
    /\ engine' = IF "fd" \in Range(batch') THEN "undefined" ELSE "gone"
    /\ UNCHANGED <<io, writing, edges, socket, reading, asleep>>
    /\ UNCHANGED <<local, answers, parser, to_send>>

-----------------------------------------------------------------------------
(* wait_for_tcp_data *)

\* The first co_await of the coroutine.
RunWait ==
    /\ RunsTask("wait", DataPosted) /\ AwaitsData
    /\ UNCHANGED <<io, writing, edges, socket, asleep>>
    /\ UNCHANGED <<local, answers, parser, to_send, engine>>

\* parse_all over the units of a chunk: the responses it completes, by the
\* request they belong to.  A header that is waiting for its body takes the
\* bytes that come next for it, whatever they are.
ParseUnit(state, u) ==
    IF state.current # Nobody
    THEN [current |-> Nobody, done |-> Append(state.done, state.current)]
    ELSE [state EXCEPT !.current = u.of]

parse_all(chunk) ==
    FoldLeft(ParseUnit, [current |-> m_current_response, done |-> <<>>], chunk)

\* Mutant: all the responses of a chunk go to the request that asked first.
Answered_First(responses) ==
    IF responses = <<>> THEN UNCHANGED answers
    ELSE Answer({Head(m_response_futures)}, LAMBDA q : Last(responses))

\* Each response answers the oldest future, as long as there is one.
Answered(responses) ==
    LET n == Len(responses)
        front == SubSeq(m_response_futures, 1, n)
        place(r) == CHOOSE i \in 1 .. n : front[i] = r
    IN  Answer(Range(front), LAMBDA r : responses[place(r)])

RunData ==
    /\ tasks # <<>> /\ Head(tasks).op = "data"
    /\ LET parsed == parse_all(Head(tasks).arg)
           taken == SubSeq(parsed.done, 1, IF Len(parsed.done) < Len(m_response_futures)
                                           THEN Len(parsed.done) ELSE Len(m_response_futures))
       IN  /\ m_current_response' = parsed.current
           /\ Answered(taken)
           /\ m_response_futures' = SubSeq(m_response_futures, Len(taken) + 1, Len(m_response_futures))
           /\ RunsTask("data", Resumes(Range(taken)) \o DataPosted)
    /\ AwaitsData
    /\ UNCHANGED <<io, writing, edges, socket, asleep>>
    /\ UNCHANGED <<local, torn, to_send, engine>>

\* HttpsClientRequest::on_disconnect.  The parser keeps what it has.
OnDisconnect ==
    /\ Answer(Range(m_response_futures), LAMBDA r : Error)
    /\ m_response_futures' = <<>>

\* Chunks read and not parsed yet, oldest first, and whether what has been read
\* of this connection ends between a header and its body.
Unparsed ==
    LET data == SelectSeq(tasks, LAMBDA t : t.op = "data")
    IN  [i \in DOMAIN data |-> data[i].arg] \o m_pending_data_queue

MidResponse == IF Unparsed = <<>> THEN m_current_response # Nobody
                                  ELSE Last(Last(Unparsed)).part = "head"

\* The connection breaks, and the peer's units under way are lost.
Disconnect ==
    /\ Breaks
    /\ Disconnected(Resumes(Range(m_response_futures)))
    /\ OnDisconnect
    /\ torn' = (torn \/ MidResponse)
    /\ to_send' = <<>>
    /\ UNCHANGED <<local, m_current_response, engine>>

-----------------------------------------------------------------------------
(* The server at the other end answers in the order of the requests *)

TakesRequest ==
    /\ PeerTakes
    /\ to_send' = to_send \o <<Head_(Head(sndbuf)), Body(Head(sndbuf))>>
    /\ UNCHANGED <<local, answers, parser, engine>>

SendsUnit ==
    /\ to_send # <<>> /\ PeerSends(Head(to_send)) /\ to_send' = Tail(to_send)
    /\ UNCHANGED <<local, answers, parser, engine>>
=============================================================================
