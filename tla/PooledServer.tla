---------------------------- MODULE PooledServer ----------------------------
(***************************************************************************)
(* core/system_io/https_server_io and https_websocket_server_io: what the  *)
(* two servers share.                                                      *)
(*                                                                         *)
(* A listening socket and the connections it accepts are I/O objects of    *)
(* one EpollBase.  Connection objects come from a pool, oldest release     *)
(* first, and go back to it in del_fd; a descriptor number is the lowest   *)
(* one free, so both are used again by other clients.  An object whose     *)
(* accept fails is lost.  epoll_wait returns a batch of events, handled in *)
(* any order; the event of the task queue runs every task there is, so no  *)
(* other event comes in the middle.                                        *)
(***************************************************************************)
EXTENDS Naturals, Sequences, FiniteSets, SequencesExt

CONSTANTS Clients,      \* each connects once
          Objects,      \* connection objects; Init chooses how many the pool has
          Fds           \* descriptor numbers

VARIABLES
    available,    \* the pool, oldest release first
    fd,           \* fd of each object, 0 for -1
    client,       \* who is at the other end of each object's descriptor
    stage,        \* "pooled", "tls" (handshake), "ready", "open", "closing";
                  \* "lost" after a failed accept; "none" for an object that a
                  \* smaller pool does not have
    backlog,      \* clients not accepted yet
    inbox,        \* units each client has sent that are not read yet
    away,         \* clients that have hung up, or whose connection was closed
    served,       \* history: the object each client was accepted with
    batch,        \* events of the current epoll_wait not handled yet
    hup,          \* objects whose events in it say that the client is gone
    tasks,        \* tasks of the event base
    draining,     \* the event of the task queue is being handled
    received,     \* what each client has got
    recycled,     \* history: an object was taken while a coroutine still named it
    engine        \* "running", or "terminated" when the pool is empty

pool == <<available, fd, client, stage, away>>
clients == <<backlog, inbox, received, served>>
loop == <<batch, hup, draining>>
server_vars == <<pool, clients, loop, tasks, recycled, engine>>

NoOne == "no one"
Listen == "listen"
TaskFd == "task"
Task(op, o, arg) == [op |-> op, object |-> o, arg |-> arg]

\* 0 stands for no descriptor.  The limit on descriptors may be below the size
\* of the pool.
ASSUME FdsAssumption ==
    /\ IsFiniteSet(Objects) /\ IsFiniteSet(Fds) /\ Fds \subseteq Nat \ {0}
    /\ \A o \in Objects : o \notin {Listen, TaskFd, NoOne}

ServerInit ==
    /\ \E used \in SUBSET Objects \ {{}} :
          /\ available = SetToSeq(used)
          /\ stage = [o \in Objects |-> IF o \in used THEN "pooled" ELSE "none"]
    /\ fd = [o \in Objects |-> 0] /\ client = [o \in Objects |-> NoOne]
    /\ backlog = <<>> /\ inbox = [c \in Clients |-> <<>>] /\ away = {}
    /\ received = [c \in Clients |-> {}] /\ served = [c \in Clients |-> NoOne]
    /\ batch = {} /\ hup = {} /\ tasks = <<>> /\ draining = FALSE
    /\ recycled = FALSE /\ engine = "running"

Live(o) == stage[o] \in {"tls", "ready", "open", "closing"}
Connected == {client[o] : o \in {x \in Objects : Live(x)}}

-----------------------------------------------------------------------------
(* Clients *)

Connect(c) ==
    /\ c \notin Range(backlog) \cup Connected \cup away
    /\ backlog' = Append(backlog, c)
    /\ UNCHANGED <<pool, inbox, received, served, loop, tasks, recycled, engine>>

\* A client sends its next unit, the first one being its part of the TLS
\* handshake; a unit that is sent before the last one is read changes nothing
\* the server can tell.
Sends(c, unit) ==
    /\ c \in Connected \ away /\ inbox[c] = <<>>
    /\ inbox' = [inbox EXCEPT ![c] = Append(@, unit)]
    /\ UNCHANGED <<pool, backlog, received, served, loop, tasks, recycled, engine>>

HangsUp(c) ==
    /\ c \in Connected \ away
    /\ away' = away \cup {c}
    /\ UNCHANGED <<available, fd, client, stage, clients, loop, tasks, recycled, engine>>

-----------------------------------------------------------------------------
(* EpollBase::loop *)

Ready == {o \in Objects : Live(o) /\ (inbox[client[o]] # <<>> \/ client[o] \in away)}
         \cup {x \in {Listen} : backlog # <<>>} \cup {x \in {TaskFd} : tasks # <<>>}

EpollWait ==
    /\ batch = {} /\ ~draining /\ Ready # {} /\ batch' = Ready
    /\ hup' = {o \in Objects : Live(o) /\ client[o] \in away}
    /\ UNCHANGED <<pool, clients, draining, tasks, recycled, engine>>

Event(e) == e \in batch /\ ~draining /\ batch' = batch \ {e} /\ UNCHANGED <<hup, draining>>

StartDrain ==
    /\ TaskFd \in batch /\ ~draining
    /\ batch' = batch \ {TaskFd} /\ draining' = (tasks # <<>>)
    /\ UNCHANGED <<pool, clients, hup, tasks, recycled, engine>>

\* The next task runs and posts what is given.
RunsTask(op, posted) ==
    /\ draining /\ Head(tasks).op = op
    /\ tasks' = Tail(tasks) \o posted
    /\ draining' = (tasks' # <<>>) /\ UNCHANGED <<batch, hup>>

-----------------------------------------------------------------------------
(* Connection objects *)

FreeFds == Fds \ {fd[o] : o \in {x \in Objects : Live(x)}}
Lowest(S) == CHOOSE n \in S : \A m \in S : n =< m

\* handle_read of the listening socket: one connection per event.  acquire
\* throws on an empty pool, which nothing catches.
AcquireThrows ==
    /\ Event(Listen) /\ backlog # <<>> /\ available = <<>>
    /\ engine' = "terminated"
    /\ UNCHANGED <<pool, clients, tasks, recycled>>

\* An object leaves the pool for the next connection.  Coroutines name the
\* objects in held.
Acquires(o, held) ==
    /\ Event(Listen) /\ backlog # <<>>
    /\ available # <<>> /\ o = Head(available)
    /\ recycled' = (recycled \/ o \in held)
    /\ UNCHANGED <<inbox, received, engine>>

Accept(held) ==
    /\ \E o \in Objects :
          /\ Acquires(o, held) /\ available' = Tail(available)
          /\ FreeFds # {} /\ fd' = [fd EXCEPT ![o] = Lowest(FreeFds)]
          /\ client' = [client EXCEPT ![o] = Head(backlog)]
          /\ served' = [served EXCEPT ![Head(backlog)] = o]
          /\ stage' = [stage EXCEPT ![o] = "tls"]
          /\ backlog' = Tail(backlog)
    /\ UNCHANGED <<away, tasks>>

\* generate_fd returns -1: no descriptor is left, or the client has given up.
\* start_living_system_io_object returns, and nothing puts the object back.
AcceptFails(held) ==
    /\ \E o \in Objects :
          /\ Acquires(o, held) /\ available' = Tail(available)
          /\ fd' = [fd EXCEPT ![o] = 0] /\ stage' = [stage EXCEPT ![o] = "lost"]
    /\ \/ UNCHANGED <<backlog, away>>
       \/ backlog' = Tail(backlog) /\ away' = away \cup {Head(backlog)}
    /\ UNCHANGED <<client, served, tasks>>

\* activate returns -1: the connection is closed at once and the object put
\* back, with what its release posts and leaves of the descriptor.
ActivateFails(held, closed, posted) ==
    /\ FreeFds # {}
    /\ \E o \in Objects :
          /\ Acquires(o, held) /\ available' = Append(Tail(available), o)
          /\ fd' = [fd EXCEPT ![o] = closed]
    /\ backlog' = Tail(backlog) /\ away' = away \cup {Head(backlog)}
    /\ tasks' = tasks \o posted
    /\ UNCHANGED <<client, served, stage>>

\* Mutant: an object whose descriptor is -1 is put back all the same.
DelFd_Again(o, closed) ==
    /\ available' = Append(available, o)
    /\ stage' = [stage EXCEPT ![o] = "pooled"]
    /\ client' = [client EXCEPT ![o] = NoOne]
    /\ away' = away \cup {client[o]} /\ fd' = [fd EXCEPT ![o] = closed]

\* Mutant: the descriptor stays open.
DelFd_Open(o, closed) ==
    IF fd[o] = 0 THEN UNCHANGED pool
    ELSE /\ available' = Append(available, o)
         /\ stage' = [stage EXCEPT ![o] = "pooled"]
         /\ client' = [client EXCEPT ![o] = NoOne]
         /\ fd' = [fd EXCEPT ![o] = closed] /\ UNCHANGED away

\* del_fd: the descriptor is closed, and release puts the object back.  With a
\* descriptor of -1 it does nothing.
DelFd(o, closed) ==
    IF fd[o] = 0 THEN UNCHANGED pool
    ELSE /\ available' = Append(available, o)
         /\ stage' = [stage EXCEPT ![o] = "pooled"]
         /\ client' = [client EXCEPT ![o] = NoOne]
         /\ away' = away \cup {client[o]}
         /\ fd' = [fd EXCEPT ![o] = closed]

\* handle_read with the next unit of the client, and the same for a client that
\* has hung up, which comes first.
HungUp(o) == Live(o) /\ client[o] \in away
Reads(o) == /\ Live(o) /\ client[o] \notin away /\ inbox[client[o]] # <<>> /\ o \notin hup
            /\ inbox' = [inbox EXCEPT ![client[o]] = Tail(@)]
Unit(o) == Head(inbox[client[o]])

\* The handshake of TLS is done, or goes wrong.
Handshake(o) ==
    /\ Event(o) /\ stage[o] = "tls" /\ Reads(o)
    /\ stage' = [stage EXCEPT ![o] = "ready"]
    /\ UNCHANGED <<available, fd, client, away, backlog, received, served, tasks, recycled, engine>>

\* An event of an object that was released earlier in the same batch, and may
\* be another client's by now: there is nothing to read.
StaleEvent(o) ==
    /\ Event(o) /\ o \notin hup
    /\ Live(o) => client[o] \notin away /\ inbox[client[o]] = <<>>
    /\ UNCHANGED <<pool, clients, tasks, recycled, engine>>

Gets(c, what) == received' = [received EXCEPT ![c] = @ \cup {what}]

\* Every object is in the pool once, or serves a client with a descriptor that
\* no other has, or was lost to a failed accept, which never puts it back.
PoolConserved ==
    /\ IsInjective(available)
    /\ Range(available) = {o \in Objects : stage[o] = "pooled"}
    /\ \A o, p \in Objects : Live(o) /\ Live(p) /\ o # p => fd[o] # fd[p]
=============================================================================
