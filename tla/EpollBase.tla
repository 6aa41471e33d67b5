----------------------------- MODULE EpollBase -----------------------------
(***************************************************************************)
(* core/coroutine/epoll_base: the event base that sleeps in epoll_wait.    *)
(*                                                                         *)
(* Unlike EventBase::loop, which spins, this loop must be woken: posting a *)
(* task event is a push into the MPSC ring followed by a write to an       *)
(* eventfd, and the loop reads the eventfd once and then pops until pop    *)
(* answers nullptr.  pop also answers nullptr while the oldest position is *)
(* claimed but not published (MPSCQueue!NothingMeansNothing), even when    *)
(* later positions are published, so the ring is kept here as the sequence *)
(* of claimed positions with their published flag.                         *)
(***************************************************************************)
EXTENDS Naturals, Sequences

CONSTANTS Posters,    \* threads that post task events
          MaxPost,    \* bound: events posted by one poster
          MaxOwn      \* bound: events the loop's own tasks post

ASSUME PostBounds == MaxPost \in Nat /\ MaxOwn \in Nat

VARIABLES
    ring,      \* claimed positions, oldest first: [item, published]
    ready,     \* counter of m_task_event_fd
    shutdown,  \* counter of m_shutdown_fd
    ppc,       \* where a poster stands in add_*_event
    posted,    \* events posted so far, per poster
    own,       \* events posted by tasks that the loop runs
    lpc,       \* where the loop stands
    batch,     \* events[] of the current epoll_wait, not yet handled
    handled    \* items whose check_handle has run

post_vars == <<ppc, posted>>
epoll_vars == <<ring, ready, shutdown, post_vars, own, lpc, batch, handled>>

Loop == "loop"     \* the loop as the poster of its own tasks' events

PostedItems == (Posters \X (1 .. MaxPost)) \cup ({Loop} \X (1 .. MaxOwn))

EpollInit ==
    /\ ring = <<>>
    /\ ready = 0 /\ shutdown = 0
    /\ ppc = [p \in Posters |-> "idle"]
    /\ posted = [p \in Posters |-> 0]
    /\ own = 0
    /\ lpc = "wait" /\ batch = <<>>
    /\ handled = {}

-----------------------------------------------------------------------------
(* add_run_task_event, add_set_suspend_value_event, add_remove_awaiter_event *)

\* push claims a position ...
ClaimEvent(p) ==
    /\ ppc[p] = "idle" /\ posted[p] < MaxPost
    /\ posted' = [posted EXCEPT ![p] = @ + 1]
    /\ ring' = Append(ring, [item |-> <<p, posted[p] + 1>>, published |-> FALSE])
    /\ ppc' = [ppc EXCEPT ![p] = "claimed"]
    /\ UNCHANGED <<ready, shutdown, own, lpc, batch, handled>>

\* Mutant: the event is posted without waking the loop.
PublishItem_NoWake(p) ==
    /\ ppc[p] = "claimed"
    /\ \E i \in 1 .. Len(ring) :
           /\ ring[i].item = <<p, posted[p]>>
           /\ ring' = [ring EXCEPT ![i].published = TRUE]
    /\ ppc' = [ppc EXCEPT ![p] = "idle"]
    /\ UNCHANGED <<ready, shutdown, posted, own, lpc, batch, handled>>

\* ... and publishes it;
PublishItem(p) ==
    /\ ppc[p] = "claimed"
    /\ \E i \in 1 .. Len(ring) :
           /\ ring[i].item = <<p, posted[p]>>
           /\ ring' = [ring EXCEPT ![i].published = TRUE]
    /\ ppc' = [ppc EXCEPT ![p] = "wake"]
    /\ UNCHANGED <<ready, shutdown, posted, own, lpc, batch, handled>>

\* then set_ready_task writes the eventfd.
SetReadyTask(p) ==
    /\ ppc[p] = "wake"
    /\ ready' = ready + 1
    /\ ppc' = [ppc EXCEPT ![p] = "idle"]
    /\ UNCHANGED <<ring, shutdown, posted, own, lpc, batch, handled>>

Stop ==
    /\ shutdown = 0
    /\ shutdown' = 1
    /\ UNCHANGED <<ring, ready, post_vars, own, lpc, batch, handled>>

-----------------------------------------------------------------------------
(* loop *)

\* Orders in which epoll_wait may report the readable descriptors.
Reports ==
    {s \in {<<"task">>, <<"shutdown">>, <<"task", "shutdown">>, <<"shutdown", "task">>} :
        /\ (\E i \in 1 .. Len(s) : s[i] = "task") <=> (ready > 0)
        /\ (\E i \in 1 .. Len(s) : s[i] = "shutdown") <=> (shutdown > 0)}

\* epoll_wait blocks until a descriptor is readable (level-triggered).
EpollWait ==
    /\ lpc = "wait"
    /\ \E s \in Reports : batch' = s
    /\ lpc' = "batch"
    /\ UNCHANGED <<ring, ready, shutdown, post_vars, own, handled>>

BatchEnd ==
    /\ lpc = "batch" /\ batch = <<>>
    /\ lpc' = "wait"
    /\ UNCHANGED <<ring, ready, shutdown, post_vars, own, batch, handled>>

\* Mutant: the loop goes on with the batch after the sentinel.
HandleShutdown_Continue ==
    /\ lpc = "batch" /\ batch # <<>> /\ Head(batch) = "shutdown"
    /\ shutdown' = 0
    /\ batch' = Tail(batch)
    /\ UNCHANGED <<ring, ready, post_vars, own, lpc, handled>>

\* The sentinel: the loop reads the descriptor and returns, whatever else the
\* batch holds.
HandleShutdown ==
    /\ lpc = "batch" /\ batch # <<>> /\ Head(batch) = "shutdown"
    /\ shutdown' = 0
    /\ lpc' = "exited" /\ batch' = <<>>
    /\ UNCHANGED <<ring, ready, post_vars, own, handled>>

\* TaskInfoEventEpoll::handle_read: eventfd_read first, then the drain.
HandleTask ==
    /\ lpc = "batch" /\ batch # <<>> /\ Head(batch) = "task"
    /\ batch' = Tail(batch)
    /\ ready' = 0
    /\ lpc' = "drain"
    /\ UNCHANGED <<ring, shutdown, post_vars, own, handled>>

Poppable == ring # <<>> /\ ring[1].published

\* Mutant: handle_read handles one event for each wake-up.
DrainOne_Only ==
    /\ lpc = "drain" /\ Poppable
    /\ handled' = handled \cup {ring[1].item}
    /\ ring' = Tail(ring)
    /\ lpc' = "batch"
    /\ UNCHANGED <<ready, shutdown, post_vars, own, batch>>

\* pop and check_handle; the task resumed may post an event to this base.
DrainOne ==
    /\ lpc = "drain" /\ Poppable
    /\ handled' = handled \cup {ring[1].item}
    /\ \/ /\ ring' = Tail(ring)
          /\ UNCHANGED <<own, ready>>
       \/ /\ own < MaxOwn
          /\ own' = own + 1
          /\ ring' = Append(Tail(ring), [item |-> <<Loop, own + 1>>, published |-> TRUE])
          /\ ready' = ready + 1
    /\ UNCHANGED <<shutdown, post_vars, lpc, batch>>

DrainEnd ==
    /\ lpc = "drain" /\ ~Poppable
    /\ lpc' = "batch"
    /\ UNCHANGED <<ring, ready, shutdown, post_vars, own, batch, handled>>

-----------------------------------------------------------------------------
PostStep(p) == PublishItem(p) \/ SetReadyTask(p)

LoopStep == \/ EpollWait \/ BatchEnd \/ HandleShutdown \/ HandleTask
            \/ DrainOne \/ DrainEnd

EpollNext == \/ \E p \in Posters : ClaimEvent(p) \/ PostStep(p)
        \/ Stop \/ LoopStep

EpollSpec == EpollInit /\ [][EpollNext]_epoll_vars

\* A thread inside add_*_event keeps running; the loop's thread runs whenever
\* it is not blocked in epoll_wait.
EpollFairness == WF_epoll_vars(LoopStep) /\ \A p \in Posters : WF_epoll_vars(PostStep(p))

EpollLiveSpec == EpollSpec /\ EpollFairness

-----------------------------------------------------------------------------
(* Properties *)

\* The ring, the descriptors' counters and the batch hold what the loop of
\* EpollBase can handle: only posted events, and an epoll batch of its own
\* two descriptors.
EpollTypeOK ==
    /\ ring \in Seq([item : PostedItems, published : BOOLEAN])
    /\ ready \in Nat /\ shutdown \in {0, 1}
    /\ ppc \in [Posters -> {"idle", "claimed", "wake"}]
    /\ posted \in [Posters -> 0 .. MaxPost]
    /\ own \in 0 .. MaxOwn
    /\ lpc \in {"wait", "batch", "drain", "exited"}
    /\ batch \in Seq({"task", "shutdown"})
    /\ handled \subseteq PostedItems

\* The loop is on its way to read the ring.
Draining == lpc = "drain" \/ \E i \in 1 .. Len(batch) : batch[i] = "task"

\* No lost wake-up: when an item waits at the front, published, then the
\* loop is draining, or the eventfd is still readable, or a poster has yet to
\* write it.  The item behind an unpublished one is covered by the write that
\* follows the publication of the one in front.
NoLostWakeUp ==
    Poppable /\ lpc # "exited" =>
        Draining \/ ready > 0 \/ \E p \in Posters : ppc[p] = "wake"

\* Every posted event is handled unless the base is stopped.
EveryEventHandled ==
    \A x \in PostedItems :
        (\E i \in 1 .. Len(ring) : ring[i].item = x)
            ~> (x \in handled \/ shutdown > 0 \/ lpc = "exited")

\* stop() ends the loop, also when it is asleep or draining.
StopEndsLoop == shutdown > 0 ~> lpc = "exited"
=============================================================================
