----------------------------- MODULE Coroutine -----------------------------
(***************************************************************************)
(* core/coroutine: tasks, futures and the event base that resumes them.    *)
(*                                                                         *)
(* A coroutine frame lives from the call of its function until an event    *)
(* base destroys it.  Everything that happens to a frame after it has been *)
(* started is an event in the queue of its event base: RUN starts it,      *)
(* SET_SUSPEND_VALUE resumes it when what it awaits is there,              *)
(* REMOVE_AWAITER says that its Task object is gone.  Nobody counts        *)
(* references: whether the frame may go is decided after every event from  *)
(* three flags (TaskInfoEvent::check_handle).                              *)
(*                                                                         *)
(* A root is a task some code holds in a Task variable and starts with     *)
(* start_running_on; a child is the temporary Task of a co_await.  The     *)
(* queue is the bounded FIFO that MPSCQueue implements.  FORCE_DESTROY     *)
(* events are never posted: the call is commented out in BaseTask::destroy.*)
(***************************************************************************)
EXTENDS Naturals, Sequences, FiniteSets

CONSTANTS Roots, Children,
          Bases,          \* event bases, each one thread
          QueueSize,      \* MAX_TASK_INFO
          MaxAwaits,      \* bound: co_awaits of one coroutine
          None

ASSUME DisjointAssumption == /\ Roots \cap Children = {}
                             /\ None \notin Roots \cup Children \cup Bases \cup {"outside"}
                             /\ "outside" \notin Roots \cup Children
ASSUME BoundsAssumption == QueueSize \in Nat /\ MaxAwaits \in Nat

Tasks == Roots \cup Children

VARIABLES
    frame,              \* the coroutine frame: absent, running, or where it is suspended
    m_event_base,
    has_suspend_value, has_awaiter, force_destroy,   \* BasePromiseType
    m_suspending_promise,
    owner,              \* who holds the Task object: "outside", a parent's frame, None
    awaited,            \* the child Task held in the frame of the co_await under way
    future_value,       \* a FutureValue for the frame's current Future is held somewhere
    awaits,             \* co_awaits the coroutine has made
    queue,              \* m_task_event_queue of each base
    current,            \* the event a base is handling
    m_stopping,         \* stop() has been called on a base
    failed              \* a push has thrown "Queue is full"

flags == <<has_suspend_value, has_awaiter, force_destroy>>
vars == <<frame, m_event_base, flags, m_suspending_promise, owner, awaited,
          future_value, awaits, queue, current, m_stopping, failed>>

EventTypes == {"RUN", "SET_SUSPEND_VALUE", "REMOVE_AWAITER"}
Events == EventTypes \X Tasks

Idle == [phase |-> "idle"]

Init ==
    /\ frame = [t \in Tasks |-> "none"]
    /\ m_event_base = [t \in Tasks |-> None]
    /\ has_suspend_value = [t \in Tasks |-> FALSE]
    /\ has_awaiter = [t \in Tasks |-> TRUE]
    /\ force_destroy = [t \in Tasks |-> FALSE]
    /\ m_suspending_promise = [t \in Tasks |-> None]
    /\ owner = [t \in Tasks |-> None]
    /\ awaited = [t \in Tasks |-> None]
    /\ future_value = [t \in Tasks |-> FALSE]
    /\ awaits = [t \in Tasks |-> 0]
    /\ queue = [b \in Bases |-> <<>>]
    /\ current = [b \in Bases |-> Idle]
    /\ m_stopping = [b \in Bases |-> FALSE]
    /\ failed = FALSE

-----------------------------------------------------------------------------
(* Posting an event: push throws when the queue is full, out of a          *)
(* destructor, a coroutine or a callback; nothing catches it and the       *)
(* process ends, so no action is enabled once failed is set.               *)
AfterPush(q, b, e) ==
    IF Len(q[b]) < QueueSize THEN [q EXCEPT ![b] = Append(@, e)] ELSE q

Post(b, e) ==
    /\ queue' = AfterPush(queue, b, e)
    /\ failed' = (Len(queue[b]) >= QueueSize)

PostNothing == UNCHANGED <<queue, failed>>

\* BaseTask::check_release for the Task object of u, its owner being gone: a
\* frame that was never started is destroyed here, any other through its base.
CheckRelease(u) ==
    IF m_event_base[u] = None
    THEN frame' = [frame EXCEPT ![u] = "freed"] /\ PostNothing
    ELSE Post(m_event_base[u], <<"REMOVE_AWAITER", u>>) /\ UNCHANGED frame

-----------------------------------------------------------------------------
(* The code that holds Task variables and FutureValues, on any thread.     *)

\* Calling the coroutine function: get_return_object, initial_suspend.
Create(t) ==
    /\ ~failed /\ frame[t] = "none"
    /\ frame' = [frame EXCEPT ![t] = "initial"]
    /\ owner' = [owner EXCEPT ![t] = "outside"]
    /\ UNCHANGED <<m_event_base, flags, m_suspending_promise, awaited,
                   future_value, awaits, queue, current, failed, m_stopping>>

\* start_running_on, register_on.
Start(t, b) ==
    /\ ~failed /\ owner[t] = "outside" /\ m_event_base[t] = None
    /\ m_event_base' = [m_event_base EXCEPT ![t] = b]
    /\ Post(b, <<"RUN", t>>)
    /\ UNCHANGED <<frame, flags, m_suspending_promise, owner, awaited,
                   future_value, awaits, current, m_stopping>>

\* The Task variable goes out of scope, is assigned to or set to nullptr.
Release(t) ==
    /\ ~failed /\ owner[t] = "outside"
    /\ owner' = [owner EXCEPT ![t] = None]
    /\ CheckRelease(t)
    /\ UNCHANGED <<m_event_base, flags, m_suspending_promise, awaited,
                   future_value, awaits, current, m_stopping>>

\* Task::destroy(): only the flag is set; before a start it does nothing.
Destroy(t) ==
    /\ ~failed /\ owner[t] = "outside" /\ m_event_base[t] # None
    /\ force_destroy' = [force_destroy EXCEPT ![t] = TRUE]
    /\ owner' = [owner EXCEPT ![t] = None]
    /\ UNCHANGED <<frame, m_event_base, has_suspend_value, has_awaiter,
                   m_suspending_promise, awaited, future_value, awaits, queue,
                   current, failed, m_stopping>>

\* FutureValue::set_value, or its destructor with the default value: either
\* clears the FutureValue, so that it acts once.
SetValue(t) ==
    /\ ~failed /\ future_value[t]
    /\ future_value' = [future_value EXCEPT ![t] = FALSE]
    /\ Post(m_event_base[t], <<"SET_SUSPEND_VALUE", t>>)
    /\ UNCHANGED <<frame, m_event_base, flags, m_suspending_promise, owner,
                   awaited, awaits, current, m_stopping>>

\* EventBase::stop, from shutdown_all: the loop ends after the event it is
\* handling, and what is queued stays queued.
Stop(b) ==
    /\ ~failed /\ ~m_stopping[b]
    /\ m_stopping' = [m_stopping EXCEPT ![b] = TRUE]
    /\ UNCHANGED <<frame, m_event_base, flags, m_suspending_promise, owner,
                   awaited, future_value, awaits, queue, current, failed>>

-----------------------------------------------------------------------------
(* The loop of an event base: EventBase::loop and check_handle.            *)

\* The frame's next instruction after a resume, and what must follow it.
Body(t) == [phase |-> "body", task |-> t, forced |-> FALSE]
Verdict(t, forced) == [phase |-> "verdict", task |-> t, forced |-> forced]

Pop(b, type) ==
    /\ ~failed /\ ~m_stopping[b] /\ current[b] = Idle /\ queue[b] # <<>>
    /\ Head(queue[b])[1] = type
    /\ queue' = [queue EXCEPT ![b] = Tail(@)]
    /\ UNCHANGED <<m_event_base, m_suspending_promise, owner, awaited,
                   future_value, awaits, force_destroy, failed, m_stopping>>

HandleRun(b) ==
    LET t == Head(queue[b])[2] IN
    /\ Pop(b, "RUN")
    /\ frame' = [frame EXCEPT ![t] = "running"]
    /\ current' = [current EXCEPT ![b] = Body(t)]
    /\ UNCHANGED <<has_suspend_value, has_awaiter>>

HandleSetSuspendValue(b) ==
    LET t == Head(queue[b])[2] IN
    /\ Pop(b, "SET_SUSPEND_VALUE")
    /\ has_suspend_value' = [has_suspend_value EXCEPT ![t] = FALSE]
    /\ IF force_destroy[t]
       THEN /\ current' = [current EXCEPT ![b] = Verdict(t, TRUE)]
            /\ UNCHANGED frame
       ELSE /\ current' = [current EXCEPT ![b] = Body(t)]
            /\ frame' = [frame EXCEPT ![t] = "running"]
    /\ UNCHANGED has_awaiter

\* Mutant: the frame's fate is not decided after this event.
HandleRemoveAwaiter_NoVerdict(b) ==
    LET t == Head(queue[b])[2] IN
    /\ Pop(b, "REMOVE_AWAITER")
    /\ has_awaiter' = [has_awaiter EXCEPT ![t] = FALSE]
    /\ current' = current
    /\ UNCHANGED <<frame, has_suspend_value>>

HandleRemoveAwaiter(b) ==
    LET t == Head(queue[b])[2] IN
    /\ Pop(b, "REMOVE_AWAITER")
    /\ has_awaiter' = [has_awaiter EXCEPT ![t] = FALSE]
    /\ current' = [current EXCEPT ![b] = Verdict(t, FALSE)]
    /\ UNCHANGED <<frame, has_suspend_value>>

\* Mutant: a pending value does not keep the frame.
Conclude_IgnoresPending(b) ==
    LET t == current[b].task IN
    /\ ~failed /\ current[b].phase = "verdict"
    /\ current' = [current EXCEPT ![b] = Idle]
    /\ IF current[b].forced \/ ~has_awaiter[t]
       THEN frame' = [frame EXCEPT ![t] = "freed"]
       ELSE UNCHANGED frame
    /\ PostNothing
    /\ UNCHANGED <<m_event_base, flags, m_suspending_promise, future_value,
                   awaits, owner, awaited, m_stopping>>

\* The last lines of check_handle.  Destroying a frame destroys the child Task
\* it was awaiting.
Conclude(b) ==
    LET t == current[b].task
        gone == (current[b].forced \/ ~has_awaiter[t]) /\ ~has_suspend_value[t]
        u == awaited[t]
    IN
    /\ ~failed /\ current[b].phase = "verdict"
    /\ current' = [current EXCEPT ![b] = Idle]
    /\ IF gone
       THEN /\ frame' = [frame EXCEPT ![t] = "freed"]
            /\ IF u = None THEN PostNothing /\ UNCHANGED <<owner, awaited>>
               ELSE /\ Post(m_event_base[u], <<"REMOVE_AWAITER", u>>)
                    /\ owner' = [owner EXCEPT ![u] = None]
                    /\ awaited' = [awaited EXCEPT ![t] = None]
       ELSE PostNothing /\ UNCHANGED <<frame, owner, awaited>>
    /\ UNCHANGED <<m_event_base, flags, m_suspending_promise, future_value, awaits, m_stopping>>

-----------------------------------------------------------------------------
(* What a running coroutine may do before it suspends again.               *)

Running(b, t) == ~failed /\ current[b] = Body(t)

\* The end of the co_await expression: the temporary child Task goes.
DropChild(b, t) ==
    LET u == awaited[t] IN
    /\ Running(b, t) /\ u # None
    /\ awaited' = [awaited EXCEPT ![t] = None]
    /\ owner' = [owner EXCEPT ![u] = None]
    /\ Post(m_event_base[u], <<"REMOVE_AWAITER", u>>)
    /\ UNCHANGED <<frame, m_event_base, flags, m_suspending_promise,
                   future_value, awaits, current, m_stopping>>

\* co_await Future: the flag is set before execute_func gets the FutureValue.
AwaitFuture(b, t) ==
    /\ Running(b, t) /\ awaited[t] = None /\ awaits[t] < MaxAwaits
    /\ awaits' = [awaits EXCEPT ![t] = @ + 1]
    /\ has_suspend_value' = [has_suspend_value EXCEPT ![t] = TRUE]
    /\ future_value' = [future_value EXCEPT ![t] = TRUE]
    /\ frame' = [frame EXCEPT ![t] = "future"]
    /\ current' = [current EXCEPT ![b] = Verdict(t, FALSE)]
    /\ UNCHANGED <<m_event_base, has_awaiter, force_destroy,
                   m_suspending_promise, owner, awaited, queue, failed, m_stopping>>

\* co_await child(): BaseTask::await_suspend, the child runs on the same base.
AwaitChild(b, t, u) ==
    /\ Running(b, t) /\ awaited[t] = None /\ awaits[t] < MaxAwaits
    /\ frame[u] = "none"
    /\ awaits' = [awaits EXCEPT ![t] = @ + 1]
    /\ frame' = [frame EXCEPT ![t] = "child", ![u] = "initial"]
    /\ has_suspend_value' = [has_suspend_value EXCEPT ![t] = TRUE]
    /\ m_suspending_promise' = [m_suspending_promise EXCEPT ![u] = t]
    /\ owner' = [owner EXCEPT ![u] = t]
    /\ awaited' = [awaited EXCEPT ![t] = u]
    /\ m_event_base' = [m_event_base EXCEPT ![u] = m_event_base[t]]
    /\ Post(m_event_base[t], <<"RUN", u>>)
    /\ current' = [current EXCEPT ![b] = Verdict(t, FALSE)]
    /\ UNCHANGED <<has_awaiter, force_destroy, future_value, m_stopping>>

\* Mutant: the coroutine that awaits this one is not told.
Return_Silent(b, t) ==
    /\ Running(b, t) /\ awaited[t] = None
    /\ frame' = [frame EXCEPT ![t] = "final"]
    /\ PostNothing
    /\ current' = [current EXCEPT ![b] = Verdict(t, FALSE)]
    /\ UNCHANGED <<m_event_base, flags, m_suspending_promise, owner, awaited,
                   future_value, awaits, m_stopping>>

\* co_return: return_value or return_void, then final_suspend.
Return(b, t) ==
    LET p == m_suspending_promise[t] IN
    /\ Running(b, t) /\ awaited[t] = None
    /\ frame' = [frame EXCEPT ![t] = "final"]
    /\ IF p = None THEN PostNothing
       ELSE Post(m_event_base[t], <<"SET_SUSPEND_VALUE", p>>)
    /\ current' = [current EXCEPT ![b] = Verdict(t, FALSE)]
    /\ UNCHANGED <<m_event_base, flags, m_suspending_promise, owner, awaited,
                   future_value, awaits, m_stopping>>

-----------------------------------------------------------------------------
Outside(t) == Create(t) \/ Release(t) \/ Destroy(t) \/ \E b \in Bases : Start(t, b)

Handle(b) == \/ HandleRun(b) \/ HandleSetSuspendValue(b)
             \/ HandleRemoveAwaiter(b) \/ Conclude(b)

Resumed(b, t) == \/ DropChild(b, t) \/ AwaitFuture(b, t) \/ Return(b, t)
                 \/ \E u \in Children : AwaitChild(b, t, u)

Step(b) == Handle(b) \/ \E t \in Tasks : Resumed(b, t)

Next == \/ \E t \in Roots : Outside(t)
        \/ \E t \in Tasks : SetValue(t)
        \/ \E b \in Bases : Step(b) \/ Stop(b)

Spec == Init /\ [][Next]_vars

\* The threads of the event bases run, and every FutureValue is set or
\* destroyed at some time.
Fairness == /\ \A b \in Bases : WF_vars(Step(b))
            /\ \A t \in Tasks : WF_vars(SetValue(t))

LiveSpec == Spec /\ Fairness

-----------------------------------------------------------------------------
(* Properties *)

Frames == {"none", "initial", "running", "future", "child", "final", "freed"}

\* Every event names a task, and every promise and Task pointer a frame or
\* nothing: no nullptr reaches check_handle.
TypeOK ==
    /\ frame \in [Tasks -> Frames]
    /\ m_event_base \in [Tasks -> Bases \cup {None}]
    /\ has_suspend_value \in [Tasks -> BOOLEAN]
    /\ has_awaiter \in [Tasks -> BOOLEAN]
    /\ force_destroy \in [Tasks -> BOOLEAN]
    /\ m_suspending_promise \in [Tasks -> Tasks \cup {None}]
    /\ owner \in [Tasks -> Tasks \cup {None, "outside"}]
    /\ awaited \in [Tasks -> Children \cup {None}]
    /\ future_value \in [Tasks -> BOOLEAN]
    /\ awaits \in [Tasks -> 0 .. MaxAwaits]
    /\ queue \in [Bases -> Seq(Events)]
    /\ current \in [Bases -> {Idle} \cup
           [phase : {"body", "verdict"}, task : Tasks, forced : BOOLEAN]]
    /\ m_stopping \in [Bases -> BOOLEAN]
    /\ failed \in BOOLEAN

\* The frame exists.
Alive(t) == frame[t] \notin {"none", "freed"}

\* An event about t of the given type is queued.
Queued(b, type, t) == {i \in 1 .. Len(queue[b]) : queue[b][i] = <<type, t>>}

\* Nothing refers to a frame that is gone: no queued event, no event under
\* way, no Task object, no FutureValue, no unfinished child's pointer to the
\* coroutine it will resume.
NoDanglingReference ==
    /\ \A b \in Bases : \A i \in 1 .. Len(queue[b]) : Alive(queue[b][i][2])
    /\ \A b \in Bases : current[b] # Idle => Alive(current[b].task)
    /\ \A t \in Tasks : owner[t] # None => Alive(t)
    /\ \A t \in Tasks : future_value[t] => frame[t] = "future"
    /\ \A t \in Tasks : m_suspending_promise[t] # None
                        /\ frame[t] \in {"initial", "running", "future", "child"}
                           => /\ frame[m_suspending_promise[t]] = "child"
                              /\ awaited[m_suspending_promise[t]] = t

\* A coroutine is resumed only while suspended at the point the event is for,
\* only on the thread of its event base, and by one thread at a time.
ResumedWhereSuspended ==
    \A b \in Bases :
        /\ \A i \in 1 .. Len(queue[b]) :
               LET t == queue[b][i][2] IN
               /\ m_event_base[t] = b
               /\ queue[b][i][1] = "RUN" => frame[t] = "initial"
               /\ queue[b][i][1] = "SET_SUSPEND_VALUE" => frame[t] \in {"future", "child"}
        /\ current[b].phase = "body" =>
               frame[current[b].task] = "running" /\ m_event_base[current[b].task] = b

\* What will resume a suspended coroutine: a FutureValue somebody holds, a
\* child that has not returned, or an event already posted.
WakeUps(t) ==
    (IF future_value[t] THEN 1 ELSE 0)
    + Cardinality({u \in Tasks : m_suspending_promise[u] = t
                       /\ frame[u] \in {"initial", "running", "future", "child"}})
    + Cardinality({x \in Bases \X (1 .. QueueSize) :
                       x[2] \in Queued(x[1], "SET_SUSPEND_VALUE", t)})

\* A coroutine with a pending value has exactly one thing that will resume it,
\* and any other coroutine has none: no lost and no second wake-up.
OneWakeUp ==
    ~failed => \A t \in Tasks : WakeUps(t) = IF has_suspend_value[t] THEN 1 ELSE 0

\* A task has at most two events queued, so a base whose tasks number at most
\* half of MAX_TASK_INFO never sees a full queue.
QueueBound ==
    \A b \in Bases :
        Len(queue[b]) =< 2 * Cardinality({t \in Tasks : Alive(t) /\ m_event_base[t] = b})

\* What is posted about a task is exact: one wake-up for a suspended coroutine,
\* for the place where it is suspended and on its own base, and never more events
\* than the queue of the base has room for.
EventsExact == OneWakeUp /\ ResumedWhereSuspended /\ QueueBound

\* The base of a task will not run it any more.
Abandoned(t) == failed \/ \E b \in Bases : m_event_base[t] = b /\ m_stopping[b]

\* A frame whose Task object has been released, and that was not told to be
\* destroyed, is freed once it has finished unless its event base is stopped:
\* frames do not leak.
ReleasedFrameFreed ==
    \A t \in Tasks :
        (Alive(t) /\ owner[t] = None /\ ~force_destroy[t])
            ~> (frame[t] = "freed" \/ Abandoned(t))

=============================================================================
