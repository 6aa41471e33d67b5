-------------------------- MODULE CoroutineProofs --------------------------
(***************************************************************************)
(* Proofs about Coroutine for every set of tasks and event bases, every    *)
(* queue size and every number of co_awaits.                               *)
(***************************************************************************)
EXTENDS Coroutine, SequenceTheorems, FiniteSetTheorems, TLAPS

-----------------------------------------------------------------------------
(* The inductive invariant. *)

\* The event is queued, on some base.
Has(type, t) == \E b \in Bases : \E i \in 1 .. Len(queue[b]) : queue[b][i] = <<type, t>>

\* A coroutine that will post an event to the one that awaits it.
Unfinished(u) == m_suspending_promise[u] # None
                 /\ frame[u] \in {"initial", "running", "future", "child"}

\* The queues: an event is on the base of its task, and queued once; the task
\* is started before it is told that its Task object is gone.
QueueInv ==
    \A b \in Bases :
        /\ Len(queue[b]) =< QueueSize
        /\ \A i \in 1 .. Len(queue[b]) : m_event_base[queue[b][i][2]] = b
        /\ \A i, j \in 1 .. Len(queue[b]) : queue[b][i] = queue[b][j] => i = j
        /\ \A t \in Tasks : \A i \in 1 .. Len(queue[b]) :
               queue[b][i] = <<"REMOVE_AWAITER", t>> /\ frame[t] = "initial" =>
                   \E j \in 1 .. i - 1 : queue[b][j] = <<"RUN", t>>

\* What a queued event says about its task.
EventInv(t) ==
    /\ Has("RUN", t) => frame[t] = "initial"
    /\ Has("SET_SUSPEND_VALUE", t) => frame[t] \in {"future", "child"} /\ has_suspend_value[t]
    /\ Has("REMOVE_AWAITER", t) => Alive(t) /\ owner[t] = None /\ has_awaiter[t]
                                   /\ ~force_destroy[t]

\* What the state of the frame says about the promise.
FrameInv(t) ==
    /\ frame[t] = "none" => /\ m_event_base[t] = None /\ m_suspending_promise[t] = None
                            /\ has_awaiter[t] /\ ~force_destroy[t]
    /\ frame[t] \notin {"none", "initial", "freed"} => m_event_base[t] # None
    /\ frame[t] \in {"none", "initial"} => awaited[t] = None
    /\ owner[t] # None => Alive(t) /\ has_awaiter[t] /\ ~force_destroy[t]
    /\ has_suspend_value[t] => frame[t] \in {"future", "child"}
    /\ frame[t] = "initial" /\ m_event_base[t] # None /\ ~failed => Has("RUN", t)

\* Who will resume the coroutine: one FutureValue, one child, or one event.
WakeInv(t) ==
    /\ future_value[t] => frame[t] = "future" /\ has_suspend_value[t]
                          /\ ~Has("SET_SUSPEND_VALUE", t)
    /\ Unfinished(t) =>
           LET p == m_suspending_promise[t] IN
           /\ frame[p] = "child" /\ awaited[p] = t /\ has_suspend_value[p]
           /\ ~Has("SET_SUSPEND_VALUE", p)
    /\ m_suspending_promise[t] # None =>
           m_event_base[t] # None /\ m_event_base[m_suspending_promise[t]] = m_event_base[t]
    /\ has_suspend_value[t] /\ ~failed =>
           \/ future_value[t]
           \/ Has("SET_SUSPEND_VALUE", t)
           \/ \E u \in Tasks : Unfinished(u) /\ m_suspending_promise[u] = t

\* The child Task held by a frame belongs to it.
ChildInv(t) ==
    awaited[t] # None => owner[awaited[t]] = t /\ m_event_base[awaited[t]] # None

\* What a base is handling.
CurrentInv(b) ==
    current[b] # Idle =>
        LET t == current[b].task IN
        /\ m_event_base[t] = b /\ Alive(t) /\ frame[t] # "initial"
        /\ current[b].phase = "body" => frame[t] = "running"
        /\ current[b].forced => force_destroy[t]

TaskInv(t) == EventInv(t) /\ FrameInv(t) /\ WakeInv(t) /\ ChildInv(t)

IInv == /\ TypeOK /\ QueueInv
        /\ \A t \in Tasks : TaskInv(t)
        /\ \A b \in Bases : CurrentInv(b)

-----------------------------------------------------------------------------
(* What posting and popping do to the queues. *)

\* push appends the event, or fails and leaves the queue as it is.
LEMMA PostEffect ==
    ASSUME TypeOK, NEW b \in Bases, NEW type \in EventTypes, NEW t \in Tasks,
           Post(b, <<type, t>>)
    PROVE  /\ queue' \in [Bases -> Seq(Events)] /\ failed' \in BOOLEAN
           /\ \A c \in Bases : c # b => queue'[c] = queue[c]
           /\ failed' => queue' = queue
           /\ ~failed' => queue'[b] = Append(queue[b], <<type, t>>) /\ Len(queue[b]) < QueueSize
<1>1. queue \in [Bases -> Seq(Events)] /\ <<type, t>> \in Events
  BY DEF TypeOK, Events
<1>2. queue[b] \in Seq(Events) /\ Len(queue[b]) \in Nat
  BY <1>1
<1>3. Append(queue[b], <<type, t>>) \in Seq(Events)
  BY <1>1, <1>2
<1>4. CASE Len(queue[b]) < QueueSize
  <2>2. queue' = [queue EXCEPT ![b] = Append(queue[b], <<type, t>>)]
    BY <1>4 DEF Post, AfterPush
  <2>3. failed' = FALSE
    <3>1. (Len(queue[b]) >= QueueSize) = FALSE
      BY <1>2, <1>4, BoundsAssumption, SMT
    <3> QED
      BY <3>1, Zenon DEF Post
  <2> QED
    BY <1>1, <1>3, <1>4, <2>2, <2>3
<1>5. CASE ~(Len(queue[b]) < QueueSize)
  <2>1. Len(queue[b]) >= QueueSize
    BY <1>2, <1>5, BoundsAssumption
  <2>2. queue' = queue /\ failed' = TRUE
    BY <1>5, <2>1 DEF Post, AfterPush
  <2> QED
    BY <1>1, <2>2
<1> QED
  BY <1>4, <1>5

\* Afterwards the events queued are the ones before, and the one posted unless
\* the queue was full.
LEMMA PostHas ==
    ASSUME TypeOK, NEW b \in Bases, NEW type \in EventTypes, NEW t \in Tasks,
           Post(b, <<type, t>>)
    PROVE  /\ \A y, u : Has(y, u) => Has(y, u)'
           /\ \A y, u : Has(y, u)' => Has(y, u) \/ (y = type /\ u = t)
           /\ ~failed' => Has(type, t)'
<1> DEFINE e == <<type, t>>
<1>1. /\ queue' \in [Bases -> Seq(Events)] /\ failed' \in BOOLEAN
      /\ \A c \in Bases : c # b => queue'[c] = queue[c]
      /\ failed' => queue' = queue
      /\ ~failed' => queue'[b] = Append(queue[b], e)
  BY PostEffect
<1>2. queue[b] \in Seq(Events) /\ Len(queue[b]) \in Nat
  BY DEF TypeOK
<1>3. CASE failed'
  BY <1>1, <1>3 DEF Has
<1>4. CASE ~failed'
  <2>1. /\ Len(queue'[b]) = Len(queue[b]) + 1
        /\ queue'[b][Len(queue[b]) + 1] = e
        /\ \A i \in 1 .. Len(queue[b]) : queue'[b][i] = queue[b][i]
    BY <1>1, <1>2, <1>4
  <2>2. \A i \in 1 .. Len(queue'[b]) : i \in 1 .. Len(queue[b]) \/ i = Len(queue[b]) + 1
    BY <1>2, <2>1
  <2>3. ASSUME NEW y, NEW u, Has(y, u) PROVE Has(y, u)'
    <3>1. PICK c \in Bases : \E i \in 1 .. Len(queue[c]) : queue[c][i] = <<y, u>>
      BY <2>3 DEF Has
    <3>2. PICK i \in 1 .. Len(queue[c]) : queue[c][i] = <<y, u>>
      BY <3>1
    <3>3. i \in 1 .. Len(queue'[c]) /\ queue'[c][i] = <<y, u>>
      BY <1>1, <1>2, <2>1, <3>2
    <3> QED
      BY <3>3 DEF Has
  <2>4. ASSUME NEW y, NEW u, Has(y, u)' PROVE Has(y, u) \/ (y = type /\ u = t)
    <3>1. PICK c \in Bases : \E i \in 1 .. Len(queue'[c]) : queue'[c][i] = <<y, u>>
      BY <2>4 DEF Has
    <3>2. PICK i \in 1 .. Len(queue'[c]) : queue'[c][i] = <<y, u>>
      BY <3>1
    <3>3. CASE c # b
      BY <1>1, <3>2, <3>3 DEF Has
    <3>4. CASE c = b
      BY <2>1, <2>2, <3>2, <3>4 DEF Has
    <3> QED
      BY <3>3, <3>4
  <2>5. Has(type, t)'
    <3>1. Len(queue[b]) + 1 \in 1 .. Len(queue'[b])
      BY <1>2, <2>1
    <3> QED
      BY <2>1, <3>1 DEF Has
  <2> QED
    BY <2>3, <2>4, <2>5
<1> QED
  BY <1>1, <1>3, <1>4

\* The queues stay in order when a task's event is posted on its base, once.
LEMMA PostQueueInv ==
    ASSUME TypeOK, QueueInv,
           NEW b \in Bases, NEW type \in EventTypes, NEW t \in Tasks,
           Post(b, <<type, t>>), ~Has(type, t),
           m_event_base'[t] = b,
           \A u \in Tasks : m_event_base[u] # None => m_event_base'[u] = m_event_base[u],
           \A u \in Tasks : frame'[u] = "initial" =>
               frame[u] = "initial" \/ ~Has("REMOVE_AWAITER", u)',
           type = "REMOVE_AWAITER" /\ frame'[t] = "initial" => Has("RUN", t)
    PROVE  QueueInv'
<1> DEFINE e == <<type, t>>
<1>1. /\ queue' \in [Bases -> Seq(Events)] /\ failed' \in BOOLEAN
      /\ \A c \in Bases : c # b => queue'[c] = queue[c]
      /\ failed' => queue' = queue
      /\ ~failed' => queue'[b] = Append(queue[b], e) /\ Len(queue[b]) < QueueSize
  BY PostEffect
<1> SUFFICES ASSUME NEW c \in Bases
             PROVE  /\ Len(queue'[c]) =< QueueSize
                    /\ \A i \in 1 .. Len(queue'[c]) : m_event_base'[queue'[c][i][2]] = c
                    /\ \A i, j \in 1 .. Len(queue'[c]) : queue'[c][i] = queue'[c][j] => i = j
                    /\ \A u \in Tasks : \A i \in 1 .. Len(queue'[c]) :
                           queue'[c][i] = <<"REMOVE_AWAITER", u>> /\ frame'[u] = "initial" =>
                               \E j \in 1 .. i - 1 : queue'[c][j] = <<"RUN", u>>
  BY DEF QueueInv
<1>2. queue[c] \in Seq(Events) /\ Len(queue[c]) \in Nat
  BY DEF TypeOK
<1>3. \A i \in 1 .. Len(queue[c]) : /\ queue[c][i] \in Events /\ queue[c][i][2] \in Tasks
                                    /\ m_event_base'[queue[c][i][2]] = c
  <2>1. ASSUME NEW i \in 1 .. Len(queue[c])
        PROVE  /\ queue[c][i] \in Events /\ queue[c][i][2] \in Tasks
               /\ m_event_base'[queue[c][i][2]] = c
    <3>1. queue[c][i] \in Events
      BY <1>2, ElementOfSeq
    <3>2. queue[c][i][2] \in Tasks
      BY <3>1 DEF Events
    <3>3. m_event_base[queue[c][i][2]] = c /\ c # None
      BY DisjointAssumption DEF QueueInv
    <3> QED
      BY <3>1, <3>2, <3>3
  <2> QED
    BY <2>1
<1>4. \A u \in Tasks : \A i \in 1 .. Len(queue[c]) :
          queue[c][i] = <<"REMOVE_AWAITER", u>> /\ frame'[u] = "initial" =>
              \E j \in 1 .. i - 1 : queue[c][j] = <<"RUN", u>>
  <2>1. ASSUME NEW u \in Tasks, NEW i \in 1 .. Len(queue[c]),
               queue[c][i] = <<"REMOVE_AWAITER", u>>, frame'[u] = "initial"
        PROVE  \E j \in 1 .. i - 1 : queue[c][j] = <<"RUN", u>>
    <3>1. Has("REMOVE_AWAITER", u)
      BY <2>1 DEF Has
    <3>2. frame[u] = "initial"
      BY <2>1, <3>1, PostHas
    <3> QED
      BY <2>1, <3>2 DEF QueueInv
  <2> QED
    BY <2>1
<1>5. CASE queue'[c] = queue[c]
  <2>1. Len(queue[c]) =< QueueSize
        /\ \A i, j \in 1 .. Len(queue[c]) : queue[c][i] = queue[c][j] => i = j
    BY DEF QueueInv
  <2>2. \A i \in 1 .. Len(queue'[c]) : m_event_base'[queue'[c][i][2]] = c
    BY <1>3, <1>5
  <2>3. \A u \in Tasks : \A i \in 1 .. Len(queue'[c]) :
            queue'[c][i] = <<"REMOVE_AWAITER", u>> /\ frame'[u] = "initial" =>
                \E j \in 1 .. i - 1 : queue'[c][j] = <<"RUN", u>>
    BY <1>4, <1>5
  <2>4. Len(queue'[c]) =< QueueSize
        /\ \A i, j \in 1 .. Len(queue'[c]) : queue'[c][i] = queue'[c][j] => i = j
    BY <1>5, <2>1
  <2> QED
    BY <2>2, <2>3, <2>4
<1>6. CASE queue'[c] # queue[c]
  <2>1. c = b /\ ~failed'
    BY <1>1, <1>6
  <2> DEFINE n == Len(queue[b]) + 1
  <2>2. /\ Len(queue'[b]) = n /\ queue'[b][n] = e
        /\ \A i \in 1 .. Len(queue[b]) : queue'[b][i] = queue[b][i]
        /\ n =< QueueSize /\ n \in Nat
    <3>1. queue[b] \in Seq(Events) /\ Len(queue[b]) < QueueSize /\ Len(queue[b]) \in Nat
          /\ queue'[b] = Append(queue[b], e)
      BY <1>1, <1>2, <2>1
    <3>2. n =< QueueSize /\ n \in Nat
      BY <3>1, BoundsAssumption
    <3> QED
      BY <3>1, <3>2
  <2>3. \A i \in 1 .. n : i \in 1 .. Len(queue[b]) \/ i = n
    BY <1>2, <2>1
  <2>4. \A i \in 1 .. Len(queue[b]) : queue[b][i] # e
    BY DEF Has
  <2>5. e[2] = t /\ e[1] = type
    OBVIOUS
  <2>6. ASSUME NEW u \in Tasks, e = <<"REMOVE_AWAITER", u>>, frame'[u] = "initial"
        PROVE  \E j \in 1 .. n - 1 : queue'[b][j] = <<"RUN", u>>
    <3>1. u = t /\ type = "REMOVE_AWAITER"
      BY <2>6
    <3>2. Has("RUN", t)
      BY <2>6, <3>1
    <3>3. PICK d \in Bases : \E j \in 1 .. Len(queue[d]) : queue[d][j] = <<"RUN", t>>
      BY <3>2 DEF Has
    <3>4. PICK j \in 1 .. Len(queue[d]) : queue[d][j] = <<"RUN", t>>
      BY <3>3
    <3>5. m_event_base[t] = d /\ d # None
      <4>1. <<"RUN", t>>[2] = t
        OBVIOUS
      <4> QED
        BY <3>4, <4>1, DisjointAssumption DEF QueueInv
    <3>6. d = b
      BY <3>5
    <3> QED
      BY <1>2, <2>1, <2>2, <3>1, <3>4, <3>6
  <2>7. \A u \in Tasks : \A i \in 1 .. n :
            queue'[b][i] = <<"REMOVE_AWAITER", u>> /\ frame'[u] = "initial" =>
                \E j \in 1 .. i - 1 : queue'[b][j] = <<"RUN", u>>
    <3>1. ASSUME NEW u \in Tasks, NEW i \in 1 .. Len(queue[b]),
                 queue[b][i] = <<"REMOVE_AWAITER", u>>, frame'[u] = "initial"
          PROVE  \E j \in 1 .. i - 1 : queue'[b][j] = <<"RUN", u>>
      <4>1. PICK j \in 1 .. i - 1 : queue[b][j] = <<"RUN", u>>
        BY <1>4, <2>1, <3>1
      <4>2. j \in 1 .. Len(queue[b])
        BY <1>2, <2>1, <3>1, <4>1
      <4> QED
        BY <2>2, <4>1, <4>2
    <3>2. ASSUME NEW u \in Tasks, NEW i \in 1 .. n,
                 queue'[b][i] = <<"REMOVE_AWAITER", u>>, frame'[u] = "initial"
          PROVE  \E j \in 1 .. i - 1 : queue'[b][j] = <<"RUN", u>>
      <4>1. CASE i \in 1 .. Len(queue[b])
        <5>1. queue[b][i] = <<"REMOVE_AWAITER", u>>
          BY <2>2, <3>2, <4>1
        <5> QED
          BY <3>1, <3>2, <4>1, <5>1
      <4>2. CASE i = n
        <5>1. e = <<"REMOVE_AWAITER", u>>
          BY <2>2, <3>2, <4>2
        <5>2. \E j \in 1 .. n - 1 : queue'[b][j] = <<"RUN", u>>
          BY <2>6, <3>2, <5>1
        <5> QED
          BY <4>2, <5>2
      <4> QED
        BY <2>3, <4>1, <4>2
    <3> QED
      BY <3>2
  <2>8. \A i, j \in 1 .. n : queue'[b][i] = queue'[b][j] => i = j
    BY <2>1, <2>2, <2>3, <2>4 DEF QueueInv
  <2>9. \A i \in 1 .. n : m_event_base'[queue'[b][i][2]] = b
    <3>1. \A i \in 1 .. Len(queue[b]) : m_event_base'[queue[b][i][2]] = b
      BY <1>3, <2>1
    <3>2. m_event_base'[queue'[b][n][2]] = b
      BY <2>2, <2>5
    <3> QED
      BY <2>2, <2>3, <3>1, <3>2
  <2> HIDE DEF n
  <2>10. Len(queue'[b]) =< QueueSize /\ Len(queue'[b]) = n
    BY <2>2
  <2> QED
    BY <2>1, <2>7, <2>8, <2>9, <2>10
<1> QED
  BY <1>5, <1>6

\* pop takes the event at the head of a queue.
LEMMA PopEffect ==
    ASSUME TypeOK, QueueInv, NEW b \in Bases, queue[b] # <<>>,
           queue' = [queue EXCEPT ![b] = Tail(@)]
    PROVE  /\ queue' \in [Bases -> Seq(Events)]
           /\ Head(queue[b]) \in Events /\ Head(queue[b]) = queue[b][1]
           /\ Len(queue[b]) \in Nat /\ Len(queue[b]) > 0
           /\ Len(queue'[b]) = Len(queue[b]) - 1
           /\ \A i \in 1 .. Len(queue[b]) - 1 : queue'[b][i] = queue[b][i + 1]
           /\ \A c \in Bases : c # b => queue'[c] = queue[c]
<1>1. queue \in [Bases -> Seq(Events)] /\ queue[b] \in Seq(Events)
  BY DEF TypeOK
<1>2. /\ Tail(queue[b]) \in Seq(Events) /\ Len(Tail(queue[b])) = Len(queue[b]) - 1
      /\ \A i \in 1 .. Len(queue[b]) - 1 : Tail(queue[b])[i] = queue[b][i + 1]
      /\ Len(queue[b]) \in Nat /\ Len(queue[b]) > 0
  BY <1>1
<1>3. Head(queue[b]) = queue[b][1] /\ Head(queue[b]) \in Events
  BY <1>1, <1>2
<1>4. queue'[b] = Tail(queue[b])
  BY <1>1
<1> QED
  BY <1>1, <1>2, <1>3, <1>4

\* The base takes event e from its queue.
Popped(b, e) == /\ queue[b] # <<>> /\ Head(queue[b]) = e
                /\ queue' = [queue EXCEPT ![b] = Tail(@)]

\* The event popped is on the base of its task, and is gone afterwards.
LEMMA PopHas ==
    ASSUME TypeOK, QueueInv, NEW b \in Bases,
           NEW type \in EventTypes, NEW t \in Tasks, Popped(b, <<type, t>>)
    PROVE  /\ Has(type, t) /\ m_event_base[t] = b
           /\ \A y, u : Has(y, u)' => Has(y, u) /\ ~(y = type /\ u = t)
           /\ \A y, u : Has(y, u) /\ ~(y = type /\ u = t) => Has(y, u)'
           /\ type = "REMOVE_AWAITER" => frame[t] # "initial"
<1> DEFINE e == <<type, t>>
<1>1. /\ queue' \in [Bases -> Seq(Events)]
      /\ e \in Events /\ e = queue[b][1]
      /\ Len(queue[b]) \in Nat /\ Len(queue[b]) > 0
      /\ Len(queue'[b]) = Len(queue[b]) - 1
      /\ \A i \in 1 .. Len(queue[b]) - 1 : queue'[b][i] = queue[b][i + 1]
      /\ \A c \in Bases : c # b => queue'[c] = queue[c]
  BY PopEffect DEF Popped
<1>2. type \in EventTypes /\ t \in Tasks /\ e[2] = t
  BY <1>1 DEF Events
<1>3. 1 \in 1 .. Len(queue[b])
  BY <1>1
<1>4. Has(type, t) /\ m_event_base[t] = b
  <2>1. queue[b][1] = <<type, t>> /\ queue[b][1][2] = t
    BY <1>1, <1>2
  <2>2. Has(type, t)
    BY <1>3, <2>1 DEF Has
  <2>3. m_event_base[queue[b][1][2]] = b
    BY <1>3 DEF QueueInv
  <2> QED
    BY <2>1, <2>2, <2>3
<1>5. ASSUME NEW y, NEW u, Has(y, u)' PROVE Has(y, u) /\ ~(y = type /\ u = t)
  <2>1. PICK c \in Bases : \E i \in 1 .. Len(queue'[c]) : queue'[c][i] = <<y, u>>
    BY <1>5 DEF Has
  <2>2. PICK i \in 1 .. Len(queue'[c]) : queue'[c][i] = <<y, u>>
    BY <2>1
  <2>3. CASE c # b
    <3>1. queue[c][i] = <<y, u>> /\ i \in 1 .. Len(queue[c])
      BY <1>1, <2>2, <2>3
    <3>2. m_event_base[u] = c
      <4>1. <<y, u>>[2] = u
        OBVIOUS
      <4> QED
        BY <3>1, <4>1 DEF QueueInv
    <3> QED
      BY <1>4, <2>3, <3>1, <3>2 DEF Has
  <2>4. CASE c = b
    <3>1. i + 1 \in 1 .. Len(queue[b]) /\ i + 1 # 1
      BY <1>1, <2>2, <2>4
    <3>2. queue[b][i + 1] = <<y, u>>
      BY <1>1, <2>2, <2>4
    <3>3. <<y, u>> # e
      <4>1. queue[b][i + 1] # queue[b][1]
        BY <1>3, <3>1 DEF QueueInv
      <4> QED
        BY <1>1, <3>2, <4>1
    <3> QED
      BY <3>1, <3>2, <3>3 DEF Has
  <2> QED
    BY <2>3, <2>4
<1>6. ASSUME NEW y, NEW u, Has(y, u), ~(y = type /\ u = t) PROVE Has(y, u)'
  <2>1. PICK c \in Bases : \E i \in 1 .. Len(queue[c]) : queue[c][i] = <<y, u>>
    BY <1>6 DEF Has
  <2>2. PICK i \in 1 .. Len(queue[c]) : queue[c][i] = <<y, u>>
    BY <2>1
  <2>3. CASE c # b
    BY <1>1, <2>2, <2>3 DEF Has
  <2>4. CASE c = b
    <3>1. <<y, u>> # e
      BY <1>6
    <3>2. i # 1
      BY <1>1, <2>2, <2>4, <3>1
    <3>3. i - 1 \in 1 .. Len(queue'[b]) /\ queue'[b][i - 1] = <<y, u>>
      <4>1. i - 1 \in 1 .. Len(queue[b]) - 1 /\ (i - 1) + 1 = i
        BY <1>1, <2>2, <2>4, <3>2
      <4> QED
        BY <1>1, <2>2, <2>4, <4>1
    <3> QED
      BY <3>3 DEF Has
  <2> QED
    BY <2>3, <2>4
<1>7. ASSUME type = "REMOVE_AWAITER", frame[t] = "initial" PROVE FALSE
  <2>1. queue[b][1] = <<"REMOVE_AWAITER", t>>
    BY <1>1, <1>7
  <2>2. \E j \in 1 .. 1 - 1 : queue[b][j] = <<"RUN", t>>
    BY <1>2, <1>3, <1>7, <2>1 DEF QueueInv
  <2> QED
    BY <2>2
<1> QED
  BY <1>2, <1>4, <1>5, <1>6, <1>7

\* The queues stay in order.
LEMMA PopQueueInv ==
    ASSUME TypeOK, QueueInv, NEW b \in Bases, queue[b] # <<>>,
           queue' = [queue EXCEPT ![b] = Tail(@)], m_event_base' = m_event_base,
           \A u \in Tasks : frame'[u] = "initial" =>
               frame[u] = "initial" /\ Head(queue[b]) # <<"RUN", u>>
    PROVE  QueueInv'
<1>1. /\ queue' \in [Bases -> Seq(Events)]
      /\ Head(queue[b]) = queue[b][1]
      /\ Len(queue[b]) \in Nat /\ Len(queue[b]) > 0
      /\ Len(queue'[b]) = Len(queue[b]) - 1
      /\ \A i \in 1 .. Len(queue[b]) - 1 : queue'[b][i] = queue[b][i + 1]
      /\ \A c \in Bases : c # b => queue'[c] = queue[c]
  BY PopEffect
<1> SUFFICES ASSUME NEW c \in Bases
             PROVE  /\ Len(queue'[c]) =< QueueSize
                    /\ \A i \in 1 .. Len(queue'[c]) : m_event_base[queue'[c][i][2]] = c
                    /\ \A i, j \in 1 .. Len(queue'[c]) : queue'[c][i] = queue'[c][j] => i = j
                    /\ \A u \in Tasks : \A i \in 1 .. Len(queue'[c]) :
                           queue'[c][i] = <<"REMOVE_AWAITER", u>> /\ frame'[u] = "initial" =>
                               \E j \in 1 .. i - 1 : queue'[c][j] = <<"RUN", u>>
  BY DEF QueueInv
<1>2. CASE c # b
  <2>1. queue'[c] = queue[c]
    BY <1>1, <1>2
  <2>2. \A u \in Tasks : frame'[u] = "initial" => frame[u] = "initial"
    OBVIOUS
  <2>3. /\ Len(queue[c]) =< QueueSize
        /\ \A i \in 1 .. Len(queue[c]) : m_event_base[queue[c][i][2]] = c
        /\ \A i, j \in 1 .. Len(queue[c]) : queue[c][i] = queue[c][j] => i = j
    BY DEF QueueInv
  <2>4. \A u \in Tasks : \A i \in 1 .. Len(queue[c]) :
            queue[c][i] = <<"REMOVE_AWAITER", u>> /\ frame'[u] = "initial" =>
                \E j \in 1 .. i - 1 : queue[c][j] = <<"RUN", u>>
    BY <2>2 DEF QueueInv
  <2>5. /\ Len(queue'[c]) =< QueueSize
        /\ \A i \in 1 .. Len(queue'[c]) : m_event_base[queue'[c][i][2]] = c
        /\ \A i, j \in 1 .. Len(queue'[c]) : queue'[c][i] = queue'[c][j] => i = j
    BY <2>1, <2>3
  <2>6. \A u \in Tasks : \A i \in 1 .. Len(queue'[c]) :
            queue'[c][i] = <<"REMOVE_AWAITER", u>> /\ frame'[u] = "initial" =>
                \E j \in 1 .. i - 1 : queue'[c][j] = <<"RUN", u>>
    BY <2>1, <2>4
  <2> QED
    BY <2>5, <2>6
<1>3. CASE c = b
  <2> DEFINE n == Len(queue[b]) - 1
  <2>1. n \in Nat /\ Len(queue'[b]) = n /\ n =< QueueSize
    BY <1>1, BoundsAssumption DEF QueueInv
  <2>2. \A i \in 1 .. n : i + 1 \in 1 .. Len(queue[b]) /\ queue'[b][i] = queue[b][i + 1]
    BY <1>1
  <2> HIDE DEF n
  <2>3. \A i \in 1 .. n : m_event_base[queue'[b][i][2]] = b
    BY <2>2 DEF QueueInv
  <2>4. ASSUME NEW i \in 1 .. n, NEW j \in 1 .. n, queue'[b][i] = queue'[b][j] PROVE i = j
    <3>1. i + 1 = j + 1
      BY <2>2, <2>4 DEF QueueInv
    <3> QED
      BY <2>1, <3>1
  <2>5. ASSUME NEW u \in Tasks, NEW i \in 1 .. n,
               queue'[b][i] = <<"REMOVE_AWAITER", u>>, frame'[u] = "initial"
        PROVE  \E j \in 1 .. i - 1 : queue'[b][j] = <<"RUN", u>>
    <3>1. queue[b][i + 1] = <<"REMOVE_AWAITER", u>> /\ frame[u] = "initial"
      BY <2>2, <2>5
    <3>2. PICK j \in 1 .. (i + 1) - 1 : queue[b][j] = <<"RUN", u>>
      BY <2>2, <3>1 DEF QueueInv
    <3>3. j # 1
      BY <1>1, <2>5, <3>2
    <3>4. j - 1 \in 1 .. i - 1 /\ j - 1 \in 1 .. n /\ (j - 1) + 1 = j
      BY <2>1, <3>2, <3>3
    <3>5. queue'[b][j - 1] = <<"RUN", u>>
      BY <2>2, <3>2, <3>4
    <3> QED
      BY <3>4, <3>5
  <2>6. /\ Len(queue'[b]) =< QueueSize
        /\ \A i \in 1 .. Len(queue'[b]) : m_event_base[queue'[b][i][2]] = b
        /\ \A i, j \in 1 .. Len(queue'[b]) : queue'[b][i] = queue'[b][j] => i = j
    BY <2>1, <2>3, <2>4
  <2>7. \A u \in Tasks : \A i \in 1 .. Len(queue'[b]) :
            queue'[b][i] = <<"REMOVE_AWAITER", u>> /\ frame'[u] = "initial" =>
                \E j \in 1 .. i - 1 : queue'[b][j] = <<"RUN", u>>
    BY <2>1, <2>5
  <2>8. /\ Len(queue'[c]) =< QueueSize
        /\ \A i \in 1 .. Len(queue'[c]) : m_event_base[queue'[c][i][2]] = c
        /\ \A i, j \in 1 .. Len(queue'[c]) : queue'[c][i] = queue'[c][j] => i = j
    BY <1>3, <2>6
  <2>9. \A u \in Tasks : \A i \in 1 .. Len(queue'[c]) :
            queue'[c][i] = <<"REMOVE_AWAITER", u>> /\ frame'[u] = "initial" =>
                \E j \in 1 .. i - 1 : queue'[c][j] = <<"RUN", u>>
    BY <1>3, <2>7
  <2> QED
    BY <2>8, <2>9
<1> QED
  BY <1>2, <1>3

\* A step that leaves the queues alone.
LEMMA SameQueue ==
    ASSUME TypeOK, QueueInv, UNCHANGED queue,
           \A u \in Tasks : m_event_base[u] # None => m_event_base'[u] = m_event_base[u],
           \A u \in Tasks : frame'[u] = "initial" =>
               frame[u] = "initial" \/ ~Has("REMOVE_AWAITER", u)
    PROVE  /\ QueueInv'
           /\ \A y, u : Has(y, u)' <=> Has(y, u)
<1>1. \A y, u : Has(y, u)' <=> Has(y, u)
  BY DEF Has
<1>2. ASSUME NEW b \in Bases, NEW i \in 1 .. Len(queue[b])
      PROVE  m_event_base'[queue[b][i][2]] = b
  <2>1. queue[b] \in Seq(Events)
    BY DEF TypeOK
  <2>2. queue[b][i] \in Events
    BY <2>1, ElementOfSeq
  <2>3. queue[b][i][2] \in Tasks
    BY <2>2 DEF Events
  <2>4. m_event_base[queue[b][i][2]] = b /\ b # None
    BY DisjointAssumption DEF QueueInv
  <2> QED
    BY <2>3, <2>4
<1>3. ASSUME NEW b \in Bases, NEW u \in Tasks, NEW i \in 1 .. Len(queue[b]),
             queue[b][i] = <<"REMOVE_AWAITER", u>>, frame'[u] = "initial"
      PROVE  \E j \in 1 .. i - 1 : queue[b][j] = <<"RUN", u>>
  <2>1. Has("REMOVE_AWAITER", u)
    BY <1>3 DEF Has
  <2> QED
    BY <1>3, <2>1 DEF QueueInv
<1>4. \A b \in Bases : /\ Len(queue[b]) =< QueueSize
                       /\ \A i, j \in 1 .. Len(queue[b]) : queue[b][i] = queue[b][j] => i = j
  BY DEF QueueInv
<1>5. QueueInv'
  <2> SUFFICES ASSUME NEW b \in Bases
               PROVE  /\ Len(queue'[b]) =< QueueSize
                      /\ \A i \in 1 .. Len(queue'[b]) : m_event_base'[queue'[b][i][2]] = b
                      /\ \A i, j \in 1 .. Len(queue'[b]) : queue'[b][i] = queue'[b][j] => i = j
                      /\ \A u \in Tasks : \A i \in 1 .. Len(queue'[b]) :
                             queue'[b][i] = <<"REMOVE_AWAITER", u>> /\ frame'[u] = "initial" =>
                                 \E j \in 1 .. i - 1 : queue'[b][j] = <<"RUN", u>>
    BY DEF QueueInv
  <2>1. /\ Len(queue'[b]) =< QueueSize
        /\ \A i, j \in 1 .. Len(queue'[b]) : queue'[b][i] = queue'[b][j] => i = j
    BY <1>4
  <2>2. \A i \in 1 .. Len(queue'[b]) : m_event_base'[queue'[b][i][2]] = b
    BY <1>2
  <2>3. \A u \in Tasks : \A i \in 1 .. Len(queue'[b]) :
            queue'[b][i] = <<"REMOVE_AWAITER", u>> /\ frame'[u] = "initial" =>
                \E j \in 1 .. i - 1 : queue'[b][j] = <<"RUN", u>>
    BY <1>3
  <2> QED
    BY <2>1, <2>2, <2>3
<1> QED
  BY <1>1, <1>5

\* Only a started task has events.
LEMMA HasBase ==
    ASSUME TypeOK, QueueInv, NEW y, NEW u, Has(y, u)
    PROVE  m_event_base[u] \in Bases /\ m_event_base[u] # None
<1>1. PICK b \in Bases : \E i \in 1 .. Len(queue[b]) : queue[b][i] = <<y, u>>
  BY DEF Has
<1>2. PICK i \in 1 .. Len(queue[b]) : queue[b][i] = <<y, u>>
  BY <1>1
<1>3. m_event_base[queue[b][i][2]] = b /\ queue[b][i][2] = u
  BY <1>2 DEF QueueInv
<1> QED
  BY <1>3, DisjointAssumption

-----------------------------------------------------------------------------
(* One lemma per action: the inductive invariant is kept. *)

LEMMA CreateStep ==
    ASSUME IInv, NEW t \in Roots, Create(t)
    PROVE  IInv'
<1>1. /\ t \in Tasks /\ frame[t] = "none"
      /\ frame' = [frame EXCEPT ![t] = "initial"]
      /\ owner' = [owner EXCEPT ![t] = "outside"]
      /\ UNCHANGED <<m_event_base, flags, m_suspending_promise, awaited,
                     future_value, awaits, queue, current, failed, m_stopping>>
  BY DEF Create, Tasks
<1>2. TypeOK /\ QueueInv /\ TaskInv(t)
  BY <1>1 DEF IInv
<1>3. TypeOK'
  BY <1>1, <1>2 DEF TypeOK, Frames, flags
<1>4. ~Has("REMOVE_AWAITER", t) /\ m_event_base[t] = None /\ ~has_suspend_value[t]
  BY <1>1, <1>2 DEF TaskInv, EventInv, FrameInv, Alive
<1>5. QueueInv' /\ \A y, u : Has(y, u)' <=> Has(y, u)
  BY <1>1, <1>2, <1>4, SameQueue DEF TypeOK
<1>6. ASSUME NEW u \in Tasks PROVE TaskInv(u)'
  <2>1. TaskInv(u)
    BY DEF IInv
  <2>2. EventInv(u)'
    BY <1>1, <1>2, <1>4, <1>5, <2>1 DEF TypeOK, flags, TaskInv, EventInv, Alive
  <2>3. FrameInv(u)'
    BY <1>1, <1>2, <1>4, <1>5, <2>1 DEF TypeOK, flags, TaskInv, FrameInv, Alive
  <2>4. WakeInv(u)'
    BY <1>1, <1>2, <1>4, <1>5, <2>1 DEF TypeOK, flags, TaskInv, FrameInv, WakeInv, Unfinished
  <2>5. ChildInv(u)'
    BY <1>1, <1>2, <1>4, <1>5, <2>1 DEF TypeOK, flags, TaskInv, FrameInv, ChildInv
  <2> QED
    BY <2>2, <2>3, <2>4, <2>5 DEF TaskInv
<1>7. ASSUME NEW c \in Bases PROVE CurrentInv(c)'
  BY <1>1, <1>2 DEF IInv, TypeOK, flags, CurrentInv, Alive
<1> QED
  BY <1>3, <1>5, <1>6, <1>7 DEF IInv

LEMMA StartStep ==
    ASSUME IInv, NEW t \in Roots, NEW b \in Bases, Start(t, b)
    PROVE  IInv'
<1>1. /\ t \in Tasks /\ owner[t] = "outside" /\ m_event_base[t] = None /\ ~failed
      /\ m_event_base' = [m_event_base EXCEPT ![t] = b]
      /\ Post(b, <<"RUN", t>>)
      /\ UNCHANGED <<frame, flags, m_suspending_promise, owner, awaited,
                     future_value, awaits, current, m_stopping>>
  BY DEF Start, Tasks
<1>2. TypeOK /\ QueueInv /\ TaskInv(t) /\ "RUN" \in EventTypes
  BY <1>1 DEF IInv, EventTypes
<1>3. queue' \in [Bases -> Seq(Events)] /\ failed' \in BOOLEAN
  BY <1>1, <1>2, PostEffect
<1>4. TypeOK'
  BY <1>1, <1>2, <1>3 DEF TypeOK, flags
<1>5. ~Has("RUN", t) /\ ~Has("REMOVE_AWAITER", t)
  BY <1>1, <1>2, HasBase
<1>6. frame[t] = "initial"
  BY <1>1, <1>2, DisjointAssumption DEF TypeOK, Frames, TaskInv, FrameInv, Alive
<1>7. /\ \A y, u : Has(y, u) => Has(y, u)'
      /\ \A y, u : Has(y, u)' => Has(y, u) \/ (y = "RUN" /\ u = t)
      /\ ~failed' => Has("RUN", t)'
  BY <1>1, <1>2, PostHas
<1>8. QueueInv'
  BY <1>1, <1>2, <1>5, PostQueueInv DEF TypeOK
<1>9. ASSUME NEW u \in Tasks PROVE TaskInv(u)'
  <2>1. TaskInv(u)
    BY DEF IInv
  <2>2. EventInv(u)'
    BY <1>1, <1>2, <1>6, <1>7, <2>1 DEF TypeOK, flags, TaskInv, EventInv, Alive
  <2>3. FrameInv(u)'
    BY <1>1, <1>2, <1>6, <1>7, <2>1 DEF TypeOK, flags, TaskInv, FrameInv, Alive
  <2>4. WakeInv(u)'
    BY <1>1, <1>2, <1>6, <1>7, <2>1 DEF TypeOK, flags, TaskInv, FrameInv, WakeInv, Unfinished
  <2>5. ChildInv(u)'
    BY <1>1, <1>2, <1>6, <2>1, DisjointAssumption DEF TypeOK, TaskInv, ChildInv
  <2> QED
    BY <2>2, <2>3, <2>4, <2>5 DEF TaskInv
<1>10. ASSUME NEW c \in Bases PROVE CurrentInv(c)'
  BY <1>1, <1>2, <1>6 DEF IInv, TypeOK, flags, CurrentInv, Alive
<1> QED
  BY <1>4, <1>8, <1>9, <1>10 DEF IInv

LEMMA ReleaseStep ==
    ASSUME IInv, NEW t \in Roots, Release(t)
    PROVE  IInv'
<1>1. /\ t \in Tasks /\ owner[t] = "outside" /\ ~failed
      /\ owner' = [owner EXCEPT ![t] = None]
      /\ UNCHANGED <<m_event_base, flags, m_suspending_promise, awaited,
                     future_value, awaits, current, m_stopping>>
  BY DEF Release, Tasks
<1>2. TypeOK /\ QueueInv /\ TaskInv(t) /\ "REMOVE_AWAITER" \in EventTypes
  BY <1>1 DEF IInv, EventTypes
<1>3. Alive(t) /\ has_awaiter[t] /\ ~force_destroy[t] /\ ~Has("REMOVE_AWAITER", t)
  BY <1>1, <1>2, DisjointAssumption DEF TaskInv, FrameInv, EventInv
<1>4. \A u \in Tasks : awaited[u] # t
  BY <1>1, DisjointAssumption DEF IInv, TaskInv, ChildInv, TypeOK
<1>5. CASE m_event_base[t] = None
  <2>1. frame' = [frame EXCEPT ![t] = "freed"] /\ UNCHANGED <<queue, failed>>
    BY <1>5 DEF Release, CheckRelease, PostNothing
  <2>2. /\ frame[t] = "initial" /\ ~Has("RUN", t) /\ ~Has("SET_SUSPEND_VALUE", t)
        /\ ~has_suspend_value[t] /\ m_suspending_promise[t] = None
    BY <1>2, <1>3, <1>5, HasBase DEF TypeOK, Frames, TaskInv, FrameInv, WakeInv, Alive
  <2>3. TypeOK'
    BY <1>1, <1>2, <2>1 DEF TypeOK, Frames, flags
  <2>4. QueueInv' /\ \A y, u : Has(y, u)' <=> Has(y, u)
    BY <1>1, <1>2, <2>1, SameQueue DEF TypeOK
  <2>5. ASSUME NEW u \in Tasks PROVE TaskInv(u)'
    <3>1. TaskInv(u)
      BY DEF IInv
    <3>2. EventInv(u)'
      BY <1>1, <1>2, <1>3, <2>1, <2>2, <2>4, <3>1 DEF TypeOK, flags, TaskInv, EventInv, Alive
    <3>3. FrameInv(u)'
      BY <1>1, <1>2, <2>1, <2>2, <2>4, <3>1 DEF TypeOK, flags, TaskInv, FrameInv, Alive
    <3>4. WakeInv(u)'
      <4>1. Unfinished(u)' <=> Unfinished(u)
        BY <1>1, <1>2, <2>1, <2>2 DEF TypeOK, Unfinished
      <4>2. \A v \in Tasks : Unfinished(v) => Unfinished(v)'
        BY <1>1, <1>2, <2>1, <2>2 DEF TypeOK, Unfinished
      <4> QED
        BY <1>1, <1>2, <2>1, <2>2, <2>4, <3>1, <4>1, <4>2 DEF TypeOK, flags, TaskInv, WakeInv
    <3>5. ChildInv(u)'
      BY <1>1, <1>2, <1>4, <3>1 DEF TypeOK, TaskInv, ChildInv
    <3> QED
      BY <3>2, <3>3, <3>4, <3>5 DEF TaskInv
  <2>6. ASSUME NEW c \in Bases PROVE CurrentInv(c)'
    <3>1. CurrentInv(c) /\ c # None
      BY DisjointAssumption DEF IInv
    <3>2. current[c] # Idle => current[c].task \in Tasks
      BY <1>2 DEF TypeOK
    <3> QED
      BY <1>1, <1>2, <1>5, <2>1, <3>1, <3>2 DEF TypeOK, flags, CurrentInv, Alive
  <2> QED
    BY <2>3, <2>4, <2>5, <2>6 DEF IInv
<1>6. CASE m_event_base[t] # None
  <2>1. /\ Post(m_event_base[t], <<"REMOVE_AWAITER", t>>) /\ UNCHANGED frame
        /\ m_event_base[t] \in Bases
    BY <1>1, <1>2, <1>6 DEF Release, CheckRelease, TypeOK
  <2>2. queue' \in [Bases -> Seq(Events)] /\ failed' \in BOOLEAN
    BY <1>1, <1>2, <2>1, PostEffect
  <2>3. TypeOK'
    BY <1>1, <1>2, <2>1, <2>2 DEF TypeOK, flags
  <2>4. /\ \A y, u : Has(y, u) => Has(y, u)'
        /\ \A y, u : Has(y, u)' => Has(y, u) \/ (y = "REMOVE_AWAITER" /\ u = t)
    BY <1>1, <1>2, <2>1, PostHas
  <2>5. frame[t] = "initial" => Has("RUN", t)
    BY <1>1, <1>2, <1>6 DEF TaskInv, FrameInv
  <2>6. QueueInv'
    BY <1>1, <1>2, <1>3, <2>1, <2>5, PostQueueInv
  <2>7. ASSUME NEW u \in Tasks PROVE TaskInv(u)'
    <3>1. TaskInv(u)
      BY DEF IInv
    <3>2. EventInv(u)'
      BY <1>1, <1>2, <1>3, <2>1, <2>4, <3>1 DEF TypeOK, flags, TaskInv, EventInv, Alive
    <3>3. FrameInv(u)'
      BY <1>1, <1>2, <2>1, <2>4, <3>1 DEF TypeOK, flags, TaskInv, FrameInv, Alive
    <3>4. WakeInv(u)'
      BY <1>1, <1>2, <2>1, <2>4, <3>1 DEF TypeOK, flags, TaskInv, WakeInv, Unfinished
    <3>5. ChildInv(u)'
      BY <1>1, <1>2, <1>4, <3>1 DEF TypeOK, TaskInv, ChildInv
    <3> QED
      BY <3>2, <3>3, <3>4, <3>5 DEF TaskInv
  <2>8. ASSUME NEW c \in Bases PROVE CurrentInv(c)'
    BY <1>1, <1>2, <2>1 DEF IInv, TypeOK, flags, CurrentInv, Alive
  <2> QED
    BY <2>3, <2>6, <2>7, <2>8 DEF IInv
<1> QED
  BY <1>5, <1>6

LEMMA DestroyStep ==
    ASSUME IInv, NEW t \in Roots, Destroy(t)
    PROVE  IInv'
<1>1. /\ t \in Tasks /\ owner[t] = "outside" /\ m_event_base[t] # None
      /\ force_destroy' = [force_destroy EXCEPT ![t] = TRUE]
      /\ owner' = [owner EXCEPT ![t] = None]
      /\ UNCHANGED <<frame, m_event_base, has_suspend_value, has_awaiter,
                     m_suspending_promise, awaited, future_value, awaits, queue,
                     current, failed, m_stopping>>
  BY DEF Destroy, Tasks
<1>2. TypeOK /\ QueueInv /\ TaskInv(t)
  BY <1>1 DEF IInv
<1>3. TypeOK'
  BY <1>1, <1>2 DEF TypeOK
<1>4. Alive(t) /\ ~Has("REMOVE_AWAITER", t)
  BY <1>1, <1>2, DisjointAssumption DEF TaskInv, FrameInv, EventInv
<1>5. \A u \in Tasks : awaited[u] # t
  BY <1>1, DisjointAssumption DEF IInv, TaskInv, ChildInv, TypeOK
<1>6. QueueInv' /\ \A y, u : Has(y, u)' <=> Has(y, u)
  BY <1>1, <1>2, SameQueue
<1>7. ASSUME NEW u \in Tasks PROVE TaskInv(u)'
  <2>1. TaskInv(u)
    BY DEF IInv
  <2>2. EventInv(u)'
    BY <1>1, <1>2, <1>4, <1>5, <1>6, <2>1 DEF TypeOK, flags, TaskInv, EventInv, Alive
  <2>3. FrameInv(u)'
    BY <1>1, <1>2, <1>4, <1>5, <1>6, <2>1 DEF TypeOK, flags, TaskInv, FrameInv, Alive
  <2>4. WakeInv(u)'
    BY <1>1, <1>2, <1>4, <1>5, <1>6, <2>1 DEF TypeOK, flags, TaskInv, FrameInv, WakeInv, Unfinished
  <2>5. ChildInv(u)'
    BY <1>1, <1>2, <1>4, <1>5, <1>6, <2>1, DisjointAssumption DEF TypeOK, TaskInv, ChildInv
  <2> QED
    BY <2>2, <2>3, <2>4, <2>5 DEF TaskInv
<1>8. ASSUME NEW c \in Bases PROVE CurrentInv(c)'
  BY <1>1, <1>2 DEF IInv, TypeOK, CurrentInv, Alive
<1> QED
  BY <1>3, <1>6, <1>7, <1>8 DEF IInv

LEMMA SetValueStep ==
    ASSUME IInv, NEW t \in Tasks, SetValue(t)
    PROVE  IInv'
<1>1. /\ ~failed /\ future_value[t]
      /\ future_value' = [future_value EXCEPT ![t] = FALSE]
      /\ Post(m_event_base[t], <<"SET_SUSPEND_VALUE", t>>)
      /\ UNCHANGED <<frame, m_event_base, flags, m_suspending_promise, owner,
                     awaited, awaits, current, m_stopping>>
  BY DEF SetValue
<1>2. TypeOK /\ QueueInv /\ TaskInv(t) /\ "SET_SUSPEND_VALUE" \in EventTypes
  BY DEF IInv, EventTypes
<1>3. /\ frame[t] = "future" /\ has_suspend_value[t] /\ ~Has("SET_SUSPEND_VALUE", t)
      /\ m_event_base[t] \in Bases
  BY <1>1, <1>2 DEF TypeOK, TaskInv, WakeInv, FrameInv
<1>4. queue' \in [Bases -> Seq(Events)] /\ failed' \in BOOLEAN
  BY <1>1, <1>2, <1>3, PostEffect
<1>5. TypeOK'
  BY <1>1, <1>2, <1>4 DEF TypeOK, flags
<1>6. /\ \A y, u : Has(y, u) => Has(y, u)'
      /\ \A y, u : Has(y, u)' => Has(y, u) \/ (y = "SET_SUSPEND_VALUE" /\ u = t)
      /\ ~failed' => Has("SET_SUSPEND_VALUE", t)'
  BY <1>1, <1>2, <1>3, PostHas
<1>7. QueueInv'
  BY <1>1, <1>2, <1>3, PostQueueInv
<1>8. ASSUME NEW u \in Tasks PROVE TaskInv(u)'
  <2>1. TaskInv(u)
    BY DEF IInv
  <2>2. EventInv(u)'
    BY <1>1, <1>2, <1>3, <1>6, <2>1 DEF TypeOK, flags, TaskInv, EventInv, Alive
  <2>3. FrameInv(u)'
    BY <1>1, <1>2, <1>3, <1>6, <2>1 DEF TypeOK, flags, TaskInv, FrameInv, Alive
  <2>4. WakeInv(u)'
    BY <1>1, <1>2, <1>3, <1>6, <2>1 DEF TypeOK, flags, TaskInv, FrameInv, WakeInv, Unfinished
  <2>5. ChildInv(u)'
    BY <1>1, <1>2, <1>3, <1>6, <2>1, DisjointAssumption DEF TypeOK, TaskInv, ChildInv
  <2> QED
    BY <2>2, <2>3, <2>4, <2>5 DEF TaskInv
<1>9. ASSUME NEW c \in Bases PROVE CurrentInv(c)'
  BY <1>1, <1>2 DEF IInv, TypeOK, flags, CurrentInv, Alive
<1> QED
  BY <1>5, <1>7, <1>8, <1>9 DEF IInv

LEMMA StopStep ==
    ASSUME IInv, NEW b \in Bases, Stop(b)
    PROVE  IInv'
<1>1. /\ m_stopping' = [m_stopping EXCEPT ![b] = TRUE]
      /\ UNCHANGED <<frame, m_event_base, flags, m_suspending_promise, owner,
                     awaited, future_value, awaits, queue, current, failed>>
  BY DEF Stop
<1>2. TypeOK /\ QueueInv
  BY DEF IInv
<1>3. TypeOK'
  BY <1>1, <1>2 DEF TypeOK, flags
<1>4. QueueInv' /\ \A y, u : Has(y, u)' <=> Has(y, u)
  BY <1>1, <1>2, SameQueue
<1>5. ASSUME NEW u \in Tasks PROVE TaskInv(u)'
  <2>1. TaskInv(u)
    BY DEF IInv
  <2>2. EventInv(u)'
    BY <1>1, <1>2, <1>4, <2>1 DEF TypeOK, flags, TaskInv, EventInv, Alive
  <2>3. FrameInv(u)'
    BY <1>1, <1>2, <1>4, <2>1 DEF TypeOK, flags, TaskInv, FrameInv, Alive
  <2>4. WakeInv(u)'
    BY <1>1, <1>2, <1>4, <2>1 DEF TypeOK, flags, TaskInv, FrameInv, WakeInv, Unfinished
  <2>5. ChildInv(u)'
    BY <1>1, <1>2, <1>4, <2>1, DisjointAssumption DEF TypeOK, TaskInv, ChildInv
  <2> QED
    BY <2>2, <2>3, <2>4, <2>5 DEF TaskInv
<1>6. ASSUME NEW c \in Bases PROVE CurrentInv(c)'
  BY <1>1, <1>2 DEF IInv, TypeOK, flags, CurrentInv, Alive
<1> QED
  BY <1>3, <1>4, <1>5, <1>6 DEF IInv

LEMMA HandleRunStep ==
    ASSUME IInv, NEW b \in Bases, HandleRun(b)
    PROVE  IInv'
<1> DEFINE t == Head(queue[b])[2]
<1>1. /\ ~failed /\ current[b] = Idle /\ queue[b] # <<>>
      /\ Head(queue[b])[1] = "RUN"
      /\ queue' = [queue EXCEPT ![b] = Tail(@)]
      /\ frame' = [frame EXCEPT ![t] = "running"]
      /\ current' = [current EXCEPT ![b] = Body(t)]
      /\ UNCHANGED <<m_event_base, m_suspending_promise, owner, awaited, future_value, awaits,
                     flags, failed, m_stopping>>
  BY DEF HandleRun, Pop, flags
<1>2. TypeOK /\ QueueInv
  BY DEF IInv
<1>3. /\ queue' \in [Bases -> Seq(Events)]
      /\ Head(queue[b]) \in Events
  BY <1>1, <1>2, PopEffect
<1>4. Head(queue[b]) = <<"RUN", t>> /\ t \in Tasks /\ "RUN" \in EventTypes
  BY <1>1, <1>3 DEF Events, EventTypes
<1> HIDE DEF t
<1>5. /\ Has("RUN", t) /\ m_event_base[t] = b
      /\ \A y, u : Has(y, u)' => Has(y, u) /\ ~(y = "RUN" /\ u = t)
      /\ \A y, u : Has(y, u) /\ ~(y = "RUN" /\ u = t) => Has(y, u)'
  <2>1. Popped(b, <<"RUN", t>>)
    BY <1>1, <1>4 DEF Popped
  <2> QED
    BY <1>2, <1>4, <2>1, PopHas
<1>6. frame[t] = "initial" /\ ~has_suspend_value[t] /\ b # None
  BY <1>4, <1>5, DisjointAssumption DEF IInv, TaskInv, EventInv, FrameInv
<1>7. TypeOK'
  BY <1>1, <1>2, <1>3, <1>4 DEF TypeOK, Frames, flags, Body
<1>8. QueueInv'
  <2>1. queue[b] # <<>> /\ queue' = [queue EXCEPT ![b] = Tail(@)] /\ m_event_base' = m_event_base
    BY <1>1
  <2>2. \A u \in Tasks : frame'[u] = "initial" =>
            frame[u] = "initial" /\ Head(queue[b]) # <<"RUN", u>>
    BY <1>1, <1>2, <1>4 DEF TypeOK
  <2> QED
    BY <1>2, <2>1, <2>2, PopQueueInv
<1>9. ASSUME NEW u \in Tasks PROVE TaskInv(u)'
  <2>1. TaskInv(u)
    BY DEF IInv
  <2>2. EventInv(u)'
    BY <1>1, <1>2, <1>4, <1>5, <1>6, <2>1 DEF TypeOK, flags, TaskInv, EventInv, Alive
  <2>3. FrameInv(u)'
    BY <1>1, <1>2, <1>4, <1>5, <1>6, <2>1 DEF TypeOK, flags, TaskInv, FrameInv, Alive
  <2>4. WakeInv(u)'
    BY <1>1, <1>2, <1>4, <1>5, <1>6, <2>1 DEF TypeOK, flags, TaskInv, FrameInv, WakeInv, Unfinished
  <2>5. ChildInv(u)'
    BY <1>1, <1>2, <1>4, <1>5, <1>6, <2>1, DisjointAssumption DEF TypeOK, TaskInv, ChildInv
  <2> QED
    BY <2>2, <2>3, <2>4, <2>5 DEF TaskInv
<1>10. ASSUME NEW c \in Bases PROVE CurrentInv(c)'
  <2>1. CurrentInv(c)
    BY DEF IInv
  <2>2. CASE c = b
    BY <1>1, <1>2, <1>4, <1>5, <2>2 DEF TypeOK, CurrentInv, Alive, Body
  <2>3. CASE c # b
    BY <1>1, <1>2, <1>4, <1>5, <2>1, <2>3 DEF TypeOK, flags, CurrentInv, Alive
  <2> QED
    BY <2>2, <2>3
<1> QED
  BY <1>7, <1>8, <1>9, <1>10 DEF IInv

LEMMA HandleSetSuspendValueStep ==
    ASSUME IInv, NEW b \in Bases, HandleSetSuspendValue(b)
    PROVE  IInv'
<1> DEFINE t == Head(queue[b])[2]
<1>1. /\ ~failed /\ current[b] = Idle /\ queue[b] # <<>>
      /\ Head(queue[b])[1] = "SET_SUSPEND_VALUE"
      /\ queue' = [queue EXCEPT ![b] = Tail(@)]
      /\ has_suspend_value' = [has_suspend_value EXCEPT ![t] = FALSE]
      /\ \/ /\ force_destroy[t]
            /\ current' = [current EXCEPT ![b] = Verdict(t, TRUE)]
            /\ UNCHANGED frame
         \/ /\ current' = [current EXCEPT ![b] = Body(t)]
            /\ frame' = [frame EXCEPT ![t] = "running"]
      /\ UNCHANGED <<m_event_base, m_suspending_promise, owner, awaited, future_value, awaits,
                     has_awaiter, force_destroy, failed, m_stopping>>
  BY DEF HandleSetSuspendValue, Pop
<1>2. TypeOK /\ QueueInv
  BY DEF IInv
<1>3. /\ queue' \in [Bases -> Seq(Events)]
      /\ Head(queue[b]) \in Events
  BY <1>1, <1>2, PopEffect
<1>4. Head(queue[b]) = <<"SET_SUSPEND_VALUE", t>> /\ t \in Tasks /\ "SET_SUSPEND_VALUE" \in EventTypes
  BY <1>1, <1>3 DEF Events, EventTypes
<1> HIDE DEF t
<1>5. /\ Has("SET_SUSPEND_VALUE", t) /\ m_event_base[t] = b
      /\ \A y, u : Has(y, u)' => Has(y, u) /\ ~(y = "SET_SUSPEND_VALUE" /\ u = t)
      /\ \A y, u : Has(y, u) /\ ~(y = "SET_SUSPEND_VALUE" /\ u = t) => Has(y, u)'
  <2>1. Popped(b, <<"SET_SUSPEND_VALUE", t>>)
    BY <1>1, <1>4 DEF Popped
  <2> QED
    BY <1>2, <1>4, <2>1, PopHas
<1>6. /\ frame[t] \in {"future", "child"} /\ b # None /\ ~future_value[t]
      /\ \A u \in Tasks : Unfinished(u) => m_suspending_promise[u] # t
  BY <1>4, <1>5, DisjointAssumption DEF IInv, TaskInv, EventInv, WakeInv
<1>7. /\ \A u \in Tasks : u # t => frame'[u] = frame[u]
      /\ frame'[t] \in {"future", "child", "running"}
      /\ frame' \in [Tasks -> Frames]
      /\ \A u \in Tasks : Unfinished(u)' <=> Unfinished(u)
  <2>1. frame' = frame \/ frame' = [frame EXCEPT ![t] = "running"]
    BY <1>1
  <2>2. /\ \A u \in Tasks : u # t => frame'[u] = frame[u]
        /\ frame'[t] \in {"future", "child", "running"}
        /\ frame' \in [Tasks -> Frames]
    BY <1>2, <1>4, <1>6, <2>1 DEF TypeOK, Frames
  <2> QED
    BY <1>1, <1>6, <2>2 DEF Unfinished
<1>8. TypeOK'
  <2>1. current' \in [Bases -> {Idle} \cup
           [phase : {"body", "verdict"}, task : Tasks, forced : BOOLEAN]]
    <3>1. PICK x \in {Verdict(t, TRUE), Body(t)} : current' = [current EXCEPT ![b] = x]
      BY <1>1
    <3>2. x \in [phase : {"body", "verdict"}, task : Tasks, forced : BOOLEAN]
      <4>1. Verdict(t, TRUE) \in [phase : {"body", "verdict"}, task : Tasks, forced : BOOLEAN]
        BY <1>4 DEF Verdict
      <4>2. Body(t) \in [phase : {"body", "verdict"}, task : Tasks, forced : BOOLEAN]
        BY <1>4 DEF Body
      <4> QED
        BY <3>1, <4>1, <4>2
    <3> QED
      BY <1>2, <3>1, <3>2 DEF TypeOK
  <2> QED
    BY <1>1, <1>2, <1>3, <1>4, <1>7, <2>1 DEF TypeOK
<1>9. QueueInv'
  <2>1. queue[b] # <<>> /\ queue' = [queue EXCEPT ![b] = Tail(@)] /\ m_event_base' = m_event_base
    BY <1>1
  <2>2. \A u \in Tasks : frame'[u] = "initial" =>
            frame[u] = "initial" /\ Head(queue[b]) # <<"RUN", u>>
    BY <1>1, <1>4, <1>7 DEF Frames
  <2> QED
    BY <1>2, <2>1, <2>2, PopQueueInv
<1>10. ASSUME NEW u \in Tasks PROVE TaskInv(u)'
  <2>1. TaskInv(u)
    BY DEF IInv
  <2>2. EventInv(u)'
    BY <1>1, <1>2, <1>4, <1>5, <1>6, <1>7, <2>1 DEF TypeOK, TaskInv, EventInv, Alive
  <2>3. FrameInv(u)'
    BY <1>1, <1>2, <1>4, <1>5, <1>6, <1>7, <2>1 DEF TypeOK, TaskInv, FrameInv, Alive
  <2>4. WakeInv(u)'
    <3>1. m_suspending_promise[u] # None => m_suspending_promise[u] \in Tasks
      BY <1>2 DEF TypeOK
    <3>2. UNCHANGED <<future_value, m_suspending_promise, m_event_base, awaited, failed>>
      BY <1>1
    <3>3. /\ has_suspend_value'[u] => has_suspend_value[u] /\ u # t
          /\ \A v \in Tasks : v # t => has_suspend_value'[v] = has_suspend_value[v]
      BY <1>1, <1>2, <1>4 DEF TypeOK
    <3>4. future_value'[u] => frame'[u] = "future" /\ has_suspend_value'[u]
                              /\ ~Has("SET_SUSPEND_VALUE", u)'
      BY <1>5, <1>6, <1>7, <2>1, <3>2, <3>3 DEF TaskInv, WakeInv
    <3>5. Unfinished(u)' =>
            /\ frame'[m_suspending_promise[u]] = "child" /\ awaited[m_suspending_promise[u]] = u
            /\ has_suspend_value'[m_suspending_promise[u]]
            /\ ~Has("SET_SUSPEND_VALUE", m_suspending_promise[u])'
      <4>1. Unfinished(u)' => Unfinished(u) /\ m_suspending_promise[u] # t
                              /\ m_suspending_promise[u] \in Tasks
        BY <1>6, <1>7, <3>1 DEF Unfinished
      <4>2. Unfinished(u) =>
              /\ frame[m_suspending_promise[u]] = "child" /\ awaited[m_suspending_promise[u]] = u
              /\ has_suspend_value[m_suspending_promise[u]]
              /\ ~Has("SET_SUSPEND_VALUE", m_suspending_promise[u])
        BY <2>1 DEF TaskInv, WakeInv
      <4> QED
        BY <1>5, <1>7, <3>2, <3>3, <4>1, <4>2
    <3>6. has_suspend_value'[u] /\ ~failed' =>
           \/ future_value'[u]
           \/ Has("SET_SUSPEND_VALUE", u)'
           \/ \E v \in Tasks : Unfinished(v)' /\ m_suspending_promise'[v] = u
      BY <1>5, <1>7, <2>1, <3>2, <3>3 DEF TaskInv, WakeInv
    <3> QED
      BY <2>1, <3>2, <3>4, <3>5, <3>6 DEF TaskInv, WakeInv
  <2>5. ChildInv(u)'
    BY <1>1, <1>2, <2>1 DEF TaskInv, ChildInv
  <2> QED
    BY <2>2, <2>3, <2>4, <2>5 DEF TaskInv
<1>11. ASSUME NEW c \in Bases PROVE CurrentInv(c)'
  <2>1. CurrentInv(c)
    BY DEF IInv
  <2>2. CASE c = b
    <3>1. CASE /\ force_destroy[t]
               /\ current' = [current EXCEPT ![b] = Verdict(t, TRUE)]
               /\ UNCHANGED frame
      BY <1>1, <1>2, <1>4, <1>5, <1>6, <2>2, <3>1 DEF TypeOK, CurrentInv, Alive, Verdict
    <3>2. CASE /\ current' = [current EXCEPT ![b] = Body(t)]
               /\ frame' = [frame EXCEPT ![t] = "running"]
      BY <1>1, <1>2, <1>4, <1>5, <2>2, <3>2 DEF TypeOK, CurrentInv, Alive, Body
    <3> QED
      BY <1>1, <3>1, <3>2
  <2>3. CASE c # b
    <3>1. current'[c] = current[c] /\ (current[c] # Idle => current[c].task \in Tasks)
      BY <1>1, <1>2, <2>3 DEF TypeOK
    <3> QED
      BY <1>1, <1>4, <1>5, <1>7, <2>1, <2>3, <3>1 DEF CurrentInv, Alive
  <2> QED
    BY <2>2, <2>3
<1> QED
  BY <1>8, <1>9, <1>10, <1>11 DEF IInv

LEMMA HandleRemoveAwaiterStep ==
    ASSUME IInv, NEW b \in Bases, HandleRemoveAwaiter(b)
    PROVE  IInv'
<1> DEFINE t == Head(queue[b])[2]
<1>1. /\ ~failed /\ current[b] = Idle /\ queue[b] # <<>>
      /\ Head(queue[b])[1] = "REMOVE_AWAITER"
      /\ queue' = [queue EXCEPT ![b] = Tail(@)]
      /\ has_awaiter' = [has_awaiter EXCEPT ![t] = FALSE]
      /\ current' = [current EXCEPT ![b] = Verdict(t, FALSE)]
      /\ UNCHANGED <<m_event_base, m_suspending_promise, owner, awaited, future_value, awaits,
                     frame, has_suspend_value, force_destroy, failed, m_stopping>>
  BY DEF HandleRemoveAwaiter, Pop
<1>2. TypeOK /\ QueueInv
  BY DEF IInv
<1>3. /\ queue' \in [Bases -> Seq(Events)]
      /\ Head(queue[b]) \in Events
  BY <1>1, <1>2, PopEffect
<1>4. Head(queue[b]) = <<"REMOVE_AWAITER", t>> /\ t \in Tasks /\ "REMOVE_AWAITER" \in EventTypes
  BY <1>1, <1>3 DEF Events, EventTypes
<1> HIDE DEF t
<1>5. /\ Has("REMOVE_AWAITER", t) /\ m_event_base[t] = b /\ frame[t] # "initial"
      /\ \A y, u : Has(y, u)' => Has(y, u) /\ ~(y = "REMOVE_AWAITER" /\ u = t)
      /\ \A y, u : Has(y, u) /\ ~(y = "REMOVE_AWAITER" /\ u = t) => Has(y, u)'
  <2>1. Popped(b, <<"REMOVE_AWAITER", t>>)
    BY <1>1, <1>4 DEF Popped
  <2> QED
    BY <1>2, <1>4, <2>1, PopHas
<1>6. Alive(t) /\ owner[t] = None /\ b # None
  BY <1>4, <1>5, DisjointAssumption DEF IInv, TaskInv, EventInv
<1>7. TypeOK'
  BY <1>1, <1>2, <1>3, <1>4 DEF TypeOK, Verdict
<1>8. QueueInv'
  <2>1. queue[b] # <<>> /\ queue' = [queue EXCEPT ![b] = Tail(@)] /\ m_event_base' = m_event_base
    BY <1>1
  <2>2. \A u \in Tasks : frame'[u] = "initial" =>
            frame[u] = "initial" /\ Head(queue[b]) # <<"RUN", u>>
    BY <1>1, <1>4 DEF Frames
  <2> QED
    BY <1>2, <2>1, <2>2, PopQueueInv
<1>9. ASSUME NEW u \in Tasks PROVE TaskInv(u)'
  <2>1. TaskInv(u)
    BY DEF IInv
  <2>2. EventInv(u)'
    BY <1>1, <1>2, <1>4, <1>5, <1>6, <2>1 DEF TypeOK, flags, TaskInv, EventInv, Alive
  <2>3. FrameInv(u)'
    BY <1>1, <1>2, <1>4, <1>5, <1>6, <2>1 DEF TypeOK, flags, TaskInv, FrameInv, Alive
  <2>4. WakeInv(u)'
    BY <1>1, <1>2, <1>4, <1>5, <1>6, <2>1 DEF TypeOK, flags, TaskInv, FrameInv, WakeInv, Unfinished
  <2>5. ChildInv(u)'
    BY <1>1, <1>2, <1>4, <1>5, <1>6, <2>1, DisjointAssumption DEF TypeOK, TaskInv, ChildInv
  <2> QED
    BY <2>2, <2>3, <2>4, <2>5 DEF TaskInv
<1>10. ASSUME NEW c \in Bases PROVE CurrentInv(c)'
  <2>1. CurrentInv(c)
    BY DEF IInv
  <2>2. CASE c = b
    BY <1>1, <1>2, <1>4, <1>5, <1>6, <2>2 DEF TypeOK, CurrentInv, Alive, Verdict
  <2>3. CASE c # b
    BY <1>1, <1>2, <1>4, <1>5, <2>1, <2>3 DEF TypeOK, flags, CurrentInv, Alive
  <2> QED
    BY <2>2, <2>3
<1> QED
  BY <1>7, <1>8, <1>9, <1>10 DEF IInv

\* The child a frame holds is started and its own; nobody else holds it.
LEMMA HeldChild ==
    ASSUME IInv, NEW t \in Tasks, awaited[t] # None, ~failed
    PROVE  /\ awaited[t] \in Tasks /\ owner[awaited[t]] = t
           /\ m_event_base[awaited[t]] \in Bases
           /\ Alive(awaited[t]) /\ has_awaiter[awaited[t]] /\ ~force_destroy[awaited[t]]
           /\ ~Has("REMOVE_AWAITER", awaited[t])
           /\ frame[awaited[t]] = "initial" => Has("RUN", awaited[t])
           /\ \A v \in Tasks : v # t => awaited[v] # awaited[t]
<1> DEFINE u == awaited[t]
<1>1. u \in Tasks /\ t # None
  BY DisjointAssumption DEF IInv, TypeOK, Tasks
<1>2. owner[u] = t /\ m_event_base[u] # None
  BY DEF IInv, TaskInv, ChildInv
<1>3. m_event_base[u] \in Bases
  BY <1>1, <1>2 DEF IInv, TypeOK
<1>4. TaskInv(u)
  BY <1>1 DEF IInv
<1>5. /\ Alive(u) /\ has_awaiter[u] /\ ~force_destroy[u] /\ ~Has("REMOVE_AWAITER", u)
      /\ frame[u] = "initial" => Has("RUN", u)
  BY <1>1, <1>2, <1>4 DEF TaskInv, FrameInv, EventInv
<1>6. ASSUME NEW v \in Tasks, v # t PROVE awaited[v] # u
  BY <1>1, <1>2, <1>6 DEF IInv, TaskInv, ChildInv
<1> QED
  BY <1>1, <1>2, <1>3, <1>5, <1>6

LEMMA ConcludeStep ==
    ASSUME IInv, NEW b \in Bases, Conclude(b)
    PROVE  IInv'
<1> DEFINE t == current[b].task
           gone == (current[b].forced \/ ~has_awaiter[t]) /\ ~has_suspend_value[t]
           u == awaited[t]
<1>1. /\ ~failed /\ current[b].phase = "verdict"
      /\ current' = [current EXCEPT ![b] = Idle]
      /\ UNCHANGED <<m_event_base, flags, m_suspending_promise, future_value, awaits, m_stopping>>
  BY DEF Conclude
<1>2. TypeOK /\ QueueInv /\ "REMOVE_AWAITER" \in EventTypes
  BY DEF IInv, EventTypes
<1>3. current[b] # Idle /\ t \in Tasks
  BY <1>1, <1>2 DEF TypeOK, Idle
<1>4. /\ m_event_base[t] = b /\ Alive(t) /\ frame[t] # "initial"
      /\ current[b].forced => force_destroy[t]
  BY <1>3 DEF IInv, CurrentInv
<1>5. TaskInv(t) /\ t # None /\ b # None
  BY <1>3, DisjointAssumption DEF IInv, Tasks
<1>6. current' \in [Bases -> {Idle} \cup
           [phase : {"body", "verdict"}, task : Tasks, forced : BOOLEAN]]
  BY <1>1, <1>2 DEF TypeOK
<1>7. CASE ~gone
  <2>1. UNCHANGED <<frame, owner, awaited, queue, failed>>
    BY <1>7 DEF Conclude, PostNothing
  <2>2. TypeOK'
    BY <1>1, <1>2, <1>6, <2>1 DEF TypeOK, flags
  <2>3. QueueInv' /\ \A y, v : Has(y, v)' <=> Has(y, v)
    BY <1>1, <1>2, <2>1, SameQueue
  <2>4. ASSUME NEW v \in Tasks PROVE TaskInv(v)'
    <3>1. TaskInv(v)
      BY DEF IInv
    <3>2. EventInv(v)' /\ FrameInv(v)' /\ ChildInv(v)'
      BY <1>1, <2>1, <2>3, <3>1 DEF flags, TaskInv, EventInv, FrameInv, ChildInv, Alive
    <3>3. WakeInv(v)'
      BY <1>1, <2>1, <2>3, <3>1 DEF flags, TaskInv, WakeInv, Unfinished
    <3> QED
      BY <3>2, <3>3 DEF TaskInv
  <2>5. ASSUME NEW c \in Bases PROVE CurrentInv(c)'
    BY <1>1, <1>2, <2>1 DEF IInv, TypeOK, flags, CurrentInv, Alive
  <2> QED
    BY <2>2, <2>3, <2>4, <2>5 DEF IInv
<1>8. CASE gone
  <2>1. /\ frame' = [frame EXCEPT ![t] = "freed"]
        /\ IF u = None THEN UNCHANGED <<queue, failed, owner, awaited>>
           ELSE /\ Post(m_event_base[u], <<"REMOVE_AWAITER", u>>)
                /\ owner' = [owner EXCEPT ![u] = None]
                /\ awaited' = [awaited EXCEPT ![t] = None]
    BY <1>8 DEF Conclude, PostNothing
  <2>2. /\ ~has_suspend_value[t] /\ (force_destroy[t] \/ ~has_awaiter[t])
        /\ owner[t] = None
    BY <1>4, <1>5, <1>8 DEF TaskInv, FrameInv
  <2>3. /\ ~Has("RUN", t) /\ ~Has("SET_SUSPEND_VALUE", t) /\ ~Has("REMOVE_AWAITER", t)
        /\ ~future_value[t]
    BY <1>4, <1>5, <2>2 DEF TaskInv, EventInv, WakeInv
  <2>4. /\ \A v \in Tasks : awaited[v] # t
        /\ \A v \in Tasks : Unfinished(v) => m_suspending_promise[v] # t
    <3>1. ASSUME NEW v \in Tasks PROVE awaited[v] # t
      <4>1. v # None
        BY DisjointAssumption DEF Tasks
      <4> QED
        BY <1>5, <2>2, <4>1 DEF IInv, TaskInv, ChildInv
    <3>2. ASSUME NEW v \in Tasks, Unfinished(v) PROVE m_suspending_promise[v] # t
      BY <2>2, <3>2 DEF IInv, TaskInv, WakeInv
    <3> QED
      BY <3>1, <3>2
  <2>5. ~Unfinished(t)
    <3>1. Unfinished(t) => awaited[m_suspending_promise[t]] = t
                           /\ m_suspending_promise[t] \in Tasks
      BY <1>2, <1>3, <1>5 DEF TaskInv, WakeInv, Unfinished, TypeOK
    <3> QED
      BY <2>4, <3>1
  <2>6. /\ frame' \in [Tasks -> Frames] /\ frame'[t] = "freed"
        /\ \A v \in Tasks : v # t => frame'[v] = frame[v]
        /\ \A v \in Tasks : frame'[v] = "initial" => frame[v] = "initial"
    BY <1>2, <1>3, <2>1 DEF TypeOK, Frames
  <2>7. \A v \in Tasks : Unfinished(v)' <=> Unfinished(v)
    BY <1>1, <2>5, <2>6 DEF Unfinished
  <2> HIDE DEF t, gone, u
  <2>8. ASSUME NEW c \in Bases PROVE CurrentInv(c)'
    <3>1. CASE c = b
      BY <1>1, <1>2, <3>1 DEF TypeOK, CurrentInv
    <3>2. CASE c # b
      <4>1. CurrentInv(c) /\ current'[c] = current[c]
            /\ (current[c] # Idle => current[c].task \in Tasks)
        BY <1>1, <1>2, <3>2 DEF IInv, TypeOK
      <4> QED
        BY <1>1, <1>4, <2>6, <3>2, <4>1 DEF flags, CurrentInv, Alive
    <3> QED
      BY <3>1, <3>2
  <2>9. CASE u = None
    <3>1. UNCHANGED <<queue, failed, owner, awaited>>
      BY <2>1, <2>9
    <3>2. TypeOK'
      BY <1>1, <1>2, <1>6, <2>6, <3>1 DEF TypeOK, flags
    <3>3. QueueInv' /\ \A y, v : Has(y, v)' <=> Has(y, v)
      BY <1>1, <1>2, <2>6, <3>1, SameQueue
    <3>4. ASSUME NEW v \in Tasks PROVE TaskInv(v)'
      <4>1. TaskInv(v)
        BY DEF IInv
      <4>2. EventInv(v)'
        BY <1>1, <2>3, <2>6, <3>1, <3>3, <4>1 DEF flags, TaskInv, EventInv, Alive
      <4>3. FrameInv(v)' /\ ChildInv(v)'
        BY <1>1, <2>2, <2>6, <3>1, <3>3, <4>1 DEF flags, TaskInv, FrameInv, ChildInv, Alive
      <4>4. WakeInv(v)'
        <5>1. m_suspending_promise[v] # None => m_suspending_promise[v] \in Tasks
          BY <1>2 DEF TypeOK
        <5> QED
          BY <1>1, <2>2, <2>3, <2>4, <2>6, <2>7, <3>1, <3>3, <4>1, <5>1
             DEF flags, TaskInv, WakeInv, Unfinished
      <4> QED
        BY <4>2, <4>3, <4>4 DEF TaskInv
    <3> QED
      BY <2>8, <3>2, <3>3, <3>4 DEF IInv
  <2>10. CASE u # None
    <3>1. /\ Post(m_event_base[u], <<"REMOVE_AWAITER", u>>)
          /\ owner' = [owner EXCEPT ![u] = None]
          /\ awaited' = [awaited EXCEPT ![t] = None]
      BY <2>1, <2>10
    <3>2. /\ u \in Tasks /\ owner[u] = t /\ m_event_base[u] \in Bases
          /\ Alive(u) /\ has_awaiter[u] /\ ~force_destroy[u] /\ ~Has("REMOVE_AWAITER", u)
          /\ frame[u] = "initial" => Has("RUN", u)
          /\ \A v \in Tasks : v # t => awaited[v] # u
      BY <1>1, <1>3, <2>10, HeldChild DEF u
    <3>3. u # t
      BY <1>5, <2>2, <3>2
    <3>4. queue' \in [Bases -> Seq(Events)] /\ failed' \in BOOLEAN
      BY <1>2, <3>1, <3>2, PostEffect
    <3>5. TypeOK'
      BY <1>1, <1>2, <1>3, <1>6, <2>6, <3>1, <3>2, <3>4 DEF TypeOK, flags
    <3>6. /\ \A y, v : Has(y, v) => Has(y, v)'
          /\ \A y, v : Has(y, v)' => Has(y, v) \/ (y = "REMOVE_AWAITER" /\ v = u)
      BY <1>2, <3>1, <3>2, PostHas
    <3>7. QueueInv'
      BY <1>1, <1>2, <2>6, <3>1, <3>2, PostQueueInv
    <3>8. /\ \A v \in Tasks : v # u => owner'[v] = owner[v]
          /\ \A v \in Tasks : v # t => awaited'[v] = awaited[v]
          /\ owner'[u] = None /\ awaited'[t] = None
      BY <1>2, <1>3, <3>1, <3>2 DEF TypeOK
    <3>9. ASSUME NEW v \in Tasks PROVE TaskInv(v)'
      <4>1. TaskInv(v)
        BY DEF IInv
      <4>2. EventInv(v)'
        BY <1>1, <2>3, <2>6, <3>2, <3>3, <3>6, <3>8, <4>1 DEF flags, TaskInv, EventInv, Alive
      <4>3. FrameInv(v)'
        BY <1>1, <2>2, <2>6, <3>3, <3>6, <3>8, <4>1 DEF flags, TaskInv, FrameInv, Alive
      <4>4. ChildInv(v)'
        <5>1. awaited[v] # None => awaited[v] \in Tasks
          BY <1>2 DEF TypeOK, Tasks
        <5> QED
          BY <1>1, <3>2, <3>8, <4>1, <5>1 DEF TaskInv, ChildInv
      <4>5. WakeInv(v)'
        <5>1. m_suspending_promise[v] # None => m_suspending_promise[v] \in Tasks
          BY <1>2 DEF TypeOK
        <5> QED
          BY <1>1, <2>2, <2>3, <2>4, <2>6, <2>7, <3>6, <3>8, <4>1, <5>1
             DEF flags, TaskInv, WakeInv, Unfinished
      <4> QED
        BY <4>2, <4>3, <4>4, <4>5 DEF TaskInv
    <3> QED
      BY <2>8, <3>5, <3>7, <3>9 DEF IInv
  <2> QED
    BY <2>9, <2>10
<1> QED
  BY <1>7, <1>8

\* A coroutine that runs does so on its base, and nothing is pending for it.
LEMMA RunningTask ==
    ASSUME IInv, NEW b \in Bases, NEW t \in Tasks, Running(b, t)
    PROVE  /\ ~failed /\ current[b] = Body(t) /\ current[b] # Idle
           /\ frame[t] = "running" /\ m_event_base[t] = b /\ b # None
           /\ ~has_suspend_value[t] /\ ~future_value[t]
           /\ ~Has("RUN", t) /\ ~Has("SET_SUSPEND_VALUE", t)
           /\ \A u \in Tasks : Unfinished(u) => m_suspending_promise[u] # t
<1>1. ~failed /\ current[b] = Body(t)
  BY DEF Running
<1>2. /\ current[b] # Idle /\ current[b].task = t /\ current[b].phase = "body"
  BY <1>1 DEF Body, Idle
<1>3. frame[t] = "running" /\ m_event_base[t] = b /\ b # None
  BY <1>2, DisjointAssumption DEF IInv, CurrentInv
<1>4. /\ ~has_suspend_value[t] /\ ~future_value[t]
      /\ ~Has("RUN", t) /\ ~Has("SET_SUSPEND_VALUE", t)
  BY <1>3 DEF IInv, TaskInv, EventInv, FrameInv, WakeInv
<1>5. \A u \in Tasks : Unfinished(u) => m_suspending_promise[u] # t
  BY <1>4 DEF IInv, TaskInv, WakeInv
<1> QED
  BY <1>1, <1>2, <1>3, <1>4, <1>5

LEMMA DropChildStep ==
    ASSUME IInv, NEW b \in Bases, NEW t \in Tasks, DropChild(b, t)
    PROVE  IInv'
<1> DEFINE u == awaited[t]
<1>1. /\ u # None
      /\ awaited' = [awaited EXCEPT ![t] = None]
      /\ owner' = [owner EXCEPT ![u] = None]
      /\ Post(m_event_base[u], <<"REMOVE_AWAITER", u>>)
      /\ UNCHANGED <<frame, m_event_base, flags, m_suspending_promise,
                     future_value, awaits, current, m_stopping>>
  BY DEF DropChild
<1>2. TypeOK /\ QueueInv /\ "REMOVE_AWAITER" \in EventTypes
  BY DEF IInv, EventTypes
<1>3. ~failed /\ frame[t] = "running"
  BY RunningTask DEF DropChild
<1>4. /\ u \in Tasks /\ owner[u] = t /\ m_event_base[u] \in Bases
      /\ Alive(u) /\ has_awaiter[u] /\ ~force_destroy[u] /\ ~Has("REMOVE_AWAITER", u)
      /\ frame[u] = "initial" => Has("RUN", u)
      /\ \A v \in Tasks : v # t => awaited[v] # u
  BY <1>1, <1>3, HeldChild
<1> HIDE DEF u
<1>5. queue' \in [Bases -> Seq(Events)] /\ failed' \in BOOLEAN
  BY <1>1, <1>2, <1>4, PostEffect
<1>6. TypeOK'
  BY <1>1, <1>2, <1>4, <1>5 DEF TypeOK, flags
<1>7. /\ \A y, v : Has(y, v) => Has(y, v)'
      /\ \A y, v : Has(y, v)' => Has(y, v) \/ (y = "REMOVE_AWAITER" /\ v = u)
  BY <1>1, <1>2, <1>4, PostHas
<1>8. QueueInv'
  BY <1>1, <1>2, <1>4, PostQueueInv
<1>9. /\ \A v \in Tasks : v # u => owner'[v] = owner[v]
      /\ \A v \in Tasks : v # t => awaited'[v] = awaited[v]
      /\ owner'[u] = None /\ awaited'[t] = None
  BY <1>1, <1>2, <1>4 DEF TypeOK
<1>10. ASSUME NEW v \in Tasks PROVE TaskInv(v)'
  <2>1. TaskInv(v)
    BY DEF IInv
  <2>2. EventInv(v)'
    BY <1>1, <1>4, <1>7, <1>9, <2>1 DEF flags, TaskInv, EventInv, Alive
  <2>3. FrameInv(v)'
    BY <1>1, <1>3, <1>7, <1>9, <2>1 DEF flags, TaskInv, FrameInv, Alive
  <2>4. ChildInv(v)'
    <3>1. awaited[v] # None => awaited[v] \in Tasks
      BY <1>2 DEF TypeOK, Tasks
    <3> QED
      BY <1>1, <1>4, <1>9, <2>1, <3>1 DEF TaskInv, ChildInv
  <2>5. WakeInv(v)'
    <3>1. m_suspending_promise[v] # None => m_suspending_promise[v] \in Tasks
      BY <1>2 DEF TypeOK
    <3> QED
      BY <1>1, <1>3, <1>7, <1>9, <2>1, <3>1 DEF flags, TaskInv, WakeInv, Unfinished
  <2> QED
    BY <2>2, <2>3, <2>4, <2>5 DEF TaskInv
<1>11. ASSUME NEW c \in Bases PROVE CurrentInv(c)'
  BY <1>1, <1>2 DEF IInv, TypeOK, flags, CurrentInv, Alive
<1> QED
  BY <1>6, <1>8, <1>10, <1>11 DEF IInv

LEMMA AwaitFutureStep ==
    ASSUME IInv, NEW b \in Bases, NEW t \in Tasks, AwaitFuture(b, t)
    PROVE  IInv'
<1>1. /\ awaited[t] = None /\ awaits[t] < MaxAwaits
      /\ awaits' = [awaits EXCEPT ![t] = @ + 1]
      /\ has_suspend_value' = [has_suspend_value EXCEPT ![t] = TRUE]
      /\ future_value' = [future_value EXCEPT ![t] = TRUE]
      /\ frame' = [frame EXCEPT ![t] = "future"]
      /\ current' = [current EXCEPT ![b] = Verdict(t, FALSE)]
      /\ UNCHANGED <<m_event_base, has_awaiter, force_destroy,
                     m_suspending_promise, owner, awaited, queue, failed, m_stopping>>
  BY DEF AwaitFuture
<1>2. TypeOK /\ QueueInv
  BY DEF IInv
<1>3. /\ frame[t] = "running" /\ m_event_base[t] = b /\ b # None
      /\ ~Has("RUN", t) /\ ~Has("SET_SUSPEND_VALUE", t)
      /\ \A u \in Tasks : Unfinished(u) => m_suspending_promise[u] # t
  BY RunningTask DEF AwaitFuture
<1>4. TypeOK'
  <2>1. awaits' \in [Tasks -> 0 .. MaxAwaits]
    BY <1>1, <1>2, BoundsAssumption DEF TypeOK
  <2>2. current' \in [Bases -> {Idle} \cup
           [phase : {"body", "verdict"}, task : Tasks, forced : BOOLEAN]]
    BY <1>1, <1>2 DEF TypeOK, Verdict
  <2> QED
    BY <1>1, <1>2, <2>1, <2>2 DEF TypeOK, Frames
<1>5. /\ \A v \in Tasks : v # t => /\ frame'[v] = frame[v] /\ future_value'[v] = future_value[v]
                                   /\ has_suspend_value'[v] = has_suspend_value[v]
      /\ frame'[t] = "future" /\ future_value'[t] /\ has_suspend_value'[t]
  BY <1>1, <1>2 DEF TypeOK
<1>6. QueueInv' /\ \A y, u : Has(y, u)' <=> Has(y, u)
  BY <1>1, <1>2, <1>5, SameQueue
<1>7. ASSUME NEW v \in Tasks PROVE TaskInv(v)'
  <2>1. TaskInv(v)
    BY DEF IInv
  <2>2. EventInv(v)'
    BY <1>1, <1>3, <1>5, <1>6, <2>1 DEF TaskInv, EventInv, Alive
  <2>3. FrameInv(v)'
    BY <1>1, <1>3, <1>5, <1>6, <2>1 DEF TaskInv, FrameInv, Alive
  <2>4. ChildInv(v)'
    BY <1>1, <2>1 DEF TaskInv, ChildInv
  <2>5. WakeInv(v)'
    <3>1. m_suspending_promise[v] # None => m_suspending_promise[v] \in Tasks
      BY <1>2 DEF TypeOK
    <3>2. \A w \in Tasks : Unfinished(w)' <=> Unfinished(w)
      BY <1>1, <1>3, <1>5 DEF Unfinished
    <3> QED
      BY <1>1, <1>3, <1>5, <1>6, <2>1, <3>1, <3>2 DEF TaskInv, WakeInv
  <2> QED
    BY <2>2, <2>3, <2>4, <2>5 DEF TaskInv
<1>8. ASSUME NEW c \in Bases PROVE CurrentInv(c)'
  <2>1. CASE c = b
    BY <1>1, <1>2, <1>3, <1>5, <2>1 DEF TypeOK, CurrentInv, Alive, Verdict
  <2>2. CASE c # b
    <3>1. CurrentInv(c) /\ current'[c] = current[c]
          /\ (current[c] # Idle => current[c].task \in Tasks)
      BY <1>1, <1>2, <2>2 DEF IInv, TypeOK
    <3> QED
      BY <1>1, <1>2, <1>3, <1>5, <2>2, <3>1 DEF TypeOK, flags, CurrentInv, Alive
  <2> QED
    BY <2>1, <2>2
<1> QED
  BY <1>4, <1>6, <1>7, <1>8 DEF IInv

LEMMA ReturnStep ==
    ASSUME IInv, NEW b \in Bases, NEW t \in Tasks, Return(b, t)
    PROVE  IInv'
<1>1. /\ awaited[t] = None
      /\ frame' = [frame EXCEPT ![t] = "final"]
      /\ current' = [current EXCEPT ![b] = Verdict(t, FALSE)]
      /\ UNCHANGED <<m_event_base, flags, m_suspending_promise, owner, awaited,
                     future_value, awaits, m_stopping>>
  BY DEF Return
<1>2. TypeOK /\ QueueInv /\ "SET_SUSPEND_VALUE" \in EventTypes
  BY DEF IInv, EventTypes
<1>3. /\ ~failed /\ frame[t] = "running" /\ m_event_base[t] = b /\ b # None
      /\ ~Has("RUN", t) /\ ~Has("SET_SUSPEND_VALUE", t) /\ ~has_suspend_value[t]
      /\ ~future_value[t]
      /\ \A u \in Tasks : Unfinished(u) => m_suspending_promise[u] # t
  BY RunningTask DEF Return
<1>4. /\ frame' \in [Tasks -> Frames] /\ frame'[t] = "final"
      /\ \A v \in Tasks : v # t => frame'[v] = frame[v]
      /\ \A v \in Tasks : frame'[v] = "initial" => frame[v] = "initial"
      /\ current' \in [Bases -> {Idle} \cup
           [phase : {"body", "verdict"}, task : Tasks, forced : BOOLEAN]]
  BY <1>1, <1>2 DEF TypeOK, Frames, Verdict
<1>5. \A v \in Tasks : Unfinished(v)' <=> Unfinished(v) /\ v # t
  BY <1>1, <1>4 DEF Unfinished
<1>6. ASSUME NEW c \in Bases PROVE CurrentInv(c)'
  <2>1. CASE c = b
    BY <1>1, <1>2, <1>3, <1>4, <2>1 DEF TypeOK, CurrentInv, Alive, Verdict
  <2>2. CASE c # b
    <3>1. CurrentInv(c) /\ current'[c] = current[c]
          /\ (current[c] # Idle => current[c].task \in Tasks)
      BY <1>1, <1>2, <2>2 DEF IInv, TypeOK
    <3> QED
      BY <1>1, <1>2, <1>3, <1>4, <2>2, <3>1 DEF TypeOK, flags, CurrentInv, Alive
  <2> QED
    BY <2>1, <2>2
<1>7. CASE m_suspending_promise[t] = None
  <2>1. UNCHANGED <<queue, failed>>
    BY <1>7 DEF Return, PostNothing
  <2>2. TypeOK'
    BY <1>1, <1>2, <1>4, <2>1 DEF TypeOK, flags
  <2>3. QueueInv' /\ \A y, u : Has(y, u)' <=> Has(y, u)
    BY <1>1, <1>2, <1>4, <2>1, SameQueue
  <2>4. ASSUME NEW v \in Tasks PROVE TaskInv(v)'
    <3>1. TaskInv(v)
      BY DEF IInv
    <3>2. EventInv(v)' /\ FrameInv(v)' /\ ChildInv(v)'
      BY <1>1, <1>3, <1>4, <2>1, <2>3, <3>1
         DEF flags, TaskInv, EventInv, FrameInv, ChildInv, Alive
    <3>3. WakeInv(v)'
      <4>1. m_suspending_promise[v] # None => m_suspending_promise[v] \in Tasks
        BY <1>2 DEF TypeOK
      <4>2. ~Unfinished(t)
        BY <1>7 DEF Unfinished
      <4>3. \A w \in Tasks : Unfinished(w)' <=> Unfinished(w)
        BY <1>5, <4>2
      <4> QED
        BY <1>1, <1>3, <1>4, <2>1, <2>3, <3>1, <4>1, <4>3 DEF flags, TaskInv, WakeInv, Unfinished
    <3> QED
      BY <3>2, <3>3 DEF TaskInv
  <2> QED
    BY <1>6, <2>2, <2>3, <2>4 DEF IInv
<1>8. CASE m_suspending_promise[t] # None
  <2> PICK p \in Tasks : p = m_suspending_promise[t]
    BY <1>2, <1>8 DEF TypeOK
  <2>1. Post(b, <<"SET_SUSPEND_VALUE", p>>)
    BY <1>3, <1>8 DEF Return
  <2>2. Unfinished(t)
    BY <1>3, <1>8 DEF Unfinished
  <2>3. /\ frame[p] = "child" /\ awaited[p] = t /\ has_suspend_value[p] /\ p # t
        /\ ~Has("SET_SUSPEND_VALUE", p) /\ m_event_base[p] = b /\ ~future_value[p]
    <3>1. TaskInv(t) /\ TaskInv(p)
      BY <2>1 DEF IInv
    <3>2. /\ frame[p] = "child" /\ awaited[p] = t /\ has_suspend_value[p]
          /\ ~Has("SET_SUSPEND_VALUE", p) /\ m_event_base[p] = b
      BY <1>3, <1>8, <2>2, <3>1 DEF TaskInv, WakeInv
    <3> QED
      BY <1>3, <3>1, <3>2 DEF TaskInv, WakeInv
  <2>4. \A v \in Tasks : Unfinished(v) /\ v # t => m_suspending_promise[v] # p
    BY <2>3 DEF IInv, TaskInv, WakeInv
  <2>5. queue' \in [Bases -> Seq(Events)] /\ failed' \in BOOLEAN
    BY <1>2, <2>1, PostEffect
  <2>6. TypeOK'
    BY <1>1, <1>2, <1>4, <2>5 DEF TypeOK, flags
  <2>7. /\ \A y, v : Has(y, v) => Has(y, v)'
        /\ \A y, v : Has(y, v)' => Has(y, v) \/ (y = "SET_SUSPEND_VALUE" /\ v = p)
        /\ ~failed' => Has("SET_SUSPEND_VALUE", p)'
    BY <1>2, <2>1, PostHas
  <2>8. QueueInv'
    BY <1>1, <1>2, <1>4, <2>1, <2>3, PostQueueInv
  <2>9. ASSUME NEW v \in Tasks PROVE TaskInv(v)'
    <3>1. TaskInv(v)
      BY DEF IInv
    <3>2. EventInv(v)'
      BY <1>1, <1>3, <1>4, <2>3, <2>7, <3>1 DEF flags, TaskInv, EventInv, Alive
    <3>3. FrameInv(v)'
      BY <1>1, <1>3, <1>4, <2>7, <3>1 DEF flags, TaskInv, FrameInv, Alive
    <3>4. ChildInv(v)'
      BY <1>1, <3>1 DEF TaskInv, ChildInv
    <3>5. WakeInv(v)'
      <4>1. m_suspending_promise[v] # None => m_suspending_promise[v] \in Tasks
        BY <1>2 DEF TypeOK
      <4>2. UNCHANGED <<m_event_base, has_suspend_value, m_suspending_promise, awaited,
                        future_value>>
        BY <1>1 DEF flags
      <4>3. future_value'[v] => frame'[v] = "future" /\ has_suspend_value'[v]
                                /\ ~Has("SET_SUSPEND_VALUE", v)'
        BY <1>3, <1>4, <2>3, <2>7, <3>1, <4>2 DEF TaskInv, WakeInv
      <4>4. Unfinished(v)' =>
              /\ frame'[m_suspending_promise'[v]] = "child"
              /\ awaited'[m_suspending_promise'[v]] = v
              /\ has_suspend_value'[m_suspending_promise'[v]]
              /\ ~Has("SET_SUSPEND_VALUE", m_suspending_promise[v])'
        <5>1. Unfinished(v)' => /\ Unfinished(v) /\ v # t /\ m_suspending_promise[v] # t
                                /\ m_suspending_promise[v] # p
                                /\ m_suspending_promise[v] \in Tasks
          BY <1>3, <1>5, <2>4, <4>1 DEF Unfinished
        <5>2. Unfinished(v) =>
                /\ frame[m_suspending_promise[v]] = "child" /\ awaited[m_suspending_promise[v]] = v
                /\ has_suspend_value[m_suspending_promise[v]]
                /\ ~Has("SET_SUSPEND_VALUE", m_suspending_promise[v])
          BY <3>1 DEF TaskInv, WakeInv
        <5> QED
          BY <1>4, <2>7, <4>2, <5>1, <5>2
      <4>5. has_suspend_value'[v] /\ ~failed' =>
           \/ future_value'[v]
           \/ Has("SET_SUSPEND_VALUE", v)'
           \/ \E w \in Tasks : Unfinished(w)' /\ m_suspending_promise'[w] = v
        <5>1. CASE v = p
          BY <2>7, <5>1
        <5>2. CASE v # p
          BY <1>3, <1>5, <2>7, <3>1, <4>2, <5>2 DEF TaskInv, WakeInv
        <5> QED
          BY <5>1, <5>2
      <4>6. m_suspending_promise'[v] # None =>
               m_event_base'[v] # None /\ m_event_base'[m_suspending_promise'[v]] = m_event_base'[v]
        BY <3>1, <4>2 DEF TaskInv, WakeInv
      <4> QED
        BY <4>3, <4>4, <4>5, <4>6 DEF WakeInv
    <3> QED
      BY <3>2, <3>3, <3>4, <3>5 DEF TaskInv
  <2> QED
    BY <1>6, <2>6, <2>8, <2>9 DEF IInv
<1> QED
  BY <1>7, <1>8

LEMMA AwaitChildStep ==
    ASSUME IInv, NEW b \in Bases, NEW t \in Tasks, NEW u \in Children, AwaitChild(b, t, u)
    PROVE  IInv'
<1>1. /\ awaited[t] = None /\ awaits[t] < MaxAwaits
      /\ frame[u] = "none"
      /\ awaits' = [awaits EXCEPT ![t] = @ + 1]
      /\ frame' = [frame EXCEPT ![t] = "child", ![u] = "initial"]
      /\ has_suspend_value' = [has_suspend_value EXCEPT ![t] = TRUE]
      /\ m_suspending_promise' = [m_suspending_promise EXCEPT ![u] = t]
      /\ owner' = [owner EXCEPT ![u] = t]
      /\ awaited' = [awaited EXCEPT ![t] = u]
      /\ m_event_base' = [m_event_base EXCEPT ![u] = m_event_base[t]]
      /\ Post(m_event_base[t], <<"RUN", u>>)
      /\ current' = [current EXCEPT ![b] = Verdict(t, FALSE)]
      /\ UNCHANGED <<has_awaiter, force_destroy, future_value, m_stopping>>
  BY DEF AwaitChild
<1>2. TypeOK /\ QueueInv /\ "RUN" \in EventTypes /\ u \in Tasks /\ TaskInv(u) /\ TaskInv(t)
      /\ u # None /\ t # None
  BY DisjointAssumption DEF IInv, EventTypes, Tasks
<1>3. /\ ~failed /\ frame[t] = "running" /\ m_event_base[t] = b /\ b # None
      /\ ~Has("RUN", t) /\ ~Has("SET_SUSPEND_VALUE", t) /\ ~has_suspend_value[t]
      /\ ~future_value[t]
      /\ \A v \in Tasks : Unfinished(v) => m_suspending_promise[v] # t
  BY RunningTask DEF AwaitChild
<1>4. /\ u # t /\ m_event_base[u] = None /\ m_suspending_promise[u] = None
      /\ has_awaiter[u] /\ ~force_destroy[u] /\ awaited[u] = None /\ owner[u] = None
      /\ ~has_suspend_value[u] /\ ~future_value[u]
      /\ ~Has("RUN", u) /\ ~Has("SET_SUSPEND_VALUE", u) /\ ~Has("REMOVE_AWAITER", u)
  BY <1>1, <1>2, <1>3 DEF TaskInv, EventInv, FrameInv, WakeInv, Alive
<1>5. \A v \in Tasks : awaited[v] # u
  <2>1. ASSUME NEW v \in Tasks PROVE awaited[v] # u
    <3>1. v # None /\ TaskInv(v)
      BY DisjointAssumption DEF IInv, Tasks
    <3> QED
      BY <1>2, <1>4, <3>1 DEF TaskInv, ChildInv
  <2> QED
    BY <2>1
<1>6. \A v \in Tasks : m_suspending_promise[v] # None =>
          m_suspending_promise[v] \in Tasks /\ m_suspending_promise[v] # u /\ v # u
  BY <1>2, <1>4 DEF IInv, TypeOK, TaskInv, WakeInv
<1>7. Post(b, <<"RUN", u>>)
  BY <1>1, <1>3
<1>8. queue' \in [Bases -> Seq(Events)] /\ failed' \in BOOLEAN
  BY <1>2, <1>7, PostEffect
<1>9. /\ frame'[t] = "child" /\ frame'[u] = "initial"
      /\ has_suspend_value'[t] /\ m_suspending_promise'[u] = t
      /\ owner'[u] = t /\ awaited'[t] = u /\ m_event_base'[u] = b
      /\ \A v \in Tasks : v # t => /\ has_suspend_value'[v] = has_suspend_value[v]
                                   /\ awaited'[v] = awaited[v]
      /\ \A v \in Tasks : v # u => /\ m_suspending_promise'[v] = m_suspending_promise[v]
                                   /\ owner'[v] = owner[v] /\ m_event_base'[v] = m_event_base[v]
      /\ \A v \in Tasks : v # t /\ v # u => frame'[v] = frame[v]
  BY <1>1, <1>2, <1>3, <1>4 DEF TypeOK
<1>10. TypeOK'
  <2>1. awaits' \in [Tasks -> 0 .. MaxAwaits]
    BY <1>1, <1>2, BoundsAssumption DEF TypeOK
  <2>2. current' \in [Bases -> {Idle} \cup
           [phase : {"body", "verdict"}, task : Tasks, forced : BOOLEAN]]
    BY <1>1, <1>2 DEF TypeOK, Verdict
  <2>3. frame' \in [Tasks -> Frames]
    BY <1>1, <1>2 DEF TypeOK, Frames
  <2>4. m_event_base' \in [Tasks -> Bases \cup {None}]
    BY <1>1, <1>2 DEF TypeOK
  <2>5. /\ has_suspend_value' \in [Tasks -> BOOLEAN]
        /\ m_suspending_promise' \in [Tasks -> Tasks \cup {None}]
        /\ owner' \in [Tasks -> Tasks \cup {None, "outside"}]
        /\ awaited' \in [Tasks -> Children \cup {None}]
    BY <1>1, <1>2 DEF TypeOK
  <2> QED
    BY <1>1, <1>2, <1>8, <2>1, <2>2, <2>3, <2>4, <2>5 DEF TypeOK
<1>11. /\ \A y, v : Has(y, v) => Has(y, v)'
       /\ \A y, v : Has(y, v)' => Has(y, v) \/ (y = "RUN" /\ v = u)
       /\ ~failed' => Has("RUN", u)'
  BY <1>2, <1>7, PostHas
<1>12. QueueInv'
  <2>1. \A v \in Tasks : m_event_base[v] # None => m_event_base'[v] = m_event_base[v]
    BY <1>4, <1>9
  <2>2. \A v \in Tasks : frame'[v] = "initial" =>
            frame[v] = "initial" \/ ~Has("REMOVE_AWAITER", v)'
    BY <1>4, <1>9, <1>11
  <2> QED
    BY <1>2, <1>4, <1>7, <1>9, <2>1, <2>2, PostQueueInv
<1>13. \A v \in Tasks : v # u => (Unfinished(v)' <=> Unfinished(v))
  BY <1>3, <1>9 DEF Unfinished
<1>14. ASSUME NEW v \in Tasks PROVE TaskInv(v)'
  <2>1. TaskInv(v)
    BY DEF IInv
  <2>2. EventInv(v)'
    <3>1. UNCHANGED <<has_awaiter, force_destroy>>
      BY <1>1
    <3>2. CASE v = u
      BY <1>4, <1>9, <1>11, <3>2 DEF EventInv
    <3>3. CASE v = t
      BY <1>3, <1>4, <1>9, <1>11, <2>1, <3>1, <3>3 DEF TaskInv, EventInv, Alive
    <3>4. CASE v # u /\ v # t
      BY <1>9, <1>11, <2>1, <3>1, <3>4 DEF TaskInv, EventInv, Alive
    <3> QED
      BY <3>2, <3>3, <3>4
  <2>3. FrameInv(v)'
    BY <1>1, <1>3, <1>4, <1>9, <1>11, <2>1 DEF TaskInv, FrameInv, Alive
  <2>4. ChildInv(v)'
    <3>1. awaited[v] # None => awaited[v] \in Tasks
      BY <1>2 DEF TypeOK, Tasks
    <3> QED
      BY <1>2, <1>3, <1>5, <1>9, <2>1, <3>1 DEF TaskInv, ChildInv
  <2>5. WakeInv(v)'
    <3>1. CASE v = u
      <4>1. /\ frame'[t] = "child" /\ awaited'[t] = u /\ has_suspend_value'[t]
            /\ ~Has("SET_SUSPEND_VALUE", t)'
        BY <1>3, <1>9, <1>11
      <4>2. m_event_base'[u] # None /\ m_event_base'[t] = m_event_base'[u]
        BY <1>3, <1>4, <1>9
      <4>3. ~future_value'[u] /\ ~has_suspend_value'[u] /\ m_suspending_promise'[u] = t
        BY <1>1, <1>4, <1>9
      <4>4. WakeInv(u)'
        BY <4>1, <4>2, <4>3 DEF WakeInv
      <4> QED
        BY <3>1, <4>4
    <3>2. CASE v # u
      <4>1. m_suspending_promise'[v] = m_suspending_promise[v]
            /\ m_event_base'[v] = m_event_base[v] /\ future_value'[v] = future_value[v]
        BY <1>1, <1>9, <3>2
      <4>2. future_value'[v] => frame'[v] = "future" /\ has_suspend_value'[v]
                                /\ ~Has("SET_SUSPEND_VALUE", v)'
        BY <1>3, <1>9, <1>11, <2>1, <3>2, <4>1 DEF TaskInv, WakeInv
      <4>3. ASSUME Unfinished(v)'
            PROVE  /\ frame'[m_suspending_promise'[v]] = "child"
                   /\ awaited'[m_suspending_promise'[v]] = v
                   /\ has_suspend_value'[m_suspending_promise'[v]]
                   /\ ~Has("SET_SUSPEND_VALUE", m_suspending_promise[v])'
        <5>1. PICK p \in Tasks : p = m_suspending_promise[v] /\ p # t /\ p # u
          BY <1>3, <1>6, <1>13, <3>2, <4>3 DEF Unfinished
        <5>2. /\ frame[p] = "child" /\ awaited[p] = v /\ has_suspend_value[p]
              /\ ~Has("SET_SUSPEND_VALUE", p)
          BY <1>13, <2>1, <3>2, <4>3, <5>1 DEF TaskInv, WakeInv
        <5>3. /\ frame'[p] = "child" /\ awaited'[p] = v /\ has_suspend_value'[p]
              /\ ~Has("SET_SUSPEND_VALUE", p)'
          BY <1>9, <1>11, <5>1, <5>2
        <5>4. m_suspending_promise'[v] = p
          BY <4>1, <5>1
        <5> QED
          BY <5>3, <5>4
      <4>4. m_suspending_promise'[v] # None =>
              m_event_base'[v] # None /\ m_event_base'[m_suspending_promise'[v]] = m_event_base'[v]
        BY <1>6, <1>9, <2>1, <4>1 DEF TaskInv, WakeInv
      <4>5. has_suspend_value'[v] /\ ~failed' =>
           \/ future_value'[v]
           \/ Has("SET_SUSPEND_VALUE", v)'
           \/ \E w \in Tasks : Unfinished(w)' /\ m_suspending_promise'[w] = v
        <5>1. CASE v = t
          <6>1. Unfinished(u)' /\ m_suspending_promise'[u] = t
            BY <1>2, <1>9 DEF Unfinished
          <6> QED
            BY <1>2, <5>1, <6>1
        <5>2. CASE v # t
          <6>1. has_suspend_value'[v] => has_suspend_value[v]
            BY <1>9, <5>2
          <6>2. ASSUME NEW w \in Tasks, Unfinished(w), m_suspending_promise[w] = v
                PROVE  Unfinished(w)' /\ m_suspending_promise'[w] = v
            BY <1>6, <1>9, <1>13, <6>2 DEF Unfinished
          <6> QED
            BY <1>3, <1>11, <2>1, <4>1, <6>1, <6>2 DEF TaskInv, WakeInv
        <5> QED
          BY <5>1, <5>2
      <4> QED
        BY <4>2, <4>3, <4>4, <4>5 DEF WakeInv
    <3> QED
      BY <3>1, <3>2
  <2> QED
    BY <2>2, <2>3, <2>4, <2>5 DEF TaskInv
<1>15. ASSUME NEW c \in Bases PROVE CurrentInv(c)'
  <2>1. CASE c = b
    BY <1>1, <1>2, <1>3, <1>4, <1>9, <2>1 DEF TypeOK, CurrentInv, Alive, Verdict
  <2>2. CASE c # b
    <3>1. CurrentInv(c) /\ current'[c] = current[c]
          /\ (current[c] # Idle => current[c].task \in Tasks)
      BY <1>1, <1>2, <2>2 DEF IInv, TypeOK
    <3> QED
      BY <1>1, <1>2, <1>3, <1>4, <1>9, <2>2, <3>1 DEF TypeOK, flags, CurrentInv, Alive
  <2> QED
    BY <2>1, <2>2
<1> QED
  BY <1>10, <1>12, <1>14, <1>15 DEF IInv

LEMMA InitIInv == Init => IInv
<1> SUFFICES ASSUME Init PROVE IInv
  OBVIOUS
<1>1. TypeOK
  <2>1. queue \in [Bases -> Seq(Events)]
    BY EmptySeq DEF Init
  <2>2. awaits \in [Tasks -> 0 .. MaxAwaits]
    BY BoundsAssumption DEF Init
  <2> QED
    BY <2>1, <2>2 DEF Init, TypeOK, Frames
<1>2. \A b \in Bases : queue[b] = <<>> /\ Len(queue[b]) = 0
  BY EmptySeq DEF Init
<1>3. QueueInv
  BY <1>2, BoundsAssumption DEF QueueInv
<1>4. \A y, u : ~Has(y, u)
  BY <1>2 DEF Has
<1>5. ASSUME NEW t \in Tasks PROVE TaskInv(t)
  <2>1. EventInv(t) /\ FrameInv(t) /\ ChildInv(t)
    BY <1>4 DEF Init, EventInv, FrameInv, ChildInv
  <2>2. WakeInv(t)
    BY <1>4 DEF Init, WakeInv, Unfinished
  <2> QED
    BY <2>1, <2>2 DEF TaskInv
<1>6. ASSUME NEW b \in Bases PROVE CurrentInv(b)
  BY DEF Init, CurrentInv
<1> QED
  BY <1>1, <1>3, <1>5, <1>6 DEF IInv

LEMMA StutterIInv == IInv /\ UNCHANGED vars => IInv'
<1> SUFFICES ASSUME IInv, UNCHANGED vars PROVE IInv'
  OBVIOUS
<1>1. UNCHANGED <<frame, m_event_base, has_suspend_value, has_awaiter, force_destroy,
                  m_suspending_promise, owner, awaited, future_value, awaits, queue, current,
                  m_stopping, failed>>
  BY DEF vars, flags
<1>2. \A y, u : Has(y, u)' <=> Has(y, u)
  BY <1>1 DEF Has
<1>3. TypeOK' /\ QueueInv'
  <2>1. TypeOK'
    BY <1>1 DEF IInv, TypeOK
  <2>2. QueueInv'
    BY <1>1, SameQueue DEF IInv
  <2> QED
    BY <2>1, <2>2
<1>4. ASSUME NEW t \in Tasks PROVE TaskInv(t)'
  <2>1. TaskInv(t)
    BY DEF IInv
  <2>2. EventInv(t)' /\ FrameInv(t)' /\ ChildInv(t)'
    BY <1>1, <1>2, <2>1 DEF TaskInv, EventInv, FrameInv, ChildInv, Alive
  <2>3. WakeInv(t)'
    BY <1>1, <1>2, <2>1 DEF TaskInv, WakeInv, Unfinished
  <2> QED
    BY <2>2, <2>3 DEF TaskInv
<1>5. ASSUME NEW b \in Bases PROVE CurrentInv(b)'
  BY <1>1 DEF IInv, CurrentInv, Alive
<1> QED
  BY <1>3, <1>4, <1>5 DEF IInv

\* The inductive invariant holds in every state of the coroutines: it is what
\* the flags, pointers and queued events of a frame have to agree on for
\* check_handle to decide the frame's fate.
THEOREM Invariance == Spec => []IInv
<1>1. IInv /\ [Next]_vars => IInv'
  <2> SUFFICES ASSUME IInv, [Next]_vars PROVE IInv'
    OBVIOUS
  <2>1. ASSUME NEW t \in Roots, Outside(t) PROVE IInv'
    BY <2>1, CreateStep, ReleaseStep, DestroyStep, StartStep DEF Outside
  <2>2. ASSUME NEW t \in Tasks, SetValue(t) PROVE IInv'
    BY <2>2, SetValueStep
  <2>3. ASSUME NEW b \in Bases, Step(b) PROVE IInv'
    <3>1. CASE Handle(b)
      BY <3>1, HandleRunStep, HandleSetSuspendValueStep, HandleRemoveAwaiterStep, ConcludeStep
         DEF Handle
    <3>2. ASSUME NEW t \in Tasks, Resumed(b, t) PROVE IInv'
      BY <3>2, DropChildStep, AwaitFutureStep, AwaitChildStep, ReturnStep DEF Resumed
    <3> QED
      BY <2>3, <3>1, <3>2 DEF Step
  <2>4. ASSUME NEW b \in Bases, Stop(b) PROVE IInv'
    BY <2>4, StopStep
  <2>5. CASE UNCHANGED vars
    BY <2>5, StutterIInv
  <2> QED
    BY <2>1, <2>2, <2>3, <2>4, <2>5 DEF Next
<1> QED
  BY <1>1, InitIInv, PTL DEF Spec

\* Type correctness: every event names a task and every pointer a frame or nothing.
THEOREM TypeCorrect == Spec => []TypeOK
BY Invariance, PTL DEF IInv

-----------------------------------------------------------------------------
(* What the inductive invariant says about references and events. *)

\* A queued event: its parts, and what it says about its task.
LEMMA QueuedEvent ==
    ASSUME IInv, NEW b \in Bases, NEW i \in 1 .. Len(queue[b])
    PROVE  /\ queue[b][i][1] \in EventTypes /\ queue[b][i][2] \in Tasks
           /\ queue[b][i] = <<queue[b][i][1], queue[b][i][2]>>
           /\ Has(queue[b][i][1], queue[b][i][2])
           /\ m_event_base[queue[b][i][2]] = b
           /\ queue[b][i][1] = "RUN" => frame[queue[b][i][2]] = "initial"
           /\ queue[b][i][1] = "SET_SUSPEND_VALUE" => frame[queue[b][i][2]] \in {"future", "child"}
           /\ Alive(queue[b][i][2])
<1>1. queue[b] \in Seq(Events)
  BY DEF IInv, TypeOK
<1>2. queue[b][i] \in Events
  BY <1>1, ElementOfSeq
<1>3. /\ queue[b][i][1] \in EventTypes /\ queue[b][i][2] \in Tasks
      /\ queue[b][i] = <<queue[b][i][1], queue[b][i][2]>>
  BY <1>2 DEF Events
<1>4. Has(queue[b][i][1], queue[b][i][2])
  BY <1>3 DEF Has
<1>5. m_event_base[queue[b][i][2]] = b
  BY DEF IInv, QueueInv
<1>6. EventInv(queue[b][i][2])
  BY <1>3 DEF IInv, TaskInv
<1> QED
  BY <1>3, <1>4, <1>5, <1>6 DEF EventInv, EventTypes, Alive

LEMMA IInvReferences == IInv => NoDanglingReference
<1> SUFFICES ASSUME IInv PROVE NoDanglingReference
  OBVIOUS
<1>1. \A b \in Bases : \A i \in 1 .. Len(queue[b]) : Alive(queue[b][i][2])
  BY QueuedEvent
<1>2. \A b \in Bases : current[b] # Idle => Alive(current[b].task)
  BY DEF IInv, CurrentInv
<1>3. \A t \in Tasks : owner[t] # None => Alive(t)
  BY DEF IInv, TaskInv, FrameInv
<1>4. \A t \in Tasks : future_value[t] => frame[t] = "future"
  BY DEF IInv, TaskInv, WakeInv
<1>5. \A t \in Tasks : m_suspending_promise[t] # None
                        /\ frame[t] \in {"initial", "running", "future", "child"}
                           => /\ frame[m_suspending_promise[t]] = "child"
                              /\ awaited[m_suspending_promise[t]] = t
  BY DEF IInv, TaskInv, WakeInv, Unfinished
<1> QED
  BY <1>1, <1>2, <1>3, <1>4, <1>5 DEF NoDanglingReference

\* Nothing refers to a coroutine frame that has been destroyed, although nobody
\* counts references: check_handle frees a frame only when no event, Task,
\* FutureValue or child can reach it any more.
THEOREM ReferencesValid == Spec => []NoDanglingReference
BY Invariance, IInvReferences, PTL

LEMMA IInvResumed == IInv => ResumedWhereSuspended
<1> SUFFICES ASSUME IInv, NEW b \in Bases
             PROVE  /\ \A i \in 1 .. Len(queue[b]) :
                           LET t == queue[b][i][2] IN
                           /\ m_event_base[t] = b
                           /\ queue[b][i][1] = "RUN" => frame[t] = "initial"
                           /\ queue[b][i][1] = "SET_SUSPEND_VALUE" => frame[t] \in {"future", "child"}
                    /\ current[b].phase = "body" =>
                           frame[current[b].task] = "running" /\ m_event_base[current[b].task] = b
  BY DEF ResumedWhereSuspended
<1>1. \A i \in 1 .. Len(queue[b]) :
           LET t == queue[b][i][2] IN
           /\ m_event_base[t] = b
           /\ queue[b][i][1] = "RUN" => frame[t] = "initial"
           /\ queue[b][i][1] = "SET_SUSPEND_VALUE" => frame[t] \in {"future", "child"}
  BY QueuedEvent
<1>2. current[b].phase = "body" => current[b] # Idle
  BY DEF Idle
<1>3. current[b].phase = "body" =>
           frame[current[b].task] = "running" /\ m_event_base[current[b].task] = b
  BY <1>2 DEF IInv, CurrentInv
<1> QED
  BY <1>1, <1>3

LEMMA IInvOneWakeUp == IInv => OneWakeUp
<1> SUFFICES ASSUME IInv, ~failed, NEW t \in Tasks
             PROVE  WakeUps(t) = IF has_suspend_value[t] THEN 1 ELSE 0
  BY DEF OneWakeUp
<1> DEFINE U == {u \in Tasks : m_suspending_promise[u] = t
                       /\ frame[u] \in {"initial", "running", "future", "child"}}
           Q == {x \in Bases \X (1 .. QueueSize) :
                       x[2] \in Queued(x[1], "SET_SUSPEND_VALUE", t)}
           F == IF future_value[t] THEN 1 ELSE 0
<1>1. t # None /\ TaskInv(t) /\ QueueInv
  BY DisjointAssumption DEF Tasks, IInv
<1>2. \A u \in U : /\ Unfinished(u) /\ u = awaited[t] /\ frame[t] = "child"
                   /\ has_suspend_value[t] /\ ~Has("SET_SUSPEND_VALUE", t)
  BY <1>1 DEF IInv, TaskInv, WakeInv, Unfinished
<1>3. \A u \in Tasks : Unfinished(u) /\ m_suspending_promise[u] = t => u \in U
  BY DEF Unfinished
<1>4. (U = {} /\ Cardinality(U) = 0) \/ (U # {} /\ Cardinality(U) = 1)
  <2>1. CASE U = {}
    <3>1. Cardinality(U) = 0
      BY <2>1, FS_EmptySet, Zenon
    <3> QED
      BY <2>1, <3>1
  <2>2. CASE U # {}
    <3>1. U = {awaited[t]}
      BY <1>2, <2>2
    <3>2. Cardinality(U) = 1
      BY <3>1, FS_Singleton, Zenon
    <3> QED
      BY <2>2, <3>2
  <2> QED
    BY <2>1, <2>2
<1>5. CASE ~Has("SET_SUSPEND_VALUE", t)
  <2>1. Q = {}
    <3>1. ASSUME NEW x \in Q PROVE FALSE
      <4>1. x[1] \in Bases /\ x[2] \in Queued(x[1], "SET_SUSPEND_VALUE", t)
        OBVIOUS
      <4> QED
        BY <1>5, <4>1 DEF Has, Queued
    <3> QED
      BY <3>1
  <2>2. Cardinality(Q) = 0
    BY <2>1, FS_EmptySet, Zenon
  <2> HIDE DEF Q, U
  <2>3. CASE future_value[t]
    <3>1. U = {} /\ has_suspend_value[t]
      BY <1>1, <1>2, <2>3 DEF TaskInv, WakeInv
    <3> QED
      BY <1>4, <2>2, <2>3, <3>1 DEF WakeUps, U, Q
  <2>4. CASE ~future_value[t]
    <3>1. has_suspend_value[t] <=> U # {}
      BY <1>1, <1>2, <1>3, <1>5, <2>4 DEF TaskInv, WakeInv
    <3> QED
      BY <1>4, <2>2, <2>4, <3>1 DEF WakeUps, U, Q
  <2> QED
    BY <2>3, <2>4
<1>6. CASE Has("SET_SUSPEND_VALUE", t)
  <2>1. U = {} /\ ~future_value[t] /\ has_suspend_value[t]
    BY <1>1, <1>2, <1>6 DEF TaskInv, WakeInv, EventInv
  <2>2. PICK b \in Bases :
            \E i \in 1 .. Len(queue[b]) : queue[b][i] = <<"SET_SUSPEND_VALUE", t>>
    BY <1>6 DEF Has
  <2>3. PICK i \in 1 .. Len(queue[b]) : queue[b][i] = <<"SET_SUSPEND_VALUE", t>>
    BY <2>2
  <2>4. ASSUME NEW c \in Bases, NEW j \in 1 .. Len(queue[c]),
               queue[c][j] = <<"SET_SUSPEND_VALUE", t>>
        PROVE  c = b /\ j = i
    <3>1. queue[c][j][2] = t /\ queue[b][i][2] = t
      BY <2>3, <2>4
    <3>2. m_event_base[t] = c /\ m_event_base[t] = b
      BY <1>1, <2>4, <3>1 DEF QueueInv
    <3> QED
      BY <1>1, <2>3, <2>4, <3>2 DEF QueueInv
  <2>5. <<b, i>> \in Q
    <3>1. Len(queue[b]) \in Nat /\ Len(queue[b]) =< QueueSize
      BY <1>1 DEF IInv, TypeOK, QueueInv
    <3>2. i \in 1 .. QueueSize
      BY <3>1, BoundsAssumption
    <3> QED
      BY <2>3, <3>2 DEF Queued
  <2>6. ASSUME NEW x \in Q PROVE x = <<b, i>>
    <3>1. /\ x \in Bases \X (1 .. QueueSize)
          /\ x[2] \in 1 .. Len(queue[x[1]])
          /\ queue[x[1]][x[2]] = <<"SET_SUSPEND_VALUE", t>>
      BY DEF Queued
    <3>2. x = <<x[1], x[2]>> /\ x[1] \in Bases
      BY <3>1
    <3>3. x[1] = b /\ x[2] = i
      BY <2>4, <3>1, <3>2
    <3> QED
      BY <3>2, <3>3
  <2>7. Q = {<<b, i>>}
    BY <2>5, <2>6
  <2>8. Cardinality(Q) = 1
    BY <2>7, FS_Singleton, Zenon
  <2> HIDE DEF Q, U
  <2> QED
    BY <1>4, <2>1, <2>8 DEF WakeUps, U, Q
<1> QED
  BY <1>5, <1>6

-----------------------------------------------------------------------------
(* The length of a queue. *)

\* The frames created so far.
Created == {t \in Tasks : frame[t] # "none"}

\* Only finitely many frames have been created, whatever the set of tasks.
FiniteFrames == IsFiniteSet(Created)

LEMMA FiniteFramesInvariance == Spec => []FiniteFrames
<1>1. Init => FiniteFrames
  <2> SUFFICES ASSUME Init PROVE FiniteFrames
    OBVIOUS
  <2>1. Created = {}
    BY DEF Init, Created
  <2> QED
    BY <2>1, FS_EmptySet DEF FiniteFrames
<1>2. IInv /\ FiniteFrames /\ [Next]_vars => FiniteFrames'
  <2> SUFFICES ASSUME IInv, FiniteFrames, [Next]_vars PROVE FiniteFrames'
    OBVIOUS
  <2>1. frame \in [Tasks -> Frames]
    BY DEF IInv, TypeOK
  <2>2. \E x : \A v \in Tasks : frame'[v] # "none" => frame[v] # "none" \/ v = x
    <3>1. ASSUME NEW x, NEW y, frame' = [frame EXCEPT ![x] = y]
          PROVE  \E z : \A v \in Tasks : frame'[v] # "none" => frame[v] # "none" \/ v = z
      BY <2>1, <3>1
    <3>2. CASE UNCHANGED frame
      BY <3>2
    <3>3. ASSUME NEW t \in Roots, Outside(t)
          PROVE  UNCHANGED frame \/ \E y : frame' = [frame EXCEPT ![t] = y]
      BY <3>3 DEF Outside, Create, Release, CheckRelease, Destroy, Start
    <3>4. ASSUME NEW b \in Bases, Handle(b)
          PROVE  UNCHANGED frame \/ \E x, y : frame' = [frame EXCEPT ![x] = y]
      <4>1. CASE HandleRun(b)
        BY <4>1 DEF HandleRun
      <4>2. CASE HandleSetSuspendValue(b)
        BY <4>2 DEF HandleSetSuspendValue
      <4>3. CASE HandleRemoveAwaiter(b)
        BY <4>3 DEF HandleRemoveAwaiter
      <4>4. CASE Conclude(b)
        BY <4>4 DEF Conclude
      <4> QED
        BY <3>4, <4>1, <4>2, <4>3, <4>4 DEF Handle
    <3>5. ASSUME NEW b \in Bases, NEW t \in Tasks,
                 DropChild(b, t) \/ AwaitFuture(b, t) \/ Return(b, t)
          PROVE  UNCHANGED frame \/ \E x, y : frame' = [frame EXCEPT ![x] = y]
      BY <3>5 DEF DropChild, AwaitFuture, Return
    <3>6. ASSUME NEW b \in Bases, NEW t \in Tasks, NEW u \in Children, AwaitChild(b, t, u)
          PROVE  \E x : \A v \in Tasks : frame'[v] # "none" => frame[v] # "none" \/ v = x
      <4>1. frame[t] = "running"
        BY <3>6, RunningTask DEF AwaitChild
      <4>2. \A v \in Tasks : frame'[v] # "none" => frame[v] # "none" \/ v = u
        BY <2>1, <3>6, <4>1 DEF AwaitChild
      <4> QED
        BY <4>2
    <3>7. ASSUME NEW t \in Tasks, SetValue(t) PROVE UNCHANGED frame
      BY <3>7 DEF SetValue
    <3>8. ASSUME NEW b \in Bases, Stop(b) PROVE UNCHANGED frame
      BY <3>8 DEF Stop
    <3>9. CASE UNCHANGED vars
      BY <3>2, <3>9 DEF vars
    <3>10. ASSUME NEW b \in Bases, Step(b)
           PROVE  \E x : \A v \in Tasks : frame'[v] # "none" => frame[v] # "none" \/ v = x
      <4>1. CASE Handle(b)
        BY <3>1, <3>2, <3>4, <4>1
      <4>2. ASSUME NEW t \in Tasks, Resumed(b, t)
            PROVE  \E x : \A v \in Tasks : frame'[v] # "none" => frame[v] # "none" \/ v = x
        BY <3>1, <3>2, <3>5, <3>6, <4>2 DEF Resumed
      <4> QED
        BY <3>10, <4>1, <4>2 DEF Step
    <3>11. ASSUME Next
           PROVE  \E x : \A v \in Tasks : frame'[v] # "none" => frame[v] # "none" \/ v = x
      <4>1. CASE \E t \in Roots : Outside(t)
        BY <3>1, <3>2, <3>3, <4>1
      <4>2. CASE \E t \in Tasks : SetValue(t)
        BY <3>2, <3>7, <4>2
      <4>3. CASE \E b \in Bases : Step(b) \/ Stop(b)
        BY <3>2, <3>8, <3>10, <4>3
      <4> QED
        BY <3>11, <4>1, <4>2, <4>3 DEF Next
    <3> QED
      BY <3>9, <3>11
  <2>3. PICK x : \A v \in Tasks : frame'[v] # "none" => frame[v] # "none" \/ v = x
    BY <2>2
  <2>4. Created' \subseteq Created \cup {x}
    BY <2>3 DEF Created
  <2>5. IsFiniteSet(Created \cup {x})
    BY FS_AddElement DEF FiniteFrames
  <2>6. IsFiniteSet(Created')
    BY <2>4, <2>5, FS_Subset
  <2> QED
    BY <2>6 DEF FiniteFrames
<1> QED
  BY <1>1, <1>2, Invariance, PTL DEF Spec

LEMMA IInvQueueBound == IInv /\ FiniteFrames => QueueBound
<1> SUFFICES ASSUME IInv, FiniteFrames, NEW b \in Bases
             PROVE  Len(queue[b]) =<
                        2 * Cardinality({t \in Tasks : Alive(t) /\ m_event_base[t] = b})
  BY DEF QueueBound
<1> DEFINE S == {t \in Tasks : Alive(t) /\ m_event_base[t] = b}
           n == Len(queue[b])
           R == {i \in 1 .. n : queue[b][i][1] = "REMOVE_AWAITER"}
           W == {i \in 1 .. n : queue[b][i][1] # "REMOVE_AWAITER"}
           fR == [i \in R |-> queue[b][i][2]]
           fW == [i \in W |-> queue[b][i][2]]
<1>1. n \in Nat
  BY DEF IInv, TypeOK
<1>2. IsFiniteSet(S) /\ Cardinality(S) \in Nat
  <2>1. S \subseteq Created
    BY DEF Created, Alive
  <2>2. IsFiniteSet(S)
    BY <2>1, FS_Subset DEF FiniteFrames
  <2> QED
    BY <2>2, FS_CardinalityType
<1>3. \A i \in 1 .. n : queue[b][i][2] \in S
  BY QueuedEvent
<1>4. \A i, j \in 1 .. n : queue[b][i] = queue[b][j] => i = j
  BY DEF IInv, QueueInv
<1>5. fR \in Injection(R, S)
  <2>1. fR \in [R -> S]
    BY <1>3
  <2>2. ASSUME NEW i \in R, NEW j \in R, fR[i] = fR[j] PROVE i = j
    <3>1. /\ queue[b][i] = <<queue[b][i][1], queue[b][i][2]>>
          /\ queue[b][j] = <<queue[b][j][1], queue[b][j][2]>>
      BY QueuedEvent
    <3>2. queue[b][i] = queue[b][j]
      BY <2>2, <3>1
    <3> QED
      BY <1>4, <3>2
  <2> HIDE DEF fR, R, S
  <2> QED
    BY <2>1, <2>2 DEF Injection, IsInjective
<1>6. fW \in Injection(W, S)
  <2>1. fW \in [W -> S]
    BY <1>3
  <2>2. ASSUME NEW i \in W, NEW j \in W, fW[i] = fW[j] PROVE i = j
    <3>1. /\ queue[b][i] = <<queue[b][i][1], queue[b][i][2]>>
          /\ queue[b][j] = <<queue[b][j][1], queue[b][j][2]>>
          /\ queue[b][i][2] = queue[b][j][2]
      BY <2>2, QueuedEvent
    <3>2. queue[b][i][1] = queue[b][j][1]
      <4>1. /\ queue[b][i][1] \in {"RUN", "SET_SUSPEND_VALUE"}
            /\ queue[b][j][1] \in {"RUN", "SET_SUSPEND_VALUE"}
        BY QueuedEvent DEF EventTypes
      <4>2. /\ queue[b][i][1] = "RUN" <=> frame[queue[b][i][2]] = "initial"
            /\ queue[b][j][1] = "RUN" <=> frame[queue[b][j][2]] = "initial"
        BY <4>1, QueuedEvent
      <4> QED
        BY <3>1, <4>1, <4>2
    <3>3. queue[b][i] = queue[b][j]
      BY <3>1, <3>2
    <3> QED
      BY <1>4, <3>3
  <2> HIDE DEF fW, W, S
  <2> QED
    BY <2>1, <2>2 DEF Injection, IsInjective
<1>7. R \cup W = 1 .. n /\ R \cap W = {}
  OBVIOUS
<1> HIDE DEF fR, fW, R, W, S, n
<1>8. IsFiniteSet(R) /\ Cardinality(R) =< Cardinality(S) /\ Cardinality(R) \in Nat
  BY <1>2, <1>5, FS_Injection, FS_CardinalityType
<1>9. IsFiniteSet(W) /\ Cardinality(W) =< Cardinality(S) /\ Cardinality(W) \in Nat
  BY <1>2, <1>6, FS_Injection, FS_CardinalityType
<1>10. Cardinality(1 .. n) = Cardinality(R) + Cardinality(W) - Cardinality(R \cap W)
  BY <1>7, <1>8, <1>9, FS_Union
<1>11. Cardinality(R \cap W) = 0
  BY <1>7, FS_EmptySet
<1>12. Cardinality(1 .. n) = n
  BY <1>1, FS_Interval
<1>13. n =< 2 * Cardinality(S)
  BY <1>1, <1>2, <1>8, <1>9, <1>10, <1>11, <1>12
<1> QED
  BY <1>13 DEF n, S

\* What is posted about a task is exact, for every set of tasks and event bases
\* and every MAX_TASK_INFO: no lost and no second wake-up, each for the place
\* where the coroutine is suspended and on its own base, and at most two events
\* per live task in the queue of a base.
THEOREM EventsAreExact == Spec => []EventsExact
<1>1. IInv /\ FiniteFrames => EventsExact
  BY IInvOneWakeUp, IInvResumed, IInvQueueBound DEF EventsExact
<1> QED
  BY <1>1, Invariance, FiniteFramesInvariance, PTL
=============================================================================
