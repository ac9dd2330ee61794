-------------------------- MODULE SynchronizedQueue --------------------------
(***************************************************************************)
(* The blocking and asynchronous operations of a SynchronizedQueue         *)
(* (src/src/synchronized.rs): the composition of the queue, of the         *)
(* AtomicWaker its dequeuer waits on and of the WakerList its enqueuers    *)
(* wait on.                                                                *)
(* The queue is reduced to what decides whether an operation blocks: how   *)
(* many cells of the enqueuing buffer are reserved, how many of the other  *)
(* buffer are due, who has reserved and not inserted yet, the capacities,  *)
(* the closed bit and the dequeuing lock (module Queue has the rest).  One *)
(* action is one access to the words of the queue, a compare-and-swap loop *)
(* being its successful iteration.                                         *)
(* A thread parked by wait_until and a task that returned Pending are both *)
(* "wait": they go on with a token, or without one (a spurious wake-up, a  *)
(* poll of its own by the executor, the end of a park_timeout).            *)
(***************************************************************************)
EXTENDS Naturals

CONSTANTS
    Enqueuers, Dequeuers, Closers,
    Nobody,
    Sizes,          \* the sizes of the values enqueued
    Capacities,     \* the capacities the buffers may have
    EnqueueModes,   \* the enqueue operations called
    DequeueModes,   \* the dequeue operations called
    SPIN_LIMIT,
    OneAtATime,     \* do dequeuers take turns, as MPSC means them to?
    CanReopen

Threads == Enqueuers \cup Dequeuers \cup Closers

ASSUME SynchronizedQueueAssumption ==
    /\ Nobody \notin Threads
    /\ Enqueuers \cap Dequeuers = {}
    /\ Closers \cap (Enqueuers \cup Dequeuers) = {}
    /\ Sizes \subseteq Nat \ {0} /\ Capacities \subseteq Nat \ {0}
    /\ EnqueueModes \subseteq {"sync", "timed", "async", "try"}
    /\ DequeueModes \subseteq {"sync", "timed", "async", "try", "iter", "stream",
                               "resize"}
    /\ SPIN_LIMIT \in Nat \ {0}
    /\ {OneAtATime, CanReopen} \subseteq BOOLEAN

VARIABLES
    queue,    \* the words of the queue
    op,       \* per thread, the operation it is in
    state, waker, dequeuer_call,                      \* notify.dequeuer
    wakers, non_empty, mutex, enqueuers_call,         \* notify.enqueuers
    token     \* per thread, unparked or scheduled since it last waited

dequeuer == INSTANCE AtomicWaker WITH NoWaker <- Nobody, call <- dequeuer_call
enqueuers == INSTANCE WakerList WITH call <- enqueuers_call

dequeuer_vars == <<state, waker, dequeuer_call>>
enqueuers_vars == <<wakers, non_empty, mutex, enqueuers_call>>
notify_vars == <<dequeuer_vars, enqueuers_vars, token>>
vars == <<queue, op, notify_vars>>

Idle == [pc |-> "idle", mode |-> "none", phase |-> "none", spins |-> 0,
         size |-> 0, buffer |-> 0, result |-> "none"]

Init ==
    /\ \E capa \in Capacities :
          queue = [closed |-> FALSE, index |-> 0, used |-> 0, due |-> 0,
                   locked |-> FALSE, capacity |-> [i \in {0, 1} |-> capa],
                   published |-> capa]
    /\ op = [t \in Threads |-> Idle]
    /\ dequeuer!Start
    /\ enqueuers!Start

-----------------------------------------------------------------------------
\* The thread is at pc, outside of the code of the wakers.
At(t, pc) ==
    op[t].pc = pc /\ dequeuer_call[t].pc = "out" /\ enqueuers_call[t] = "out"

Become(t, record) == op' = [op EXCEPT ![t] = record]
Return(t) == Become(t, Idle)
Goto(t, pc) == Become(t, [op[t] EXCEPT !.pc = pc])

\* Where an operation starts its attempts: the loop of try_enqueue and of
\* try_dequeue (synchronized.rs); a plain attempt is made only once.
FirstPc(t) == IF t \in Enqueuers THEN "try" ELSE "lock"
Attempts(t, phase) ==
    [op[t] EXCEPT !.pc = FirstPc(t), !.phase = phase, !.spins = 0]

\* What an attempt that has to be repeated leads to: another one, SPIN_LIMIT
\* of them, then the registration, one more attempt, and the wait.
TryAgain(t) ==
    IF op[t].phase = "recheck" THEN [op[t] EXCEPT !.pc = "wait"]
    ELSE IF op[t].spins + 1 < SPIN_LIMIT
         THEN [op[t] EXCEPT !.pc = FirstPc(t), !.spins = @ + 1]
         ELSE [op[t] EXCEPT !.pc = "register"]

Start(t, mode, size, phase) ==
    /\ At(t, "idle")
    /\ Become(t, [Idle EXCEPT !.pc = FirstPc(t), !.mode = mode, !.size = size,
                              !.phase = phase])
    /\ UNCHANGED <<queue, notify_vars>>

-----------------------------------------------------------------------------
(* enqueue, enqueue_timeout, enqueue_async and try_enqueue.                *)

Enqueue(t, size) ==
    "sync" \in EnqueueModes /\ Start(t, "sync", size, "spin")

EnqueueTimeout(t, size) ==
    "timed" \in EnqueueModes /\ Start(t, "timed", size, "spin")

EnqueueAsync(t, size) ==
    "async" \in EnqueueModes /\ Start(t, "async", size, "spin")

PlainEnqueue(t, size) ==
    "try" \in EnqueueModes /\ Start(t, "try", size, "last")

CallEnqueue(t) ==
    \E size \in Sizes :
        \/ Enqueue(t, size) \/ EnqueueTimeout(t, size) \/ EnqueueAsync(t, size)
        \/ PlainEnqueue(t, size)

Fits(t) == queue.used + op[t].size <= queue.capacity[queue.index]

\* Queue::try_enqueue: the reservation.
TryEnqueue(t) ==
    /\ At(t, "try")
    /\ UNCHANGED notify_vars
    /\ \/ /\ queue.closed
          /\ Return(t)
          /\ UNCHANGED queue
       \/ /\ ~queue.closed /\ Fits(t)
          /\ queue' = [queue EXCEPT !.used = @ + op[t].size]
          /\ Become(t, [op[t] EXCEPT !.pc = "insert", !.buffer = queue.index])
       \/ /\ ~queue.closed /\ ~Fits(t)
          /\ IF op[t].phase = "last" THEN Return(t)
                                    ELSE Goto(t, "compare")
          /\ UNCHANGED queue

\* "Err(InsufficientCapacity(v)) if v.size() <= queue.capacity()".
Compare(t) ==
    /\ At(t, "compare")
    /\ IF op[t].size > queue.published THEN Return(t)
                                       ELSE Become(t, TryAgain(t))
    /\ UNCHANGED <<queue, notify_vars>>

RegisterEnqueuerTooLate(t) ==
    /\ At(t, "register")
    /\ enqueuers!LockToRegister(t)
    /\ Goto(t, "wait")
    /\ UNCHANGED <<queue, dequeuer_vars>>
RegisterEnqueuer(t) ==
    /\ At(t, "register")
    /\ enqueuers!LockToRegister(t)
    /\ Become(t, Attempts(t, "recheck"))
    /\ UNCHANGED <<queue, dequeuer_vars>>

\* The value is inserted and the buffer's length says so.
InsertQuietly(t) ==
    /\ At(t, "insert")
    /\ Return(t)
    /\ UNCHANGED <<queue, notify_vars>>
Insert(t) ==
    /\ At(t, "insert")
    /\ Goto(t, "notify_dequeue")
    /\ UNCHANGED <<queue, notify_vars>>

\* notify_dequeue, by try_enqueue and by close.
NotifyDequeue(t) ==
    /\ At(t, "notify_dequeue")
    /\ dequeuer!Wake(t)
    /\ IF t \in Closers THEN Goto(t, "notify_enqueue") ELSE Return(t)
    /\ UNCHANGED <<queue, enqueuers_vars>>

-----------------------------------------------------------------------------
(* dequeue, dequeue_timeout, dequeue_async, iter, stream, try_dequeue and  *)
(* try_dequeue_and_resize (for which size is the new capacity).            *)

Dequeue(t) ==
    "sync" \in DequeueModes /\ Start(t, "sync", 0, "spin")

DequeueTimeout(t) ==
    "timed" \in DequeueModes /\ Start(t, "timed", 0, "spin")

DequeueAsync(t) ==
    "async" \in DequeueModes /\ Start(t, "async", 0, "spin")

Iter(t) ==
    "iter" \in DequeueModes /\ Start(t, "iter", 0, "spin")

Stream(t) ==
    "stream" \in DequeueModes /\ Start(t, "stream", 0, "spin")

PlainDequeue(t) ==
    "try" \in DequeueModes /\ Start(t, "try", 0, "last")

DequeueAndResize(t, capa) ==
    "resize" \in DequeueModes /\ Start(t, "resize", capa, "last")

CallDequeue(t) ==
    /\ OneAtATime => \A d \in Dequeuers : op[d].pc = "idle"
    /\ \/ Dequeue(t) \/ DequeueTimeout(t) \/ DequeueAsync(t)
       \/ Iter(t) \/ Stream(t) \/ PlainDequeue(t)
       \/ \E capa \in Capacities : DequeueAndResize(t, capa)

\* lock_dequeuing.
Lock(t) ==
    /\ At(t, "lock")
    /\ queue' = [queue EXCEPT !.locked = TRUE]
    /\ IF queue.locked THEN Return(t)
       ELSE Goto(t, IF queue.due > 0 THEN "spin" ELSE "swap")
    /\ UNCHANGED notify_vars

\* The resize of the next buffer, if any, and the swap; or the error.
Swap(t) ==
    LET next == 1 - queue.index
        resized == op[t].mode = "resize" /\ op[t].size # queue.capacity[next] IN
    /\ At(t, "swap")
    /\ IF queue.used = 0 /\ ~resized
       THEN /\ Become(t, [op[t] EXCEPT
                             !.pc = "unlock",
                             !.result = IF queue.closed THEN "Closed"
                                                        ELSE "Empty"])
            /\ UNCHANGED queue
       ELSE /\ queue' = [queue EXCEPT
                            !.index = next, !.used = 0, !.due = queue.used,
                            !.capacity[next] = IF resized THEN op[t].size ELSE @]
            /\ Goto(t, "publish")
    /\ UNCHANGED notify_vars

Publish(t) ==
    /\ At(t, "publish")
    /\ queue' = [queue EXCEPT !.published = queue.capacity[queue.index]]
    /\ Goto(t, "notify_enqueue")
    /\ UNCHANGED notify_vars

\* notify_enqueue, by try_dequeue_internal and by close.
SkipNotifyEnqueue(t) ==
    /\ At(t, "notify_enqueue")
    /\ UNCHANGED <<queue, notify_vars>>
    /\ IF t \in Closers THEN Return(t)
       ELSE Become(t, [op[t] EXCEPT
                          !.pc = IF queue.due > 0 THEN "spin" ELSE "unlock",
                          !.result = IF queue.due > 0 THEN @ ELSE "Empty"])
NotifyEnqueue(t) ==
    /\ At(t, "notify_enqueue")
    /\ enqueuers!Wake(t)
    /\ IF t \in Closers THEN Return(t)
       ELSE Become(t, [op[t] EXCEPT
                          !.pc = IF queue.due > 0 THEN "spin" ELSE "unlock",
                          !.result = IF queue.due > 0 THEN @ ELSE "Empty"])
    /\ UNCHANGED <<queue, dequeuer_vars>>

\* Insertions are ongoing in the buffer that was swapped out.
Ongoing == \E e \in Enqueuers :
              op[e].pc = "insert" /\ op[e].buffer # queue.index

\* try_dequeue_spin.
Spin(t) ==
    /\ At(t, "spin")
    /\ IF Ongoing
       THEN Become(t, [op[t] EXCEPT !.pc = "unlock", !.result = "Pending"])
       ELSE Goto(t, "slice")
    /\ UNCHANGED <<queue, notify_vars>>

\* The dequeuing word is stored back, and the loop goes on or returns.
Unlock(t) ==
    /\ At(t, "unlock")
    /\ queue' = [queue EXCEPT !.locked = FALSE]
    /\ IF op[t].result = "Closed" \/ op[t].phase = "last" THEN Return(t)
       ELSE Become(t, [TryAgain(t) EXCEPT !.result = "none"])
    /\ UNCHANGED notify_vars

RegisterDequeuer(t) ==
    /\ At(t, "register")
    /\ dequeuer!Register(t)
    /\ Become(t, Attempts(t, "recheck"))
    /\ UNCHANGED <<queue, enqueuers_vars>>

\* The handle is dropped, and everything it held with it: an iterator or a
\* stream over the queue calls dequeue again.
Release(t) ==
    /\ At(t, "slice")
    /\ queue' = [queue EXCEPT !.due = 0, !.locked = FALSE]
    /\ IF op[t].mode \in {"iter", "stream"}
       THEN Become(t, Attempts(t, "spin")) ELSE Return(t)
    /\ UNCHANGED notify_vars

\* requeue, of what is left.
Requeue(t, left) ==
    /\ At(t, "slice")
    /\ left \in 1..queue.due
    /\ queue' = [queue EXCEPT !.due = left, !.locked = FALSE]
    /\ Return(t)
    /\ UNCHANGED notify_vars

-----------------------------------------------------------------------------
(* The waits.                                                              *)

\* Unparked or polled again, with or without a wake-up: park may return and a
\* future may be polled spuriously.
Resume(t) ==
    /\ At(t, "wait")
    /\ Become(t, Attempts(t, "spin"))
    /\ token' = [token EXCEPT ![t] = FALSE]
    /\ UNCHANGED <<queue, dequeuer_vars, enqueuers_vars>>

\* The deadline is over: a last plain attempt.
ExpireWithoutDeadline(t) ==
    /\ At(t, "wait")
    /\ Become(t, Attempts(t, "last"))
    /\ UNCHANGED <<queue, notify_vars>>
Expire(t) ==
    /\ At(t, "wait") /\ op[t].mode = "timed"
    /\ Become(t, Attempts(t, "last"))
    /\ UNCHANGED <<queue, notify_vars>>

\* A future is dropped; its waker stays where it was registered.
Cancel(t) ==
    /\ At(t, "wait") /\ op[t].mode \in {"async", "stream"}
    /\ Return(t)
    /\ UNCHANGED <<queue, notify_vars>>

-----------------------------------------------------------------------------
\* Bound: a closed queue is not closed again before it is reopened.
CloseWithoutNotifying(t) ==
    /\ At(t, "idle") /\ ~queue.closed
    /\ queue' = [queue EXCEPT !.closed = TRUE]
    /\ UNCHANGED <<op, notify_vars>>
Close(t) ==
    /\ At(t, "idle") /\ ~queue.closed
    /\ queue' = [queue EXCEPT !.closed = TRUE]
    /\ Goto(t, "notify_dequeue")
    /\ UNCHANGED notify_vars

Reopen(t) ==
    /\ At(t, "idle") /\ CanReopen
    /\ queue' = [queue EXCEPT !.closed = FALSE]
    /\ UNCHANGED <<op, notify_vars>>

\* A step inside the code of the wakers.
WakerStep(t) ==
    /\ \/ dequeuer!Step(t) /\ UNCHANGED enqueuers_vars
       \/ enqueuers!Step(t) /\ UNCHANGED dequeuer_vars
    /\ UNCHANGED <<queue, op>>

EnqueuerStep(t) ==
    \/ TryEnqueue(t) \/ Compare(t) \/ RegisterEnqueuer(t) \/ Insert(t)
    \/ NotifyDequeue(t)

DequeuerStep(t) ==
    \/ Lock(t) \/ Swap(t) \/ Publish(t) \/ NotifyEnqueue(t) \/ Spin(t)
    \/ Unlock(t) \/ RegisterDequeuer(t)

Next ==
    \/ \E t \in Enqueuers :
          CallEnqueue(t) \/ EnqueuerStep(t)
    \/ \E t \in Dequeuers :
          \/ CallDequeue(t) \/ DequeuerStep(t) \/ Release(t)
          \/ \E left \in 1..queue.due : Requeue(t, left)
    \/ \E t \in Enqueuers \cup Dequeuers : Resume(t) \/ Expire(t) \/ Cancel(t)
    \/ \E t \in Closers :
          Close(t) \/ Reopen(t) \/ NotifyDequeue(t) \/ NotifyEnqueue(t)
    \/ \E t \in Threads : WakerStep(t)

Spec == Init /\ [][Next]_vars

\* A thread inside an operation keeps running; a parked thread that has its
\* token, and a task that was scheduled, go on.  Nobody is obliged to call an
\* operation, to drop a handle or to be woken without reason.
FairSpec ==
    /\ Spec
    /\ \A t \in Enqueuers : WF_vars(EnqueuerStep(t) \/ WakerStep(t))
    /\ \A t \in Dequeuers : WF_vars(DequeuerStep(t) \/ WakerStep(t))
    /\ \A t \in Closers :
          WF_vars(NotifyDequeue(t) \/ NotifyEnqueue(t) \/ WakerStep(t))
    /\ \A t \in Enqueuers \cup Dequeuers : WF_vars(token[t] /\ Resume(t))

-----------------------------------------------------------------------------
Dequeuable == queue.closed \/ queue.used > 0 \/ queue.due > 0

\* "waiting synchronously notify_dequeue call, i.e. when a value is enqueued,
\* in case of empty queue": a dequeuer that sleeps although there is something
\* to dequeue, or the queue is closed, is about to be woken.
SleepingDequeuerIsOwedAWake ==
    \A d \in Dequeuers :
        op[d].pc = "wait" /\ ~token[d] /\ Dequeuable =>
            \E t \in Threads :
                \/ op[t].pc \in {"insert", "notify_dequeue"}
                \/ dequeuer_call[t].pc = "take"
                \/ dequeuer_call[t].pc = "deliver" /\ dequeuer_call[t].taken = d

\* "waiting synchronously notify_enqueue call, i.e. when a buffer is dequeued,
\* in case of insufficient capacity": an enqueuer that sleeps although its
\* value would now be accepted, or refused for good, is about to be woken.
SleepingEnqueuerIsOwedAWake ==
    \A e \in Enqueuers :
        /\ op[e].pc = "wait" /\ ~token[e]
        /\ queue.closed \/ Fits(e) \/ op[e].size > queue.published
        => \E t \in Threads :
                \/ op[t].pc \in {"publish", "notify_enqueue"}
                \/ op[t].pc = "notify_dequeue" /\ t \in Closers
                \/ enqueuers_call[t] \in {"lock", "drain"}

\* dequeue_err converts Closed and Conflict, and no other error.
Unreachable == {"Empty", "Pending"}

\* dequeue_err has only Closed and Conflict to convert: the unreachable!() of
\* dequeue, dequeue_async, iter and stream is not reached by an Empty or a
\* Pending that some path of the loops lets through.
DequeueErrIsTotal ==
    [][\A d \in Dequeuers :
          op[d].mode \in {"sync", "async", "iter", "stream"}
            /\ op[d].result \in Unreachable => op'[d].pc # "idle"]_vars

\* The SAFETY comments of AtomicWaker: no two threads access its slot at once,
\* and the waker that register takes back after a wake-up (its unwrap) is
\* there, with the state its debug assertion expects.
Accessing(t) == dequeuer_call[t].pc \in {"store", "take_back", "take"}
SlotIsExclusive ==
    /\ \A t, u \in Threads : Accessing(t) /\ Accessing(u) => t = u
    /\ \A t \in Threads :
          dequeuer_call[t].pc = "take_back" =>
              waker # Nobody /\ state = {"REGISTERING", "WAKING"}

\* What lets WakerList::wake skip the mutex: a vector with wakers in it has its
\* flag up, or somebody who lowered the flag is still to empty it.
FlagIsUp ==
    wakers # {} =>
        non_empty \/ \E t \in Threads : enqueuers_call[t] \in {"lock", "drain"}

Outside(t) == op[t].pc \in {"idle", "slice"}

\* Closing the queue ends every blocking operation, as the examples of
\* enqueue, dequeue, iter and stream do.
CloseEndsOperations ==
    \A t \in Enqueuers \cup Dequeuers :
        queue.closed /\ ~Outside(t) ~> Outside(t)

\* At some point waiting threads are no longer woken without reason and futures
\* no longer dropped: each time, an enqueuer would register again, and could
\* take the mutex before wake_all for ever.
Calm ==
    <>[][\A t \in Enqueuers \cup Dequeuers :
            ~Cancel(t) /\ (Resume(t) => token[t])]_vars

\* A blocking dequeue returns once there is a value.
ValueEndsDequeue ==
    Calm => \A d \in Dequeuers :
               queue.used + queue.due > 0 /\ ~Outside(d) ~> Outside(d)

\* The dequeuer always comes back for the next values, and does not requeue
\* the same ones for ever.
KeepsDequeuing ==
    \A d \in Dequeuers : WF_vars(CallDequeue(d)) /\ SF_vars(Release(d))

\* An enqueuer does not sleep for ever behind a dequeuer that keeps dequeuing.
EnqueuerIsWoken ==
    Calm /\ KeepsDequeuing =>
        \A e \in Enqueuers : op[e].pc = "wait" ~> op[e].pc # "wait"
=============================================================================
