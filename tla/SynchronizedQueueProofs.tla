---------------------- MODULE SynchronizedQueueProofs -----------------------
(***************************************************************************)
(* No sleeper of SynchronizedQueue is forgotten, for any number of         *)
(* enqueuers, dequeuers and closers, any sizes, capacities and modes.      *)
(***************************************************************************)
EXTENDS SynchronizedQueueInvariant, TLAPS

(***************************************************************************)
(* The steps: what each does to the operation of its thread and to the     *)
(* queue, that they keep the types and the control, and that dequeue_err   *)
(* is total; then the wakers, whose locking protocols work for any         *)
(* threads, and that who has registered can be reached.                    *)
(***************************************************************************)

\* The steps that leave the wakers alone.
CallStep(t) ==
    \/ t \in Enqueuers /\ CallEnqueue(t)
    \/ t \in Dequeuers /\ CallDequeue(t)

(***************************************************************************)
(* Types and control.                                                      *)
(***************************************************************************)

\* Idle and what an operation starts with are operations.
LEMMA IdleType == Idle \in OpType
  BY Zenon DEF Idle, OpType, Pc, Mode, Phase, Result

\* The next attempt is an operation.
LEMMA AttemptType ==
    ASSUME TypeOK, NEW t \in Threads
    PROVE  /\ TryAgain(t) \in OpType
           /\ \A phase \in Phase : Attempts(t, phase) \in OpType
<1>1. op[t] \in OpType
  BY Zenon DEF TypeOK
<1>2. SPIN_LIMIT \in Nat
  BY Zenon, SynchronizedQueueAssumption
<1>3. FirstPc(t) \in Pc
  BY Zenon DEF FirstPc, Pc
<1>4. TryAgain(t) \in OpType
  <2>1. [op[t] EXCEPT !.pc = "wait"] \in OpType
    BY Zenon, <1>1 DEF OpType, Pc
  <2>2. [op[t] EXCEPT !.pc = "register"] \in OpType
    BY Zenon, <1>1 DEF OpType, Pc
  <2>3. [op[t] EXCEPT !.pc = FirstPc(t), !.spins = @ + 1] \in OpType
    <3>1. op[t].spins + 1 \in Nat
      BY <1>1 DEF OpType
    <3>2. [op[t] EXCEPT !.pc = FirstPc(t), !.spins = op[t].spins + 1] \in OpType
      BY Zenon, <1>1, <1>3, <3>1 DEF OpType
    <3> QED
      BY Zenon, <3>2
  <2> QED
    BY Zenon, <2>1, <2>2, <2>3 DEF TryAgain
<1>5. ASSUME NEW phase \in Phase PROVE Attempts(t, phase) \in OpType
  BY Zenon, <1>1, <1>3 DEF Attempts, OpType
<1> QED
  BY Zenon, <1>4, <1>5

\* A call starts an attempt, whatever its mode.
LEMMA CallStarts ==
    ASSUME NEW t \in Threads, CallStep(t)
    PROVE  \E mode \in Mode, size \in Nat, phase \in {"spin", "last"} :
              /\ Start(t, mode, size, phase)
              /\ mode = "resize" => phase = "last"
              /\ mode \in {"sync", "async", "iter", "stream"} =>
                    phase # "last"
              /\ OneAtATime /\ t \in Dequeuers =>
                    \A d \in Dequeuers : op[d].pc = "idle"
<1>1. Sizes \subseteq Nat /\ Capacities \subseteq Nat
  BY Zenon, SynchronizedQueueAssumption
<1>2. t \in Enqueuers \/ t \in Dequeuers
  BY Zenon DEF CallStep
<1> QED
  <2>1. CASE CallEnqueue(t) /\ t \notin Dequeuers
    BY Zenon, <1>1, <2>1
       DEF CallEnqueue, Enqueue, EnqueueTimeout, EnqueueAsync,
       PlainEnqueue, Mode
  <2>2. CASE CallDequeue(t)
    BY Zenon, <1>1, <2>2
       DEF CallDequeue, Dequeue, DequeueTimeout, DequeueAsync, Iter,
       Stream, PlainDequeue, DequeueAndResize, Mode
  <2> QED
    BY Zenon, <2>1, <2>2, SynchronizedQueueAssumption DEF CallStep

(***************************************************************************)
(* What each step does to the operation of its thread and to the queue.    *)
(***************************************************************************)

\* Only the operation of t changes.
Moves(t) == op'[t] \in OpType /\ op' = [op EXCEPT ![t] = op'[t]]

\* Become is a move.
LEMMA BecomeMoves ==
    ASSUME TypeOK, NEW t \in Threads, NEW r \in OpType, Become(t, r)
    PROVE  Moves(t) /\ op'[t] = r
  BY Zenon DEF Become, Moves, TypeOK

\* A change of pc is a move that changes nothing else.
LEMMA GotoMoves ==
    ASSUME TypeOK, NEW t \in Threads, NEW pc \in Pc, Goto(t, pc)
    PROVE  Moves(t) /\ op'[t] = [op[t] EXCEPT !.pc = pc]
<1>1. op[t] \in OpType
  BY Zenon DEF TypeOK
<1>2. [op[t] EXCEPT !.pc = pc] \in OpType
  BY Zenon, <1>1 DEF OpType
<1> QED
  BY Zenon, <1>2, BecomeMoves DEF Goto

\* The end of an operation is a move.
LEMMA ReturnMoves ==
    ASSUME TypeOK, NEW t \in Threads, Return(t)
    PROVE  Moves(t) /\ op'[t] = Idle
  BY Zenon, IdleType, BecomeMoves DEF Return

\* The start of an operation.
LEMMA StartEffect ==
    ASSUME TypeOK, NEW t \in Threads, NEW mode \in Mode, NEW size \in Nat,
           NEW phase \in Phase, Start(t, mode, size, phase)
    PROVE  /\ Moves(t) /\ At(t, "idle") /\ UNCHANGED <<queue, notify_vars>>
           /\ op'[t].pc = FirstPc(t) /\ op'[t].mode = mode
           /\ op'[t].phase = phase /\ op'[t].result = "none"
<1> DEFINE r == [Idle EXCEPT !.pc = FirstPc(t), !.mode = mode, !.size = size,
                             !.phase = phase]
<1>1. FirstPc(t) \in Pc
  BY Zenon DEF FirstPc, Pc
<1>2. Idle \in OpType /\ Idle.result = "none"
  BY Zenon, IdleType DEF Idle
<1>3. /\ r \in OpType
      /\ r.pc = FirstPc(t) /\ r.mode = mode /\ r.phase = phase
      /\ r.result = Idle.result
  BY Zenon, <1>1, <1>2 DEF OpType
<1>4. Become(t, r)
  BY Zenon DEF Start
<1>5. Moves(t) /\ op'[t] = r
  BY Zenon, <1>3, <1>4, BecomeMoves
<1> QED
  BY Zenon, <1>2, <1>3, <1>5 DEF Start

\* What a repeated attempt changes, and what a new series of attempts does.
LEMMA AttemptFields ==
    ASSUME TypeOK, NEW t \in Threads
    PROVE  /\ TryAgain(t).phase = op[t].phase /\ TryAgain(t).mode = op[t].mode
           /\ TryAgain(t).result = op[t].result
           /\ TryAgain(t).size = op[t].size
           /\ op[t].phase = "recheck" => TryAgain(t).pc = "wait"
           /\ op[t].phase # "recheck" =>
                 TryAgain(t).pc \in {FirstPc(t), "register"}
           /\ \A phase \in Phase :
                 /\ Attempts(t, phase).pc = FirstPc(t)
                 /\ Attempts(t, phase).phase = phase
                 /\ Attempts(t, phase).mode = op[t].mode
                 /\ Attempts(t, phase).result = op[t].result
<1>1. op[t] \in OpType
  BY Zenon DEF TypeOK
<1>2. CASE op[t].phase = "recheck"
  BY Zenon, <1>1, <1>2 DEF TryAgain, OpType, Attempts
<1>3. CASE op[t].phase # "recheck" /\ op[t].spins + 1 < SPIN_LIMIT
  <2>1. TryAgain(t) = [op[t] EXCEPT !.pc = FirstPc(t), !.spins = @ + 1]
    BY Zenon, <1>3 DEF TryAgain
  <2> QED
    BY Zenon, <1>1, <1>3, <2>1 DEF OpType, Attempts
<1>4. CASE op[t].phase # "recheck" /\ ~(op[t].spins + 1 < SPIN_LIMIT)
  <2>1. TryAgain(t) = [op[t] EXCEPT !.pc = "register"]
    BY Zenon, <1>4 DEF TryAgain
  <2> QED
    BY Zenon, <1>1, <1>4, <2>1 DEF OpType, Attempts
<1> QED
  BY Zenon, <1>2, <1>3, <1>4

\* The fields of an operation other than its pc.
Same(t) == /\ op'[t].mode = op[t].mode /\ op'[t].phase = op[t].phase
           /\ op'[t].size = op[t].size /\ op'[t].result = op[t].result

\* The fields of the queue that decide whether a value fits.
SameRoom == /\ queue' \in QueueType
            /\ queue'.used = queue.used /\ queue'.index = queue.index
            /\ queue'.capacity = queue.capacity
            /\ queue'.closed = queue.closed
            /\ queue'.published = queue.published

\* A change of pc keeps the other fields.
LEMMA GotoSame ==
    ASSUME TypeOK, NEW t \in Threads, NEW pc \in Pc, Goto(t, pc)
    PROVE  Moves(t) /\ Same(t) /\ op'[t].pc = pc
<1>1. op[t] \in OpType
  BY Zenon DEF TypeOK
<1>2. Moves(t) /\ op'[t] = [op[t] EXCEPT !.pc = pc]
  BY Zenon, GotoMoves
<1> QED
  BY Zenon, <1>1, <1>2 DEF OpType, Same

\* Calls of enqueue and dequeue operations.
LEMMA CallEffect ==
    ASSUME TypeOK, NEW t \in Threads, CallStep(t)
    PROVE  /\ Moves(t) /\ At(t, "idle") /\ UNCHANGED <<queue, notify_vars>>
           /\ op'[t].pc = FirstPc(t) /\ op'[t].phase \in {"spin", "last"}
           /\ op'[t].result = "none"
           /\ op'[t].mode = "resize" => op'[t].phase = "last"
           /\ op'[t].mode \in {"sync", "async", "iter", "stream"} =>
                 op'[t].phase # "last"
           /\ OneAtATime /\ t \in Dequeuers =>
                 \A d \in Dequeuers : op[d].pc = "idle"
<1>1. PICK mode \in Mode, size \in Nat, phase \in {"spin", "last"} :
              /\ Start(t, mode, size, phase)
              /\ mode = "resize" => phase = "last"
              /\ mode \in {"sync", "async", "iter", "stream"} =>
                    phase # "last"
              /\ OneAtATime /\ t \in Dequeuers =>
                    \A d \in Dequeuers : op[d].pc = "idle"
  BY Zenon, CallStarts
<1>2. phase \in Phase
  BY Zenon DEF Phase
<1>3. /\ Moves(t) /\ At(t, "idle") /\ UNCHANGED <<queue, notify_vars>>
      /\ op'[t].pc = FirstPc(t) /\ op'[t].mode = mode
      /\ op'[t].phase = phase /\ op'[t].result = "none"
  BY Zenon, <1>1, <1>2, StartEffect
<1> QED
  BY Zenon, <1>1, <1>3

\* try_enqueue.
LEMMA TryEnqueueEffect ==
    ASSUME TypeOK, NEW t \in Threads, TryEnqueue(t)
    PROVE  /\ Moves(t) /\ At(t, "try") /\ UNCHANGED notify_vars
           /\ queue' \in QueueType
           /\ \/ UNCHANGED queue /\ op'[t] = Idle
              \/ /\ op'[t].pc = "insert" /\ Same(t)
                 /\ queue' = [queue EXCEPT !.used = @ + op[t].size]
              \/ /\ UNCHANGED queue /\ op'[t].pc = "compare" /\ Same(t)
                 /\ ~queue.closed /\ ~Fits(t)
<1>1. op[t] \in OpType /\ queue \in QueueType
  BY Zenon DEF TypeOK
<1>2. CASE Return(t) /\ UNCHANGED queue
  BY Zenon, <1>1, <1>2, ReturnMoves DEF TryEnqueue
<1>3. CASE /\ queue' = [queue EXCEPT !.used = @ + op[t].size]
           /\ Become(t, [op[t] EXCEPT !.pc = "insert", !.buffer = queue.index])
  <2>1. queue.used + op[t].size \in Nat
    BY <1>1 DEF OpType, QueueType
  <2>2. queue' \in QueueType
    BY Zenon, <1>1, <1>3, <2>1 DEF QueueType
  <2> DEFINE r == [op[t] EXCEPT !.pc = "insert", !.buffer = queue.index]
  <2>3. r \in OpType
    BY Zenon, <1>1 DEF OpType, QueueType, Pc
  <2>4. Moves(t) /\ op'[t] = r
    BY Zenon, <1>3, <2>3, BecomeMoves
  <2>5. Same(t) /\ op'[t].pc = "insert"
    BY Zenon, <1>1, <2>4 DEF Same, OpType
  <2> QED
    BY Zenon, <1>3, <2>2, <2>4, <2>5 DEF TryEnqueue
<1>4. CASE /\ ~queue.closed /\ ~Fits(t) /\ Goto(t, "compare")
           /\ UNCHANGED queue
  BY Zenon, <1>1, <1>4, GotoSame DEF TryEnqueue, Pc
<1> QED
  BY Zenon, <1>2, <1>3, <1>4 DEF TryEnqueue

\* The comparison with the published capacity.
LEMMA CompareEffect ==
    ASSUME TypeOK, NEW t \in Threads, Compare(t)
    PROVE  /\ Moves(t) /\ At(t, "compare") /\ UNCHANGED <<queue, notify_vars>>
           /\ \/ op'[t] = Idle
              \/ op'[t] = TryAgain(t) /\ ~(op[t].size > queue.published)
<1>1. TryAgain(t) \in OpType
  BY Zenon, AttemptType
<1> QED
  BY Zenon, <1>1, ReturnMoves, BecomeMoves DEF Compare

\* The registration of an enqueuer.
LEMMA RegisterEnqueuerEffect ==
    ASSUME TypeOK, NEW t \in Threads, RegisterEnqueuer(t)
    PROVE  /\ Moves(t) /\ op'[t].pc = FirstPc(t) /\ op'[t].phase = "recheck"
           /\ op'[t].result = op[t].result /\ op'[t].mode = op[t].mode
<1>1. "recheck" \in Phase
  BY Zenon DEF Phase
<1>2. Attempts(t, "recheck") \in OpType
  BY Zenon, <1>1, AttemptType
<1> QED
  BY <1>1, <1>2, AttemptFields, BecomeMoves DEF RegisterEnqueuer

\* The registration of a dequeuer.
LEMMA RegisterDequeuerEffect ==
    ASSUME TypeOK, NEW t \in Threads, RegisterDequeuer(t)
    PROVE  /\ Moves(t) /\ op'[t].pc = FirstPc(t) /\ op'[t].phase = "recheck"
           /\ op'[t].result = op[t].result /\ op'[t].mode = op[t].mode
<1>1. "recheck" \in Phase
  BY Zenon DEF Phase
<1>2. Attempts(t, "recheck") \in OpType
  BY Zenon, <1>1, AttemptType
<1> QED
  BY <1>1, <1>2, AttemptFields, BecomeMoves DEF RegisterDequeuer

\* The end of an insertion.
LEMMA InsertEffect ==
    ASSUME TypeOK, NEW t \in Threads, Insert(t)
    PROVE  /\ Moves(t) /\ Same(t) /\ At(t, "insert")
           /\ op'[t].pc = "notify_dequeue" /\ UNCHANGED <<queue, notify_vars>>
  BY Zenon, GotoSame DEF Insert, Pc

\* The notification of the dequeuer.
LEMMA NotifyDequeueEffect ==
    ASSUME TypeOK, NEW t \in Threads, NotifyDequeue(t)
    PROVE  /\ Moves(t) /\ At(t, "notify_dequeue")
           /\ UNCHANGED <<queue, enqueuers_vars>>
           /\ t \in Closers => op'[t].pc = "notify_enqueue"
           /\ t \notin Closers => op'[t] = Idle
  BY Zenon, GotoSame, ReturnMoves DEF NotifyDequeue, Pc

\* lock_dequeuing.
LEMMA LockEffect ==
    ASSUME TypeOK, NEW t \in Threads, Lock(t)
    PROVE  /\ Moves(t) /\ At(t, "lock") /\ UNCHANGED notify_vars
           /\ SameRoom /\ queue'.due = queue.due
           /\ \/ op'[t] = Idle
              \/ op'[t].pc = "spin" /\ Same(t)
              \/ op'[t].pc = "swap" /\ Same(t) /\ queue.due = 0
<1>1. queue \in QueueType
  BY Zenon DEF TypeOK
<1>2. SameRoom /\ queue'.due = queue.due
  BY Zenon, <1>1 DEF Lock, SameRoom, QueueType
<1>3. CASE queue.locked
  BY Zenon, <1>2, <1>3, ReturnMoves DEF Lock
<1>4. CASE ~queue.locked /\ queue.due > 0
  BY Zenon, <1>2, <1>4, GotoSame DEF Lock, Pc
<1>5. CASE ~queue.locked /\ ~(queue.due > 0)
  <2>1. queue.due = 0
    BY <1>1, <1>5 DEF QueueType
  <2>2. Goto(t, "swap")
    BY Zenon, <1>5 DEF Lock
  <2> QED
    BY Zenon, <1>2, <2>1, <2>2, GotoSame DEF Lock, Pc
<1> QED
  BY Zenon, <1>3, <1>4, <1>5

\* The swap of the buffers.
LEMMA SwapEffect ==
    ASSUME TypeOK, NEW t \in Threads, Swap(t)
    PROVE  /\ Moves(t) /\ At(t, "swap") /\ UNCHANGED notify_vars
           /\ queue' \in QueueType
           /\ op'[t].mode = op[t].mode /\ op'[t].phase = op[t].phase
           /\ \/ /\ UNCHANGED queue /\ op'[t].pc = "unlock"
                 /\ queue.closed => op'[t].result = "Closed"
                 /\ queue.used = 0
              \/ /\ op'[t].pc = "publish" /\ Same(t)
                 /\ queue'.due = queue.used /\ queue'.closed = queue.closed
                 /\ queue.used > 0 \/ op[t].mode = "resize"
<1>1. op[t] \in OpType /\ queue \in QueueType
  BY Zenon DEF TypeOK
<1> DEFINE next == 1 - queue.index
           resized == op[t].mode = "resize"
                        /\ op[t].size # queue.capacity[next]
<1>2. CASE queue.used = 0 /\ ~resized
  <2> DEFINE r == [op[t] EXCEPT
                      !.pc = "unlock",
                      !.result = IF queue.closed THEN "Closed" ELSE "Empty"]
  <2>1. r \in OpType
    BY Zenon, <1>1 DEF OpType, Pc, Result
  <2>2. Become(t, r) /\ UNCHANGED queue
    BY Zenon, <1>2 DEF Swap
  <2>3. Moves(t) /\ op'[t] = r
    BY Zenon, <2>1, <2>2, BecomeMoves
  <2>4. /\ op'[t].mode = op[t].mode /\ op'[t].phase = op[t].phase
        /\ op'[t].pc = "unlock"
        /\ queue.closed => op'[t].result = "Closed"
    BY Zenon, <1>1, <2>3 DEF OpType
  <2> QED
    BY Zenon, <1>1, <1>2, <2>2, <2>3, <2>4 DEF Swap
<1>3. CASE ~(queue.used = 0 /\ ~resized)
  <2>1. /\ queue' = [queue EXCEPT
                        !.index = next, !.used = 0, !.due = queue.used,
                        !.capacity[next] = IF resized THEN op[t].size ELSE @]
        /\ Goto(t, "publish")
    BY Zenon, <1>3 DEF Swap
  <2>2. next \in {0, 1}
    BY <1>1 DEF QueueType
  <2>3. op[t].size \in Nat
    BY Zenon, <1>1 DEF OpType
  <2>4. /\ queue' \in QueueType
        /\ queue'.due = queue.used /\ queue'.closed = queue.closed
    BY Zenon, <1>1, <2>1, <2>2, <2>3 DEF QueueType
  <2>5. queue.used > 0 \/ op[t].mode = "resize"
    BY <1>1, <1>3 DEF QueueType
  <2>6. Moves(t) /\ Same(t) /\ op'[t].pc = "publish"
    BY Zenon, <2>1, GotoSame DEF Pc
  <2> QED
    BY Zenon, <2>4, <2>5, <2>6 DEF Swap, Same
<1> QED
  BY Zenon, <1>2, <1>3

\* The publication of the capacity.
LEMMA PublishEffect ==
    ASSUME TypeOK, NEW t \in Threads, Publish(t)
    PROVE  /\ Moves(t) /\ At(t, "publish") /\ UNCHANGED notify_vars /\ Same(t)
           /\ op'[t].pc = "notify_enqueue" /\ queue' \in QueueType
           /\ queue'.due = queue.due
<1>1. queue \in QueueType
  BY Zenon DEF TypeOK
<1>2. queue.capacity[queue.index] \in Nat
  BY Zenon, <1>1 DEF QueueType
<1>3. queue' \in QueueType /\ queue'.due = queue.due
  BY Zenon, <1>1, <1>2 DEF Publish, QueueType
<1> QED
  BY Zenon, <1>3, GotoSame DEF Publish, Pc

\* The notification of the enqueuers.
LEMMA NotifyEnqueueEffect ==
    ASSUME TypeOK, NEW t \in Threads, NotifyEnqueue(t)
    PROVE  /\ Moves(t) /\ At(t, "notify_enqueue")
           /\ UNCHANGED <<queue, dequeuer_vars>>
           /\ t \in Closers => op'[t] = Idle
           /\ t \notin Closers =>
                 /\ op'[t].mode = op[t].mode /\ op'[t].phase = op[t].phase
                 /\ \/ op'[t].pc = "spin" /\ op'[t].result = op[t].result
                    \/ op'[t].pc = "unlock" /\ queue.due = 0
<1>1. op[t] \in OpType /\ queue \in QueueType
  BY Zenon DEF TypeOK
<1>2. CASE t \in Closers
  BY Zenon, <1>2, ReturnMoves DEF NotifyEnqueue
<1>3. CASE t \notin Closers
  <2> DEFINE r == [op[t] EXCEPT
                      !.pc = IF queue.due > 0 THEN "spin" ELSE "unlock",
                      !.result = IF queue.due > 0 THEN @ ELSE "Empty"]
  <2>1. r \in OpType
    BY Zenon, <1>1 DEF OpType, Pc, Result
  <2>2. Become(t, r)
    BY Zenon, <1>3 DEF NotifyEnqueue
  <2>3. Moves(t) /\ op'[t] = r
    BY Zenon, <2>1, <2>2, BecomeMoves
  <2>4. queue.due \in Nat
    BY Zenon, <1>1 DEF QueueType
  <2>5. /\ op'[t].mode = op[t].mode /\ op'[t].phase = op[t].phase
        /\ \/ op'[t].pc = "spin" /\ op'[t].result = op[t].result
           \/ op'[t].pc = "unlock" /\ queue.due = 0
    BY <1>1, <2>3, <2>4 DEF OpType
  <2> QED
    BY Zenon, <1>3, <2>3, <2>5 DEF NotifyEnqueue
<1> QED
  BY Zenon, <1>2, <1>3

\* try_dequeue_spin.
LEMMA SpinEffect ==
    ASSUME TypeOK, NEW t \in Threads, Spin(t)
    PROVE  /\ Moves(t) /\ At(t, "spin") /\ UNCHANGED <<queue, notify_vars>>
           /\ op'[t].mode = op[t].mode /\ op'[t].phase = op[t].phase
           /\ \/ op'[t].pc = "unlock" /\ Ongoing
              \/ op'[t].pc = "slice" /\ op'[t].result = op[t].result
<1>1. op[t] \in OpType
  BY Zenon DEF TypeOK
<1>2. CASE Ongoing
  <2> DEFINE r == [op[t] EXCEPT !.pc = "unlock", !.result = "Pending"]
  <2>1. r \in OpType
    BY Zenon, <1>1 DEF OpType, Pc, Result
  <2>2. Become(t, r)
    BY Zenon, <1>2 DEF Spin
  <2>3. Moves(t) /\ op'[t] = r
    BY Zenon, <2>1, <2>2, BecomeMoves
  <2>4. /\ op'[t].mode = op[t].mode /\ op'[t].phase = op[t].phase
        /\ op'[t].pc = "unlock"
    BY Zenon, <1>1, <2>3 DEF OpType
  <2> QED
    BY Zenon, <1>2, <2>3, <2>4 DEF Spin
<1>3. CASE ~Ongoing
  BY Zenon, <1>3, GotoSame DEF Spin, Pc, Same
<1> QED
  BY Zenon, <1>2, <1>3

\* The end of an unsuccessful attempt to dequeue.
LEMMA UnlockEffect ==
    ASSUME TypeOK, NEW t \in Threads, Unlock(t)
    PROVE  /\ Moves(t) /\ At(t, "unlock") /\ UNCHANGED notify_vars
           /\ SameRoom /\ queue'.due = queue.due
           /\ \/ /\ op'[t] = Idle
                 /\ op[t].result = "Closed" \/ op[t].phase = "last"
              \/ /\ op[t].result # "Closed" /\ op[t].phase # "last"
                 /\ op'[t].mode = op[t].mode /\ op'[t].phase = op[t].phase
                 /\ op'[t].result = "none"
                 /\ op[t].phase = "recheck" => op'[t].pc = "wait"
                 /\ op[t].phase # "recheck" =>
                       op'[t].pc \in {FirstPc(t), "register"}
<1>1. queue \in QueueType /\ TryAgain(t) \in OpType
  BY Zenon, AttemptType DEF TypeOK
<1>2. SameRoom /\ queue'.due = queue.due
  BY Zenon, <1>1 DEF Unlock, SameRoom, QueueType
<1>3. CASE op[t].result = "Closed" \/ op[t].phase = "last"
  BY Zenon, <1>2, <1>3, ReturnMoves DEF Unlock
<1>4. CASE ~(op[t].result = "Closed" \/ op[t].phase = "last")
  <2> DEFINE r == [TryAgain(t) EXCEPT !.result = "none"]
  <2>1. r \in OpType
    BY Zenon, <1>1 DEF OpType, Result
  <2>2. Become(t, r)
    BY Zenon, <1>4 DEF Unlock
  <2>3. Moves(t) /\ op'[t] = r
    BY Zenon, <2>1, <2>2, BecomeMoves
  <2>4. /\ r.mode = TryAgain(t).mode /\ r.phase = TryAgain(t).phase
        /\ r.pc = TryAgain(t).pc /\ r.result = "none"
    BY Zenon, <1>1 DEF OpType
  <2> HIDE DEF r
  <2> QED
    BY Zenon, <1>2, <1>4, <2>3, <2>4, AttemptFields DEF Unlock
<1> QED
  BY Zenon, <1>3, <1>4

\* The drop of a handle.
LEMMA ReleaseEffect ==
    ASSUME TypeOK, NEW t \in Threads, Release(t)
    PROVE  /\ Moves(t) /\ At(t, "slice") /\ UNCHANGED notify_vars
           /\ SameRoom
           /\ \/ op'[t] = Idle
              \/ /\ op'[t].pc = FirstPc(t) /\ op'[t].phase = "spin"
                 /\ op'[t].mode = op[t].mode /\ op'[t].result = op[t].result
                 /\ op[t].mode \in {"iter", "stream"}
<1>1. queue \in QueueType
  BY Zenon DEF TypeOK
<1>2. SameRoom
  BY Zenon, <1>1 DEF Release, SameRoom, QueueType
<1>3. "spin" \in Phase /\ Attempts(t, "spin") \in OpType
  BY Zenon, AttemptType DEF Phase
<1>4. CASE op[t].mode \in {"iter", "stream"}
  BY <1>2, <1>3, <1>4, AttemptFields, BecomeMoves DEF Release
<1>5. CASE op[t].mode \notin {"iter", "stream"}
  BY Zenon, <1>2, <1>5, ReturnMoves DEF Release
<1> QED
  BY Zenon, <1>4, <1>5

\* requeue.
LEMMA RequeueEffect ==
    ASSUME TypeOK, NEW t \in Threads, NEW left \in 1..queue.due,
           Requeue(t, left)
    PROVE  /\ Moves(t) /\ At(t, "slice") /\ UNCHANGED notify_vars
           /\ SameRoom /\ op'[t] = Idle
<1>1. queue \in QueueType
  BY Zenon DEF TypeOK
<1>2. left \in Nat
  BY <1>1 DEF QueueType
<1>3. SameRoom
  BY Zenon, <1>1, <1>2 DEF Requeue, SameRoom, QueueType
<1> QED
  BY Zenon, <1>3, ReturnMoves DEF Requeue

\* The end of a wait, by a token or without.
LEMMA ResumeEffect ==
    ASSUME TypeOK, NEW t \in Threads, Resume(t)
    PROVE  /\ Moves(t) /\ At(t, "wait")
           /\ UNCHANGED <<queue, dequeuer_vars, enqueuers_vars>>
           /\ op'[t].pc = FirstPc(t) /\ op'[t].phase = "spin"
           /\ op'[t].mode = op[t].mode /\ op'[t].result = op[t].result
           /\ token' = [token EXCEPT ![t] = FALSE]
<1>1. "spin" \in Phase /\ Attempts(t, "spin") \in OpType
  BY Zenon, AttemptType DEF Phase
<1> QED
  BY <1>1, AttemptFields, BecomeMoves DEF Resume

\* The end of a wait at its deadline.
LEMMA ExpireEffect ==
    ASSUME TypeOK, NEW t \in Threads, Expire(t)
    PROVE  /\ Moves(t) /\ At(t, "wait") /\ UNCHANGED <<queue, notify_vars>>
           /\ op'[t].pc = FirstPc(t) /\ op'[t].phase = "last"
           /\ op'[t].mode = "timed" /\ op'[t].result = op[t].result
<1>1. "last" \in Phase /\ Attempts(t, "last") \in OpType
  BY Zenon, AttemptType DEF Phase
<1> QED
  BY <1>1, AttemptFields, BecomeMoves DEF Expire

\* The drop of a future.
LEMMA CancelEffect ==
    ASSUME TypeOK, NEW t \in Threads, Cancel(t)
    PROVE  /\ Moves(t) /\ At(t, "wait") /\ UNCHANGED <<queue, notify_vars>>
           /\ op'[t] = Idle
  BY Zenon, ReturnMoves DEF Cancel

\* close.
LEMMA CloseEffect ==
    ASSUME TypeOK, NEW t \in Threads, Close(t)
    PROVE  /\ Moves(t) /\ At(t, "idle") /\ UNCHANGED notify_vars
           /\ op'[t].pc = "notify_dequeue" /\ queue' \in QueueType
           /\ queue'.due = queue.due
<1>1. queue \in QueueType
  BY Zenon DEF TypeOK
<1>2. queue' \in QueueType /\ queue'.due = queue.due
  BY Zenon, <1>1 DEF Close, QueueType
<1> QED
  BY Zenon, <1>2, GotoSame DEF Close, Pc

\* reopen.
LEMMA ReopenEffect ==
    ASSUME TypeOK, NEW t \in Threads, Reopen(t)
    PROVE  /\ UNCHANGED <<op, notify_vars>> /\ queue' \in QueueType
           /\ ~queue'.closed /\ queue'.due = queue.due
           /\ queue'.used = queue.used /\ queue'.index = queue.index
           /\ queue'.capacity = queue.capacity
           /\ queue'.published = queue.published
<1>1. queue \in QueueType
  BY Zenon DEF TypeOK
<1> QED
  BY Zenon, <1>1 DEF Reopen, QueueType

(***************************************************************************)
(* The steps, by what they do to the wakers.                               *)
(***************************************************************************)

\* The steps that leave the wakers alone.
QuietStep(t) ==
    \/ CallStep(t)
    \/ t \in Enqueuers /\ (TryEnqueue(t) \/ Compare(t) \/ Insert(t))
    \/ /\ t \in Dequeuers
       /\ \/ Lock(t) \/ Swap(t) \/ Publish(t) \/ Spin(t) \/ Unlock(t)
          \/ Release(t) \/ \E left \in 1..queue.due : Requeue(t, left)
    \/ t \in Enqueuers \cup Dequeuers /\ (Expire(t) \/ Cancel(t))
    \/ t \in Closers /\ (Close(t) \/ Reopen(t))

\* Every step is quiet, or one of these.
LEMMA NextCases ==
    ASSUME Next
    PROVE  \E t \in Threads :
              \/ QuietStep(t)
              \/ t \in Enqueuers /\ RegisterEnqueuer(t)
              \/ t \in Dequeuers /\ RegisterDequeuer(t)
              \/ t \in Enqueuers \cup Closers /\ NotifyDequeue(t)
              \/ t \in Dequeuers \cup Closers /\ NotifyEnqueue(t)
              \/ t \in Enqueuers \cup Dequeuers /\ Resume(t)
              \/ WakerStep(t)
  BY Zenon DEF Next, QuietStep, CallStep, EnqueuerStep, DequeuerStep, Threads

\* The kinds of threads are disjoint.
LEMMA Kinds ==
    ASSUME NEW t \in Threads
    PROVE  /\ t # Nobody
           /\ t \in Enqueuers \/ t \in Dequeuers \/ t \in Closers
           /\ t \in Enqueuers => t \notin Dequeuers /\ t \notin Closers
           /\ t \in Dequeuers => t \notin Closers
  BY Zenon, SynchronizedQueueAssumption DEF Threads

\* A quiet step is taken outside of the code of the wakers, and does not
\* make its thread a registered one.
LEMMA QuietEffect ==
    ASSUME TypeOK, NEW t \in Threads, QuietStep(t)
    PROVE  /\ UNCHANGED notify_vars /\ queue' \in QueueType
           /\ \/ UNCHANGED op
              \/ /\ Moves(t)
                 /\ dequeuer_call[t].pc = "out" /\ enqueuers_call[t] = "out"
                 /\ \/ op'[t].phase # "recheck"
                    \/ op[t].phase = "recheck"
                    \/ t \in Closers
<1> USE DEF At
<1>1. queue \in QueueType
  BY Zenon DEF TypeOK
<1>2. Idle.phase # "recheck"
  BY Zenon DEF Idle
<1>3. CASE CallStep(t)
  BY Zenon, <1>1, <1>3, CallEffect
<1>4. CASE TryEnqueue(t)
  BY Zenon, <1>2, <1>4, TryEnqueueEffect DEF Same
<1>5. CASE Compare(t)
  BY <1>1, <1>2, <1>5, CompareEffect, AttemptFields
<1>6. CASE Insert(t)
  BY Zenon, <1>1, <1>6, InsertEffect DEF Same
<1>7. CASE Lock(t)
  BY Zenon, <1>2, <1>7, LockEffect DEF Same, SameRoom
<1>8. CASE Swap(t)
  BY Zenon, <1>8, SwapEffect
<1>9. CASE Publish(t)
  BY Zenon, <1>9, PublishEffect DEF Same
<1>10. CASE Spin(t)
  BY Zenon, <1>1, <1>10, SpinEffect
<1>11. CASE Unlock(t)
  BY Zenon, <1>2, <1>11, UnlockEffect DEF SameRoom
<1>12. CASE Release(t)
  BY Zenon, <1>2, <1>12, ReleaseEffect DEF SameRoom
<1>13. CASE \E left \in 1..queue.due : Requeue(t, left)
  BY Zenon, <1>2, <1>13, RequeueEffect DEF SameRoom
<1>14. CASE Expire(t)
  BY Zenon, <1>1, <1>14, ExpireEffect
<1>15. CASE Cancel(t)
  BY Zenon, <1>1, <1>2, <1>15, CancelEffect
<1>16. CASE t \in Closers /\ Close(t)
  BY Zenon, <1>16, CloseEffect
<1>17. CASE Reopen(t)
  BY Zenon, <1>17, ReopenEffect
<1> QED
  BY Zenon, <1>3, <1>4, <1>5, <1>6, <1>7, <1>8, <1>9, <1>10, <1>11, <1>12,
     <1>13,
     <1>14, <1>15, <1>16, <1>17 DEF QuietStep

\* The initial operations and queue have their types.
LEMMA InitTypes == Init => TypeOK
<1> SUFFICES ASSUME Init PROVE TypeOK
  BY Zenon
<1>1. Capacities \subseteq Nat
  BY Zenon, SynchronizedQueueAssumption
<1>2. queue \in QueueType
  BY <1>1 DEF Init, QueueType
<1>3. op \in [Threads -> OpType]
  BY Zenon, IdleType DEF Init
<1> QED
  BY Zenon, <1>2, <1>3
     DEF Init, TypeOK, WakerTypes, dequeuer!Start, enqueuers!Start,
     dequeuer!WAITING, dequeuer!NotCalling

\* Unions and differences of the bits of the state.
LEMMA Bits ==
    /\ {} \cup {"WAKING"} = {"WAKING"}
    /\ {"REGISTERING"} \cup {"WAKING"} = {"REGISTERING", "WAKING"}
    /\ {"WAKING"} \cup {"WAKING"} = {"WAKING"}
    /\ {"REGISTERING", "WAKING"} \cup {"WAKING"} = {"REGISTERING", "WAKING"}
    /\ {} \ {"WAKING"} = {} /\ {"WAKING"} \ {"WAKING"} = {}
    /\ {"REGISTERING"} \ {"WAKING"} = {"REGISTERING"}
    /\ {"REGISTERING", "WAKING"} \ {"WAKING"} = {"REGISTERING"}
    /\ {"REGISTERING"} # {} /\ {"WAKING"} # {} /\ {"REGISTERING", "WAKING"} # {}
    /\ {"REGISTERING"} # {"WAKING"}
    /\ {"REGISTERING", "WAKING"} # {"WAKING"}
    /\ {"REGISTERING", "WAKING"} # {"REGISTERING"}
  OBVIOUS

\* Waking keeps the types of the tokens.
LEMMA WokenType ==
    ASSUME WakerTypes, NEW w
    PROVE  dequeuer!Woken(w) \in [Threads -> BOOLEAN]
  BY Zenon DEF WakerTypes, dequeuer!Woken

\* The code of the AtomicWaker keeps the types.
LEMMA SlotTypes ==
    ASSUME WakerTypes, NEW t \in Threads, UNCHANGED enqueuers_vars,
           dequeuer!Register(t) \/ dequeuer!Wake(t) \/ dequeuer!Step(t)
    PROVE  WakerTypes'
<1> USE DEF enqueuers_vars
<1>1. CASE dequeuer!Register(t)
  <2>1. token' \in [Threads -> BOOLEAN]
    BY Zenon, <1>1, WokenType DEF dequeuer!Register, WakerTypes
  <2> QED
    BY Zenon, <1>1, <2>1 DEF dequeuer!Register, WakerTypes, dequeuer!In,
       dequeuer!REGISTERING
<1>2. CASE dequeuer!Wake(t)
  BY Zenon, <1>2, Bits
     DEF dequeuer!Wake, WakerTypes, dequeuer!In, dequeuer!WAKING
<1>3. CASE dequeuer!StoreWaker(t)
  BY Zenon, <1>3 DEF dequeuer!StoreWaker, WakerTypes, dequeuer!In,
     dequeuer!NotCalling, dequeuer!WAITING
<1>4. CASE dequeuer!TakeBack(t)
  BY Zenon, <1>4
     DEF dequeuer!TakeBack, WakerTypes, dequeuer!In, dequeuer!WAITING
<1>5. CASE dequeuer!Take(t)
  BY Zenon, <1>5, Bits
     DEF dequeuer!Take, WakerTypes, dequeuer!In, dequeuer!WAKING
<1>6. CASE dequeuer!Deliver(t)
  <2>1. token' \in [Threads -> BOOLEAN]
    BY Zenon, <1>6, WokenType DEF dequeuer!Deliver
  <2> QED
    BY Zenon, <1>6, <2>1 DEF dequeuer!Deliver, WakerTypes, dequeuer!NotCalling
<1> QED
  BY Zenon, <1>1, <1>2, <1>3, <1>4, <1>5, <1>6 DEF dequeuer!Step

\* The code of the WakerList keeps the types.
LEMMA ListTypes ==
    ASSUME WakerTypes, NEW t \in Threads, UNCHANGED dequeuer_vars,
           \/ enqueuers!LockToRegister(t) \/ enqueuers!Wake(t)
           \/ enqueuers!Step(t)
    PROVE  WakerTypes'
<1> USE DEF dequeuer_vars, WakerTypes
<1>1. CASE enqueuers!LockToRegister(t)
  BY Zenon, <1>1 DEF enqueuers!LockToRegister
<1>2. CASE enqueuers!Wake(t)
  BY Zenon, <1>2 DEF enqueuers!Wake
<1>3. CASE enqueuers!Push(t)
  BY Zenon, <1>3 DEF enqueuers!Push
<1>4. CASE enqueuers!LockToWake(t)
  BY Zenon, <1>4 DEF enqueuers!LockToWake
<1>5. CASE enqueuers!UnlockDrained(t)
  BY Zenon, <1>5 DEF enqueuers!UnlockDrained
<1>6. CASE \E w \in Threads : enqueuers!WakeOne(t, w)
  BY Zenon, <1>6 DEF enqueuers!WakeOne
<1> QED
  BY Zenon, <1>1, <1>2, <1>3, <1>4, <1>5, <1>6 DEF enqueuers!Step

\* Every step keeps the types.
LEMMA TypeStep == TypeOK /\ [Next]_vars => TypeOK'
<1> SUFFICES ASSUME TypeOK, [Next]_vars PROVE TypeOK'
  BY Zenon
<1>1. WakerTypes /\ queue \in QueueType /\ op \in [Threads -> OpType]
  BY Zenon DEF TypeOK
<1>2. ASSUME WakerTypes', queue' \in QueueType, op' \in [Threads -> OpType]
      PROVE  TypeOK'
  BY Zenon, <1>2 DEF TypeOK
<1>3. ASSUME NEW t \in Threads, Moves(t) PROVE op' \in [Threads -> OpType]
  BY Zenon, <1>1, <1>3 DEF Moves
<1>4. ASSUME UNCHANGED notify_vars PROVE WakerTypes'
  BY Zenon, <1>1, <1>4
     DEF WakerTypes, notify_vars, dequeuer_vars, enqueuers_vars
<1>5. CASE UNCHANGED vars
  BY Zenon, <1>1, <1>2, <1>4, <1>5 DEF vars
<1>6. CASE Next
  <2>1. PICK t \in Threads :
              \/ QuietStep(t)
              \/ t \in Enqueuers /\ RegisterEnqueuer(t)
              \/ t \in Dequeuers /\ RegisterDequeuer(t)
              \/ t \in Enqueuers \cup Closers /\ NotifyDequeue(t)
              \/ t \in Dequeuers \cup Closers /\ NotifyEnqueue(t)
              \/ t \in Enqueuers \cup Dequeuers /\ Resume(t)
              \/ WakerStep(t)
    BY Zenon, <1>6, NextCases
  <2>2. CASE QuietStep(t)
    BY Zenon, <1>1, <1>2, <1>3, <1>4, <2>2, QuietEffect
  <2>3. CASE RegisterEnqueuer(t)
    <3>1. WakerTypes' /\ UNCHANGED queue
      BY Zenon, <1>1, <2>3, ListTypes DEF RegisterEnqueuer
    <3> QED
      BY Zenon, <1>1, <1>2, <1>3, <2>3, <3>1, RegisterEnqueuerEffect
  <2>4. CASE RegisterDequeuer(t)
    <3>1. WakerTypes' /\ UNCHANGED queue
      BY Zenon, <1>1, <2>4, SlotTypes DEF RegisterDequeuer
    <3> QED
      BY Zenon, <1>1, <1>2, <1>3, <2>4, <3>1, RegisterDequeuerEffect
  <2>5. CASE NotifyDequeue(t)
    <3>1. WakerTypes' /\ UNCHANGED queue
      BY Zenon, <1>1, <2>5, SlotTypes DEF NotifyDequeue
    <3> QED
      BY Zenon, <1>1, <1>2, <1>3, <2>5, <3>1, NotifyDequeueEffect
  <2>6. CASE NotifyEnqueue(t)
    <3>1. WakerTypes' /\ UNCHANGED queue
      BY Zenon, <1>1, <2>6, ListTypes DEF NotifyEnqueue
    <3> QED
      BY Zenon, <1>1, <1>2, <1>3, <2>6, <3>1, NotifyEnqueueEffect
  <2>7. CASE Resume(t)
    <3>1. WakerTypes' /\ UNCHANGED queue
      BY Zenon, <1>1, <2>7, ResumeEffect
         DEF WakerTypes, dequeuer_vars, enqueuers_vars
    <3> QED
      BY Zenon, <1>1, <1>2, <1>3, <2>7, <3>1, ResumeEffect
  <2>8. CASE WakerStep(t)
    <3>1. WakerTypes'
      BY Zenon, <1>1, <2>8, SlotTypes, ListTypes DEF WakerStep
    <3> QED
      BY Zenon, <1>1, <1>2, <2>8, <3>1 DEF WakerStep
  <2> QED
    BY Zenon, <2>1, <2>2, <2>3, <2>4, <2>5, <2>6, <2>7, <2>8
<1> QED
  BY Zenon, <1>5, <1>6

\* Who is where is a matter of the thread that moves.
LEMMA ControlMoves ==
    ASSUME TypeOK, Control, NEW t \in Threads, Moves(t),
           t \in Enqueuers => EnqueuerControl(t)',
           t \in Dequeuers => DequeuerControl(t)',
           t \in Closers => op'[t].pc \in CloserPc
    PROVE  Control'
<1>1. \A u \in Threads : u # t => op'[u] = op[u]
  BY Zenon DEF Moves, TypeOK
<1>2. ASSUME NEW e \in Enqueuers PROVE EnqueuerControl(e)'
  BY Zenon, <1>1, <1>2 DEF Control, EnqueuerControl, Threads
<1>3. ASSUME NEW d \in Dequeuers PROVE DequeuerControl(d)'
  BY <1>1, <1>3 DEF Control, DequeuerControl, Threads
<1>4. ASSUME NEW c \in Closers PROVE op'[c].pc \in CloserPc
  BY Zenon, <1>1, <1>4 DEF Control, Threads
<1> QED
  BY Zenon, <1>2, <1>3, <1>4 DEF Control

\* An idle thread of any kind is in order.
LEMMA IdleControl ==
    ASSUME NEW t \in Threads, op'[t] = Idle
    PROVE  EnqueuerControl(t)' /\ DequeuerControl(t)' /\ op'[t].pc \in CloserPc
  BY DEF EnqueuerControl, DequeuerControl, Idle, EnqueuerPc, DequeuerPc, CloserPc

\* The steps of an enqueuer.
LEMMA EnqueuerControlStep ==
    ASSUME TypeOK, Control, NEW t \in Enqueuers,
           \/ CallStep(t) \/ TryEnqueue(t) \/ Compare(t) \/ Insert(t)
           \/ RegisterEnqueuer(t) \/ NotifyDequeue(t)
           \/ Resume(t) \/ Expire(t) \/ Cancel(t)
    PROVE  Control'
<1>0. t \in Threads /\ t \notin Dequeuers /\ t \notin Closers
  BY Zenon, Kinds DEF Threads
<1>1. EnqueuerControl(t) /\ FirstPc(t) = "try"
  BY Zenon DEF Control, FirstPc
<1> SUFFICES Moves(t) /\ EnqueuerControl(t)'
  BY Zenon, <1>0, ControlMoves
<1> USE <1>0
<1>2. CASE op'[t] = Idle /\ Moves(t)
  BY Zenon, <1>2, IdleControl
<1>3. CASE op'[t].pc = "try" /\ Moves(t)
  BY Zenon, <1>3 DEF EnqueuerControl, EnqueuerPc
<1>4. CASE CallStep(t)
  BY Zenon, <1>1, <1>3, <1>4, CallEffect
<1>5. CASE TryEnqueue(t)
  BY Zenon, <1>2, <1>5, TryEnqueueEffect DEF EnqueuerControl, EnqueuerPc
<1>6. CASE Compare(t)
  BY <1>1, <1>2, <1>6, CompareEffect, AttemptFields
     DEF EnqueuerControl, EnqueuerPc
<1>7. CASE Insert(t)
  BY Zenon, <1>7, InsertEffect DEF EnqueuerControl, EnqueuerPc
<1>8. CASE RegisterEnqueuer(t)
  BY Zenon, <1>1, <1>3, <1>8, RegisterEnqueuerEffect
<1>9. CASE NotifyDequeue(t)
  BY Zenon, <1>2, <1>9, NotifyDequeueEffect
<1>10. CASE Resume(t)
  BY Zenon, <1>1, <1>3, <1>10, ResumeEffect
<1>11. CASE Expire(t)
  BY Zenon, <1>1, <1>3, <1>11, ExpireEffect
<1>12. CASE Cancel(t)
  BY Zenon, <1>2, <1>12, CancelEffect
<1> QED
  BY Zenon, <1>4, <1>5, <1>6, <1>7, <1>8, <1>9, <1>10, <1>11, <1>12

\* The steps of a dequeuer.
LEMMA DequeuerControlStep ==
    ASSUME TypeOK, Control, NEW t \in Dequeuers,
           \/ CallStep(t) \/ Lock(t) \/ Swap(t) \/ Publish(t) \/ Spin(t)
           \/ Unlock(t) \/ Release(t)
           \/ \E left \in 1..queue.due : Requeue(t, left)
           \/ RegisterDequeuer(t) \/ NotifyEnqueue(t)
           \/ Resume(t) \/ Expire(t) \/ Cancel(t)
    PROVE  Control'
<1>0. t \in Threads /\ t \notin Enqueuers /\ t \notin Closers
  BY Zenon, Kinds DEF Threads
<1>1. DequeuerControl(t) /\ FirstPc(t) = "lock"
  BY Zenon, <1>0 DEF Control, FirstPc
<1> SUFFICES Moves(t) /\ DequeuerControl(t)'
  BY Zenon, <1>0, ControlMoves
<1> USE <1>0 DEF At
<1>2. CASE op'[t] = Idle /\ Moves(t)
  BY Zenon, <1>2, IdleControl
<1>3. CASE CallStep(t)
  BY Zenon, <1>1, <1>3, CallEffect DEF DequeuerControl, DequeuerPc
<1>4. CASE Lock(t)
  BY Zenon, <1>1, <1>2, <1>4, LockEffect DEF DequeuerControl, DequeuerPc, Same
<1>5. CASE Swap(t)
  BY Zenon, <1>1, <1>5, SwapEffect DEF DequeuerControl, DequeuerPc, Same
<1>6. CASE Publish(t)
  BY Zenon, <1>1, <1>6, PublishEffect DEF DequeuerControl, DequeuerPc, Same
<1>7. CASE Spin(t)
  BY Zenon, <1>1, <1>7, SpinEffect DEF DequeuerControl, DequeuerPc
<1>8. CASE Unlock(t)
  BY Zenon, <1>1, <1>2, <1>8, UnlockEffect DEF DequeuerControl, DequeuerPc
<1>9. CASE Release(t)
  BY Zenon, <1>1, <1>2, <1>9, ReleaseEffect DEF DequeuerControl, DequeuerPc
<1>10. CASE \E left \in 1..queue.due : Requeue(t, left)
  BY Zenon, <1>2, <1>10, RequeueEffect
<1>11. CASE RegisterDequeuer(t)
  <2>1. op[t].pc = "register"
    BY Zenon, <1>11 DEF RegisterDequeuer
  <2>2. op[t].mode # "resize"
    BY Zenon, <1>1, <2>1 DEF DequeuerControl
  <2> QED
    BY Zenon, <1>1, <1>11, <2>1, <2>2, RegisterDequeuerEffect
       DEF DequeuerControl, DequeuerPc
<1>12. CASE NotifyEnqueue(t)
  BY Zenon, <1>1, <1>12, NotifyEnqueueEffect DEF DequeuerControl, DequeuerPc
<1>13. CASE Resume(t)
  BY Zenon, <1>1, <1>13, ResumeEffect DEF DequeuerControl, DequeuerPc
<1>14. CASE Expire(t)
  BY Zenon, <1>1, <1>14, ExpireEffect DEF DequeuerControl, DequeuerPc
<1>15. CASE Cancel(t)
  BY Zenon, <1>2, <1>15, CancelEffect
<1> QED
  BY Zenon, <1>3, <1>4, <1>5, <1>6, <1>7, <1>8, <1>9, <1>10, <1>11, <1>12,
     <1>13,
     <1>14, <1>15

\* Every step keeps the control.
LEMMA ControlStep == TypeOK /\ Control /\ [Next]_vars => Control'
<1> SUFFICES ASSUME TypeOK, Control, [Next]_vars PROVE Control'
  BY Zenon
<1>1. ASSUME UNCHANGED op PROVE Control'
  BY Zenon, <1>1 DEF Control, EnqueuerControl, DequeuerControl
<1>2. CASE UNCHANGED vars
  BY Zenon, <1>1, <1>2 DEF vars
<1>3. CASE Next
  <2>1. PICK t \in Threads :
              \/ QuietStep(t)
              \/ t \in Enqueuers /\ RegisterEnqueuer(t)
              \/ t \in Dequeuers /\ RegisterDequeuer(t)
              \/ t \in Enqueuers \cup Closers /\ NotifyDequeue(t)
              \/ t \in Dequeuers \cup Closers /\ NotifyEnqueue(t)
              \/ t \in Enqueuers \cup Dequeuers /\ Resume(t)
              \/ WakerStep(t)
    BY Zenon, <1>3, NextCases
  <2>2. CASE t \in Closers
    <3>1. t \notin Enqueuers /\ t \notin Dequeuers
      BY Zenon, <2>2, Kinds
    <3>2. CASE NotifyDequeue(t)
      BY Zenon, <2>2, <3>1, <3>2, NotifyDequeueEffect, ControlMoves
         DEF CloserPc
    <3>3. CASE NotifyEnqueue(t)
      BY Zenon, <2>2, <3>1, <3>3, NotifyEnqueueEffect, ControlMoves,
         IdleControl
    <3>4. CASE Close(t)
      BY Zenon, <2>2, <3>1, <3>4, CloseEffect, ControlMoves DEF CloserPc
    <3>5. CASE Reopen(t)
      BY Zenon, <1>1, <3>5, ReopenEffect
    <3>6. CASE WakerStep(t)
      BY Zenon, <1>1, <3>6 DEF WakerStep
    <3> QED
      BY Zenon, <2>1, <3>1, <3>2, <3>3, <3>4, <3>5, <3>6
         DEF QuietStep, CallStep
  <2>3. CASE t \in Enqueuers
    <3>1. t \notin Dequeuers /\ t \notin Closers
      BY Zenon, <2>3, Kinds
    <3>2. CASE WakerStep(t)
      BY Zenon, <1>1, <3>2 DEF WakerStep
    <3> QED
      BY Zenon, <2>1, <2>3, <3>1, <3>2, EnqueuerControlStep DEF QuietStep
  <2>4. CASE t \in Dequeuers
    <3>1. t \notin Enqueuers /\ t \notin Closers
      BY Zenon, <2>4, Kinds
    <3>2. CASE WakerStep(t)
      BY Zenon, <1>1, <3>2 DEF WakerStep
    <3> QED
      BY Zenon, <2>1, <2>4, <3>1, <3>2, DequeuerControlStep DEF QuietStep
  <2> QED
    BY Zenon, <2>2, <2>3, <2>4, Kinds
<1> QED
  BY Zenon, <1>2, <1>3

\* Everybody is idle at first.
LEMMA InitControl == Init => Control
  BY DEF Init, Control, EnqueuerControl, DequeuerControl, Idle, EnqueuerPc,
     DequeuerPc, CloserPc, Threads

\* An operation that Empty or Pending would have to be converted for does not
\* end with them: dequeue_err is total.
THEOREM NoUnreachable == Spec => DequeueErrIsTotal
<1>1. TypeOK /\ Control /\ [Next]_vars =>
        [\A d \in Dequeuers :
            op[d].mode \in {"sync", "async", "iter", "stream"}
              /\ op[d].result \in Unreachable =>
                  op'[d].pc # "idle"]_vars
  <2> SUFFICES ASSUME TypeOK, Control, Next, NEW d \in Dequeuers,
                      op[d].mode \in {"sync", "async", "iter", "stream"},
                      op[d].result \in Unreachable
               PROVE  op'[d].pc # "idle"
    BY Zenon DEF vars
  <2>1. op[d].pc = "unlock" /\ op[d].phase # "last" /\ d \in Threads
    BY Zenon DEF Control, DequeuerControl, Threads, Unreachable
  <2>2. PICK t \in Threads :
              \/ QuietStep(t)
              \/ t \in Enqueuers /\ RegisterEnqueuer(t)
              \/ t \in Dequeuers /\ RegisterDequeuer(t)
              \/ t \in Enqueuers \cup Closers /\ NotifyDequeue(t)
              \/ t \in Dequeuers \cup Closers /\ NotifyEnqueue(t)
              \/ t \in Enqueuers \cup Dequeuers /\ Resume(t)
              \/ WakerStep(t)
    BY Zenon, NextCases
  <2>3. ASSUME op'[d].pc = op[d].pc PROVE op'[d].pc # "idle"
    BY Zenon, <2>1, <2>3
  <2>4. CASE t # d
    <3>1. ASSUME Moves(t) PROVE op'[d] = op[d]
      BY Zenon, <2>1, <2>4, <3>1 DEF Moves, TypeOK
    <3>2. CASE WakerStep(t)
      BY Zenon, <2>3, <3>2 DEF WakerStep
    <3> QED
      BY Zenon, <2>2, <2>3, <3>1, <3>2, QuietEffect, RegisterEnqueuerEffect,
         RegisterDequeuerEffect, NotifyDequeueEffect, NotifyEnqueueEffect,
         ResumeEffect
  <2>5. CASE t = d
    <3>1. CASE Unlock(t)
      BY Zenon, <2>1, <2>5, <3>1, UnlockEffect DEF FirstPc, Unreachable
    <3>2. CASE WakerStep(t)
      BY Zenon, <2>3, <3>2 DEF WakerStep
    <3> QED
      BY Zenon, <2>1, <2>2, <2>5, <3>1, <3>2, CallEffect, Kinds
         DEF QuietStep, At, RegisterDequeuer, TryEnqueue, Compare, Insert,
         Lock, Swap, Publish, Spin, Release, Requeue, Expire, Cancel, Close,
         Reopen, RegisterEnqueuer, NotifyDequeue, NotifyEnqueue, Resume
  <2> QED
    BY Zenon, <2>4, <2>5
<1> QED
  BY <1>1, InitTypes, InitControl, TypeStep, ControlStep, PTL
     DEF Spec, DequeueErrIsTotal

-----------------------------------------------------------------------------
(* The wakers.                                                             *)

SlotInv == SlotRoles /\ SlotBits

\* A step that leaves the AtomicWaker alone, and does not move a thread that
\* is inside its code.
LEMMA SlotQuiet ==
    ASSUME TypeOK, SlotInv, UNCHANGED dequeuer_vars,
           \A d \in Dequeuers : op'[d] = op[d] \/ dequeuer_call[d].pc = "out"
    PROVE  SlotInv'
<1>1. SlotRoles'
  BY DEF SlotInv, SlotRoles, dequeuer_vars
<1>2. SlotBits'
  BY Zenon DEF SlotInv, SlotBits, Registering, dequeuer_vars
<1> QED
  BY Zenon, <1>1, <1>2 DEF SlotInv

\* A dequeuer registers.
LEMMA SlotRegister ==
    ASSUME TypeOK, Control, SlotInv, NEW t \in Dequeuers, RegisterDequeuer(t)
    PROVE  SlotInv'
<1> USE DEF dequeuer!WAITING, dequeuer!REGISTERING, dequeuer!WAKING,
        dequeuer!In
<1>0. t \in Threads /\ FirstPc(t) = "lock"
  BY Zenon, Kinds DEF Threads, FirstPc
<1>1. \A u \in Threads : u # t => op'[u] = op[u]
  BY Zenon, <1>0, RegisterDequeuerEffect DEF Moves, TypeOK
<1>2. op'[t].pc = "lock" /\ op'[t].phase = "recheck"
  BY Zenon, <1>0, RegisterDequeuerEffect
<1>3. WakerTypes
  BY Zenon DEF TypeOK
<1>4. CASE state = {}
  <2>1. /\ state' = {"REGISTERING"} /\ UNCHANGED waker
        /\ dequeuer_call' = [dequeuer_call EXCEPT ![t] =
                                [pc |-> "store", taken |-> Nobody]]
    BY Zenon, <1>4 DEF RegisterDequeuer, dequeuer!Register
  <2>2. /\ dequeuer_call'[t].pc = "store"
        /\ \A u \in Threads : u # t => dequeuer_call'[u] = dequeuer_call[u]
    BY Zenon, <1>0, <1>3, <2>1 DEF WakerTypes
  <2>3. \A u \in Threads :
           dequeuer_call[u].pc \notin {"store", "take_back", "take"}
    BY Zenon, <1>4, Bits DEF SlotInv, SlotBits
  <2>4. SlotRoles'
    BY <1>0, <1>1, <1>2, <2>2 DEF SlotInv, SlotRoles, Threads
  <2>5. SlotBits'
    BY <1>0, <2>1, <2>2, <2>3, Bits DEF SlotBits, Registering
  <2> QED
    BY Zenon, <2>4, <2>5 DEF SlotInv
<1>5. CASE state # {}
  <2>1. UNCHANGED dequeuer_vars
    BY Zenon, <1>5 DEF RegisterDequeuer, dequeuer!Register, dequeuer_vars
  <2>2. dequeuer_call[t].pc = "out"
    BY Zenon DEF RegisterDequeuer, At
  <2> QED
    BY Zenon, <1>1, <2>1, <2>2, SlotQuiet DEF Threads
<1> QED
  BY Zenon, <1>4, <1>5

\* Somebody else notifies it.
LEMMA SlotNotify ==
    ASSUME TypeOK, SlotInv, NEW t \in Threads \ Dequeuers, NotifyDequeue(t)
    PROVE  SlotInv'
<1> USE DEF dequeuer!WAITING, dequeuer!WAKING, dequeuer!In
<1>1. \A d \in Dequeuers : op'[d] = op[d]
  BY Zenon, NotifyDequeueEffect DEF Moves, TypeOK, Threads
<1>2. WakerTypes
  BY Zenon DEF TypeOK
<1>3. state' = state \cup {"WAKING"} /\ UNCHANGED waker
  BY Zenon DEF NotifyDequeue, dequeuer!Wake
<1>4. CASE state = {}
  <2>1. dequeuer_call' = [dequeuer_call EXCEPT ![t] =
                             [pc |-> "take", taken |-> Nobody]]
    BY Zenon, <1>4 DEF NotifyDequeue, dequeuer!Wake
  <2>2. /\ dequeuer_call'[t].pc = "take"
        /\ \A u \in Threads : u # t => dequeuer_call'[u] = dequeuer_call[u]
    BY Zenon, <1>2, <2>1 DEF WakerTypes
  <2>3. \A u \in Threads :
           dequeuer_call[u].pc \notin {"store", "take_back", "take"}
    BY Zenon, <1>4, Bits DEF SlotInv, SlotBits
  <2>4. SlotRoles'
    BY <1>1, <2>2 DEF SlotInv, SlotRoles, Threads
  <2>5. SlotBits'
    BY Zenon, <1>3, <1>4, <2>2, <2>3, Bits DEF SlotBits, Registering
  <2> QED
    BY Zenon, <2>4, <2>5 DEF SlotInv
<1>5. CASE state # {}
  <2>1. UNCHANGED dequeuer_call
    BY Zenon, <1>5 DEF NotifyDequeue, dequeuer!Wake
  <2>2. SlotRoles'
    BY Zenon, <1>1, <2>1 DEF SlotInv, SlotRoles
  <2>3. SlotBits'
    BY Zenon, <1>2, <1>3, <1>5, <2>1, Bits
       DEF SlotInv, SlotBits, Registering, WakerTypes
  <2> QED
    BY Zenon, <2>2, <2>3 DEF SlotInv
<1> QED
  BY Zenon, <1>4, <1>5

\* The steps inside the code of the AtomicWaker.
LEMMA SlotStep ==
    ASSUME TypeOK, SlotInv, NEW t \in Threads, dequeuer!Step(t), UNCHANGED op
    PROVE  SlotInv'
<1> USE DEF dequeuer!WAITING, dequeuer!REGISTERING, dequeuer!WAKING,
        dequeuer!In, dequeuer!NotCalling
<1>1. WakerTypes
  BY Zenon DEF TypeOK
<1>2. CASE dequeuer!StoreWaker(t)
  <2>1. t \in Dequeuers
    BY Zenon, <1>2 DEF SlotInv, SlotRoles, dequeuer!StoreWaker
  <2>2. /\ state \in {{"REGISTERING"}, {"REGISTERING", "WAKING"}}
        /\ \A u \in Threads : u # t =>
              dequeuer_call[u].pc \notin {"store", "take_back", "take"}
    BY Zenon, <1>2, Bits
       DEF SlotInv, SlotBits, Registering, dequeuer!StoreWaker
  <2>3. CASE state = {"REGISTERING"}
    <3>1. /\ state' = {} /\ dequeuer_call'[t].pc = "out"
          /\ \A u \in Threads : u # t => dequeuer_call'[u] = dequeuer_call[u]
      BY Zenon, <1>1, <1>2, <2>3 DEF dequeuer!StoreWaker, WakerTypes
    <3>2. SlotRoles'
      BY <2>1, <3>1 DEF SlotInv, SlotRoles, Threads
    <3>3. SlotBits'
      BY Zenon, <2>2, <3>1, Bits DEF SlotBits, Registering
    <3> QED
      BY Zenon, <3>2, <3>3 DEF SlotInv
  <2>4. CASE state = {"REGISTERING", "WAKING"}
    <3>1. /\ state' = state /\ waker' = t
          /\ dequeuer_call'[t].pc = "take_back"
          /\ \A u \in Threads : u # t => dequeuer_call'[u] = dequeuer_call[u]
      BY Zenon, <1>1, <1>2, <2>4, Bits DEF dequeuer!StoreWaker, WakerTypes
    <3>2. SlotRoles'
      BY <1>2, <2>1, <3>1
         DEF SlotInv, SlotRoles, Threads, dequeuer!StoreWaker
    <3>3. SlotBits'
      BY Zenon, <2>1, <2>2, <2>4, <3>1, Bits DEF SlotBits, Registering
    <3> QED
      BY Zenon, <3>2, <3>3 DEF SlotInv
  <2> QED
    BY Zenon, <2>2, <2>3, <2>4
<1>3. CASE dequeuer!TakeBack(t)
  <2>1. t \in Dequeuers /\ waker = t
    BY Zenon, <1>3 DEF SlotInv, SlotRoles, SlotBits, dequeuer!TakeBack
  <2>2. \A u \in Threads : u # t =>
           dequeuer_call[u].pc \notin {"store", "take_back", "take"}
    BY Zenon, <1>3, Bits DEF SlotInv, SlotBits, Registering, dequeuer!TakeBack
  <2>3. /\ state' = {} /\ dequeuer_call'[t].pc = "deliver"
        /\ dequeuer_call'[t].taken = t
        /\ \A u \in Threads : u # t => dequeuer_call'[u] = dequeuer_call[u]
    BY Zenon, <1>1, <1>3, <2>1 DEF dequeuer!TakeBack, WakerTypes
  <2>4. SlotRoles'
    BY <1>3, <2>1, <2>3 DEF SlotInv, SlotRoles, Threads, dequeuer!TakeBack
  <2>5. SlotBits'
    BY Zenon, <2>2, <2>3, Bits DEF SlotBits, Registering
  <2> QED
    BY Zenon, <2>4, <2>5 DEF SlotInv
<1>4. CASE dequeuer!Take(t)
  <2>1. t \notin Dequeuers /\ state = {"WAKING"}
    BY Zenon, <1>4 DEF SlotInv, SlotRoles, SlotBits, dequeuer!Take
  <2>2. \A u \in Threads : u # t =>
           dequeuer_call[u].pc \notin {"store", "take_back", "take"}
    BY Zenon, <1>4, <2>1, Bits DEF SlotInv, SlotBits, dequeuer!Take
  <2>3. /\ state' = {} /\ dequeuer_call'[t].pc = "deliver"
        /\ \A u \in Threads : u # t => dequeuer_call'[u] = dequeuer_call[u]
    BY Zenon, <1>1, <1>4, <2>1, Bits DEF dequeuer!Take, WakerTypes
  <2>4. SlotRoles'
    BY <2>1, <2>3 DEF SlotInv, SlotRoles, Threads
  <2>5. SlotBits'
    BY Zenon, <2>2, <2>3, Bits DEF SlotBits, Registering
  <2> QED
    BY Zenon, <2>4, <2>5 DEF SlotInv
<1>5. CASE dequeuer!Deliver(t)
  <2>1. /\ UNCHANGED <<state, waker>> /\ dequeuer_call[t].pc = "deliver"
        /\ dequeuer_call'[t].pc = "out"
        /\ \A u \in Threads : u # t => dequeuer_call'[u] = dequeuer_call[u]
    BY Zenon, <1>1, <1>5 DEF dequeuer!Deliver, WakerTypes
  <2>2. SlotRoles'
    BY <2>1 DEF SlotInv, SlotRoles, Threads
  <2>3. SlotBits'
    BY <2>1 DEF SlotInv, SlotBits, Registering, Threads
  <2> QED
    BY Zenon, <2>2, <2>3 DEF SlotInv
<1> QED
  BY Zenon, <1>2, <1>3, <1>4, <1>5 DEF dequeuer!Step

\* Every step keeps the protocol of the slot.
LEMMA SlotKept ==
    TypeOK /\ Control /\ SlotInv /\ [Next]_vars => SlotInv'
<1> SUFFICES ASSUME TypeOK, Control, SlotInv, [Next]_vars PROVE SlotInv'
  BY Zenon
<1>1. CASE UNCHANGED vars
  BY Zenon, <1>1, SlotQuiet DEF vars, notify_vars
<1>2. CASE Next
  <2>1. PICK t \in Threads :
              \/ QuietStep(t)
              \/ t \in Enqueuers /\ RegisterEnqueuer(t)
              \/ t \in Dequeuers /\ RegisterDequeuer(t)
              \/ t \in Enqueuers \cup Closers /\ NotifyDequeue(t)
              \/ t \in Dequeuers \cup Closers /\ NotifyEnqueue(t)
              \/ t \in Enqueuers \cup Dequeuers /\ Resume(t)
              \/ WakerStep(t)
    BY Zenon, <1>2, NextCases
  <2>2. ASSUME UNCHANGED dequeuer_vars, Moves(t),
               dequeuer_call[t].pc = "out" \/ t \notin Dequeuers
        PROVE  SlotInv'
    BY Zenon, <2>2, SlotQuiet DEF Moves, TypeOK, Threads
  <2>3. CASE QuietStep(t)
    BY Zenon, <2>2, <2>3, QuietEffect, SlotQuiet DEF notify_vars
  <2>4. CASE t \in Enqueuers /\ RegisterEnqueuer(t)
    BY Zenon, <2>2, <2>4, RegisterEnqueuerEffect, Kinds DEF RegisterEnqueuer
  <2>5. CASE t \in Dequeuers /\ RegisterDequeuer(t)
    BY Zenon, <2>5, SlotRegister
  <2>6. CASE t \in Enqueuers \cup Closers /\ NotifyDequeue(t)
    BY Zenon, <2>6, SlotNotify, Kinds
  <2>7. CASE NotifyEnqueue(t)
    BY Zenon, <2>2, <2>7, NotifyEnqueueEffect DEF At
  <2>8. CASE Resume(t)
    BY Zenon, <2>2, <2>8, ResumeEffect DEF At
  <2>9. CASE WakerStep(t)
    BY Zenon, <2>9, SlotStep, SlotQuiet DEF WakerStep
  <2> QED
    BY Zenon, <2>1, <2>3, <2>4, <2>5, <2>6, <2>7, <2>8, <2>9
<1> QED
  BY Zenon, <1>1, <1>2

\* Nobody is inside at first.
LEMMA InitSlot == Init => SlotInv
<1> SUFFICES ASSUME Init PROVE SlotInv
  BY Zenon
<1>1. state = {} /\ \A t \in Threads : dequeuer_call[t].pc = "out"
  BY Zenon DEF Init, dequeuer!Start, dequeuer!WAITING, dequeuer!NotCalling
<1> QED
  BY Zenon, <1>1, Bits DEF SlotInv, SlotRoles, SlotBits, Registering, Threads

\* The slot of the AtomicWaker is never accessed by two threads, even if
\* several dequeuers register at the same time.
THEOREM SlotSafety == Spec => []SlotIsExclusive
<1>1. SlotInv => SlotIsExclusive
  <2> SUFFICES ASSUME SlotInv PROVE SlotIsExclusive
    BY Zenon
  <2>1. ASSUME NEW t \in Threads, NEW u \in Threads, Accessing(t), Accessing(u)
        PROVE  t = u
    BY Zenon, <2>1, Bits DEF SlotInv, SlotBits, Accessing, Registering
  <2>2. ASSUME NEW t \in Threads, dequeuer_call[t].pc = "take_back"
        PROVE  waker # Nobody /\ state = {"REGISTERING", "WAKING"}
    BY Zenon, <2>2, Kinds DEF SlotInv, SlotBits
  <2> QED
    BY Zenon, <2>1, <2>2 DEF SlotIsExclusive
<1> QED
  BY <1>1, InitTypes, InitControl, InitSlot, TypeStep, ControlStep, SlotKept, PTL
     DEF Spec

-----------------------------------------------------------------------------
ListInv == ListRoles /\ ListFlag /\ EnqueuerIsReachable

\* A step that leaves the WakerList alone, does not move a thread that is
\* inside its code, and neither registers an enqueuer nor takes the token of
\* one that stays registered.
LEMMA ListQuiet ==
    ASSUME TypeOK, ListInv, UNCHANGED enqueuers_vars,
           \A e \in Enqueuers :
              /\ \/ op'[e] = op[e]
                 \/ /\ enqueuers_call[e] = "out"
                    /\ op'[e].phase # "recheck" \/ op[e].phase = "recheck"
              /\ token[e] => token'[e] \/ op'[e].phase # "recheck"
    PROVE  ListInv'
<1>1. ListRoles'
  BY DEF ListInv, ListRoles, enqueuers_vars
<1>2. ListFlag'
  BY Zenon DEF ListInv, ListFlag, Draining, enqueuers_vars
<1>3. EnqueuerIsReachable'
  BY Zenon DEF ListInv, EnqueuerIsReachable, enqueuers_vars
<1> QED
  BY Zenon, <1>1, <1>2, <1>3 DEF ListInv

\* An enqueuer registers: the flag goes up before its waker is there.
LEMMA ListRegister ==
    ASSUME TypeOK, Control, ListInv, NEW t \in Enqueuers, RegisterEnqueuer(t)
    PROVE  ListInv'
<1>0. t \in Threads /\ FirstPc(t) = "try"
  BY Zenon DEF Threads, FirstPc
<1>1. /\ \A u \in Threads : u # t => op'[u] = op[u]
      /\ op'[t].pc = "try" /\ op'[t].phase = "recheck"
  BY Zenon, <1>0, RegisterEnqueuerEffect DEF Moves, TypeOK
<1>2. WakerTypes
  BY Zenon DEF TypeOK
<1>3. /\ mutex = Nobody /\ mutex' = t /\ UNCHANGED <<wakers, token>>
      /\ non_empty' = (non_empty \/ wakers = {})
      /\ enqueuers_call'[t] = "push" /\ enqueuers_call[t] = "out"
      /\ \A u \in Threads : u # t => enqueuers_call'[u] = enqueuers_call[u]
  BY Zenon, <1>0, <1>2
     DEF RegisterEnqueuer, enqueuers!LockToRegister, WakerTypes
<1>4. ListRoles'
  BY <1>0, <1>1, <1>3, Kinds DEF ListInv, ListRoles, Threads
<1>5. non_empty' \/ Draining'
  <2>1. CASE wakers = {}
    BY Zenon, <1>3, <2>1
  <2>2. CASE wakers # {} /\ non_empty
    BY Zenon, <1>3, <2>2
  <2>3. CASE wakers # {} /\ Draining
    BY Zenon, <1>3, <2>3 DEF Draining
  <2> QED
    BY Zenon, <2>1, <2>2, <2>3 DEF ListInv, ListFlag
<1>6. ListFlag'
  BY Zenon, <1>5 DEF ListFlag
<1>7. EnqueuerIsReachable'
  BY Zenon, <1>0, <1>1, <1>3 DEF ListInv, EnqueuerIsReachable, Threads
<1> QED
  BY Zenon, <1>4, <1>6, <1>7 DEF ListInv

\* Somebody notifies the enqueuers.
LEMMA ListNotify ==
    ASSUME TypeOK, ListInv, NEW t \in Threads \ Enqueuers, NotifyEnqueue(t)
    PROVE  ListInv'
<1>1. \A e \in Enqueuers : op'[e] = op[e]
  BY Zenon, NotifyEnqueueEffect DEF Moves, TypeOK, Threads
<1>2. WakerTypes
  BY Zenon DEF TypeOK
<1>3. /\ UNCHANGED <<wakers, mutex, token>> /\ enqueuers_call[t] = "out"
      /\ non_empty' = FALSE
      /\ enqueuers_call'[t] = IF non_empty THEN "lock" ELSE "out"
      /\ \A u \in Threads : u # t => enqueuers_call'[u] = enqueuers_call[u]
  BY Zenon, <1>2 DEF NotifyEnqueue, enqueuers!Wake, WakerTypes
<1>4. ListRoles'
  BY <1>1, <1>3 DEF ListInv, ListRoles, Threads
<1>5. ASSUME non_empty \/ Draining PROVE Draining'
  BY Zenon, <1>3, <1>5 DEF Draining
<1>6. ListFlag'
  BY Zenon, <1>3, <1>5 DEF ListInv, ListFlag, Threads
<1>7. EnqueuerIsReachable'
  BY Zenon, <1>1, <1>3 DEF ListInv, EnqueuerIsReachable, Threads
<1> QED
  BY Zenon, <1>4, <1>6, <1>7 DEF ListInv

\* The steps inside the code of the WakerList.
LEMMA ListStep ==
    ASSUME TypeOK, ListInv, NEW t \in Threads, enqueuers!Step(t), UNCHANGED op
    PROVE  ListInv'
<1>1. WakerTypes /\ t # Nobody
  BY Zenon, Kinds DEF TypeOK
<1>2. CASE enqueuers!Push(t)
  <2>1. /\ t \in Enqueuers /\ enqueuers_call[t] = "push"
        /\ UNCHANGED <<non_empty, token>>
        /\ wakers' = wakers \cup {t} /\ mutex' = Nobody /\ mutex = t
        /\ enqueuers_call'[t] = "out"
        /\ \A u \in Threads : u # t => enqueuers_call'[u] = enqueuers_call[u]
    BY Zenon, <1>1, <1>2 DEF enqueuers!Push, ListInv, ListRoles, WakerTypes
  <2>2. ListRoles'
    BY Zenon, <2>1, Kinds DEF ListInv, ListRoles, Threads
  <2>3. ListFlag'
    BY Zenon, <2>1 DEF ListInv, ListFlag, Draining, Threads
  <2>4. EnqueuerIsReachable'
    BY Zenon, <2>1 DEF ListInv, EnqueuerIsReachable, Threads
  <2> QED
    BY Zenon, <2>2, <2>3, <2>4 DEF ListInv
<1>3. CASE enqueuers!LockToWake(t)
  <2>1. /\ UNCHANGED <<wakers, non_empty, token>> /\ t \notin Enqueuers
        /\ mutex' = t /\ mutex = Nobody
        /\ enqueuers_call[t] = "lock" /\ enqueuers_call'[t] = "drain"
        /\ \A u \in Threads : u # t => enqueuers_call'[u] = enqueuers_call[u]
    BY Zenon, <1>1, <1>3
       DEF enqueuers!LockToWake, ListInv, ListRoles, WakerTypes
  <2>2. ListRoles'
    BY Zenon, <2>1, Kinds DEF ListInv, ListRoles, Threads
  <2>3. ListFlag'
    BY Zenon, <2>1 DEF ListInv, ListFlag, Draining, Threads
  <2>4. EnqueuerIsReachable'
    BY Zenon, <2>1 DEF ListInv, EnqueuerIsReachable, Threads
  <2> QED
    BY Zenon, <2>2, <2>3, <2>4 DEF ListInv
<1>4. CASE enqueuers!UnlockDrained(t)
  <2>1. /\ UNCHANGED <<wakers, non_empty, token>> /\ t \notin Enqueuers
        /\ mutex' = Nobody /\ mutex = t /\ wakers = {}
        /\ enqueuers_call[t] = "drain" /\ enqueuers_call'[t] = "out"
        /\ \A u \in Threads : u # t => enqueuers_call'[u] = enqueuers_call[u]
    BY Zenon, <1>1, <1>4
       DEF enqueuers!UnlockDrained, ListInv, ListRoles, WakerTypes
  <2>2. ListRoles'
    BY Zenon, <2>1, Kinds DEF ListInv, ListRoles, Threads
  <2>3. \A e \in Enqueuers : enqueuers_call'[e] # "push"
    BY Zenon, <1>1, <2>1 DEF ListInv, ListRoles, Threads
  <2>4. ListFlag'
    BY Zenon, <2>1, <2>3 DEF ListFlag
  <2>5. EnqueuerIsReachable'
    BY Zenon, <2>1 DEF ListInv, EnqueuerIsReachable, Threads
  <2> QED
    BY Zenon, <2>2, <2>4, <2>5 DEF ListInv
<1>5. CASE \E w \in Threads : enqueuers!WakeOne(t, w)
  <2>1. PICK w \in Threads : enqueuers!WakeOne(t, w)
    BY Zenon, <1>5
  <2>2. /\ UNCHANGED <<non_empty, mutex, enqueuers_call>>
        /\ enqueuers_call[t] = "drain" /\ wakers' = wakers \ {w}
        /\ \A u \in Threads : token'[u] = (token[u] \/ u = w)
    BY Zenon, <1>1, <2>1 DEF enqueuers!WakeOne, WakerTypes
  <2>3. ListRoles'
    BY Zenon, <2>2 DEF ListInv, ListRoles
  <2>4. ListFlag'
    BY Zenon, <2>2 DEF ListFlag, Draining
  <2>5. EnqueuerIsReachable'
    BY Zenon, <2>2 DEF ListInv, EnqueuerIsReachable, Threads
  <2> QED
    BY Zenon, <2>3, <2>4, <2>5 DEF ListInv
<1> QED
  BY Zenon, <1>2, <1>3, <1>4, <1>5 DEF enqueuers!Step

\* The AtomicWaker takes no token away.
LEMMA TokensAreKept ==
    ASSUME TypeOK, NEW t \in Threads,
           dequeuer!Register(t) \/ dequeuer!Wake(t) \/ dequeuer!Step(t)
    PROVE  \A u \in Threads : token[u] => token'[u]
<1>1. token \in [Threads -> BOOLEAN]
  BY Zenon DEF TypeOK, WakerTypes
<1>2. \A w, u : u \in Threads /\ token[u] => dequeuer!Woken(w)[u]
  BY Zenon, <1>1 DEF dequeuer!Woken
<1> QED
  BY Zenon, <1>2 DEF dequeuer!Register, dequeuer!Wake, dequeuer!Step,
     dequeuer!StoreWaker, dequeuer!TakeBack, dequeuer!Take, dequeuer!Deliver

\* Every step keeps the protocol of the list.
LEMMA ListKept ==
    TypeOK /\ Control /\ ListInv /\ [Next]_vars => ListInv'
<1> SUFFICES ASSUME TypeOK, Control, ListInv, [Next]_vars PROVE ListInv'
  BY Zenon
<1>1. CASE UNCHANGED vars
  BY Zenon, <1>1, ListQuiet DEF vars, notify_vars
<1>2. CASE Next
  <2>1. PICK t \in Threads :
              \/ QuietStep(t)
              \/ t \in Enqueuers /\ RegisterEnqueuer(t)
              \/ t \in Dequeuers /\ RegisterDequeuer(t)
              \/ t \in Enqueuers \cup Closers /\ NotifyDequeue(t)
              \/ t \in Dequeuers \cup Closers /\ NotifyEnqueue(t)
              \/ t \in Enqueuers \cup Dequeuers /\ Resume(t)
              \/ WakerStep(t)
    BY Zenon, <1>2, NextCases
  <2>2. ASSUME UNCHANGED enqueuers_vars, Moves(t),
               \A u \in Threads : token[u] => token'[u],
               \/ t \notin Enqueuers
               \/ /\ enqueuers_call[t] = "out"
                  /\ op'[t].phase # "recheck" \/ op[t].phase = "recheck"
        PROVE  ListInv'
    <3>1. \A e \in Enqueuers : e # t => op'[e] = op[e]
      BY Zenon, <2>2 DEF Moves, TypeOK, Threads
    <3> QED
      BY Zenon, <2>2, <3>1, ListQuiet DEF Threads
  <2>3. CASE QuietStep(t)
    BY Zenon, <2>2, <2>3, QuietEffect, ListQuiet, Kinds DEF notify_vars
  <2>4. CASE t \in Enqueuers /\ RegisterEnqueuer(t)
    BY Zenon, <2>4, ListRegister
  <2>5. CASE t \in Dequeuers /\ RegisterDequeuer(t)
    BY Zenon, <2>2, <2>5, RegisterDequeuerEffect, TokensAreKept, Kinds
       DEF RegisterDequeuer
  <2>6. CASE NotifyDequeue(t)
    <3>1. op'[t].phase # "recheck" \/ t \notin Enqueuers
      BY <2>6, NotifyDequeueEffect, Kinds DEF Idle
    <3> QED
      BY Zenon, <2>2, <2>6, <3>1, NotifyDequeueEffect, TokensAreKept
         DEF NotifyDequeue, At
  <2>7. CASE t \in Dequeuers \cup Closers /\ NotifyEnqueue(t)
    BY Zenon, <2>7, ListNotify, Kinds
  <2>8. CASE Resume(t)
    <3>1. /\ \A u \in Threads : u # t => token'[u] = token[u] /\ op'[u] = op[u]
          /\ op'[t].phase = "spin" /\ enqueuers_call[t] = "out"
          /\ UNCHANGED enqueuers_vars
      BY <2>8, ResumeEffect DEF TypeOK, WakerTypes, Moves, At
    <3> QED
      BY Zenon, <3>1, ListQuiet DEF Threads
  <2>9. CASE WakerStep(t)
    <3>1. CASE enqueuers!Step(t)
      BY Zenon, <2>9, <3>1, ListStep DEF WakerStep
    <3>2. CASE dequeuer!Step(t) /\ UNCHANGED enqueuers_vars
      BY Zenon, <2>9, <3>2, TokensAreKept, ListQuiet DEF WakerStep, Threads
    <3> QED
      BY Zenon, <2>9, <3>1, <3>2 DEF WakerStep
  <2> QED
    BY Zenon, <2>1, <2>3, <2>4, <2>5, <2>6, <2>7, <2>8, <2>9
<1> QED
  BY Zenon, <1>1, <1>2

\* Nobody is registered at first.
LEMMA InitList == Init => ListInv
<1> SUFFICES ASSUME Init PROVE ListInv
  BY Zenon
<1>1. /\ wakers = {} /\ mutex = Nobody
      /\ \A t \in Threads : enqueuers_call[t] = "out" /\ op[t] = Idle
  BY Zenon DEF Init, enqueuers!Start
<1> QED
  BY <1>1, Kinds DEF ListInv, ListRoles, ListFlag, EnqueuerIsReachable, Idle,
     Threads

\* wake may skip the mutex of the WakerList when the flag is down, however
\* many enqueuers register and however many threads wake them.
THEOREM FlagSafety == Spec => []FlagIsUp
<1>1. ListInv => FlagIsUp
  BY Zenon DEF ListInv, ListFlag, Draining, FlagIsUp
<1> QED
  BY <1>1, InitTypes, InitControl, InitList, TypeStep, ControlStep, ListKept, PTL
     DEF Spec

(***************************************************************************)
(* Nobody is forgotten.                                                    *)
(***************************************************************************)

(***************************************************************************)
(* The enqueuers.                                                          *)
(***************************************************************************)

\* A wake-up on its way stays so unless the thread that moves carries it.
LEMMA StillOwed ==
    ASSUME EnqueuerIsOwed, NEW t \in Threads, NEW e \in Enqueuers,
           CouldEnqueue(e), ~token[e],
           \A u \in Threads : u # t =>
              op'[u] = op[u] /\ enqueuers_call'[u] = enqueuers_call[u],
           WakesEnqueuers(t) => WakesEnqueuers(t)'
    PROVE  \E u \in Threads : WakesEnqueuers(u)'
  BY Zenon DEF EnqueuerIsOwed, WakesEnqueuers

\* Whether an enqueuer could go on is a matter of its operation and of the
\* room in the queue.
LEMMA SameCould ==
    ASSUME NEW e \in Enqueuers, op'[e] = op[e], SameRoom, CouldEnqueue(e)'
    PROVE  CouldEnqueue(e)
  BY Zenon DEF CouldEnqueue, Fits, SameRoom

\* A quiet step that keeps the room, of a thread that carries no wake-up.
LEMMA OwedInSameRoom ==
    ASSUME TypeOK, EnqueuerIsOwed, NEW t \in Threads, Moves(t),
           enqueuers_call[t] = "out", UNCHANGED enqueuers_vars,
           op[t].pc \notin {"publish", "notify_enqueue"},
           op[t].pc = "notify_dequeue" => t \notin Closers,
           SameRoom, NEW e \in Enqueuers, e # t,
           CouldEnqueue(e)', ~token[e]
    PROVE  \E u \in Threads : WakesEnqueuers(u)'
<1>1. \A u \in Threads : u # t => op'[u] = op[u]
  BY Zenon DEF Moves, TypeOK
<1>2. CouldEnqueue(e)
  BY Zenon, <1>1, SameCould DEF Threads
<1>3. ~WakesEnqueuers(t)
  BY Zenon DEF WakesEnqueuers
<1> QED
  BY Zenon, <1>1, <1>2, <1>3, StillOwed DEF enqueuers_vars

\* The quiet steps of the enqueuers.
LEMMA EnqueuerOwedByEnqueuer ==
    ASSUME TypeOK, Control, EnqueuerIsOwed, NEW t \in Enqueuers,
           CallStep(t) \/ TryEnqueue(t) \/ Compare(t) \/ Insert(t)
             \/ Expire(t) \/ Cancel(t),
           NEW e \in Enqueuers, CouldEnqueue(e)', ~token'[e]
    PROVE  \E u \in Threads : WakesEnqueuers(u)'
<1> USE DEF At
<1>0. /\ t \in Threads /\ FirstPc(t) = "try" /\ t \notin Closers
      /\ queue \in QueueType /\ op[t] \in OpType
  BY Zenon, Kinds DEF Threads, FirstPc, TypeOK
<1>1. /\ UNCHANGED notify_vars /\ (Moves(t) \/ UNCHANGED op)
  BY Zenon, <1>0, QuietEffect DEF QuietStep
<1>2. ~token[e] /\ UNCHANGED enqueuers_vars
  BY Zenon, <1>1 DEF notify_vars
<1>3. ASSUME UNCHANGED queue PROVE SameRoom
  BY Zenon, <1>0, <1>3 DEF SameRoom
<1>4. Idle.pc = "idle"
  BY Zenon DEF Idle
<1>5. ASSUME op'[t].pc \in {"idle", "try", "insert", "register",
                            "notify_dequeue"}
      PROVE  e # t
  BY Zenon, <1>5 DEF CouldEnqueue
<1>6. CASE CallStep(t)
  BY Zenon, <1>0, <1>2, <1>3, <1>5, <1>6, CallEffect, OwedInSameRoom
<1>7. CASE TryEnqueue(t)
  <2>1. CASE UNCHANGED queue /\ op'[t] = Idle
    BY Zenon, <1>0, <1>2, <1>3, <1>4, <1>5, <1>7, <2>1, TryEnqueueEffect,
       OwedInSameRoom
  <2>2. CASE /\ op'[t].pc = "insert"
             /\ queue' = [queue EXCEPT !.used = @ + op[t].size]
    <3>1. e # t
      BY Zenon, <1>5, <2>2
    <3>2. /\ Moves(t) /\ At(t, "try")
          /\ \A u \in Threads : u # t => op'[u] = op[u]
      BY Zenon, <1>0, <1>7, TryEnqueueEffect DEF Moves, TypeOK
    <3>3. /\ queue'.closed = queue.closed /\ queue'.index = queue.index
          /\ queue'.capacity = queue.capacity
          /\ queue'.published = queue.published
          /\ queue'.used = queue.used + op[t].size
      BY Zenon, <1>0, <2>2 DEF QueueType
    <3>4. op'[e] = op[e] /\ op[e].size \in Nat
      BY Zenon, <3>1, <3>2 DEF Threads, TypeOK, OpType
    <3>5. /\ queue.used \in Nat /\ op[t].size \in Nat
          /\ queue.capacity[queue.index] \in Nat
      BY Zenon, <1>0 DEF QueueType, OpType
    <3>6. Fits(e)' => Fits(e)
      BY <3>3, <3>4, <3>5 DEF Fits
    <3>7. CouldEnqueue(e)
      BY Zenon, <3>3, <3>4, <3>6 DEF CouldEnqueue
    <3>8. ~WakesEnqueuers(t)
      BY Zenon, <1>0, <3>2 DEF WakesEnqueuers
    <3> QED
      BY Zenon, <1>0, <1>2, <3>2, <3>7, <3>8, StillOwed DEF enqueuers_vars
  <2>3. CASE /\ UNCHANGED queue /\ op'[t].pc = "compare" /\ Same(t)
             /\ ~queue.closed /\ ~Fits(t)
    <3>1. e # t
      BY Zenon, <2>3 DEF CouldEnqueue, Fits, Same
    <3> QED
      BY Zenon, <1>0, <1>2, <1>3, <1>7, <2>3, <3>1, TryEnqueueEffect,
         OwedInSameRoom
  <2> QED
    BY Zenon, <1>0, <1>7, <2>1, <2>2, <2>3, TryEnqueueEffect
<1>8. CASE Compare(t)
  <2>1. /\ Moves(t) /\ op[t].pc = "compare" /\ UNCHANGED queue
        /\ enqueuers_call[t] = "out"
    BY Zenon, <1>0, <1>8, CompareEffect
  <2>2. CASE e # t
    BY Zenon, <1>0, <1>2, <1>3, <2>1, <2>2, OwedInSameRoom
  <2>3. CASE e = t /\ op'[t] = TryAgain(t) /\ ~(op[t].size > queue.published)
    <3>1. op[t].phase = "recheck" /\ op'[t].size = op[t].size
      BY Zenon, <1>0, <2>3, AttemptFields DEF CouldEnqueue
    <3>2. op'[t].pc = "wait"
      BY Zenon, <1>0, <2>3, <3>1, AttemptFields
    <3>3. CouldEnqueue(e)
      BY Zenon, <2>1, <2>3, <3>1, <3>2 DEF CouldEnqueue, Fits
    <3>4. ~WakesEnqueuers(t)
      BY Zenon, <1>0, <2>1 DEF WakesEnqueuers
    <3>5. \A u \in Threads : u # t => op'[u] = op[u]
      BY Zenon, <2>1 DEF Moves, TypeOK
    <3> QED
      BY Zenon, <1>0, <1>2, <3>3, <3>4, <3>5, StillOwed DEF enqueuers_vars
  <2>4. CASE op'[t] = Idle
    BY Zenon, <1>4, <1>5, <2>2, <2>4
  <2> QED
    BY Zenon, <1>0, <1>8, <2>2, <2>3, <2>4, CompareEffect
<1>9. CASE Insert(t)
  BY Zenon, <1>0, <1>2, <1>3, <1>5, <1>9, InsertEffect, OwedInSameRoom
<1>10. CASE Expire(t)
  BY Zenon, <1>0, <1>2, <1>3, <1>5, <1>10, ExpireEffect, OwedInSameRoom
<1>11. CASE Cancel(t)
  BY Zenon, <1>0, <1>2, <1>3, <1>4, <1>5, <1>11, CancelEffect, OwedInSameRoom
<1> QED
  BY Zenon, <1>6, <1>7, <1>8, <1>9, <1>10, <1>11

\* The quiet steps of the dequeuers: the swap itself promises a wake-up.
LEMMA EnqueuerOwedByDequeuer ==
    ASSUME TypeOK, Control, EnqueuerIsOwed, NEW t \in Dequeuers,
           \/ CallStep(t) \/ Lock(t) \/ Swap(t) \/ Publish(t) \/ Spin(t)
           \/ Unlock(t) \/ Release(t)
           \/ \E left \in 1..queue.due : Requeue(t, left)
           \/ Expire(t) \/ Cancel(t),
           NEW e \in Enqueuers, CouldEnqueue(e)', ~token'[e]
    PROVE  \E u \in Threads : WakesEnqueuers(u)'
<1> USE DEF At
<1>0. t \in Threads /\ t \notin Closers /\ e # t /\ queue \in QueueType
  BY Zenon, Kinds DEF Threads, TypeOK
<1>1. /\ UNCHANGED notify_vars /\ (Moves(t) \/ UNCHANGED op)
  BY Zenon, <1>0, QuietEffect DEF QuietStep
<1>2. ~token[e] /\ UNCHANGED enqueuers_vars
  BY Zenon, <1>1 DEF notify_vars
<1>3. ASSUME UNCHANGED queue PROVE SameRoom
  BY Zenon, <1>0, <1>3 DEF SameRoom
<1>4. ASSUME op'[t].pc \in {"publish", "notify_enqueue"}
      PROVE  \E u \in Threads : WakesEnqueuers(u)'
  BY Zenon, <1>0, <1>4 DEF WakesEnqueuers
<1>5. CASE CallStep(t)
  BY Zenon, <1>0, <1>2, <1>3, <1>5, CallEffect, OwedInSameRoom
<1>6. CASE Lock(t)
  BY Zenon, <1>0, <1>2, <1>6, LockEffect, OwedInSameRoom
<1>7. CASE Swap(t)
  <2>1. CASE op'[t].pc = "publish"
    BY Zenon, <1>4, <2>1
  <2>2. CASE UNCHANGED queue
    BY <1>0, <1>2, <1>3, <1>7, <2>2, SwapEffect, OwedInSameRoom
  <2> QED
    BY Zenon, <1>0, <1>7, <2>1, <2>2, SwapEffect
<1>8. CASE Publish(t)
  BY Zenon, <1>0, <1>4, <1>8, PublishEffect
<1>9. CASE Spin(t)
  BY Zenon, <1>0, <1>2, <1>3, <1>9, SpinEffect, OwedInSameRoom
<1>10. CASE Unlock(t)
  BY <1>0, <1>2, <1>10, UnlockEffect, OwedInSameRoom
<1>11. CASE Release(t)
  BY Zenon, <1>0, <1>2, <1>11, ReleaseEffect, OwedInSameRoom
<1>12. CASE \E left \in 1..queue.due : Requeue(t, left)
  BY Zenon, <1>0, <1>2, <1>12, RequeueEffect, OwedInSameRoom
<1>13. CASE Expire(t)
  BY Zenon, <1>0, <1>2, <1>3, <1>13, ExpireEffect, OwedInSameRoom
<1>14. CASE Cancel(t)
  BY Zenon, <1>0, <1>2, <1>3, <1>14, CancelEffect, OwedInSameRoom
<1> QED
  BY Zenon, <1>5, <1>6, <1>7, <1>8, <1>9, <1>10, <1>11, <1>12, <1>13, <1>14

\* close promises a wake-up, and reopen makes none necessary.
LEMMA EnqueuerOwedByCloser ==
    ASSUME TypeOK, EnqueuerIsOwed, NEW t \in Closers, Close(t) \/ Reopen(t),
           NEW e \in Enqueuers, CouldEnqueue(e)', ~token'[e]
    PROVE  \E u \in Threads : WakesEnqueuers(u)'
<1>0. t \in Threads
  BY Zenon DEF Threads
<1>1. CASE Close(t)
  BY Zenon, <1>0, <1>1, CloseEffect DEF WakesEnqueuers
<1>2. CASE Reopen(t)
  <2>1. CouldEnqueue(e) /\ ~token[e]
    BY Zenon, <1>0, <1>2, ReopenEffect DEF CouldEnqueue, Fits, notify_vars
  <2>2. UNCHANGED <<op, enqueuers_call>>
    BY Zenon, <1>0, <1>2, ReopenEffect DEF notify_vars, enqueuers_vars
  <2> QED
    BY Zenon, <1>0, <2>1, <2>2, StillOwed DEF WakesEnqueuers
<1> QED
  BY Zenon, <1>1, <1>2

\* The notification of the enqueuers: if the flag is down, whoever sleeps is
\* in the vector that somebody else is emptying.
LEMMA EnqueuerOwedByNotify ==
    ASSUME TypeOK, Control, ListInv, EnqueuerIsOwed, NEW t \in Threads \ Enqueuers,
           NotifyEnqueue(t),
           NEW e \in Enqueuers, CouldEnqueue(e)', ~token'[e]
    PROVE  \E u \in Threads : WakesEnqueuers(u)'
<1>1. /\ UNCHANGED <<wakers, token>> /\ enqueuers_call[t] = "out"
      /\ enqueuers_call'[t] = IF non_empty THEN "lock" ELSE "out"
      /\ \A u \in Threads : u # t => enqueuers_call'[u] = enqueuers_call[u]
  BY Zenon DEF NotifyEnqueue, enqueuers!Wake, TypeOK, WakerTypes
<1>2. CASE non_empty
  BY Zenon, <1>1, <1>2 DEF WakesEnqueuers
<1>3. CASE ~non_empty
  <2>1. op'[e] = op[e]
    BY Zenon, NotifyEnqueueEffect DEF Moves, TypeOK, Threads
  <2>2. op[e].phase = "recheck" /\ enqueuers_call[e] = "out"
    BY Zenon, <2>1
       DEF CouldEnqueue, Control, EnqueuerControl, ListInv, ListRoles
  <2>3. e \in wakers
    BY Zenon, <1>1, <2>2 DEF ListInv, EnqueuerIsReachable
  <2>4. PICK u \in Threads : enqueuers_call[u] \in {"lock", "drain"}
    BY Zenon, <1>3, <2>3 DEF ListInv, ListFlag, Draining
  <2> QED
    BY Zenon, <1>1, <2>4 DEF WakesEnqueuers
<1> QED
  BY Zenon, <1>2, <1>3

\* The steps of the wakers: those who leave wake_all leave an empty vector.
LEMMA EnqueuerOwedByWakers ==
    ASSUME TypeOK, Control, ListInv, EnqueuerIsOwed, NEW t \in Threads,
           WakerStep(t), NEW e \in Enqueuers, CouldEnqueue(e)', ~token'[e]
    PROVE  \E u \in Threads : WakesEnqueuers(u)'
<1>1. UNCHANGED <<queue, op>> /\ CouldEnqueue(e) /\ WakerTypes
  BY Zenon DEF WakerStep, CouldEnqueue, Fits, TypeOK
<1>2. CASE dequeuer!Step(t) /\ UNCHANGED enqueuers_vars
  <2>1. ~token[e]
    BY Zenon, <1>2, TokensAreKept DEF Threads
  <2> QED
    BY Zenon, <1>1, <1>2, <2>1, StillOwed DEF WakesEnqueuers, enqueuers_vars
<1>3. CASE enqueuers!Push(t) \/ enqueuers!LockToWake(t)
  <2>1. /\ UNCHANGED token /\ enqueuers_call'[t] \in {"out", "drain"}
        /\ enqueuers_call[t] = "push" \/ enqueuers_call'[t] = "drain"
        /\ \A u \in Threads : u # t => enqueuers_call'[u] = enqueuers_call[u]
    BY Zenon, <1>1, <1>3 DEF enqueuers!Push, enqueuers!LockToWake, WakerTypes
  <2> QED
    BY Zenon, <1>1, <2>1, StillOwed DEF WakesEnqueuers
<1>4. CASE enqueuers!UnlockDrained(t)
  <2>1. wakers = {} /\ UNCHANGED token
    BY Zenon, <1>4 DEF enqueuers!UnlockDrained
  <2>2. op[e].phase = "recheck" /\ enqueuers_call[e] = "out"
    BY Zenon, <1>1
       DEF CouldEnqueue, Control, EnqueuerControl, ListInv, ListRoles
  <2> QED
    BY Zenon, <2>1, <2>2 DEF ListInv, EnqueuerIsReachable
<1>5. CASE \E w \in Threads : enqueuers!WakeOne(t, w)
  BY Zenon, <1>5 DEF enqueuers!WakeOne, WakesEnqueuers
<1> QED
  BY Zenon, <1>2, <1>3, <1>4, <1>5 DEF WakerStep, enqueuers!Step

\* Every step keeps the promise made to the enqueuers.
LEMMA EnqueuerOwedKept ==
    TypeOK /\ Control /\ ListInv /\ EnqueuerIsOwed /\ [Next]_vars
        => EnqueuerIsOwed'
<1> SUFFICES ASSUME TypeOK, Control, ListInv, EnqueuerIsOwed, [Next]_vars,
                    NEW e \in Enqueuers, CouldEnqueue(e)', ~token'[e]
             PROVE  \E u \in Threads : WakesEnqueuers(u)'
  BY Zenon DEF EnqueuerIsOwed
<1>1. CASE UNCHANGED vars
  BY Zenon, <1>1 DEF EnqueuerIsOwed, WakesEnqueuers, CouldEnqueue, Fits, vars,
     notify_vars, enqueuers_vars
<1>2. CASE Next
  <2>1. PICK t \in Threads :
              \/ QuietStep(t)
              \/ t \in Enqueuers /\ RegisterEnqueuer(t)
              \/ t \in Dequeuers /\ RegisterDequeuer(t)
              \/ t \in Enqueuers \cup Closers /\ NotifyDequeue(t)
              \/ t \in Dequeuers \cup Closers /\ NotifyEnqueue(t)
              \/ t \in Enqueuers \cup Dequeuers /\ Resume(t)
              \/ WakerStep(t)
    BY Zenon, <1>2, NextCases
  <2>2. ASSUME UNCHANGED queue PROVE SameRoom
    BY Zenon, <2>2 DEF SameRoom, TypeOK
  <2>3. CASE QuietStep(t)
    <3>1. CASE t \in Enqueuers
      BY Zenon, <2>3, <3>1, EnqueuerOwedByEnqueuer, Kinds DEF QuietStep
    <3>2. CASE t \in Dequeuers
      BY Zenon, <2>3, <3>2, EnqueuerOwedByDequeuer, Kinds DEF QuietStep
    <3>3. CASE t \in Closers
      BY Zenon, <2>3, <3>3, EnqueuerOwedByCloser, Kinds DEF QuietStep, CallStep
    <3> QED
      BY Zenon, <3>1, <3>2, <3>3, Kinds
  <2>4. CASE t \in Enqueuers /\ RegisterEnqueuer(t)
    <3>1. /\ Moves(t) /\ op'[t].pc = "try" /\ op[t].pc = "register"
          /\ UNCHANGED <<queue, token>> /\ t \notin Closers
      BY Zenon, <2>4, RegisterEnqueuerEffect, Kinds
         DEF RegisterEnqueuer, enqueuers!LockToRegister, FirstPc, At
    <3>2. e # t /\ \A u \in Threads : u # t =>
              op'[u] = op[u] /\ enqueuers_call'[u] = enqueuers_call[u]
      BY Zenon, <2>4, <3>1 DEF CouldEnqueue, Moves, TypeOK, WakerTypes,
         RegisterEnqueuer, enqueuers!LockToRegister
    <3>3. CouldEnqueue(e) /\ ~WakesEnqueuers(t)
      BY Zenon, <2>2, <2>4, <3>1, <3>2, SameCould
         DEF WakesEnqueuers, RegisterEnqueuer, At, Threads
    <3> QED
      BY Zenon, <3>1, <3>2, <3>3, StillOwed
  <2>5. CASE t \in Dequeuers /\ RegisterDequeuer(t)
    <3>1. /\ Moves(t) /\ op[t].pc = "register" /\ enqueuers_call[t] = "out"
          /\ UNCHANGED <<queue, enqueuers_vars>> /\ e # t /\ ~token[e]
      BY Zenon, <2>5, RegisterDequeuerEffect, TokensAreKept, Kinds
         DEF RegisterDequeuer, At, Threads
    <3> QED
      BY Zenon, <2>2, <3>1, OwedInSameRoom
  <2>6. CASE NotifyDequeue(t)
    <3>1. CASE t \in Closers
      BY Zenon, <2>6, <3>1, NotifyDequeueEffect DEF WakesEnqueuers
    <3>2. CASE t \notin Closers
      <4>1. /\ Moves(t) /\ op'[t].pc = "idle" /\ op[t].pc = "notify_dequeue"
            /\ enqueuers_call[t] = "out"
            /\ UNCHANGED <<queue, enqueuers_vars>>
        BY <2>6, <3>2, NotifyDequeueEffect DEF At, Idle
      <4>2. e # t /\ ~token[e]
        BY Zenon, <2>6, <4>1, TokensAreKept
           DEF NotifyDequeue, CouldEnqueue, Threads
      <4> QED
        BY Zenon, <2>2, <3>2, <4>1, <4>2, OwedInSameRoom
    <3> QED
      BY Zenon, <3>1, <3>2
  <2>7. CASE t \in Dequeuers \cup Closers /\ NotifyEnqueue(t)
    BY Zenon, <2>7, EnqueuerOwedByNotify, Kinds
  <2>8. CASE t \in Enqueuers \cup Dequeuers /\ Resume(t)
    <3>1. /\ Moves(t) /\ op'[t].pc \in {"try", "lock"} /\ op[t].pc = "wait"
          /\ enqueuers_call[t] = "out"
          /\ UNCHANGED <<queue, enqueuers_vars>>
          /\ token' = [token EXCEPT ![t] = FALSE]
      BY Zenon, <2>8, ResumeEffect DEF At, FirstPc
    <3>2. e # t
      BY Zenon, <3>1 DEF CouldEnqueue
    <3>3. ~token[e]
      BY Zenon, <3>1, <3>2 DEF TypeOK, WakerTypes, Threads
    <3> QED
      BY Zenon, <2>2, <3>1, <3>2, <3>3, OwedInSameRoom
  <2>9. CASE WakerStep(t)
    BY Zenon, <2>9, EnqueuerOwedByWakers
  <2> QED
    BY Zenon, <2>1, <2>3, <2>4, <2>5, <2>6, <2>7, <2>8, <2>9
<1> QED
  BY Zenon, <1>1, <1>2

\* Nobody waits at first.
LEMMA InitEnqueuerOwed == Init => EnqueuerIsOwed
  BY DEF Init, EnqueuerIsOwed, CouldEnqueue, Idle, Threads

\* No enqueuer is left asleep beside room for its value, or in a queue that is
\* closed or too small for it, even if several dequeuers run at once.
THEOREM EnqueuersAreOwed == Spec => []SleepingEnqueuerIsOwedAWake
<1>1. EnqueuerIsOwed => SleepingEnqueuerIsOwedAWake
  BY Zenon DEF EnqueuerIsOwed, SleepingEnqueuerIsOwedAWake, CouldEnqueue,
     WakesEnqueuers
<1> QED
  BY <1>1, InitTypes, InitControl, InitList, InitEnqueuerOwed, TypeStep,
     ControlStep, ListKept, EnqueuerOwedKept, PTL DEF Spec

(***************************************************************************)
(* The dequeuers, when they take turns.                                    *)
(***************************************************************************)

\* While a dequeuer is inside an operation the others are idle.
LEMMA OthersIdle ==
    ASSUME Turns, NEW t \in Dequeuers, op[t].pc # "idle",
           NEW d \in Dequeuers, d # t
    PROVE  op[d].pc = "idle"
  BY Zenon DEF Turns

\* Every step of a dequeuer is taken by the only one, which moves.
LEMMA DequeuerMoves ==
    ASSUME TypeOK, Turns, OneAtATime, NEW t \in Dequeuers,
           \/ QuietStep(t) \/ RegisterDequeuer(t) \/ NotifyEnqueue(t)
           \/ Resume(t)
    PROVE  /\ Moves(t) /\ dequeuer_call[t].pc = "out"
           /\ \A d \in Dequeuers : d # t =>
                 op[d].pc = "idle" /\ op'[d].pc = "idle"
<1> USE DEF At
<1>0. t \in Threads /\ t \notin Enqueuers /\ t \notin Closers
  BY Zenon, Kinds DEF Threads
<1>1. ASSUME Moves(t), dequeuer_call[t].pc = "out", op[t].pc # "idle"
      PROVE  /\ Moves(t) /\ dequeuer_call[t].pc = "out"
             /\ \A d \in Dequeuers : d # t =>
                   op[d].pc = "idle" /\ op'[d].pc = "idle"
  BY Zenon, <1>1, OthersIdle DEF Moves, TypeOK, Threads
<1>2. CASE CallStep(t)
  <2>1. /\ Moves(t) /\ dequeuer_call[t].pc = "out"
        /\ \A d \in Dequeuers : op[d].pc = "idle"
    BY Zenon, <1>0, <1>2, CallEffect
  <2> QED
    BY Zenon, <2>1 DEF Moves, TypeOK, Threads
<1>3. CASE RegisterDequeuer(t)
  BY Zenon, <1>0, <1>1, <1>3, RegisterDequeuerEffect DEF RegisterDequeuer
<1>4. CASE NotifyEnqueue(t)
  BY Zenon, <1>0, <1>1, <1>4, NotifyEnqueueEffect
<1>5. CASE Resume(t)
  BY Zenon, <1>0, <1>1, <1>5, ResumeEffect
<1>6. CASE Lock(t)
  BY Zenon, <1>0, <1>1, <1>6, LockEffect
<1>7. CASE Swap(t)
  BY Zenon, <1>0, <1>1, <1>7, SwapEffect
<1>8. CASE Publish(t)
  BY Zenon, <1>0, <1>1, <1>8, PublishEffect
<1>9. CASE Spin(t)
  BY Zenon, <1>0, <1>1, <1>9, SpinEffect
<1>10. CASE Unlock(t)
  BY Zenon, <1>0, <1>1, <1>10, UnlockEffect
<1>11. CASE Release(t)
  BY Zenon, <1>0, <1>1, <1>11, ReleaseEffect
<1>12. CASE \E left \in 1..queue.due : Requeue(t, left)
  BY Zenon, <1>0, <1>1, <1>12, RequeueEffect
<1>13. CASE Expire(t)
  BY Zenon, <1>0, <1>1, <1>13, ExpireEffect
<1>14. CASE Cancel(t)
  BY Zenon, <1>0, <1>1, <1>14, CancelEffect
<1> QED
  BY Zenon, <1>0, <1>2, <1>3, <1>4, <1>5, <1>6, <1>7, <1>8, <1>9, <1>10, <1>11,
     <1>12, <1>13, <1>14 DEF QuietStep

\* The steps of the others leave the dequeuers alone, and what is due.
LEMMA OthersMove ==
    ASSUME TypeOK, NEW t \in Threads, t \notin Dequeuers,
           \/ QuietStep(t) \/ RegisterEnqueuer(t) \/ NotifyDequeue(t)
           \/ NotifyEnqueue(t) \/ Resume(t)
    PROVE  /\ \A d \in Dequeuers : op'[d] = op[d]
           /\ queue'.due = queue.due
<1>1. Moves(t) \/ UNCHANGED op
  BY Zenon, QuietEffect, RegisterEnqueuerEffect, NotifyDequeueEffect,
     NotifyEnqueueEffect, ResumeEffect
<1>2. \A d \in Dequeuers : op'[d] = op[d]
  BY Zenon, <1>1 DEF Moves, TypeOK, Threads
<1>3. queue \in QueueType
  BY Zenon DEF TypeOK
<1>4. CASE TryEnqueue(t)
  BY Zenon, <1>2, <1>3, <1>4, TryEnqueueEffect DEF QueueType
<1>5. CASE CallStep(t) \/ Compare(t) \/ Insert(t) \/ Expire(t) \/ Cancel(t)
  BY Zenon, <1>2, <1>5, CallEffect, CompareEffect, InsertEffect, ExpireEffect,
     CancelEffect
<1>6. CASE Close(t) \/ Reopen(t)
  BY Zenon, <1>2, <1>6, CloseEffect, ReopenEffect
<1>7. CASE RegisterEnqueuer(t) \/ NotifyDequeue(t) \/ NotifyEnqueue(t) \/ Resume(t)
  BY Zenon, <1>2, <1>7, NotifyDequeueEffect, NotifyEnqueueEffect, ResumeEffect
     DEF RegisterEnqueuer
<1> QED
  BY Zenon, <1>2, <1>4, <1>5, <1>6, <1>7 DEF QuietStep

\* Dequeuers keep taking turns.
LEMMA TurnsKept ==
    ASSUME OneAtATime, TypeOK, Turns, [Next]_vars
    PROVE  Turns'
<1>1. ASSUME \A d \in Dequeuers : op'[d] = op[d] PROVE Turns'
  BY Zenon, <1>1 DEF Turns
<1>2. CASE UNCHANGED vars
  BY Zenon, <1>1, <1>2 DEF vars
<1>3. CASE Next
  <2>1. PICK t \in Threads :
              \/ QuietStep(t)
              \/ t \in Enqueuers /\ RegisterEnqueuer(t)
              \/ t \in Dequeuers /\ RegisterDequeuer(t)
              \/ t \in Enqueuers \cup Closers /\ NotifyDequeue(t)
              \/ t \in Dequeuers \cup Closers /\ NotifyEnqueue(t)
              \/ t \in Enqueuers \cup Dequeuers /\ Resume(t)
              \/ WakerStep(t)
    BY Zenon, <1>3, NextCases
  <2>2. CASE WakerStep(t)
    BY Zenon, <1>1, <2>2 DEF WakerStep
  <2>3. CASE t \notin Dequeuers /\ ~WakerStep(t)
    BY Zenon, <1>1, <2>1, <2>3, OthersMove
  <2>4. CASE t \in Dequeuers /\ ~WakerStep(t)
    <3>1. \A d \in Dequeuers : d # t => op'[d].pc = "idle"
      BY Zenon, <2>1, <2>4, DequeuerMoves, Kinds
    <3> QED
      BY Zenon, <3>1 DEF Turns
  <2> QED
    BY Zenon, <2>2, <2>3, <2>4
<1> QED
  BY Zenon, <1>2, <1>3

\* What is due at a swap and after.
LEMMA SwapsOnceKept ==
    ASSUME OneAtATime, TypeOK, Control, Turns, SwapsOnce, [Next]_vars
    PROVE  SwapsOnce'
<1>1. ASSUME queue'.due = queue.due, \A d \in Dequeuers : op'[d] = op[d]
      PROVE  SwapsOnce'
  BY Zenon, <1>1 DEF SwapsOnce
<1>2. CASE UNCHANGED vars
  BY Zenon, <1>1, <1>2 DEF vars
<1>3. CASE Next
  <2>1. PICK t \in Threads :
              \/ QuietStep(t)
              \/ t \in Enqueuers /\ RegisterEnqueuer(t)
              \/ t \in Dequeuers /\ RegisterDequeuer(t)
              \/ t \in Enqueuers \cup Closers /\ NotifyDequeue(t)
              \/ t \in Dequeuers \cup Closers /\ NotifyEnqueue(t)
              \/ t \in Enqueuers \cup Dequeuers /\ Resume(t)
              \/ WakerStep(t)
    BY Zenon, <1>3, NextCases
  <2>2. CASE WakerStep(t)
    BY Zenon, <1>1, <2>2 DEF WakerStep
  <2>3. CASE t \notin Dequeuers /\ ~WakerStep(t)
    BY Zenon, <1>1, <2>1, <2>3, OthersMove
  <2>4. CASE t \in Dequeuers /\ ~WakerStep(t)
    <3>1. \A d \in Dequeuers : d # t => op'[d].pc = "idle"
      BY Zenon, <2>1, <2>4, DequeuerMoves, Kinds
    <3>2. SUFFICES /\ op'[t].pc = "swap" => queue'.due = 0
                   /\ op'[t].pc \in {"publish", "notify_enqueue"}
                         /\ op'[t].phase # "last" => queue'.due > 0
      BY Zenon, <3>1 DEF SwapsOnce
    <3>3. t \notin Enqueuers /\ t \notin Closers /\ FirstPc(t) = "lock"
      BY Zenon, <2>4, Kinds DEF FirstPc
    <3>4. ASSUME op'[t].pc \notin {"swap", "publish", "notify_enqueue"}
          PROVE  /\ op'[t].pc = "swap" => queue'.due = 0
                 /\ op'[t].pc \in {"publish", "notify_enqueue"}
                       /\ op'[t].phase # "last" => queue'.due > 0
      BY Zenon, <3>4
    <3>5. Idle.pc = "idle"
      BY Zenon DEF Idle
    <3>6. CASE Lock(t)
      BY Zenon, <3>4, <3>5, <3>6, LockEffect
    <3>7. CASE Swap(t)
      <4>1. op[t].mode = "resize" => op[t].phase = "last"
        BY Zenon, <2>4 DEF Control, DequeuerControl
      <4> QED
        BY Zenon, <3>4, <3>7, <4>1, SwapEffect
    <3>8. CASE Publish(t)
      BY <2>4, <3>8, PublishEffect DEF SwapsOnce, At, Same
    <3>9. CASE NotifyEnqueue(t)
      BY Zenon, <3>3, <3>4, <3>9, NotifyEnqueueEffect
    <3>10. CASE Unlock(t)
      BY Zenon, <3>3, <3>4, <3>5, <3>10, UnlockEffect
    <3> QED
      BY Zenon, <2>1, <2>4, <3>3, <3>4, <3>5, <3>6, <3>7, <3>8, <3>9, <3>10,
         CallEffect, SpinEffect, ReleaseEffect, RequeueEffect, ExpireEffect,
         CancelEffect, RegisterDequeuerEffect, ResumeEffect DEF QuietStep
  <2> QED
    BY Zenon, <2>2, <2>3, <2>4
<1> QED
  BY Zenon, <1>2, <1>3

\* A registered dequeuer stays reachable through the steps that leave the
\* AtomicWaker and its token alone.
LEMMA ReachableKept ==
    ASSUME DequeuerIsReachable, UNCHANGED dequeuer_vars, NEW d \in Dequeuers,
           op[d].phase = "recheck", dequeuer_call'[d].pc = "out",
           token[d] => token'[d]
    PROVE  waker' = d \/ token'[d] \/ \E t \in Threads : Delivers(t, d)'
  BY Zenon DEF DequeuerIsReachable, Delivers, dequeuer_vars

\* A dequeuer registers: it finds the slot free, or a wake-up in progress.
LEMMA ReachableByRegister ==
    ASSUME TypeOK, Turns, SlotInv, DequeuerIsReachable, OneAtATime,
           NEW t \in Dequeuers, RegisterDequeuer(t), NEW d \in Dequeuers,
           op'[d].phase = "recheck", dequeuer_call'[d].pc = "out"
    PROVE  waker' = d \/ token'[d] \/ \E u \in Threads : Delivers(u, d)'
<1> USE DEF dequeuer!WAITING, dequeuer!REGISTERING, dequeuer!WAKING,
        dequeuer!In
<1>0. t \in Threads /\ WakerTypes
  BY Zenon DEF Threads, TypeOK
<1>1. /\ Moves(t) /\ dequeuer_call[t].pc = "out" /\ op[t].pc = "register"
      /\ \A u \in Threads : u # t => op'[u] = op[u]
  BY Zenon, <1>0, RegisterDequeuerEffect
     DEF RegisterDequeuer, At, Moves, TypeOK
<1>2. state \in {{}, {"WAKING"}}
  <2>1. ASSUME NEW r \in Dequeuers, Registering(r) PROVE FALSE
    <3>1. op[r].pc = "lock"
      BY Zenon, <2>1 DEF SlotInv, SlotRoles, Registering
    <3> QED
      BY Zenon, <1>1, <2>1, <3>1 DEF Turns, Registering
  <2> QED
    BY Zenon, <1>0, <2>1 DEF SlotInv, SlotBits, WakerTypes
<1>3. CASE d = t /\ state = {}
  <2>1. dequeuer_call'[t].pc = "store"
    BY Zenon, <1>0, <1>3 DEF RegisterDequeuer, dequeuer!Register, WakerTypes
  <2> QED
    BY Zenon, <1>3, <2>1
<1>4. CASE d = t /\ state = {"WAKING"}
  BY Zenon, <1>0, <1>4 DEF RegisterDequeuer, dequeuer!Register, dequeuer!Woken
<1>5. CASE d # t
  <2>1. /\ \A u \in Threads : u # t => dequeuer_call'[u] = dequeuer_call[u]
        /\ UNCHANGED waker
    BY Zenon, <1>0 DEF RegisterDequeuer, dequeuer!Register, WakerTypes
  <2>2. token[d] => token'[d]
    BY Zenon, <1>0, TokensAreKept DEF RegisterDequeuer, Threads
  <2>3. op[d].phase = "recheck" /\ dequeuer_call[d].pc = "out"
    BY Zenon, <1>1, <1>5, <2>1 DEF Threads
  <2> QED
    BY <1>1, <2>1, <2>2, <2>3 DEF DequeuerIsReachable, Delivers
<1> QED
  BY Zenon, <1>2, <1>3, <1>4, <1>5

\* The steps inside the code of the AtomicWaker.
LEMMA ReachableBySlot ==
    ASSUME TypeOK, Control, Turns, SlotInv, DequeuerIsReachable,
           NEW t \in Threads, dequeuer!Step(t), UNCHANGED op,
           NEW d \in Dequeuers,
           op[d].phase = "recheck", dequeuer_call'[d].pc = "out"
    PROVE  waker' = d \/ token'[d] \/ \E u \in Threads : Delivers(u, d)'
<1> USE DEF dequeuer!In, dequeuer!NotCalling
<1>0. WakerTypes /\ d \in Threads
  BY Zenon DEF TypeOK, Threads
<1>1. \A u \in Threads : token[u] => token'[u]
  BY Zenon, TokensAreKept
<1>2. ASSUME t \in Dequeuers, dequeuer_call[t].pc # "out", d # t PROVE FALSE
  <2>1. op[t].pc = "lock"
    BY Zenon, <1>2 DEF SlotInv, SlotRoles
  <2>2. op[d].pc = "idle"
    BY Zenon, <1>2, <2>1 DEF Turns
  <2> QED
    BY Zenon, <2>2 DEF Control, DequeuerControl
<1>3. CASE dequeuer!StoreWaker(t)
  <2>1. t \in Dequeuers
    BY Zenon, <1>3 DEF SlotInv, SlotRoles, dequeuer!StoreWaker
  <2> QED
    BY Zenon, <1>2, <1>3, <2>1 DEF dequeuer!StoreWaker
<1>4. CASE dequeuer!TakeBack(t)
  <2>1. t \in Dequeuers
    BY Zenon, <1>4 DEF SlotInv, SlotRoles, dequeuer!TakeBack
  <2>2. d = t /\ dequeuer_call'[t].pc = "deliver"
    BY Zenon, <1>0, <1>2, <1>4, <2>1 DEF dequeuer!TakeBack, WakerTypes
  <2> QED
    BY Zenon, <2>2
<1>5. CASE dequeuer!Take(t)
  <2>1. /\ dequeuer_call[t].pc = "take" /\ dequeuer_call'[t].pc = "deliver"
        /\ dequeuer_call'[t].taken = waker
        /\ \A u \in Threads : u # t => dequeuer_call'[u] = dequeuer_call[u]
    BY Zenon, <1>0, <1>5 DEF dequeuer!Take, WakerTypes
  <2>2. dequeuer_call[d].pc = "out"
    BY Zenon, <1>0, <2>1
  <2>3. CASE waker = d
    BY Zenon, <2>1, <2>3 DEF Delivers
  <2>4. CASE token[d]
    BY Zenon, <1>0, <1>1, <2>4
  <2>5. CASE \E u \in Threads : Delivers(u, d)
    BY Zenon, <2>1, <2>5 DEF Delivers
  <2> QED
    BY Zenon, <2>2, <2>3, <2>4, <2>5 DEF DequeuerIsReachable
<1>6. CASE dequeuer!Deliver(t)
  <2>1. /\ dequeuer_call[t].pc = "deliver" /\ UNCHANGED waker
        /\ \A u \in Threads : u # t => dequeuer_call'[u] = dequeuer_call[u]
        /\ token' = dequeuer!Woken(dequeuer_call[t].taken)
    BY Zenon, <1>0, <1>6 DEF dequeuer!Deliver, WakerTypes
  <2>2. CASE dequeuer_call[t].taken = d
    BY Zenon, <1>0, <2>1, <2>2 DEF dequeuer!Woken
  <2>3. CASE dequeuer_call[t].taken # d
    <3>1. d # t
      BY Zenon, <2>1, <2>3 DEF SlotInv, SlotRoles
    <3>2. dequeuer_call[d].pc = "out"
      BY Zenon, <1>0, <2>1, <3>1
    <3> QED
      BY <1>0, <1>1, <2>1, <2>3, <3>2 DEF DequeuerIsReachable, Delivers
  <2> QED
    BY Zenon, <2>2, <2>3
<1> QED
  BY Zenon, <1>3, <1>4, <1>5, <1>6 DEF dequeuer!Step

\* The WakerList takes no token away.
LEMMA ListKeepsTokens ==
    ASSUME TypeOK, NEW t \in Threads,
           \/ enqueuers!LockToRegister(t) \/ enqueuers!Wake(t)
           \/ enqueuers!Step(t)
    PROVE  \A u \in Threads : token[u] => token'[u]
  BY Zenon DEF TypeOK, WakerTypes, enqueuers!LockToRegister, enqueuers!Wake,
     enqueuers!Step, enqueuers!Push, enqueuers!LockToWake, enqueuers!WakeOne,
     enqueuers!UnlockDrained

\* Every step keeps the registered dequeuer reachable.
LEMMA ReachableStep ==
    ASSUME OneAtATime, TypeOK, Control, Turns, SlotInv, DequeuerIsReachable,
           [Next]_vars
    PROVE  DequeuerIsReachable'
<1> SUFFICES ASSUME NEW d \in Dequeuers,
                    op'[d].phase = "recheck", dequeuer_call'[d].pc = "out"
             PROVE  waker' = d \/ token'[d]
                      \/ \E u \in Threads : Delivers(u, d)'
  BY Zenon DEF DequeuerIsReachable
<1>0. d \in Threads
  BY Zenon DEF Threads
<1>1. CASE UNCHANGED vars
  BY Zenon, <1>1, ReachableKept DEF vars, notify_vars, dequeuer_vars
<1>2. CASE Next
  <2>1. PICK t \in Threads :
              \/ QuietStep(t)
              \/ t \in Enqueuers /\ RegisterEnqueuer(t)
              \/ t \in Dequeuers /\ RegisterDequeuer(t)
              \/ t \in Enqueuers \cup Closers /\ NotifyDequeue(t)
              \/ t \in Dequeuers \cup Closers /\ NotifyEnqueue(t)
              \/ t \in Enqueuers \cup Dequeuers /\ Resume(t)
              \/ WakerStep(t)
    BY Zenon, <1>2, NextCases
  <2>2. ASSUME Moves(t) PROVE d # t => op'[d] = op[d]
    BY Zenon, <1>0, <2>2 DEF Moves, TypeOK
  <2>3. CASE QuietStep(t)
    <3>1. op[d].phase = "recheck" /\ UNCHANGED notify_vars
      BY Zenon, <1>0, <2>2, <2>3, QuietEffect, Kinds
    <3> QED
      BY Zenon, <3>1, ReachableKept DEF notify_vars
  <2>4. CASE t \in Enqueuers /\ RegisterEnqueuer(t)
    <3>1. op[d].phase = "recheck" /\ UNCHANGED dequeuer_vars
      BY Zenon, <1>0, <2>2, <2>4, RegisterEnqueuerEffect, Kinds
         DEF RegisterEnqueuer
    <3> QED
      BY Zenon, <1>0, <2>4, <3>1, ReachableKept, ListKeepsTokens
         DEF RegisterEnqueuer
  <2>5. CASE t \in Dequeuers /\ RegisterDequeuer(t)
    BY Zenon, <2>5, ReachableByRegister
  <2>6. CASE t \in Enqueuers \cup Closers /\ NotifyDequeue(t)
    <3>1. d # t /\ op[d].phase = "recheck" /\ dequeuer_call[t].pc = "out"
      BY Zenon, <1>0, <2>2, <2>6, NotifyDequeueEffect, Kinds DEF At
    <3>2. /\ \A u \in Threads : u # t => dequeuer_call'[u] = dequeuer_call[u]
          /\ UNCHANGED <<waker, token>>
      BY Zenon, <2>6 DEF NotifyDequeue, dequeuer!Wake, TypeOK, WakerTypes
    <3> QED
      BY <1>0, <3>1, <3>2 DEF DequeuerIsReachable, Delivers
  <2>7. CASE NotifyEnqueue(t)
    <3>1. op[d].phase = "recheck" /\ UNCHANGED dequeuer_vars
      BY Zenon, <1>0, <2>2, <2>7, NotifyEnqueueEffect, Kinds
    <3> QED
      BY Zenon, <1>0, <2>7, <3>1, ReachableKept, ListKeepsTokens
         DEF NotifyEnqueue
  <2>8. CASE Resume(t)
    <3>1. d # t /\ op[d].phase = "recheck" /\ UNCHANGED dequeuer_vars
      BY Zenon, <2>2, <2>8, ResumeEffect
    <3>2. token'[d] = token[d]
      BY Zenon, <1>0, <2>8, <3>1, ResumeEffect DEF TypeOK, WakerTypes
    <3> QED
      BY Zenon, <3>1, <3>2, ReachableKept
  <2>9. CASE WakerStep(t)
    <3>1. op[d].phase = "recheck" /\ UNCHANGED op
      BY Zenon, <2>9 DEF WakerStep
    <3>2. CASE dequeuer!Step(t)
      BY Zenon, <3>1, <3>2, ReachableBySlot
    <3>3. CASE enqueuers!Step(t) /\ UNCHANGED dequeuer_vars
      BY Zenon, <1>0, <3>1, <3>3, ReachableKept, ListKeepsTokens
    <3> QED
      BY Zenon, <2>9, <3>2, <3>3 DEF WakerStep
  <2> QED
    BY Zenon, <2>1, <2>3, <2>4, <2>5, <2>6, <2>7, <2>8, <2>9
<1> QED
  BY Zenon, <1>1, <1>2

\* A wake-up on its way stays so unless the thread that moves carries it.
LEMMA DequeuerStillOwed ==
    ASSUME DequeuerIsOwed, NEW t \in Threads, NEW d \in Dequeuers,
           Settled(d), ~token[d], Dequeuable,
           \A u \in Threads : u # t =>
              op'[u] = op[u] /\ dequeuer_call'[u] = dequeuer_call[u],
           WakesDequeuer(t, d) => WakesDequeuer(t, d)'
    PROVE  \E u \in Threads : WakesDequeuer(u, d)'
  BY DEF DequeuerIsOwed, WakesDequeuer, Delivers

\* The quiet steps of enqueuers and closers.
LEMMA DequeuerOwedByOthers ==
    ASSUME TypeOK, DequeuerIsOwed, NEW t \in Threads, t \notin Dequeuers,
           QuietStep(t), NEW d \in Dequeuers,
           Settled(d)', ~token'[d], Dequeuable'
    PROVE  \E u \in Threads : WakesDequeuer(u, d)'
<1> USE DEF At
<1>1. /\ UNCHANGED notify_vars
      /\ (Moves(t) /\ dequeuer_call[t].pc = "out") \/ UNCHANGED op
  BY Zenon, QuietEffect
<1>2. UNCHANGED <<dequeuer_call, token>>
  BY Zenon, <1>1 DEF notify_vars, dequeuer_vars
<1>3. \A u \in Threads : u # t => op'[u] = op[u]
  BY Zenon, <1>1 DEF Moves, TypeOK
<1>4. Settled(d) /\ ~token[d]
  BY Zenon, <1>2, <1>3 DEF Settled, Threads
<1>5. ASSUME op'[t].pc \in {"insert", "notify_dequeue"}
      PROVE  \E u \in Threads : WakesDequeuer(u, d)'
  BY Zenon, <1>5 DEF WakesDequeuer
<1>6. ASSUME Dequeuable, op[t].pc \notin {"insert", "notify_dequeue"},
             dequeuer_call[t].pc = "out"
      PROVE  \E u \in Threads : WakesDequeuer(u, d)'
  <2>1. ~WakesDequeuer(t, d)
    BY Zenon, <1>6 DEF WakesDequeuer, Delivers
  <2> QED
    BY Zenon, <1>2, <1>3, <1>4, <1>6, <2>1, DequeuerStillOwed
<1>7. ASSUME UNCHANGED queue PROVE Dequeuable
  BY Zenon, <1>7 DEF Dequeuable
<1>8. CASE CallStep(t)
  BY Zenon, <1>6, <1>7, <1>8, CallEffect
<1>9. CASE TryEnqueue(t)
  BY Zenon, <1>5, <1>6, <1>7, <1>9, TryEnqueueEffect
<1>10. CASE Compare(t)
  BY Zenon, <1>6, <1>7, <1>10, CompareEffect
<1>11. CASE Insert(t)
  BY Zenon, <1>5, <1>11, InsertEffect
<1>12. CASE Expire(t)
  BY Zenon, <1>6, <1>7, <1>12, ExpireEffect
<1>13. CASE Cancel(t)
  BY Zenon, <1>6, <1>7, <1>13, CancelEffect
<1>14. CASE Close(t)
  BY Zenon, <1>5, <1>14, CloseEffect
<1>15. CASE Reopen(t)
  <2>1. Dequeuable /\ UNCHANGED op
    BY Zenon, <1>15, ReopenEffect DEF Dequeuable
  <2> QED
    BY Zenon, <1>2, <1>4, <2>1, DequeuerStillOwed DEF WakesDequeuer, Delivers
<1> QED
  BY Zenon, <1>8, <1>9, <1>10, <1>11, <1>12, <1>13, <1>14, <1>15 DEF QuietStep

\* The steps of the dequeuer: it settles only after it found nothing.
LEMMA DequeuerOwedByItself ==
    ASSUME OneAtATime, TypeOK, Control, Turns, SwapsOnce, DequeuerIsOwed,
           NEW t \in Dequeuers,
           \/ QuietStep(t) \/ RegisterDequeuer(t) \/ NotifyEnqueue(t)
           \/ Resume(t),
           NEW d \in Dequeuers, Settled(d)', ~token'[d], Dequeuable'
    PROVE  \E u \in Threads : WakesDequeuer(u, d)'
<1> USE DEF At
<1>0. /\ t \in Threads /\ t \notin Enqueuers /\ t \notin Closers
      /\ FirstPc(t) = "lock" /\ queue \in QueueType
  BY Zenon, Kinds DEF Threads, FirstPc, TypeOK
<1>1. /\ Moves(t) /\ \A u \in Threads : u # t => op'[u] = op[u]
  BY Zenon, DequeuerMoves DEF Moves, TypeOK
<1>2. d = t
  BY Zenon, DequeuerMoves DEF Settled
<1>3. ASSUME op'[t].pc \notin {"wait", "unlock"} PROVE FALSE
  BY Zenon, <1>2, <1>3 DEF Settled
<1>4. Idle.pc = "idle"
  BY Zenon DEF Idle
<1>5. CASE CallStep(t)
  BY Zenon, <1>0, <1>3, <1>5, CallEffect
<1>6. CASE Lock(t)
  BY Zenon, <1>0, <1>3, <1>4, <1>6, LockEffect
<1>7. CASE Swap(t)
  <2>1. /\ UNCHANGED queue /\ queue.used = 0
        /\ queue.closed => op'[t].result = "Closed"
        /\ op'[t].pc = "unlock" /\ op[t].pc = "swap"
    BY Zenon, <1>0, <1>3, <1>7, SwapEffect
  <2>2. queue.due = 0
    BY Zenon, <2>1 DEF SwapsOnce
  <2>3. ~queue.closed
    BY Zenon, <1>2, <2>1 DEF Settled
  <2> QED
    BY <1>0, <2>1, <2>2, <2>3 DEF Dequeuable
<1>8. CASE Publish(t)
  BY Zenon, <1>0, <1>3, <1>8, PublishEffect
<1>9. CASE Spin(t)
  <2>1. Ongoing
    BY Zenon, <1>0, <1>3, <1>9, SpinEffect
  <2>2. PICK e \in Enqueuers : op[e].pc = "insert"
    BY Zenon, <2>1 DEF Ongoing
  <2>3. e \in Threads /\ e # t
    BY Zenon, <1>0 DEF Threads
  <2> QED
    BY Zenon, <1>1, <2>2, <2>3 DEF WakesDequeuer
<1>10. CASE Unlock(t)
  <2>1. /\ op[t].pc = "unlock" /\ op[t].result # "Closed"
        /\ op[t].phase = "recheck" /\ SameRoom /\ queue'.due = queue.due
        /\ UNCHANGED notify_vars /\ dequeuer_call[t].pc = "out"
    BY Zenon, <1>0, <1>3, <1>4, <1>10, UnlockEffect
  <2>2. Settled(t) /\ ~token[t] /\ Dequeuable
    BY Zenon, <1>2, <2>1 DEF Settled, Dequeuable, SameRoom, notify_vars
  <2>3. ~WakesDequeuer(t, t)
    BY Zenon, <2>1 DEF WakesDequeuer, Delivers
  <2> QED
    BY Zenon, <1>0, <1>1, <1>2, <2>1, <2>2, <2>3, DequeuerStillOwed
       DEF notify_vars, dequeuer_vars
<1>11. CASE Release(t)
  BY Zenon, <1>0, <1>3, <1>4, <1>11, ReleaseEffect
<1>12. CASE \E left \in 1..queue.due : Requeue(t, left)
  BY Zenon, <1>0, <1>3, <1>4, <1>12, RequeueEffect
<1>13. CASE Expire(t)
  BY Zenon, <1>0, <1>3, <1>13, ExpireEffect
<1>14. CASE Cancel(t)
  BY Zenon, <1>0, <1>3, <1>4, <1>14, CancelEffect
<1>15. CASE RegisterDequeuer(t)
  BY Zenon, <1>0, <1>3, <1>15, RegisterDequeuerEffect
<1>16. CASE NotifyEnqueue(t)
  <2>1. /\ op'[t].pc = "unlock" /\ queue.due = 0
        /\ op[t].pc = "notify_enqueue" /\ op'[t].phase = op[t].phase
    BY Zenon, <1>0, <1>3, <1>16, NotifyEnqueueEffect
  <2>2. op[t].phase = "recheck"
    BY Zenon, <1>2, <2>1 DEF Settled
  <2> QED
    BY <1>0, <2>1, <2>2 DEF SwapsOnce
<1>17. CASE Resume(t)
  BY Zenon, <1>0, <1>3, <1>17, ResumeEffect
<1> QED
  BY Zenon, <1>0, <1>5, <1>6, <1>7, <1>8, <1>9, <1>10, <1>11, <1>12, <1>13,
     <1>14,
     <1>15, <1>16, <1>17 DEF QuietStep

\* A notification: if the slot is not free, somebody is about to take the
\* waker, or the dequeuer is still registering and has not settled.
LEMMA DequeuerOwedByNotify ==
    ASSUME TypeOK, Turns, SlotInv, NEW t \in Threads, t \notin Dequeuers,
           NotifyDequeue(t), NEW d \in Dequeuers, Settled(d)'
    PROVE  \E u \in Threads : WakesDequeuer(u, d)'
<1> USE DEF dequeuer!WAITING, dequeuer!WAKING, dequeuer!In
<1>0. WakerTypes /\ dequeuer_call[t].pc = "out"
  BY Zenon DEF TypeOK, NotifyDequeue, At
<1>1. op'[d] = op[d]
  BY Zenon, NotifyDequeueEffect DEF Moves, TypeOK, Threads
<1>2. CASE state = {}
  <2>1. dequeuer_call'[t].pc = "take"
    BY Zenon, <1>0, <1>2 DEF NotifyDequeue, dequeuer!Wake, WakerTypes
  <2> QED
    BY Zenon, <2>1 DEF WakesDequeuer
<1>3. CASE state = {"WAKING"}
  <2>1. PICK u \in Threads : dequeuer_call[u].pc = "take"
    BY Zenon, <1>3 DEF SlotInv, SlotBits
  <2>2. dequeuer_call' = dequeuer_call
    BY Zenon, <1>3, Bits DEF NotifyDequeue, dequeuer!Wake
  <2> QED
    BY Zenon, <2>1, <2>2 DEF WakesDequeuer
<1>4. CASE state \in {{"REGISTERING"}, {"REGISTERING", "WAKING"}}
  <2>1. PICK r \in Dequeuers : Registering(r)
    BY Zenon, <1>4 DEF SlotInv, SlotBits
  <2>2. op[r].pc = "lock"
    BY Zenon, <2>1 DEF SlotInv, SlotRoles, Registering
  <2> QED
    BY Zenon, <1>1, <2>2 DEF Turns, Settled
<1> QED
  BY Zenon, <1>0, <1>2, <1>3, <1>4 DEF WakerTypes

\* The steps of the wakers.
LEMMA DequeuerOwedByWakers ==
    ASSUME TypeOK, Control, SlotInv, DequeuerIsReachable, DequeuerIsOwed,
           NEW t \in Threads, WakerStep(t), NEW d \in Dequeuers,
           Settled(d)', ~token'[d], Dequeuable'
    PROVE  \E u \in Threads : WakesDequeuer(u, d)'
<1> USE DEF dequeuer!In, dequeuer!NotCalling
<1>1. /\ UNCHANGED <<queue, op>> /\ Settled(d) /\ Dequeuable /\ d \in Threads
      /\ WakerTypes
  BY Zenon DEF WakerStep, Settled, Dequeuable, TypeOK, Threads
<1>2. ~token[d]
  BY Zenon, <1>1, TokensAreKept, ListKeepsTokens DEF WakerStep
<1>3. op[d].phase = "recheck" /\ dequeuer_call[d].pc = "out"
  BY Zenon, <1>1 DEF Settled, Control, DequeuerControl, SlotInv, SlotRoles
<1>4. ASSUME \A u \in Threads : u # t => dequeuer_call'[u] = dequeuer_call[u],
             WakesDequeuer(t, d) => WakesDequeuer(t, d)'
      PROVE  \E u \in Threads : WakesDequeuer(u, d)'
  BY Zenon, <1>1, <1>2, <1>4, DequeuerStillOwed
<1>5. CASE enqueuers!Step(t) /\ UNCHANGED dequeuer_vars
  BY Zenon, <1>1, <1>4, <1>5 DEF dequeuer_vars, WakesDequeuer, Delivers
<1>6. CASE dequeuer!StoreWaker(t) \/ dequeuer!TakeBack(t)
  <2>1. /\ dequeuer_call[t].pc \in {"store", "take_back"}
        /\ \A u \in Threads : u # t => dequeuer_call'[u] = dequeuer_call[u]
    BY Zenon, <1>1, <1>6 DEF dequeuer!StoreWaker, dequeuer!TakeBack, WakerTypes
  <2> QED
    BY Zenon, <1>1, <1>4, <2>1 DEF WakesDequeuer, Delivers
<1>7. CASE dequeuer!Take(t)
  <2>1. /\ dequeuer_call[t].pc = "take" /\ dequeuer_call'[t].pc = "deliver"
        /\ dequeuer_call'[t].taken = waker
        /\ \A u \in Threads : u # t => dequeuer_call'[u] = dequeuer_call[u]
    BY Zenon, <1>1, <1>7 DEF dequeuer!Take, WakerTypes
  <2>2. CASE waker = d
    BY Zenon, <2>1, <2>2 DEF WakesDequeuer, Delivers
  <2>3. CASE \E u \in Threads : Delivers(u, d)
    BY Zenon, <2>1, <2>3 DEF WakesDequeuer, Delivers
  <2> QED
    BY Zenon, <1>2, <1>3, <2>2, <2>3 DEF DequeuerIsReachable
<1>8. CASE dequeuer!Deliver(t)
  <2>1. /\ dequeuer_call[t].pc = "deliver"
        /\ \A u \in Threads : u # t => dequeuer_call'[u] = dequeuer_call[u]
        /\ token' = dequeuer!Woken(dequeuer_call[t].taken)
    BY Zenon, <1>1, <1>8 DEF dequeuer!Deliver, WakerTypes
  <2>2. dequeuer_call[t].taken # d
    BY Zenon, <1>1, <2>1 DEF dequeuer!Woken
  <2> QED
    BY Zenon, <1>1, <1>4, <2>1, <2>2 DEF WakesDequeuer, Delivers
<1> QED
  BY Zenon, <1>5, <1>6, <1>7, <1>8 DEF WakerStep, dequeuer!Step

\* Every step keeps the wake-up of a settled dequeuer on its way.
LEMMA DequeuerOwedStep ==
    ASSUME OneAtATime, TypeOK, Control, Turns, SwapsOnce, SlotInv,
           DequeuerIsReachable, DequeuerIsOwed, [Next]_vars
    PROVE  DequeuerIsOwed'
<1> SUFFICES ASSUME NEW d \in Dequeuers,
                    Settled(d)', ~token'[d], Dequeuable'
             PROVE  \E u \in Threads : WakesDequeuer(u, d)'
  BY Zenon DEF DequeuerIsOwed
<1>1. CASE UNCHANGED vars
  <2>1. Settled(d) /\ ~token[d] /\ Dequeuable
    BY Zenon, <1>1 DEF vars, notify_vars, Settled, Dequeuable
  <2> QED
    BY Zenon, <1>1, <2>1 DEF vars, notify_vars, dequeuer_vars, DequeuerIsOwed,
       WakesDequeuer, Delivers
<1>2. CASE Next
  <2>1. PICK t \in Threads :
              \/ QuietStep(t)
              \/ t \in Enqueuers /\ RegisterEnqueuer(t)
              \/ t \in Dequeuers /\ RegisterDequeuer(t)
              \/ t \in Enqueuers \cup Closers /\ NotifyDequeue(t)
              \/ t \in Dequeuers \cup Closers /\ NotifyEnqueue(t)
              \/ t \in Enqueuers \cup Dequeuers /\ Resume(t)
              \/ WakerStep(t)
    BY Zenon, <1>2, NextCases
  <2>2. CASE WakerStep(t)
    BY Zenon, <2>2, DequeuerOwedByWakers
  <2>3. CASE t \in Dequeuers /\ ~WakerStep(t)
    BY Zenon, <2>1, <2>3, DequeuerOwedByItself, Kinds
  <2>4. CASE t \notin Dequeuers /\ QuietStep(t)
    BY Zenon, <2>4, DequeuerOwedByOthers
  <2>5. CASE t \notin Dequeuers /\ NotifyDequeue(t)
    BY Zenon, <2>5, DequeuerOwedByNotify
  <2>6. ASSUME t \notin Dequeuers, Moves(t), UNCHANGED queue,
               UNCHANGED dequeuer_call, token'[d] = token[d],
               op[t].pc \notin {"insert", "notify_dequeue"},
               dequeuer_call[t].pc = "out"
        PROVE  \E u \in Threads : WakesDequeuer(u, d)'
    <3>1. \A u \in Threads : u # t => op'[u] = op[u]
      BY Zenon, <2>6 DEF Moves, TypeOK
    <3>2. Settled(d) /\ ~token[d] /\ Dequeuable
      BY Zenon, <2>6, <3>1 DEF Settled, Dequeuable, Threads
    <3>3. ~WakesDequeuer(t, d)
      BY Zenon, <2>6 DEF WakesDequeuer, Delivers
    <3> QED
      BY Zenon, <2>6, <3>1, <3>2, <3>3, DequeuerStillOwed
  <2>7. CASE t \in Enqueuers /\ RegisterEnqueuer(t)
    BY Zenon, <2>6, <2>7, RegisterEnqueuerEffect, Kinds
       DEF RegisterEnqueuer, enqueuers!LockToRegister, At, dequeuer_vars
  <2>8. CASE t \in Closers /\ NotifyEnqueue(t)
    <3>1. UNCHANGED token
      BY Zenon, <2>8 DEF NotifyEnqueue, enqueuers!Wake
    <3> QED
      BY Zenon, <2>6, <2>8, <3>1, NotifyEnqueueEffect, Kinds
         DEF At, dequeuer_vars
  <2>9. CASE t \in Enqueuers /\ Resume(t)
    <3>1. d # t /\ t \notin Dequeuers
      BY Zenon, <2>9, Kinds
    <3>2. token'[d] = token[d]
      <4>1. token' = [token EXCEPT ![t] = FALSE]
        BY Zenon, <2>9, ResumeEffect
      <4>2. d \in Threads /\ token \in [Threads -> BOOLEAN]
        BY Zenon DEF TypeOK, WakerTypes, Threads
      <4> QED
        BY Zenon, <3>1, <4>1, <4>2
    <3> QED
      BY Zenon, <2>6, <2>9, <3>1, <3>2, ResumeEffect DEF At, dequeuer_vars
  <2> QED
    BY Zenon, <2>1, <2>2, <2>3, <2>4, <2>5, <2>7, <2>8, <2>9, Kinds
<1> QED
  BY Zenon, <1>1, <1>2

\* Initially nobody is inside an operation.
LEMMA InitDequeuers ==
    Init => Turns /\ SwapsOnce /\ DequeuerIsReachable /\ DequeuerIsOwed
  BY DEF Init, Idle, Turns, SwapsOnce, DequeuerIsReachable, DequeuerIsOwed,
     Settled, Threads

(***************************************************************************)
(* The whole invariant.                                                    *)
(***************************************************************************)

\* Initially there is nothing to wake.
LEMMA InitWait == Init => WaitInv
  BY Zenon, InitTypes, InitControl, InitSlot, InitList, InitEnqueuerOwed,
     InitDequeuers DEF WaitInv, SlotInv, ListInv

\* Every step of every thread preserves the invariant of the waits.
LEMMA WaitStep == WaitInv /\ [Next]_vars => WaitInv'
<1> SUFFICES ASSUME WaitInv, [Next]_vars PROVE WaitInv'
  BY Zenon
<1>1. TypeOK /\ Control /\ SlotInv /\ ListInv /\ EnqueuerIsOwed
  BY Zenon DEF WaitInv, SlotInv, ListInv
<1>2. /\ TypeOK' /\ Control' /\ SlotInv' /\ ListInv' /\ EnqueuerIsOwed'
  BY Zenon, <1>1, TypeStep, ControlStep, SlotKept, ListKept, EnqueuerOwedKept
<1>3. ASSUME OneAtATime
      PROVE  Turns' /\ SwapsOnce' /\ DequeuerIsReachable' /\ DequeuerIsOwed'
  <2>1. Turns /\ SwapsOnce /\ DequeuerIsReachable /\ DequeuerIsOwed
    BY Zenon, <1>3 DEF WaitInv
  <2> QED
    BY Zenon, <1>1, <1>3, <2>1, TurnsKept, SwapsOnceKept, ReachableStep,
       DequeuerOwedStep
<1> QED
  BY Zenon, <1>2, <1>3 DEF WaitInv, SlotInv, ListInv

\* The invariant of the waits: from the first look at the queue to the park of
\* enqueue_sync, enqueue_async, dequeue_sync and dequeue_async, whoever goes to
\* sleep is known to somebody who is going to wake it, for any number of
\* enqueuers, dequeuers and closers.
THEOREM WaitSafety == Spec => []WaitInv
  BY InitWait, WaitStep, PTL DEF Spec

\* When dequeuers take turns, a dequeuer that sleeps while it could dequeue, or
\* while the queue is closed, is about to be woken: dequeue_sync, dequeue_async
\* and SynchronizedNotifier::notify_dequeue lose no wake-up between the last
\* look at the queue and the park.
THEOREM DequeuersAreOwed ==
    ASSUME OneAtATime
    PROVE  Spec => []SleepingDequeuerIsOwedAWake
<1>1. WaitInv => SleepingDequeuerIsOwedAWake
  BY Zenon DEF WaitInv, DequeuerIsOwed, SleepingDequeuerIsOwedAWake, Settled,
     WakesDequeuer, Delivers
<1> QED
  BY <1>1, WaitSafety, PTL
=============================================================================
