--------------------- MODULE SynchronizedQueueInvariant ---------------------
(***************************************************************************)
(* The inductive invariants of SynchronizedQueue, from which               *)
(* SynchronizedQueueProofs proves its safety properties for any number of  *)
(* enqueuers, dequeuers and closers.                                       *)
(***************************************************************************)
EXTENDS SynchronizedQueue

EnqueuerPc == {"idle", "try", "compare", "register", "insert",
               "notify_dequeue", "wait"}
DequeuerPc == {"idle", "lock", "swap", "publish", "notify_enqueue", "spin",
               "unlock", "register", "slice", "wait"}
CloserPc == {"idle", "notify_dequeue", "notify_enqueue"}

Pc == {"idle", "try", "compare", "register", "insert", "notify_dequeue",
       "wait", "lock", "swap", "publish", "notify_enqueue", "spin", "unlock",
       "slice"}
Mode == {"none", "sync", "timed", "async", "try", "iter", "stream", "resize"}
Phase == {"none", "spin", "recheck", "last"}
Result == {"none", "Empty", "Closed", "Pending"}

OpType == [pc : Pc, mode : Mode, phase : Phase, spins : Nat, size : Nat,
           buffer : {0, 1}, result : Result]
QueueType == [closed : BOOLEAN, index : {0, 1}, used : Nat, due : Nat,
              locked : BOOLEAN, capacity : [{0, 1} -> Nat], published : Nat]

\* The types of the variables of the wakers.
WakerTypes ==
    /\ state \in {{}, {"REGISTERING"}, {"WAKING"}, {"REGISTERING", "WAKING"}}
    /\ waker \in Threads \cup {Nobody}
    /\ dequeuer_call \in
          [Threads -> [pc : {"out", "store", "take_back", "take", "deliver"},
                       taken : Threads \cup {Nobody}]]
    /\ wakers \in SUBSET Threads
    /\ non_empty \in BOOLEAN
    /\ mutex \in Threads \cup {Nobody}
    /\ enqueuers_call \in [Threads -> {"out", "push", "lock", "drain"}]
    /\ token \in [Threads -> BOOLEAN]

\* The words of the queue, the operations and the wakers have their types.
TypeOK ==
    /\ queue \in QueueType
    /\ op \in [Threads -> OpType]
    /\ WakerTypes

\* Who can be where, and what is known there.
EnqueuerControl(e) ==
    /\ op[e].pc \in EnqueuerPc
    /\ op[e].pc = "wait" => op[e].phase = "recheck"
DequeuerControl(d) ==
    /\ op[d].pc \in DequeuerPc
    /\ op[d].pc = "idle" => op[d].phase = "none"
    /\ op[d].pc = "wait" => op[d].phase = "recheck"
    /\ op[d].pc = "register" => op[d].phase # "last"
    /\ op[d].mode = "resize" => op[d].phase = "last"
    /\ op[d].mode \in {"sync", "async", "iter", "stream"} =>
          op[d].phase # "last"
    /\ op[d].result \in {"Empty", "Pending"} => op[d].pc = "unlock"
Control ==
    /\ \A e \in Enqueuers : EnqueuerControl(e)
    /\ \A d \in Dequeuers : DequeuerControl(d)
    /\ \A c \in Closers : op[c].pc \in CloserPc

-----------------------------------------------------------------------------
(* The AtomicWaker.                                                        *)

\* Who is where in its code.
SlotRoles ==
    /\ \A d \in Dequeuers :
          /\ dequeuer_call[d].pc # "take"
          /\ dequeuer_call[d].pc # "out" =>
                op[d].pc = "lock" /\ op[d].phase = "recheck"
          /\ dequeuer_call[d].pc = "deliver" => dequeuer_call[d].taken = d
    /\ \A t \in Threads \ Dequeuers :
          dequeuer_call[t].pc \in {"out", "take", "deliver"}

Registering(t) == dequeuer_call[t].pc \in {"store", "take_back"}

\* The bits of the state say who is accessing the slot.
SlotBits ==
    /\ \A t \in Threads :
          /\ dequeuer_call[t].pc = "store" =>
                state \in {{"REGISTERING"}, {"REGISTERING", "WAKING"}}
          /\ dequeuer_call[t].pc = "take_back" =>
                state = {"REGISTERING", "WAKING"} /\ waker = t
          /\ dequeuer_call[t].pc = "take" => state = {"WAKING"}
    /\ \A t, u \in Threads : Registering(t) /\ Registering(u) => t = u
    /\ \A t, u \in Threads :
          dequeuer_call[t].pc = "take" /\ dequeuer_call[u].pc = "take" => t = u
    /\ state \in {{"REGISTERING"}, {"REGISTERING", "WAKING"}} =>
          \E d \in Dequeuers : Registering(d)
    /\ state = {"WAKING"} => \E t \in Threads : dequeuer_call[t].pc = "take"

-----------------------------------------------------------------------------
(* The WakerList.                                                          *)

\* Who is where in its code.
ListRoles ==
    /\ \A e \in Enqueuers :
          enqueuers_call[e] # "out" =>
              /\ enqueuers_call[e] = "push"
              /\ op[e].pc = "try" /\ op[e].phase = "recheck"
    /\ \A t \in Threads \ Enqueuers : enqueuers_call[t] # "push"
    /\ \A t \in Threads : enqueuers_call[t] \in {"push", "drain"} <=> mutex = t

\* Somebody lowered the flag and is still to empty the vector.
Draining == \E t \in Threads : enqueuers_call[t] \in {"lock", "drain"}

ListFlag ==
    /\ wakers # {} => non_empty \/ Draining
    /\ \A e \in Enqueuers : enqueuers_call[e] = "push" => non_empty \/ Draining

\* An enqueuer that has registered can be woken, or has been.
EnqueuerIsReachable ==
    \A e \in Enqueuers :
        op[e].phase = "recheck" /\ enqueuers_call[e] = "out" =>
            e \in wakers \/ token[e]

\* A wake-up of the enqueuers is on its way.
WakesEnqueuers(t) ==
    \/ op[t].pc \in {"publish", "notify_enqueue"}
    \/ op[t].pc = "notify_dequeue" /\ t \in Closers
    \/ enqueuers_call[t] \in {"lock", "drain"}

\* The enqueuer would not have to wait: before it reads the capacity, and
\* after.
CouldEnqueue(e) ==
    \/ /\ op[e].pc = "wait"
       /\ queue.closed \/ Fits(e) \/ op[e].size > queue.published
    \/ /\ op[e].pc = "compare" /\ op[e].phase = "recheck"
       /\ queue.closed \/ Fits(e)
EnqueuerIsOwed ==
    \A e \in Enqueuers :
        CouldEnqueue(e) /\ ~token[e] => \E t \in Threads : WakesEnqueuers(t)

-----------------------------------------------------------------------------
(* The dequeuers, when they take turns.                                    *)

Turns ==
    \A c, d \in Dequeuers : op[c].pc # "idle" /\ op[d].pc # "idle" => c = d

\* Nothing is due when the buffers are swapped, and afterwards what was
\* swapped out is due, unless the swap is for a resize.
SwapsOnce ==
    \A d \in Dequeuers :
        /\ op[d].pc = "swap" => queue.due = 0
        /\ op[d].pc \in {"publish", "notify_enqueue"} /\ op[d].phase # "last"
              => queue.due > 0

\* A dequeuer that has registered can be woken, or has been.
Delivers(t, d) ==
    dequeuer_call[t].pc = "deliver" /\ dequeuer_call[t].taken = d
DequeuerIsReachable ==
    \A d \in Dequeuers :
        op[d].phase = "recheck" /\ dequeuer_call[d].pc = "out" =>
            waker = d \/ token[d] \/ \E t \in Threads : Delivers(t, d)

\* A wake-up of dequeuer d is on its way.
WakesDequeuer(t, d) ==
    \/ op[t].pc \in {"insert", "notify_dequeue"}
    \/ dequeuer_call[t].pc = "take"
    \/ Delivers(t, d)

\* The dequeuer has decided to sleep.
Settled(d) ==
    \/ op[d].pc = "wait"
    \/ op[d].pc = "unlock" /\ op[d].phase = "recheck" /\ op[d].result # "Closed"
DequeuerIsOwed ==
    \A d \in Dequeuers :
        Settled(d) /\ ~token[d] /\ Dequeuable =>
            \E t \in Threads : WakesDequeuer(t, d)

-----------------------------------------------------------------------------
\* No wake-up is lost on its way: whoever has registered and is going to sleep
\* stands in the slot or the vector, has its token, or is named by a wake-up
\* being delivered, and the bits and the flag tell everybody else so.
WaitInv ==
    /\ TypeOK /\ Control
    /\ SlotRoles /\ SlotBits
    /\ ListRoles /\ ListFlag /\ EnqueuerIsReachable /\ EnqueuerIsOwed
    /\ OneAtATime => /\ Turns /\ SwapsOnce
                     /\ DequeuerIsReachable /\ DequeuerIsOwed
=============================================================================
