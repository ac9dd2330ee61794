---------------------------- MODULE AtomicWaker ----------------------------
(***************************************************************************)
(* The single waker slot of the dequeuing side                             *)
(* (src/src/synchronized/atomic_waker.rs): its register and wake, one      *)
(* action per atomic access together with the accesses to the slot that    *)
(* lead to it.  A waker is named by the thread or task it wakes            *)
(* (src/src/synchronized/waker.rs); waking sets that thread's token, which *)
(* is what unpark and a task's scheduler do.                               *)
(***************************************************************************)
CONSTANTS Threads,   \* the threads and tasks that register or wake
          NoWaker    \* the content of an empty slot

VARIABLES state,  \* the set of bits that are set
          waker,  \* the slot
          call,   \* per thread, its position in a call and the waker it took
          token   \* per thread, has it been woken since it last slept?

waker_vars == <<state, waker, call, token>>

WAITING == {}
REGISTERING == {"REGISTERING"}
WAKING == {"WAKING"}

NotCalling == [pc |-> "out", taken |-> NoWaker]
In(pc, w) == [pc |-> pc, taken |-> w]

Start ==
    /\ state = WAITING
    /\ waker = NoWaker
    /\ call = [t \in Threads |-> NotCalling]
    /\ token = [t \in Threads |-> FALSE]

\* Waker::wake, of an Option<Waker>.
Woken(w) == [t \in Threads |-> token[t] \/ t = w]

-----------------------------------------------------------------------------
\* register: the first compare-and-swap.  A wake-up in progress is answered
\* by waking the caller; with another registration in progress nothing is
\* done.
RegisterIgnoringWake(t) ==
    /\ call[t].pc = "out"
    /\ state' = IF state = WAITING THEN REGISTERING ELSE state
    /\ call' = IF state = WAITING
               THEN [call EXCEPT ![t] = In("store", NoWaker)] ELSE call
    /\ UNCHANGED <<waker, token>>
Register(t) ==
    /\ call[t].pc = "out"
    /\ state' = IF state = WAITING THEN REGISTERING ELSE state
    /\ call' = IF state = WAITING
               THEN [call EXCEPT ![t] = In("store", NoWaker)] ELSE call
    /\ token' = IF state = WAKING THEN Woken(t) ELSE token
    /\ UNCHANGED waker

\* The waker is stored (or the one there kept, if it wakes the same task);
\* then the compare-and-swap back to WAITING, which fails if a wake-up came
\* meanwhile.
StoreWaker(t) ==
    /\ call[t].pc = "store"
    /\ waker' = t
    /\ state' = IF state = REGISTERING THEN WAITING ELSE state
    /\ call' = [call EXCEPT ![t] = IF state = REGISTERING THEN NotCalling
                                   ELSE In("take_back", NoWaker)]
    /\ UNCHANGED token

\* That wake-up is delivered by the registering thread: it takes the waker
\* back and resets the state.
TakeBack(t) ==
    /\ call[t].pc = "take_back"
    /\ call' = [call EXCEPT ![t] = In("deliver", waker)]
    /\ waker' = NoWaker
    /\ state' = WAITING
    /\ UNCHANGED token

\* wake: fetch_or of WAKING.  Only the thread that found WAITING goes on.
WakeRegardless(t) ==
    /\ call[t].pc = "out"
    /\ state' = state \cup WAKING
    /\ call' = IF state \in {WAITING, REGISTERING}
               THEN [call EXCEPT ![t] = In("take", NoWaker)] ELSE call
    /\ UNCHANGED <<waker, token>>
Wake(t) ==
    /\ call[t].pc = "out"
    /\ state' = state \cup WAKING
    /\ call' = IF state = WAITING
               THEN [call EXCEPT ![t] = In("take", NoWaker)] ELSE call
    /\ UNCHANGED <<waker, token>>

\* It takes the waker and clears WAKING (fetch_and) ...
Take(t) ==
    /\ call[t].pc = "take"
    /\ call' = [call EXCEPT ![t] = In("deliver", waker)]
    /\ waker' = NoWaker
    /\ state' = state \ WAKING
    /\ UNCHANGED token

\* ... and wakes whom it names.
Deliver(t) ==
    /\ call[t].pc = "deliver"
    /\ token' = Woken(call[t].taken)
    /\ call' = [call EXCEPT ![t] = NotCalling]
    /\ UNCHANGED <<state, waker>>

Step(t) == StoreWaker(t) \/ TakeBack(t) \/ Take(t) \/ Deliver(t)
=============================================================================
