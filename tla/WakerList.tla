----------------------------- MODULE WakerList -----------------------------
(***************************************************************************)
(* The waker list of the enqueuing side                                    *)
(* (src/src/synchronized/waker_list.rs): a vector of wakers behind a mutex *)
(* and a flag that lets wake skip the mutex when the vector is empty.  A   *)
(* waker is named by the thread or task it wakes; a second registration of *)
(* the same one adds nothing.  Locking the mutex moves right, so that it   *)
(* is one action with the access that follows.                             *)
(***************************************************************************)
CONSTANTS Threads,  \* the threads and tasks that register or wake
          Nobody    \* the holder of a free mutex

VARIABLES wakers,     \* the vector
          non_empty,  \* the flag
          mutex,      \* who holds the mutex
          call,       \* per thread, its position in a call
          token       \* per thread, has it been woken since it last slept?

waker_vars == <<wakers, non_empty, mutex, call, token>>

Start ==
    /\ wakers = {}
    /\ non_empty = FALSE
    /\ mutex = Nobody
    /\ call = [t \in Threads |-> "out"]
    /\ token = [t \in Threads |-> FALSE]

\* register: lock, and raise the flag if the vector is empty; ...
LockWithoutFlag(t) ==
    /\ call[t] = "out" /\ mutex = Nobody
    /\ mutex' = t
    /\ call' = [call EXCEPT ![t] = "push"]
    /\ UNCHANGED <<wakers, non_empty, token>>
LockToRegister(t) ==
    /\ call[t] = "out" /\ mutex = Nobody
    /\ mutex' = t
    /\ non_empty' = (non_empty \/ wakers = {})
    /\ call' = [call EXCEPT ![t] = "push"]
    /\ UNCHANGED <<wakers, token>>

\* ... push, and unlock.
Push(t) ==
    /\ call[t] = "push"
    /\ wakers' = wakers \cup {t}
    /\ mutex' = Nobody
    /\ call' = [call EXCEPT ![t] = "out"]
    /\ UNCHANGED <<non_empty, token>>

\* wake: the load and the compare-and-swap of the flag.  Whoever lowers it
\* wakes everybody.
Wake(t) ==
    /\ call[t] = "out"
    /\ non_empty' = FALSE
    /\ call' = [call EXCEPT ![t] = IF non_empty THEN "lock" ELSE "out"]
    /\ UNCHANGED <<wakers, mutex, token>>

\* wake_all: lock; wake those in the vector one by one; unlock.
LockToWake(t) ==
    /\ call[t] = "lock" /\ mutex = Nobody
    /\ mutex' = t
    /\ call' = [call EXCEPT ![t] = "drain"]
    /\ UNCHANGED <<wakers, non_empty, token>>

WakeOne(t, w) ==
    /\ call[t] = "drain" /\ w \in wakers
    /\ wakers' = wakers \ {w}
    /\ token' = [token EXCEPT ![w] = TRUE]
    /\ UNCHANGED <<non_empty, mutex, call>>

UnlockDrained(t) ==
    /\ call[t] = "drain" /\ wakers = {}
    /\ mutex' = Nobody
    /\ call' = [call EXCEPT ![t] = "out"]
    /\ UNCHANGED <<wakers, non_empty, token>>

Step(t) ==
    \/ Push(t) \/ LockToWake(t) \/ UnlockDrained(t)
    \/ \E w \in Threads : WakeOne(t, w)
=============================================================================
