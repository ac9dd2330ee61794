----------------------------- MODULE QueueDrop -----------------------------
(***************************************************************************)
(* Drop for Queue (the end of src/src/queue.rs): once nobody is in a call  *)
(* and no handle is left, one more try_dequeue is made, by one of the      *)
(* consumers here, and its slice is released at once.  What is in no slice *)
(* then is never dropped: cells are MaybeUninit.                           *)
(***************************************************************************)
EXTENDS Queue

VARIABLES
    stage,       \* "alive", "drop" (inside Queue::drop), "gone"
    requeued     \* was a length due when drop was called?

drop_vars == <<vars, stage, requeued>>

InitDrop == Init /\ stage = "alive" /\ requeued = FALSE

Panicked ==
    \/ \E p \in Producers : producer[p].pc = "panicked"
    \/ \E c \in Consumers : consumer[c].pc = "panicked"

\* Nobody borrows the queue: every call has returned or unwound.
Unborrowed ==
    /\ \A p \in Producers : producer[p].pc \in {"idle", "panicked"}
    /\ \A c \in Consumers : consumer[c].pc \in {"idle", "panicked"}

Use ==
    /\ stage = "alive"
    /\ Next
    /\ UNCHANGED <<stage, requeued>>

\* drop calls lock_dequeuing, and ignores a Conflict.
Drop(c) ==
    /\ stage = "alive" /\ Unborrowed
    /\ LockDequeuing(c, "load")
    /\ stage' = IF dequeuing_length = DEQUEUING_LOCKED THEN "gone" ELSE "drop"
    /\ requeued' = (dequeuing_length # DEQUEUING_LOCKED
                      /\ dequeuing_length.length > 0)

\* ... and try_dequeue_internal, whose slice is dropped.
DropStep(c) ==
    /\ stage = "drop"
    /\ \/ LoadEnqueuing(c) \/ SwapBuffers(c) \/ PublishCapacity(c)
       \/ TakeSlice(c) \/ GiveUpSpinning(c) \/ Release(c)
    /\ UNCHANGED <<stage, requeued>>

DropDone(c) ==
    /\ stage = "drop"
    /\ StoreDequeuing(c)
    /\ stage' = "gone"
    /\ UNCHANGED requeued

NextDrop ==
    \/ Use
    \/ \E c \in Consumers : Drop(c) \/ DropStep(c) \/ DropDone(c)

SpecDrop == InitDrop /\ [][NextDrop]_drop_vars

-----------------------------------------------------------------------------
\* No cell of the enqueuing buffer is reserved.
Untouched ==
    enqueuing_capacity.remaining = buf_capacity[enqueuing_capacity.index]

\* The dequeue made by drop: it was given no closure, it finds every cell
\* acknowledged and so ends with nothing due, and unless it had an old length
\* to finish it has swapped the buffers, or seen that it needed not.
Dropping(c) ==
    /\ stage = "drop"
    /\ consumer[c].pc \in {"load", "swap", "notify", "spin", "slice", "store"}
    /\ consumer[c].pc \in {"load", "swap", "notify"} => consumer[c].inserted = 0
    /\ consumer[c].pc = "store" => consumer[c].length = 0
    /\ ~requeued /\ consumer[c].pc \notin {"load", "swap"} => Untouched

\* What the destructor of queue.rs relies on once it has begun: producers
\* have left, and the one dequeue it makes runs to the end.
DropInv ==
    /\ stage # "alive" =>
          \A p \in Producers : producer[p].pc \in {"idle", "panicked"}
    /\ stage # "alive" /\ ~Panicked =>
          \A c \in Consumers : consumer[c].pc # "idle" => Dropping(c)
    /\ stage = "gone" /\ ~Panicked =>
          /\ dequeuing_length # DEQUEUING_LOCKED
          /\ dequeuing_length.length = 0
          /\ ~requeued => Untouched

\* The destructor drops every value the queue still holds when no call
\* unwound and nothing was due: one dequeue is then enough, whatever requeues,
\* closes and resizes came before.  With a requeued or pending length it drops
\* the values due; those enqueued in the other buffer are leaked.
DropFreesOneBuffer ==
    stage = "gone" /\ ~Panicked =>
        /\ cells[dequeuing_length.index] = NewCells
        /\ ~requeued => \A b \in Buffer : cells[b] = NewCells
=============================================================================
