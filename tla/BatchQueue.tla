----------------------------- MODULE BatchQueue -----------------------------
(***************************************************************************)
(* What the queue promises its users: a closable FIFO queue of elements    *)
(* from which one consumer at a time borrows a batch, the oldest elements  *)
(* in order.  A borrowed batch is still in the queue; it leaves the queue  *)
(* when it is released, or element by element as it is drained, and what   *)
(* is given back stays first in line.                                      *)
(***************************************************************************)
EXTENDS Naturals, Sequences

CONSTANTS Values,  \* what try_enqueue adds, each value contiguously
          Inserts  \* what try_dequeue_and_resize adds

VARIABLES queue,   \* the elements accepted and not yet consumed, oldest first
          closed,
          lent,    \* is a batch borrowed?
          batch    \* the elements of the borrowed batch

vars == <<queue, closed, lent, batch>>

Init == queue = <<>> /\ closed = FALSE /\ lent = FALSE /\ batch = <<>>

Enqueue(value) ==
    /\ ~closed
    /\ queue' = queue \o value
    /\ UNCHANGED <<closed, lent, batch>>

\* Values inserted while resizing, closed or not; several at once.
InsertedElements ==
    UNION {{value[i] : i \in 1..Len(value)} : value \in Inserts}

Insert ==
    /\ ~lent
    /\ Len(queue') > Len(queue)
    /\ SubSeq(queue', 1, Len(queue)) = queue
    /\ \A i \in (Len(queue) + 1)..Len(queue') : queue'[i] \in InsertedElements
    /\ UNCHANGED <<closed, lent, batch>>

Borrow ==
    /\ ~lent
    /\ lent' = TRUE
    /\ \E n \in 1..Len(queue) : batch' = SubSeq(queue, 1, n)
    /\ UNCHANGED <<queue, closed>>

Drain ==
    /\ lent /\ batch # <<>>
    /\ queue' = Tail(queue)
    /\ batch' = Tail(batch)
    /\ UNCHANGED <<closed, lent>>

GiveBack ==
    /\ lent
    /\ lent' = FALSE
    /\ batch' = <<>>
    /\ UNCHANGED <<queue, closed>>

Consume ==
    /\ lent
    /\ queue' = SubSeq(queue, Len(batch) + 1, Len(queue))
    /\ lent' = FALSE
    /\ batch' = <<>>
    /\ UNCHANGED closed

SetClosed == closed' \in BOOLEAN /\ UNCHANGED <<queue, lent, batch>>

Next ==
    \/ SetClosed
    \/ \E value \in Values : Enqueue(value)
    \/ Insert \/ Borrow \/ Drain \/ GiveBack \/ Consume

Spec == Init /\ [][Next]_vars
=============================================================================
