----------------------------- MODULE QueueContent ----------------------------
(***************************************************************************)
(* What a Queue contains: what is due from the dequeuing buffer followed   *)
(* by what is reserved in the enqueuing one, cells still to be written     *)
(* included.                                                               *)
(***************************************************************************)
EXTENDS QueueInvariant

\* The producers that have yet to write cell i of buffer b.
Writers(b, i) ==
    {p \in Producers : /\ producer[p].pc \in {"insert", "panicked"}
                       /\ producer[p].seen.index = b
                       /\ i \in OwedCells(p)}

\* What cell i of buffer b holds, or will hold once its producer has written.
Content(b, i) ==
    IF Writers(b, i) = {} THEN cells[b][i]
    ELSE LET p == CHOOSE p \in Writers(b, i) : TRUE IN
         producer[p].value[i - InsertIndex(p) + 1]

Region(b, start, length) == [i \in 1..length |-> Content(b, start + i - 1)]

\* The elements of a buffer that has been swapped out, of which length are
\* due: all of them, or after a partial drain the last ones.
DueStart(b, length) ==
    IF buffers_length[b] >= length THEN buffers_length[b] - length ELSE 0

DueFrom(b, length) == Region(b, DueStart(b, length), length)

\* What is due while c is past lock_dequeuing.
DueTo(c) ==
    LET t == consumer[c] IN
    CASE t.pc \in {"spin", "store"} -> DueFrom(t.index, t.length)
      [] HasSlice(c) -> Region(t.index, t.start, t.length)
      [] t.pc = "notify" -> DueFrom(t.seen.index, SwappedLength(c))
      [] OTHER -> <<>>

Due ==
    IF dequeuing_length # DEQUEUING_LOCKED
    THEN DueFrom(dequeuing_length.index, dequeuing_length.length)
    ELSE DueTo(CHOOSE c \in Consumers : consumer[c].pc # "idle")

\* What is reserved in the enqueuing buffer.
Enqueued ==
    LET e == enqueuing_capacity IN
    Region(e.index, 0, buf_capacity[e.index] - e.remaining)

AbstractQueue == Due \o Enqueued

Lent == \E c \in Consumers : HasSlice(c)

\* What the holder of the handle reads through it.
Batch ==
    IF ~Lent THEN <<>>
    ELSE LET c == CHOOSE d \in Consumers : HasSlice(d)
             t == consumer[c] IN
         [i \in 1..t.length |-> cells[t.index][t.start + i - 1]]

-----------------------------------------------------------------------------
InsertedElements ==
    UNION {{value[i] : i \in 1..Len(value)} : value \in Inserts}

\* What the resize closure has inserted is there until the swap.
InsertedInv ==
    \A c \in Consumers : consumer[c].pc \in {"insert", "load", "swap"} =>
        \A i \in 0..(consumer[c].inserted - 1) :
            cells[consumer[c].index][i] \in InsertedElements

\* A producer tries to swap only a word that it has found open.
OpenInv ==
    \A p \in Producers : producer[p].pc = "cas" => ~producer[p].seen.closed

\* What the refinement rests on: the invariant of the queue, that the values
\* try_dequeue_and_resize hands over with the swap are those its insertion
\* loop wrote, whatever producers do meanwhile, and that no stale word lets a
\* producer reserve in a closed queue.
BatchInv == IInv /\ InsertedInv /\ OpenInv

\* c decides in this step to return Empty or Closed.
FindsNothing(c) ==
    \/ consumer[c].pc = "load" /\ consumer'[c].pc = "store"
    \/ /\ consumer[c].pc = "swap" /\ consumer'[c].pc = "notify"
       /\ SwappedLength(c) = 0 /\ consumer[c].inserted = 0

\* try_dequeue says Empty or Closed only if there is a moment during the call
\* at which nothing is reserved, pending or requeued in either buffer.
EmptyIsTrue ==
    [][\A c \in Consumers : FindsNothing(c) => AbstractQueue = <<>>]_vars
=============================================================================
