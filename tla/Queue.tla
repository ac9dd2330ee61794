------------------------------- MODULE Queue -------------------------------
(***************************************************************************)
(* The lock-free core of the swap-buffer queue (src/src/queue.rs) together *)
(* with the handles it gives out (BufferSlice and BufferIter of            *)
(* src/src/buffer.rs), over a cell buffer (src/src/buffer/vec.rs).         *)
(*                                                                         *)
(* Two buffers alternate: producers reserve cells of the enqueuing one     *)
(* with a compare-and-swap, write them and acknowledge them in             *)
(* buffers_length; a consumer swaps the buffers, waits until every         *)
(* reserved cell is acknowledged, and then owns the old buffer until its   *)
(* handle is dropped.  One action is one access to a shared atomic (with   *)
(* the thread-local code and the exclusive buffer accesses around it);     *)
(* atomics are sequentially consistent here.  A failed weak                *)
(* compare-and-swap that found the expected word is a stuttering step.     *)
(***************************************************************************)
EXTENDS Words, Sequences, FiniteSets

CONSTANTS
    Producers,    \* threads calling try_enqueue
    Consumers,    \* threads calling try_dequeue / try_dequeue_and_resize
    Element,      \* what one cell of a buffer can hold
    Uninit,       \* the content of a cell with no value in it
    Values,       \* the (non-empty) values producers enqueue
    Inserts,      \* the values try_dequeue_and_resize may insert
    Capacities,   \* the capacities try_dequeue_and_resize may ask for
    InitCapacity, \* the capacity the queue is created with
    MaxCapacity,  \* bound on every capacity (check_overflow in the code)
    CanReopen,    \* may the queue be reopened once closed?
    CanPanic      \* may insert_into of a value panic?

ASSUME QueueAssumption ==
    /\ Uninit \notin Element
    /\ Values \subseteq Seq(Element)
    /\ Inserts \subseteq Seq(Element)
    /\ <<>> \notin Values \cup Inserts
    /\ MaxCapacity \in Nat
    /\ InitCapacity \in 0..MaxCapacity
    /\ Capacities \subseteq 0..MaxCapacity
    /\ CanReopen \in BOOLEAN
    /\ CanPanic \in BOOLEAN

VARIABLES
    enqueuing_capacity, \* the packed word: enqueuing buffer, room left, closed
    dequeuing_length,   \* the packed word: dequeuing buffer, length still due
    buffers_length,     \* per buffer, the number of acknowledged cells
    buf_capacity,       \* per buffer, Buffer::capacity()
    cells,              \* per buffer, the content of its cells
    capacity,           \* Queue::capacity, the published capacity
    producer,           \* per producer, its position in try_enqueue
    consumer            \* per consumer, its position in try_dequeue_internal

vars == <<enqueuing_capacity, dequeuing_length, buffers_length, buf_capacity,
          cells, capacity, producer, consumer>>

buffer_vars == <<buf_capacity, cells>>

Buffer == {0, 1}
Cell == 0..(MaxCapacity - 1)

-----------------------------------------------------------------------------
(* The values the packed words of module Words take.                       *)

EnqueuingWord ==
    [index : Buffer, remaining : 0..MaxCapacity, closed : BOOLEAN]

DequeuingWord == [index : Buffer, length : 0..MaxCapacity]

NoWord == EnqueuingCapacity(0, 0, FALSE)

-----------------------------------------------------------------------------
(* Cell buffers.                                                           *)

\* The first n elements of value, written from cell i on.
InsertInto(content, i, value, n) ==
    [j \in Cell |-> IF j \in i..(i + n - 1) THEN value[j - i + 1]
                                            ELSE content[j]]

\* Buffer::clear and Drain::remove: cells i..i+n-1 hold no value any more.
Erase(content, i, n) ==
    [j \in Cell |-> IF j \in i..(i + n - 1) THEN Uninit ELSE content[j]]

\* A new allocation: VecBuffer::resize, and the buffers of a new queue.
NewCells == [j \in Cell |-> Uninit]

-----------------------------------------------------------------------------
(* Threads.  A producer remembers the word it read (seen) and its value.   *)
(* A consumer remembers the dequeuing buffer and the length due on it      *)
(* (index, length), where the slice it holds starts, the outcome of its    *)
(* resize closure, and the enqueuing word it read (seen).                  *)

IdleProducer == [pc |-> "idle", value |-> <<>>, seen |-> NoWord]

At(pc, index, length) ==
    [pc |-> pc, index |-> index, length |-> length, start |-> 0,
     resized |-> FALSE, inserted |-> 0, seen |-> NoWord]

IdleConsumer == At("idle", 0, 0)

ProducerPc == {"idle", "cas", "insert", "ack", "panicked"}

ConsumerPc == {"idle", "resize", "insert", "load", "swap", "notify", "spin",
               "store", "slice", "iter", "panicked"}

Goto(t, pc) == [t EXCEPT !.pc = pc]

\* Where a producer that has reserved its cells writes them: the index
\* given by subtracting the remaining capacity to the buffer one.
InsertIndexFromEnd(p) == producer[p].seen.remaining - Len(producer[p].value)
InsertIndex(p) ==
    buf_capacity[producer[p].seen.index] - producer[p].seen.remaining

Init ==
    /\ enqueuing_capacity = EnqueuingCapacity(0, InitCapacity, FALSE)
    /\ dequeuing_length = DequeuingLength(1, 0)
    /\ buffers_length = [b \in Buffer |-> 0]
    /\ buf_capacity = [b \in Buffer |-> InitCapacity]
    /\ cells = [b \in Buffer |-> NewCells]
    /\ capacity = InitCapacity
    /\ producer = [p \in Producers |-> IdleProducer]
    /\ consumer = [c \in Consumers |-> IdleConsumer]

-----------------------------------------------------------------------------
(* try_enqueue.                                                            *)

\* What the loop of try_enqueue does with a word it has just read: return
\* Closed or InsufficientCapacity, or go on to the compare-and-swap.
CheckWord(p, value, word) ==
    producer' = [producer EXCEPT ![p] =
                    IF word.closed \/ ~CanReserve(word, Len(value))
                    THEN IdleProducer
                    ELSE [pc |-> "cas", value |-> value, seen |-> word]]

TryEnqueue(p) ==
    /\ producer[p].pc = "idle"
    /\ \E value \in Values : CheckWord(p, value, enqueuing_capacity)
    /\ UNCHANGED <<enqueuing_capacity, dequeuing_length, buffers_length,
                   buffer_vars, capacity, consumer>>

\* The compare-and-swap finds the word unchanged: the cells are reserved.
ReserveCells(p) ==
    /\ producer[p].pc = "cas"
    /\ enqueuing_capacity = producer[p].seen
    /\ enqueuing_capacity' =
           TryReserve(producer[p].seen, Len(producer[p].value))
    /\ producer' = [producer EXCEPT ![p] = Goto(@, "insert")]
    /\ UNCHANGED <<dequeuing_length, buffers_length, buffer_vars, capacity,
                   consumer>>

\* The compare-and-swap fails and yields the current word.
RetryReserve(p) ==
    /\ producer[p].pc = "cas"
    /\ enqueuing_capacity # producer[p].seen
    /\ CheckWord(p, producer[p].value, enqueuing_capacity)
    /\ UNCHANGED <<enqueuing_capacity, dequeuing_length, buffers_length,
                   buffer_vars, capacity, consumer>>

\* Writes the first n elements of p's value in the cells it has reserved.
WriteCells(p, n) ==
    cells' = [cells EXCEPT ![producer[p].seen.index] =
                 InsertInto(@, InsertIndex(p), producer[p].value, n)]

InsertValue(p) ==
    /\ producer[p].pc = "insert"
    /\ WriteCells(p, Len(producer[p].value))
    /\ producer' = [producer EXCEPT ![p] = Goto(@, "ack")]
    /\ UNCHANGED <<enqueuing_capacity, dequeuing_length, buffers_length,
                   buf_capacity, capacity, consumer>>

\* insert_into panics before its last element is written (an iterator that
\* ends before its announced length): the thread unwinds out of try_enqueue
\* and never acknowledges its cells.
InsertPanics(p) ==
    /\ CanPanic
    /\ producer[p].pc = "insert"
    /\ \E n \in 0..(Len(producer[p].value) - 1) : WriteCells(p, n)
    /\ producer' = [producer EXCEPT ![p] = Goto(@, "panicked")]
    /\ UNCHANGED <<enqueuing_capacity, dequeuing_length, buffers_length,
                   buf_capacity, capacity, consumer>>

\* buffers_length.fetch_add, then notify_dequeue and Ok(()).
AcknowledgeOne(p) ==
    /\ producer[p].pc = "ack"
    /\ buffers_length' = [buffers_length EXCEPT ![producer[p].seen.index] =
                             @ + 1]
    /\ producer' = [producer EXCEPT ![p] = IdleProducer]
    /\ UNCHANGED <<enqueuing_capacity, dequeuing_length, buffer_vars, capacity,
                   consumer>>
Acknowledge(p) ==
    /\ producer[p].pc = "ack"
    /\ buffers_length' = [buffers_length EXCEPT ![producer[p].seen.index] =
                             @ + Len(producer[p].value)]
    /\ producer' = [producer EXCEPT ![p] = IdleProducer]
    /\ UNCHANGED <<enqueuing_capacity, dequeuing_length, buffer_vars, capacity,
                   consumer>>

-----------------------------------------------------------------------------
(* try_dequeue_internal and its callers.                                   *)

\* lock_dequeuing: swap the word with the lock.  A Conflict leaves it
\* locked; a length left over by an earlier call is waited for; otherwise
\* the call goes on at pc.
LockDequeuingRegardless(c, pc) ==
    /\ consumer[c].pc = "idle"
    /\ dequeuing_length' = DEQUEUING_LOCKED
    /\ consumer' =
           [consumer EXCEPT ![c] =
               At(IF dequeuing_length.length > 0 THEN "spin" ELSE pc,
                  dequeuing_length.index, dequeuing_length.length)]
    /\ UNCHANGED <<enqueuing_capacity, buffers_length, buffer_vars, capacity,
                   producer>>
LockDequeuingNotPending(c, pc) ==
    /\ consumer[c].pc = "idle"
    /\ dequeuing_length' = DEQUEUING_LOCKED
    /\ consumer' =
           [consumer EXCEPT ![c] =
               IF dequeuing_length = DEQUEUING_LOCKED THEN @
               ELSE At(pc, dequeuing_length.index, 0)]
    /\ UNCHANGED <<enqueuing_capacity, buffers_length, buffer_vars, capacity,
                   producer>>
LockDequeuing(c, pc) ==
    /\ consumer[c].pc = "idle"
    /\ dequeuing_length' = DEQUEUING_LOCKED
    /\ consumer' =
           [consumer EXCEPT ![c] =
               IF dequeuing_length = DEQUEUING_LOCKED THEN @
               ELSE At(IF dequeuing_length.length > 0 THEN "spin" ELSE pc,
                       dequeuing_length.index, dequeuing_length.length)]
    /\ UNCHANGED <<enqueuing_capacity, buffers_length, buffer_vars, capacity,
                   producer>>

TryDequeue(c) == LockDequeuing(c, "load")
TryDequeueAndResize(c) == LockDequeuing(c, "resize")

\* The resize closure: a new capacity (or none, or the one it has).
ResizeBuffer(c) ==
    LET b == consumer[c].index IN
    /\ consumer[c].pc = "resize"
    /\ \E capa \in Capacities \cup {buf_capacity[b]} :
          /\ buf_capacity' = [buf_capacity EXCEPT ![b] = capa]
          /\ cells' = [cells EXCEPT ![b] =
                          IF capa # buf_capacity[b] THEN NewCells ELSE @]
          /\ consumer' = [consumer EXCEPT ![c] =
                             [Goto(@, "insert") EXCEPT
                                 !.resized = (capa # buf_capacity[b])]]
    /\ UNCHANGED <<enqueuing_capacity, dequeuing_length, buffers_length,
                   capacity, producer>>

\* One turn of the closure's insertion loop, with a value that fits.
InsertMore(c) ==
    LET b == consumer[c].index
        n == consumer[c].inserted IN
    /\ consumer[c].pc = "insert"
    /\ \E value \in Inserts :
          /\ n + Len(value) <= buf_capacity[b]
          /\ cells' = [cells EXCEPT ![b] = InsertInto(@, n, value, Len(value))]
          /\ consumer' = [consumer EXCEPT ![c].inserted = n + Len(value)]
    /\ UNCHANGED <<enqueuing_capacity, dequeuing_length, buffers_length,
                   buf_capacity, capacity, producer>>

\* The guard of the loop compares the size of the value with the whole
\* capacity, not with the room left: the write past the last cell panics.  So
\* may the value, or the iterator.  The call unwinds after k elements, with
\* the dequeuing word still locked.
InsertMorePanics(c) ==
    LET b == consumer[c].index
        n == consumer[c].inserted IN
    /\ consumer[c].pc = "insert"
    /\ \E value \in Inserts : \E k \in 0..(Len(value) - 1) :
          /\ Len(value) <= buf_capacity[b]
          /\ n + k = buf_capacity[b] \/ (CanPanic /\ n + k < buf_capacity[b])
          /\ cells' = [cells EXCEPT ![b] = InsertInto(@, n, value, k)]
    /\ consumer' = [consumer EXCEPT ![c] = Goto(@, "panicked")]
    /\ UNCHANGED <<enqueuing_capacity, dequeuing_length, buffers_length,
                   buf_capacity, capacity, producer>>

\* The loop ends, with the iterator or on a value larger than the buffer;
\* what was inserted is acknowledged (fetch_add).
InsertDone(c) ==
    /\ consumer[c].pc = "insert"
    /\ buffers_length' = [buffers_length EXCEPT ![consumer[c].index] =
                             @ + consumer[c].inserted]
    /\ consumer' = [consumer EXCEPT ![c] = Goto(@, "load")]
    /\ UNCHANGED <<enqueuing_capacity, dequeuing_length, buffer_vars, capacity,
                   producer>>

\* Nothing to swap for: the enqueuing buffer is empty, and so is the other.
NothingToDequeueOtherCapacity(c, word) ==
    /\ word.remaining = buf_capacity[consumer[c].index]
    /\ ~consumer[c].resized
    /\ consumer[c].inserted = 0
NothingToDequeue(c, word) ==
    /\ word.remaining = buf_capacity[word.index]
    /\ ~consumer[c].resized
    /\ consumer[c].inserted = 0

\* Reads the enqueuing word, to return Empty or Closed or to swap.
LoadEnqueuing(c) ==
    /\ consumer[c].pc = "load"
    /\ consumer' = [consumer EXCEPT ![c] =
           IF NothingToDequeue(c, enqueuing_capacity)
           THEN At("store", consumer[c].index, 0)
           ELSE [Goto(@, "swap") EXCEPT !.seen = enqueuing_capacity]]
    /\ UNCHANGED <<enqueuing_capacity, dequeuing_length, buffers_length,
                   buffer_vars, capacity, producer>>

\* The compare-and-swap succeeds: the dequeuing buffer becomes the
\* enqueuing one.
SwapBuffersBlindly(c) ==
    /\ consumer[c].pc = "swap"
    /\ LET b == consumer[c].index IN
       enqueuing_capacity' =
           WithClosed(EnqueuingCapacity(b, buf_capacity[b]
                                             - consumer[c].inserted, FALSE),
                      consumer[c].seen)
    /\ consumer' = [consumer EXCEPT ![c] = Goto(@, "notify")]
    /\ UNCHANGED <<dequeuing_length, buffers_length, buffer_vars, capacity,
                   producer>>
SwapBuffersOverInserts(c) ==
    /\ consumer[c].pc = "swap"
    /\ enqueuing_capacity = consumer[c].seen
    /\ LET b == consumer[c].index IN
       enqueuing_capacity' =
           WithClosed(EnqueuingCapacity(b, buf_capacity[b], FALSE),
                      consumer[c].seen)
    /\ consumer' = [consumer EXCEPT ![c] = Goto(@, "notify")]
    /\ UNCHANGED <<dequeuing_length, buffers_length, buffer_vars, capacity,
                   producer>>
SwapBuffers(c) ==
    /\ consumer[c].pc = "swap"
    /\ enqueuing_capacity = consumer[c].seen
    /\ LET b == consumer[c].index IN
       enqueuing_capacity' =
           WithClosed(EnqueuingCapacity(b, buf_capacity[b]
                                             - consumer[c].inserted, FALSE),
                      consumer[c].seen)
    /\ consumer' = [consumer EXCEPT ![c] = Goto(@, "notify")]
    /\ UNCHANGED <<dequeuing_length, buffers_length, buffer_vars, capacity,
                   producer>>

SwapRetry(c) ==
    /\ consumer[c].pc = "swap"
    /\ enqueuing_capacity # consumer[c].seen
    /\ consumer' = [consumer EXCEPT ![c].seen = enqueuing_capacity]
    /\ UNCHANGED <<enqueuing_capacity, dequeuing_length, buffers_length,
                   buffer_vars, capacity, producer>>

\* The length of the buffer the consumer has just swapped out.
SwappedLength(c) ==
    buf_capacity[consumer[c].seen.index] - consumer[c].seen.remaining

\* Publishes the capacity of the new enqueuing buffer, notifies enqueuers,
\* and goes on with the buffer swapped out: wait for its insertions, start
\* again for the values inserted by the closure, or give it back, Empty.
PublishCapacityNever(c) ==
    LET old == consumer[c].seen.index IN
    /\ consumer[c].pc = "notify"
    /\ consumer' = [consumer EXCEPT ![c] =
           CASE SwappedLength(c) > 0 -> At("spin", old, SwappedLength(c))
             [] SwappedLength(c) = 0 /\ consumer[c].inserted > 0 ->
                    At("load", old, 0)
             [] OTHER -> At("store", old, 0)]
    /\ UNCHANGED <<enqueuing_capacity, dequeuing_length, buffers_length,
                   buffer_vars, capacity, producer>>
PublishCapacity(c) ==
    LET old == consumer[c].seen.index IN
    /\ consumer[c].pc = "notify"
    /\ capacity' = buf_capacity[consumer[c].index]
    /\ consumer' = [consumer EXCEPT ![c] =
           CASE SwappedLength(c) > 0 -> At("spin", old, SwappedLength(c))
             [] SwappedLength(c) = 0 /\ consumer[c].inserted > 0 ->
                    At("load", old, 0)
             [] OTHER -> At("store", old, 0)]
    /\ UNCHANGED <<enqueuing_capacity, dequeuing_length, buffers_length,
                   buffer_vars, producer>>

\* try_dequeue_spin reads a length that covers every reserved cell: the
\* slice is the last cells of it.
SpinDoneEarly(c) == buffers_length[consumer[c].index] > 0
SpinDoneStrictly(c) ==
    buffers_length[consumer[c].index] > consumer[c].length
SpinDone(c) == buffers_length[consumer[c].index] >= consumer[c].length

TakeSliceFromStart(c) ==
    /\ consumer[c].pc = "spin"
    /\ SpinDone(c)
    /\ consumer' = [consumer EXCEPT ![c] =
           [Goto(@, "slice") EXCEPT !.start = 0]]
    /\ UNCHANGED <<enqueuing_capacity, dequeuing_length, buffers_length,
                   buffer_vars, capacity, producer>>
TakeSlice(c) ==
    /\ consumer[c].pc = "spin"
    /\ SpinDone(c)
    /\ consumer' = [consumer EXCEPT ![c] =
           [Goto(@, "slice") EXCEPT
               !.start = buffers_length[consumer[c].index]
                             - consumer[c].length]]
    /\ UNCHANGED <<enqueuing_capacity, dequeuing_length, buffers_length,
                   buffer_vars, capacity, producer>>

\* It gives up after SPIN_LIMIT such reads, a number left open here.
GiveUpSpinning(c) ==
    /\ consumer[c].pc = "spin"
    /\ ~SpinDone(c)
    /\ consumer' = [consumer EXCEPT ![c] = Goto(@, "store")]
    /\ UNCHANGED <<enqueuing_capacity, dequeuing_length, buffers_length,
                   buffer_vars, capacity, producer>>

\* The store that ends a call or a release, and unlocks dequeuing.
StoreDequeuing(c) ==
    /\ consumer[c].pc = "store"
    /\ dequeuing_length' =
           DequeuingLength(consumer[c].index, consumer[c].length)
    /\ consumer' = [consumer EXCEPT ![c] = IdleConsumer]
    /\ UNCHANGED <<enqueuing_capacity, buffers_length, buffer_vars, capacity,
                   producer>>

-----------------------------------------------------------------------------
(* The handles: BufferSlice (pc "slice") and BufferIter (pc "iter").       *)

\* release, up to its last store: a slice is dropped, or a handle whose
\* range is exhausted is dropped or requeued.
Release(c) ==
    /\ \/ consumer[c].pc = "slice"
       \/ consumer[c].pc = "iter" /\ consumer[c].length = 0
    /\ cells' = [cells EXCEPT ![consumer[c].index] =
                    Erase(@, consumer[c].start, consumer[c].length)]
    /\ buffers_length' = [buffers_length EXCEPT ![consumer[c].index] = 0]
    /\ consumer' = [consumer EXCEPT ![c] =
                       At("store", consumer[c].index, 0)]
    /\ UNCHANGED <<enqueuing_capacity, dequeuing_length, buf_capacity,
                   capacity, producer>>

\* BufferSlice::requeue, or the drop of a BufferIter, with values left.
Requeue(c) ==
    /\ consumer[c].pc \in {"slice", "iter"}
    /\ consumer[c].length > 0
    /\ dequeuing_length' =
           DequeuingLength(consumer[c].index, consumer[c].length)
    /\ consumer' = [consumer EXCEPT ![c] = IdleConsumer]
    /\ UNCHANGED <<enqueuing_capacity, buffers_length, buffer_vars, capacity,
                   producer>>

IntoIter(c) ==
    /\ consumer[c].pc = "slice"
    /\ consumer' = [consumer EXCEPT ![c] = Goto(@, "iter")]
    /\ UNCHANGED <<enqueuing_capacity, dequeuing_length, buffers_length,
                   buffer_vars, capacity, producer>>

IntoSlice(c) ==
    /\ consumer[c].pc = "iter"
    /\ consumer' = [consumer EXCEPT ![c] = Goto(@, "slice")]
    /\ UNCHANGED <<enqueuing_capacity, dequeuing_length, buffers_length,
                   buffer_vars, capacity, producer>>

\* BufferIter::next moves the first value of its range out of its cell.
NextValue(c) ==
    /\ consumer[c].pc = "iter"
    /\ consumer[c].length > 0
    /\ cells' = [cells EXCEPT ![consumer[c].index] =
                    Erase(@, consumer[c].start, 1)]
    /\ consumer' = [consumer EXCEPT ![c] =
                       [@ EXCEPT !.start = consumer[c].start + 1,
                                 !.length = consumer[c].length - 1]]
    /\ UNCHANGED <<enqueuing_capacity, dequeuing_length, buffers_length,
                   buf_capacity, capacity, producer>>

-----------------------------------------------------------------------------
Close ==
    /\ enqueuing_capacity' = SetClosed(enqueuing_capacity, TRUE)
    /\ UNCHANGED <<dequeuing_length, buffers_length, buffer_vars, capacity,
                   producer, consumer>>

Reopen ==
    /\ CanReopen
    /\ enqueuing_capacity' = SetClosed(enqueuing_capacity, FALSE)
    /\ UNCHANGED <<dequeuing_length, buffers_length, buffer_vars, capacity,
                   producer, consumer>>

Produce(p) ==
    \/ TryEnqueue(p)  \/ ReserveCells(p) \/ RetryReserve(p)
    \/ InsertValue(p) \/ InsertPanics(p) \/ Acknowledge(p)

Dequeue(c) ==
    \/ TryDequeue(c) \/ LoadEnqueuing(c) \/ SwapBuffers(c) \/ SwapRetry(c)
    \/ PublishCapacity(c) \/ TakeSlice(c) \/ GiveUpSpinning(c)
    \/ StoreDequeuing(c)

Resize(c) ==
    \/ TryDequeueAndResize(c) \/ ResizeBuffer(c)
    \/ InsertMore(c) \/ InsertMorePanics(c) \/ InsertDone(c)

UseHandle(c) ==
    Release(c) \/ Requeue(c) \/ IntoIter(c) \/ IntoSlice(c) \/ NextValue(c)

Next ==
    \/ \E p \in Producers : Produce(p)
    \/ \E c \in Consumers : Dequeue(c) \/ Resize(c) \/ UseHandle(c)
    \/ Close
    \/ Reopen

Spec == Init /\ [][Next]_vars

-----------------------------------------------------------------------------
(* Safety.                                                                 *)

TypeOK ==
    /\ enqueuing_capacity \in EnqueuingWord
    /\ dequeuing_length \in DequeuingWord \cup {DEQUEUING_LOCKED}
    /\ buffers_length \in [Buffer -> 0..MaxCapacity]
    /\ buf_capacity \in [Buffer -> 0..MaxCapacity]
    /\ cells \in [Buffer -> [Cell -> Element \cup {Uninit}]]
    /\ capacity \in 0..MaxCapacity
    /\ producer \in [Producers -> [pc : ProducerPc, value : Values \cup {<<>>},
                                   seen : EnqueuingWord]]
    /\ consumer \in [Consumers -> [pc : ConsumerPc, index : Buffer,
                                   length : 0..MaxCapacity,
                                   start : 0..MaxCapacity,
                                   resized : BOOLEAN,
                                   inserted : 0..MaxCapacity,
                                   seen : EnqueuingWord]]

\* p has reserved cells it has not acknowledged.
Owes(p) == producer[p].pc \in {"insert", "ack", "panicked"}

OwedCells(p) == InsertIndex(p)..(InsertIndex(p) + Len(producer[p].value) - 1)

\* c accesses its dequeuing buffer through a &mut reference.
HasMut(c) == consumer[c].pc \in {"resize", "insert", "slice", "iter"}

HasSlice(c) == consumer[c].pc \in {"slice", "iter"}

\* Dequeuing is mutually exclusive: at most one call or handle is past
\* lock_dequeuing, and while there is one the word reads DEQUEUING_LOCKED
\* (which Queue::remove asserts); no path leaves the word locked by nobody.
LockIsExclusive ==
    /\ \A c, d \in Consumers :
          consumer[c].pc # "idle" /\ consumer[d].pc # "idle" => c = d
    /\ (dequeuing_length = DEQUEUING_LOCKED) <=>
           (\E c \in Consumers : consumer[c].pc # "idle")

\* The SAFETY comments of try_dequeue_internal and try_dequeue_spin: while a
\* consumer has the dequeuing buffer as &mut, it is not the buffer producers
\* reserve in, and no producer still has cells of it to write or acknowledge.
ExclusiveAccess ==
    \A c \in Consumers : HasMut(c) =>
        /\ consumer[c].index # enqueuing_capacity.index
        /\ \A p \in Producers :
              Owes(p) => producer[p].seen.index # consumer[c].index

\* "range has been inserted": every cell of a slice or iterator given to a
\* user holds a value, so none is read uninitialised or moved out twice.
SliceIsInitialized ==
    \A c \in Consumers : HasSlice(c) =>
        \A i \in consumer[c].start..
                    (consumer[c].start + consumer[c].length - 1) :
            cells[consumer[c].index][i] # Uninit

\* "Compare-and-swap makes indexes not overlap, and the buffer is cleared
\* before reusing it": the cells a producer is about to write are inside the
\* buffer, hold no value, and nobody else is about to write them.
InsertIsSafe ==
    \A p \in Producers : producer[p].pc = "insert" =>
        /\ OwedCells(p) \subseteq 0..(buf_capacity[producer[p].seen.index] - 1)
        /\ \A i \in OwedCells(p) : cells[producer[p].seen.index][i] = Uninit
        /\ \A q \in Producers \ {p} :
              Owes(q) /\ producer[q].seen.index = producer[p].seen.index =>
                  OwedCells(p) \cap OwedCells(q) = {}

\* The buffer the resize closure replaces or fills holds no value and no
\* acknowledged length: resizing throws no enqueued value away.
ResizeLosesNothing ==
    \A c \in Consumers : consumer[c].pc = "resize" =>
        /\ cells[consumer[c].index] = NewCells
        /\ buffers_length[consumer[c].index] = 0

\* The debug assertions of try_dequeue_internal: the two words never name
\* the same buffer when it reads them, and a swap that yields an empty
\* buffer and no inserted value was made for a resize.
DebugAsserts ==
    \A c \in Consumers :
        /\ consumer[c].pc = "load" =>
              consumer[c].index # enqueuing_capacity.index
        /\ consumer[c].pc = "notify" /\ SwappedLength(c) = 0
              /\ consumer[c].inserted = 0 => consumer[c].resized

\* Queue::capacity is the capacity of the enqueuing buffer, except between
\* the swap of a resized buffer and the store that follows it.
CapacityIsPublished ==
    (\A c \in Consumers : consumer[c].pc # "notify") =>
        capacity = buf_capacity[enqueuing_capacity.index]

\* TryDequeueError::Pending, "a concurrent enqueuing that need to end": when
\* the acknowledged length falls short, a producer has cells of that very
\* buffer to acknowledge; no update of the counter is ever lost or misplaced.
PendingIsTrue ==
    \A c \in Consumers : consumer[c].pc = "spin" /\ ~SpinDone(c) =>
        \E p \in Producers :
            Owes(p) /\ producer[p].seen.index = consumer[c].index

\* Only reopen() reopens a closed queue: the compare-and-swap loops that
\* reserve cells and swap buffers never write back a stale closed flag.
OnlyReopenReopens ==
    [][enqueuing_capacity.closed /\ ~enqueuing_capacity'.closed => Reopen]_vars

\* TryDequeueError::Conflict, "the queue is concurrently dequeued": the word
\* is locked only while a call or a handle can still unlock it.
ConflictIsTrue ==
    dequeuing_length = DEQUEUING_LOCKED =>
        \E c \in Consumers : consumer[c].pc \notin {"idle", "panicked"}

-----------------------------------------------------------------------------
(* Fairness: a thread inside a call keeps running, and consumers poll.     *)
(* Nobody is obliged to enqueue, close, or do anything with a handle.      *)

Fairness ==
    /\ \A p \in Producers :
          WF_vars(ReserveCells(p) \/ RetryReserve(p) \/ InsertValue(p)
                    \/ Acknowledge(p))
    /\ \A c \in Consumers :
          WF_vars(Dequeue(c) \/ ResizeBuffer(c) \/ InsertDone(c))

FairSpec == Spec /\ Fairness
=============================================================================
