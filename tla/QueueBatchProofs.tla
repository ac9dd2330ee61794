-------------------------- MODULE QueueBatchProofs --------------------------
(***************************************************************************)
(* What the users of the queue see, for any threads, values, capacities    *)
(* and interleaving: Queue implements BatchQueue, and a consumer finds     *)
(* nothing only when the abstract queue is empty.                          *)
(***************************************************************************)
EXTENDS QueueProofs, QueueContentProofs, QueueBatch

-----------------------------------------------------------------------------
(* What the steps rest on besides IInv.                                    *)

\* A producer reaches the compare-and-swap only with a word it found open.
LEMMA OpenInvStep ==
    ASSUME IInv, OpenInv, [Next]_vars
    PROVE  OpenInv'
<1>1. ASSUME NEW p \in Producers, Produce(p), NEW q \in Producers,
             producer'[q].pc = "cas"
      PROVE  ~producer'[q].seen.closed
  <2>1. CASE p # q
    <3>1. \E k : producer' = [producer EXCEPT ![p] = k]
      BY Zenon, <1>1 DEF Produce, TryEnqueue, ReserveCells, RetryReserve,
         CheckWord, InsertValue, InsertPanics, Acknowledge
    <3>2. producer'[q] = producer[q]
      BY <2>1, <3>1 DEF IInv, TypeOK
    <3> QED
      BY Zenon, <1>1, <3>2 DEF OpenInv
  <2>2. CASE p = q /\ (TryEnqueue(p) \/ RetryReserve(p))
    <3>1. PICK value : CheckWord(p, value, enqueuing_capacity)
      BY Zenon, <2>2 DEF TryEnqueue, RetryReserve
    <3>2. producer'[p] = IF \/ enqueuing_capacity.closed
                            \/ ~CanReserve(enqueuing_capacity, Len(value))
                         THEN IdleProducer
                         ELSE [pc |-> "cas", value |-> value,
                               seen |-> enqueuing_capacity]
      BY <3>1 DEF CheckWord, IInv, TypeOK
    <3> QED
      BY <1>1, <2>2, <3>2 DEF IdleProducer
  <2>3. CASE p = q /\ ~(TryEnqueue(p) \/ RetryReserve(p))
    <3>1. \/ producer'[p] = Goto(producer[p], "insert")
          \/ producer'[p] = Goto(producer[p], "ack")
          \/ producer'[p] = Goto(producer[p], "panicked")
          \/ producer'[p] = IdleProducer
      BY <1>1, <2>3 DEF Produce, ReserveCells, InsertValue, InsertPanics,
         Acknowledge, IInv, TypeOK
    <3>2. producer'[p].pc # "cas"
      BY <3>1 DEF Goto, IdleProducer, IInv, TypeOK
    <3> QED
      BY <1>1, <2>3, <3>2
  <2> QED
    BY Zenon, <2>1, <2>2, <2>3
<1>2. CASE UNCHANGED producer
  BY Zenon, <1>2 DEF OpenInv
<1>3. ASSUME NEW c \in Consumers, Dequeue(c) PROVE UNCHANGED producer
  BY Zenon, <1>3 DEF Dequeue, TryDequeue, LockDequeuing, LoadEnqueuing,
     SwapBuffers, SwapRetry, PublishCapacity, TakeSlice, GiveUpSpinning,
     StoreDequeuing
<1>4. ASSUME NEW c \in Consumers, Resize(c) PROVE UNCHANGED producer
  BY Zenon, <1>4 DEF Resize, TryDequeueAndResize, LockDequeuing, ResizeBuffer,
     InsertMore, InsertMorePanics, InsertDone
<1>5. ASSUME NEW c \in Consumers, UseHandle(c) PROVE UNCHANGED producer
  BY Zenon, <1>5
     DEF UseHandle, Release, Requeue, IntoIter, IntoSlice, NextValue
<1>6. Close \/ Reopen \/ UNCHANGED vars => UNCHANGED producer
  BY Zenon DEF Close, Reopen, vars
<1> QED
  BY <1>1, <1>2, <1>3, <1>4, <1>5, <1>6 DEF OpenInv, Next

InsertedOf(c) ==
    consumer[c].pc \in {"insert", "load", "swap"} =>
        \A i \in 0..(consumer[c].inserted - 1) :
            cells[consumer[c].index][i] \in InsertedElements

\* What has been inserted stays while its consumer and its cells do.
LEMMA InsertedKept ==
    ASSUME InsertedInv, NEW c \in Consumers,
           consumer'[c].pc \in {"insert", "load", "swap"} =>
               /\ consumer[c].pc \in {"insert", "load", "swap"}
               /\ consumer'[c].index = consumer[c].index
               /\ consumer'[c].inserted = consumer[c].inserted
               /\ cells'[consumer[c].index] = cells[consumer[c].index]
    PROVE  InsertedOf(c)'
  BY Zenon DEF InsertedInv, InsertedOf

\* Producers write in no buffer a consumer is inserting in.
LEMMA InsertedProduce ==
    ASSUME IInv, InsertedInv, NEW p \in Producers, Produce(p),
           NEW c \in Consumers
    PROVE  InsertedOf(c)'
<1>1. UNCHANGED consumer
  BY Zenon DEF Produce, TryEnqueue, ReserveCells, RetryReserve, InsertValue,
     InsertPanics, Acknowledge
<1>2. ASSUME consumer[c].pc \in {"insert", "load", "swap"}
      PROVE  cells'[consumer[c].index] = cells[consumer[c].index]
  <2>1. consumer[c].index \in Buffer /\ Owed[consumer[c].index] = {}
    <3>1. consumer[c].index \in Buffer /\ ConsumerInv(c)
      BY Zenon, HolderFacts DEF ConsumerRecord
    <3>2. Prepared(Buf[consumer[c].index], consumer[c].inserted)
      BY <1>2, <3>1 DEF ConsumerInv
    <3> QED
      BY Zenon, <3>1, <3>2 DEF Prepared, Settled, Buf
  <2>2. CASE InsertValue(p) \/ InsertPanics(p)
    <3>1. producer[p].seen.index # consumer[c].index
      BY <2>1, <2>2, NobodyOwes DEF IInv, Owes, InsertValue, InsertPanics
    <3>2. \E k : cells' = [cells EXCEPT ![producer[p].seen.index] = k]
      BY Zenon, <2>2 DEF InsertValue, InsertPanics, WriteCells
    <3> QED
      BY <2>1, <3>1, <3>2 DEF IInv, TypeOK
  <2>3. CASE ~(InsertValue(p) \/ InsertPanics(p))
    BY Zenon, <2>3
       DEF Produce, TryEnqueue, ReserveCells, RetryReserve, Acknowledge,
       buffer_vars
  <2> QED
    BY Zenon, <2>2, <2>3
<1> QED
  BY <1>1, <1>2, InsertedKept

\* A step of a consumer leaves the others where they are.
LEMMA OneConsumer ==
    ASSUME NEW c \in Consumers, Dequeue(c) \/ Resize(c) \/ UseHandle(c)
    PROVE  \E k : consumer' = [consumer EXCEPT ![c] = k]
<1>1. CASE Dequeue(c)
  BY Zenon, <1>1 DEF Dequeue, TryDequeue, LockDequeuing, LoadEnqueuing,
     SwapBuffers, SwapRetry, PublishCapacity, TakeSlice, GiveUpSpinning,
     StoreDequeuing
<1>2. CASE Resize(c)
  BY Zenon, <1>2 DEF Resize, TryDequeueAndResize, LockDequeuing, ResizeBuffer,
     InsertMore, InsertMorePanics, InsertDone
<1>3. CASE UseHandle(c)
  BY Zenon, <1>3 DEF UseHandle, Release, Requeue, IntoIter, IntoSlice, NextValue
<1> QED
  BY Zenon, <1>1, <1>2, <1>3

\* A consumer that is not the one taking the step is idle, unless the step is
\* a Conflict, which changes nothing.
LEMMA InsertedOthers ==
    ASSUME IInv, InsertedInv, NEW c \in Consumers, NEW d \in Consumers, c # d,
           Dequeue(c) \/ Resize(c) \/ UseHandle(c)
    PROVE  InsertedOf(d)'
<1>1. \E k : consumer' = [consumer EXCEPT ![c] = k]
  BY Zenon, OneConsumer
<1>2. consumer'[d] = consumer[d]
  BY <1>1 DEF IInv, TypeOK
<1>3. CASE TryDequeue(c) \/ TryDequeueAndResize(c)
  <2>1. UNCHANGED cells
    BY Zenon, <1>3
       DEF TryDequeue, TryDequeueAndResize, LockDequeuing, buffer_vars
  <2> QED
    BY Zenon, <1>2, <2>1, InsertedKept
<1>4. CASE ~(TryDequeue(c) \/ TryDequeueAndResize(c))
  <2>1. consumer[c].pc # "idle"
    <3>1. CASE Dequeue(c)
      BY Zenon, <1>4, <3>1 DEF Dequeue, LoadEnqueuing, SwapBuffers, SwapRetry,
         PublishCapacity, TakeSlice, GiveUpSpinning, StoreDequeuing
    <3>2. CASE Resize(c)
      BY Zenon, <1>4, <3>2 DEF Resize, ResizeBuffer, InsertMore,
         InsertMorePanics, InsertDone
    <3>3. CASE UseHandle(c)
      BY Zenon, <3>3
         DEF UseHandle, Release, Requeue, IntoIter, IntoSlice, NextValue
    <3> QED
      BY <3>1, <3>2, <3>3
  <2>2. consumer[d].pc = "idle"
    BY Zenon, <2>1 DEF IInv, LockIsExclusive
  <2> QED
    BY Zenon, <1>2, <2>2 DEF InsertedOf
<1> QED
  BY Zenon, <1>3, <1>4

\* A call that has just locked dequeuing has inserted nothing.
LEMMA InsertedLock ==
    ASSUME IInv, InsertedInv, NEW c \in Consumers, NEW pc, LockDequeuing(c, pc)
    PROVE  InsertedOf(c)'
<1> DEFINE w == dequeuing_length
<1>1. consumer'[c] = IF w = DEQUEUING_LOCKED THEN consumer[c]
                     ELSE At(IF w.length > 0 THEN "spin" ELSE pc,
                             w.index, w.length)
  BY Zenon DEF LockDequeuing, IInv, TypeOK
<1>2. consumer[c].pc = "idle"
  BY Zenon DEF LockDequeuing
<1>3. consumer'[c].pc = "idle" \/ consumer'[c].inserted = 0
  BY <1>1, <1>2 DEF At
<1> QED
  BY <1>3 DEF InsertedOf

\* One turn of the insertion loop adds the elements of its value.
LEMMA InsertedMore ==
    ASSUME IInv, InsertedInv, NEW c \in Consumers, InsertMore(c)
    PROVE  InsertedOf(c)'
<1> DEFINE b == consumer[c].index
           n == consumer[c].inserted
<1>1. consumer[c].pc = "insert" /\ consumer[c] \in ConsumerRecord
  BY Zenon, HolderFacts DEF InsertMore
<1>2. PICK value \in Inserts :
          /\ n + Len(value) <= buf_capacity[b]
          /\ cells' = [cells EXCEPT ![b] = InsertInto(@, n, value, Len(value))]
          /\ consumer' = [consumer EXCEPT ![c].inserted = n + Len(value)]
  BY Zenon DEF InsertMore
<1>3. /\ b \in Buffer /\ n \in Nat /\ Len(value) \in Nat
      /\ buf_capacity[b] \in 0..MaxCapacity /\ MaxCapacity \in Nat
  BY <1>1, HolderFacts, QueueAssumption DEF ConsumerRecord, QueueAssumption
<1>4. consumer'[c] = [consumer[c] EXCEPT !.inserted = n + Len(value)]
  BY <1>2 DEF IInv, TypeOK
<1>5. consumer'[c].index = b /\ consumer'[c].inserted = n + Len(value)
  BY <1>1, <1>4 DEF ConsumerRecord
<1>6. cells'[b] = InsertInto(cells[b], n, value, Len(value))
  BY <1>2, <1>3 DEF IInv, TypeOK
<1>7. \A i \in 0..(n - 1) : cells[b][i] \in InsertedElements
  BY Zenon, <1>1 DEF InsertedInv
<1>8. \A i \in 1..Len(value) : value[i] \in InsertedElements
  BY DEF InsertedElements
<1> HIDE DEF b, n
<1>9. \A i \in 0..(n + Len(value) - 1) : cells'[b][i] \in InsertedElements
  <2>1. SUFFICES ASSUME NEW i \in 0..(n + Len(value) - 1)
                 PROVE  cells'[b][i] \in InsertedElements
    BY Zenon
  <2>2. i \in Cell
    BY <1>2, <1>3 DEF Cell
  <2>3. CASE i < n
    <3>1. cells'[b][i] = cells[b][i]
      BY <1>3, <1>6, <2>2, <2>3 DEF InsertInto
    <3> QED
      BY <1>3, <1>7, <2>3, <3>1
  <2>4. CASE i >= n
    <3>1. cells'[b][i] = value[i - n + 1]
      BY <1>3, <1>6, <2>2, <2>4 DEF InsertInto
    <3>2. i - n + 1 \in 1..Len(value)
      BY <1>3, <2>4
    <3> QED
      BY Zenon, <1>8, <3>1, <3>2
  <2> QED
    BY <1>3, <2>3, <2>4
<1>10. \A i \in 0..(consumer'[c].inserted - 1) :
           cells'[consumer'[c].index][i] \in InsertedElements
  BY <1>3, <1>5, <1>9
<1> QED
  BY Zenon, <1>10 DEF InsertedOf

\* What try_dequeue_and_resize has inserted in its buffer stays there until
\* the swap.
LEMMA InsertedInvStep ==
    ASSUME IInv, InsertedInv, [Next]_vars
    PROVE  InsertedInv'
<1>1. ASSUME NEW c \in Consumers, Dequeue(c) PROVE InsertedOf(c)'
  <2>0. consumer[c] \in ConsumerRecord
    BY Zenon, HolderFacts
  <2>1. CASE LoadEnqueuing(c)
    <3>1. \/ consumer'[c] = At("store", consumer[c].index, 0)
          \/ consumer'[c] = [Goto(consumer[c], "swap") EXCEPT
                                !.seen = enqueuing_capacity]
      BY <2>1 DEF LoadEnqueuing, IInv, TypeOK
    <3>2. consumer[c].pc = "load" /\ UNCHANGED cells
      BY Zenon, <2>1 DEF LoadEnqueuing, buffer_vars
    <3>3. CASE consumer'[c] = At("store", consumer[c].index, 0)
      BY <3>3 DEF InsertedOf, At
    <3>4. CASE consumer'[c] = [Goto(consumer[c], "swap") EXCEPT
                                  !.seen = enqueuing_capacity]
      <4>1. /\ consumer'[c].index = consumer[c].index
            /\ consumer'[c].inserted = consumer[c].inserted
        BY Zenon, <2>0, <3>4 DEF Goto, ConsumerRecord
      <4> QED
        BY Zenon, <3>2, <4>1, InsertedKept
    <3> QED
      BY <3>1, <3>3, <3>4
  <2>2. CASE SwapRetry(c)
    <3>1. consumer'[c] = [consumer[c] EXCEPT !.seen = enqueuing_capacity]
      BY <2>2 DEF SwapRetry, IInv, TypeOK
    <3>2. consumer[c].pc = "swap" /\ UNCHANGED cells
      BY Zenon, <2>2 DEF SwapRetry, buffer_vars
    <3>3. /\ consumer'[c].index = consumer[c].index
          /\ consumer'[c].inserted = consumer[c].inserted
      BY Zenon, <2>0, <3>1 DEF ConsumerRecord
    <3> QED
      BY <3>2, <3>3, InsertedKept
  <2>3. CASE TryDequeue(c)
    BY Zenon, <2>3, InsertedLock DEF TryDequeue
  <2>4. CASE SwapBuffers(c) \/ GiveUpSpinning(c)
    <3>1. \/ consumer'[c] = Goto(consumer[c], "notify")
          \/ consumer'[c] = Goto(consumer[c], "store")
      <4>1. \/ consumer' = [consumer EXCEPT ![c] = Goto(@, "notify")]
            \/ consumer' = [consumer EXCEPT ![c] = Goto(@, "store")]
        BY Zenon, <2>4 DEF SwapBuffers, GiveUpSpinning
      <4> QED
        BY <4>1 DEF IInv, TypeOK
    <3>2. consumer'[c].pc \in {"notify", "store"}
      BY Zenon, <2>0, <3>1 DEF Goto, ConsumerRecord
    <3> QED
      BY Zenon, <3>2 DEF InsertedOf
  <2>6. CASE TakeSlice(c)
    <3>1. consumer'[c] = [Goto(consumer[c], "slice") EXCEPT
                             !.start = buffers_length[consumer[c].index]
                                           - consumer[c].length]
      BY <2>6 DEF TakeSlice, IInv, TypeOK
    <3>2. consumer'[c].pc = "slice"
      BY Zenon, <2>0, <3>1 DEF Goto, ConsumerRecord
    <3> QED
      BY <3>2 DEF InsertedOf
  <2>5. CASE PublishCapacity(c) \/ StoreDequeuing(c)
    <3>1. \E pc, b, n : consumer'[c] = At(pc, b, n)
      BY <2>5 DEF PublishCapacity, StoreDequeuing, IdleConsumer, IInv, TypeOK
    <3>2. consumer'[c].inserted = 0
      BY <3>1 DEF At
    <3> QED
      BY <3>2 DEF InsertedOf
  <2> QED
    BY <1>1, <2>1, <2>2, <2>3, <2>4, <2>5, <2>6 DEF Dequeue
<1>2. ASSUME NEW c \in Consumers, Resize(c) PROVE InsertedOf(c)'
  <2>0. consumer[c] \in ConsumerRecord
    BY Zenon, HolderFacts
  <2>1. CASE TryDequeueAndResize(c)
    BY Zenon, <2>1, InsertedLock DEF TryDequeueAndResize
  <2>2. CASE ResizeBuffer(c)
    <3>1. PICK k : consumer' = [consumer EXCEPT ![c] =
                                   [Goto(@, "insert") EXCEPT !.resized = k]]
      BY Zenon, <2>2 DEF ResizeBuffer
    <3>2. consumer'[c] = [Goto(consumer[c], "insert") EXCEPT !.resized = k]
      BY <3>1 DEF IInv, TypeOK
    <3>3. consumer[c].inserted = 0
      BY Zenon, <2>2, HolderFacts DEF ConsumerInv, ResizeBuffer
    <3>4. consumer'[c].inserted = 0
      BY Zenon, <2>0, <3>2, <3>3 DEF Goto, ConsumerRecord
    <3> QED
      BY <3>4 DEF InsertedOf
  <2>3. CASE InsertMore(c)
    BY Zenon, <2>3, InsertedMore
  <2>4. CASE InsertMorePanics(c)
    <3>1. consumer'[c] = Goto(consumer[c], "panicked")
      BY <2>4 DEF InsertMorePanics, IInv, TypeOK
    <3>2. consumer'[c].pc = "panicked"
      BY Zenon, <2>0, <3>1 DEF Goto, ConsumerRecord
    <3> QED
      BY Zenon, <3>2 DEF InsertedOf
  <2>5. CASE InsertDone(c)
    <3>1. consumer'[c] = Goto(consumer[c], "load")
      BY <2>5 DEF InsertDone, IInv, TypeOK
    <3>2. consumer[c].pc = "insert" /\ UNCHANGED cells
      BY Zenon, <2>5 DEF InsertDone, buffer_vars
    <3>3. /\ consumer'[c].index = consumer[c].index
          /\ consumer'[c].inserted = consumer[c].inserted
      BY Zenon, <2>0, <3>1 DEF Goto, ConsumerRecord
    <3> QED
      BY <3>2, <3>3, InsertedKept
  <2> QED
    BY <1>2, <2>1, <2>2, <2>3, <2>4, <2>5 DEF Resize
<1>3. ASSUME NEW c \in Consumers, UseHandle(c) PROVE InsertedOf(c)'
  <2>0. consumer[c] \in ConsumerRecord
    BY Zenon, HolderFacts
  <2>1. CASE Release(c) \/ Requeue(c)
    <3>1. \E pc, b, n : consumer'[c] = At(pc, b, n)
      BY <2>1 DEF Release, Requeue, IdleConsumer, IInv, TypeOK
    <3>2. consumer'[c].inserted = 0
      BY <3>1 DEF At
    <3> QED
      BY <3>2 DEF InsertedOf
  <2>2. CASE IntoIter(c) \/ IntoSlice(c)
    <3>1. \/ consumer'[c] = Goto(consumer[c], "iter")
          \/ consumer'[c] = Goto(consumer[c], "slice")
      BY <2>2 DEF IntoIter, IntoSlice, IInv, TypeOK
    <3>2. consumer'[c].pc \in {"iter", "slice"}
      BY Zenon, <2>0, <3>1 DEF Goto, ConsumerRecord
    <3> QED
      BY Zenon, <3>2 DEF InsertedOf
  <2>3. CASE NextValue(c)
    <3>1. consumer'[c] = [consumer[c] EXCEPT !.start = consumer[c].start + 1,
                                             !.length = consumer[c].length - 1]
      BY <2>3 DEF NextValue, IInv, TypeOK
    <3>2. consumer[c].pc = "iter"
      BY Zenon, <2>3 DEF NextValue
    <3>3. consumer'[c].pc = "iter"
      BY Zenon, <2>0, <3>1, <3>2 DEF ConsumerRecord
    <3> QED
      BY Zenon, <3>3 DEF InsertedOf
  <2> QED
    BY <1>3, <2>1, <2>2, <2>3 DEF UseHandle
<1>4. ASSUME NEW c \in Consumers, Dequeue(c) \/ Resize(c) \/ UseHandle(c),
             NEW d \in Consumers
      PROVE  InsertedOf(d)'
  BY <1>1, <1>2, <1>3, <1>4, InsertedOthers
<1>5. ASSUME Close \/ Reopen \/ UNCHANGED vars, NEW d \in Consumers
      PROVE  InsertedOf(d)'
  <2>1. consumer' = consumer /\ cells' = cells
    BY Zenon, <1>5 DEF Close, Reopen, vars, buffer_vars
  <2> QED
    BY Zenon, <2>1, InsertedKept
<1>6. \A d \in Consumers : InsertedOf(d)'
  BY Zenon, <1>4, <1>5, InsertedProduce DEF Next
<1> QED
  BY Zenon, <1>6 DEF InsertedInv, InsertedOf

\* A new queue has inserted nothing and has no producer.
LEMMA InitBatchInv == Init => BatchInv
<1> SUFFICES ASSUME Init PROVE BatchInv
  BY Zenon
<1>1. /\ \A p \in Producers : producer[p].pc = "idle"
      /\ \A c \in Consumers : consumer[c].pc = "idle"
  BY Zenon DEF Init, IdleProducer, IdleConsumer, At
<1> QED
  BY Zenon, <1>1, InitInv DEF BatchInv, InsertedInv, OpenInv

\* Every step preserves BatchInv.
LEMMA NextBatchInv == BatchInv /\ [Next]_vars => BatchInv'
  BY NextInv, InsertedInvStep, OpenInvStep DEF BatchInv

\* BatchInv holds in every reachable state: the values that the closure of
\* try_dequeue_and_resize inserts are there when the swap publishes them, and
\* no producer reserves with a word it found closed.
THEOREM BatchInvariance == Spec => []BatchInv
  BY InitBatchInv, NextBatchInv, PTL DEF Spec

-----------------------------------------------------------------------------
(* The steps of BatchQueue.                                                *)

AbstractStep == [Abstract!Next]_(Abstract!vars)

\* Both modules mean the same elements.
LEMMA SameInserted == Abstract!InsertedElements = InsertedElements
  BY Zenon DEF Abstract!InsertedElements, InsertedElements

\* A step that changes nothing visible is a stutter.
LEMMA StutterRefines ==
    ASSUME IInv, IInv', Stutters
    PROVE  AbstractStep
<1> USE DEF Stutters, SameClosed
<1>1. Batch' = Batch
  BY View, ViewNext
<1> QED
  BY Zenon, <1>1 DEF AbstractStep, AbstractQueue, Abstract!vars

\* A step that only sets the closed flag.
LEMMA SetClosedRefines ==
    ASSUME IInv, IInv', SetsClosed
    PROVE  AbstractStep
<1> USE DEF SetsClosed, SameClosed
<1>1. Batch' = Batch
  BY View, ViewNext
<1>2. Abstract!SetClosed
  BY Zenon, <1>1 DEF AbstractQueue, Abstract!SetClosed
<1> QED
  BY Zenon, <1>2 DEF AbstractStep, Abstract!Next

\* A reservation appends a value to the abstract queue.
LEMMA EnqueueRefines ==
    ASSUME IInv, IInv', NEW value \in Values, Enqueues(value)
    PROVE  AbstractStep
<1>0. /\ ~enqueuing_capacity.closed
      /\ Due' = Due /\ Enqueued' = Enqueued \o value /\ Lent' = Lent
      /\ enqueuing_capacity'.closed = enqueuing_capacity.closed
  BY Zenon DEF Enqueues, SameClosed
<1>1. Batch' = Batch
  BY <1>0, View, ViewNext
<1>2. value \in Seq(CellValue)
  <2>1. value \in Seq(Element)
    BY Zenon, QueueAssumption DEF QueueAssumption
  <2> QED
    BY <2>1 DEF CellValue
<1>3. Due \o (Enqueued \o value) = (Due \o Enqueued) \o value
  <2>1. Due \in Seq(CellValue) /\ Enqueued \in Seq(CellValue)
    BY Zenon, View
  <2> QED
    BY <1>2, <2>1
<1>4. Abstract!Enqueue(value)
  BY Zenon, <1>0, <1>1, <1>3 DEF AbstractQueue, Abstract!Enqueue
<1> QED
  BY Zenon, <1>4 DEF AbstractStep, Abstract!Next

\* A swap leaves the abstract queue as it is, or appends what was inserted.
LEMMA SwapRefines ==
    ASSUME IInv, IInv', Swaps
    PROVE  AbstractStep
<1> USE DEF Swaps, SameClosed
<1> DEFINE s == Enqueued
           u == Enqueued'
<1>1. s \in Seq(CellValue) /\ u \in Seq(CellValue)
  BY Zenon, View, ViewNext
<1>2. AbstractQueue = s /\ AbstractQueue' = s \o u
  <2>1. <<>> \o s = s
    BY <1>1
  <2> QED
    BY Zenon, <2>1 DEF AbstractQueue
<1>3. Batch' = Batch /\ Lent' = Lent /\ Lent = FALSE
  BY Zenon, View, ViewNext DEF Lent
<1> HIDE DEF s, u
<1>4. CASE u = <<>>
  <2>1. s \o u = s
    BY <1>1, <1>4
  <2> QED
    BY Zenon, <1>2, <1>3, <2>1 DEF AbstractStep, Abstract!vars
<1>5. CASE u # <<>>
  <2>1. /\ Len(s \o u) > Len(s)
        /\ SubSeq(s \o u, 1, Len(s)) = s
    BY <1>1, <1>5
  <2>2. \A i \in (Len(s) + 1)..Len(s \o u) :
            (s \o u)[i] \in Abstract!InsertedElements
    <3> SUFFICES ASSUME NEW i \in (Len(s) + 1)..Len(s \o u)
                 PROVE  (s \o u)[i] \in Abstract!InsertedElements
      BY Zenon
    <3>1. i - Len(s) \in 1..Len(u) /\ (s \o u)[i] = u[i - Len(s)]
      BY <1>1
    <3> QED
      BY Zenon, <3>1, SameInserted DEF u
  <2>3. Abstract!Insert
    BY Zenon, <1>2, <1>3, <2>1, <2>2 DEF Abstract!Insert
  <2> QED
    BY Zenon, <2>3 DEF AbstractStep, Abstract!Next
<1> QED
  BY Zenon, <1>4, <1>5

\* A slice is handed out: the batch is what is due.
LEMMA BorrowRefines ==
    ASSUME IInv, IInv', Borrows
    PROVE  AbstractStep
<1> USE DEF Borrows, SameClosed
<1> DEFINE s == Due
           u == Enqueued
<1>1. s \in Seq(CellValue) /\ u \in Seq(CellValue) /\ s # <<>>
  BY Zenon, View
<1>2. Batch' = s
  BY Zenon, ViewNext
<1>3. AbstractQueue = s \o u /\ AbstractQueue' = s \o u
  BY Zenon DEF AbstractQueue
<1> HIDE DEF s, u
<1>4. Len(s) \in 1..Len(s \o u) /\ s = SubSeq(s \o u, 1, Len(s))
  <2>1. s = SubSeq(s \o u, 1, Len(s))
    BY <1>1
  <2>2. Len(s) \in Nat /\ Len(s) # 0 /\ Len(u) \in Nat
        /\ Len(s \o u) = Len(s) + Len(u)
    BY <1>1
  <2> QED
    BY <2>1, <2>2
<1>5. Lent' = TRUE
  BY Zenon DEF Lent
<1>6. \E n \in 1..Len(AbstractQueue) : Batch' = SubSeq(AbstractQueue, 1, n)
  <2>1. Len(s) \in 1..Len(AbstractQueue)
    BY Zenon, <1>3, <1>4
  <2>2. Batch' = SubSeq(AbstractQueue, 1, Len(s))
    BY Zenon, <1>2, <1>3, <1>4
  <2> QED
    BY <2>1, <2>2, Zenon
<1>7. AbstractQueue' = AbstractQueue
  BY Zenon, <1>3
<1>8. Abstract!Borrow
  BY Zenon, <1>5, <1>6, <1>7 DEF Abstract!Borrow
<1> QED
  BY Zenon, <1>8 DEF AbstractStep, Abstract!Next

\* An iterator takes the first element of the batch.
LEMMA DrainRefines ==
    ASSUME IInv, IInv', Drains
    PROVE  AbstractStep
<1> USE DEF Drains, SameClosed
<1>1. Due \in Seq(CellValue) /\ Enqueued \in Seq(CellValue)
  BY Zenon, View
<1>2. Batch = Due /\ Batch' = Tail(Due)
  BY Zenon, View, ViewNext
<1>3. Tail(Due \o Enqueued) = Tail(Due) \o Enqueued
  BY <1>1
<1>4. Lent' = Lent
  BY Zenon DEF Lent
<1>5. Abstract!Drain
  BY Zenon, <1>2, <1>3, <1>4 DEF Abstract!Drain, AbstractQueue
<1> QED
  BY Zenon, <1>5 DEF AbstractStep, Abstract!Next

\* A handle is given back with what is left of its batch.
LEMMA GiveBackRefines ==
    ASSUME IInv, IInv', GivesBack
    PROVE  AbstractStep
<1> USE DEF GivesBack, SameClosed
<1>1. Batch' = <<>>
  BY Zenon, ViewNext
<1>2. Lent' = FALSE
  BY Zenon DEF Lent
<1>3. Abstract!GiveBack
  BY Zenon, <1>1, <1>2 DEF Abstract!GiveBack, AbstractQueue
<1> QED
  BY Zenon, <1>3 DEF AbstractStep, Abstract!Next

\* A handle is dropped with all of its batch.
LEMMA ConsumeRefines ==
    ASSUME IInv, IInv', Consumes
    PROVE  AbstractStep
<1> USE DEF Consumes, SameClosed
<1>1. Due \in Seq(CellValue) /\ Enqueued \in Seq(CellValue)
  BY Zenon, View
<1>2. Batch = Due /\ Batch' = <<>>
  BY Zenon, View, ViewNext
<1>3. /\ SubSeq(Due \o Enqueued, Len(Due) + 1, Len(Due \o Enqueued)) = Enqueued
      /\ <<>> \o Enqueued = Enqueued
  BY <1>1
<1>4. Lent' = FALSE
  BY Zenon DEF Lent
<1>5. Abstract!Consume
  BY Zenon, <1>2, <1>3, <1>4 DEF Abstract!Consume, AbstractQueue
<1> QED
  BY Zenon, <1>5 DEF AbstractStep, Abstract!Next

-----------------------------------------------------------------------------
(* The refinement.                                                         *)

\* A new queue is an empty, open BatchQueue with nothing lent.
LEMMA InitAbstract == Init => Abstract!Init
<1> SUFFICES ASSUME Init PROVE Abstract!Init
  BY Zenon
<1>1. IInv
  BY Zenon, InitInv
<1>2. /\ dequeuing_length # DEQUEUING_LOCKED /\ dequeuing_length.length = 0
      /\ enqueuing_capacity.index \in Buffer /\ enqueuing_capacity.closed = FALSE
      /\ buf_capacity[enqueuing_capacity.index] - enqueuing_capacity.remaining = 0
  BY QueueAssumption DEF Init, DequeuingLength, DEQUEUING_LOCKED, Buffer,
     EnqueuingCapacity, QueueAssumption
<1>3. Due = <<>> /\ ~Lent
  BY <1>1, <1>2, DueFree, NothingDue
<1>4. Enqueued = <<>>
  BY Zenon, <1>2, RegionEmpty DEF Enqueued
<1>5. AbstractQueue = <<>>
  BY <1>3, <1>4 DEF AbstractQueue
<1>6. Batch = <<>>
  BY Zenon, <1>3 DEF Batch
<1>7. Lent = FALSE
  BY Zenon, <1>3 DEF Lent
<1> QED
  BY <1>2, <1>5, <1>6, <1>7 DEF Abstract!Init

\* Every step of queue.rs changes the content as one step of BatchQueue may.
LEMMA NextContent ==
    ASSUME BatchInv, BatchInv', [Next]_vars
    PROVE  ContentStep
<1>0. IInv /\ IInv' /\ InsertedInv /\ OpenInv
  BY Zenon DEF BatchInv
<1>1. ASSUME NEW p \in Producers, Produce(p) PROVE ContentStep
  BY <1>0, <1>1, CheckWordStep, ReserveStep, InsertStep, AcknowledgeStep
     DEF Produce
<1>2. ASSUME NEW c \in Consumers, Dequeue(c) PROVE ContentStep
  <2>1. CASE TryDequeue(c)
    BY Zenon, <1>0, <2>1, LockStep DEF TryDequeue
  <2>2. CASE LoadEnqueuing(c) \/ SwapRetry(c)
    BY Zenon, <1>0, <2>2, LoadStep
  <2>3. CASE SwapBuffers(c)
    BY Zenon, <1>0, <2>3, SwapBuffersStep
  <2>4. CASE PublishCapacity(c)
    BY Zenon, <1>0, <2>4, PublishStep
  <2>5. CASE TakeSlice(c) \/ GiveUpSpinning(c)
    BY Zenon, <1>0, <2>5, SpinStep
  <2>6. CASE StoreDequeuing(c)
    BY Zenon, <1>0, <2>6, StoreStep
  <2> QED
    BY <1>2, <2>1, <2>2, <2>3, <2>4, <2>5, <2>6 DEF Dequeue
<1>3. ASSUME NEW c \in Consumers, Resize(c) PROVE ContentStep
  <2>1. CASE TryDequeueAndResize(c)
    BY Zenon, <1>0, <2>1, LockStep DEF TryDequeueAndResize
  <2> QED
    BY <1>0, <1>3, <2>1, ResizeStep DEF Resize
<1>4. ASSUME NEW c \in Consumers, UseHandle(c) PROVE ContentStep
  BY <1>0, <1>4, ReleaseStep, RequeueStep, HandleStep, NextValueStep
     DEF UseHandle
<1>5. CASE Close \/ Reopen
  BY Zenon, <1>0, <1>5, SetClosedStep
<1>6. CASE UNCHANGED vars
  BY Zenon, <1>0, <1>6, UnchangedStep
<1> QED
  BY <1>1, <1>2, <1>3, <1>4, <1>5, <1>6 DEF Next

\* queue.rs is a closable FIFO queue lent batch by batch, for any threads,
\* values, capacities and interleaving: no element is lost, duplicated or
\* reordered by swaps, resizes, partial drains and requeues, and none is
\* accepted once closed.
THEOREM Refinement == Spec => ImplementsBatchQueue
<1>1. BatchInv /\ BatchInv' /\ [Next]_vars => [Abstract!Next]_(Abstract!vars)
  <2> SUFFICES ASSUME BatchInv, BatchInv', [Next]_vars
               PROVE  AbstractStep
    BY Zenon DEF AbstractStep
  <2>1. IInv /\ IInv' /\ ContentStep
    BY Zenon, NextContent DEF BatchInv
  <2> QED
    BY Zenon, <2>1, StutterRefines, SetClosedRefines, EnqueueRefines,
       SwapRefines, BorrowRefines, DrainRefines, GiveBackRefines,
       ConsumeRefines DEF ContentStep
<1> QED
  BY <1>1, InitAbstract, BatchInvariance, PTL
     DEF Spec, ImplementsBatchQueue, Abstract!Spec

-----------------------------------------------------------------------------
(* Finding nothing.                                                        *)

\* A consumer that changes does so by a step of its own.
LEMMA OwnStep ==
    ASSUME IInv, NEW c \in Consumers, [Next]_vars, consumer'[c] # consumer[c]
    PROVE  Dequeue(c) \/ Resize(c) \/ UseHandle(c)
<1>1. ASSUME NEW p \in Producers, Produce(p) PROVE FALSE
  <2>1. consumer' = consumer
    BY Zenon, <1>1 DEF Produce, TryEnqueue, ReserveCells, RetryReserve,
       InsertValue, InsertPanics, Acknowledge
  <2> QED
    BY Zenon, <2>1
<1>2. ASSUME NEW d \in Consumers, d # c, Dequeue(d) \/ Resize(d) \/ UseHandle(d)
      PROVE  FALSE
  <2>1. \E k : consumer' = [consumer EXCEPT ![d] = k]
    BY Zenon, <1>2, OneConsumer
  <2> QED
    BY <1>2, <2>1 DEF IInv, TypeOK
<1>3. ASSUME Close \/ Reopen \/ UNCHANGED vars PROVE FALSE
  <2>1. consumer' = consumer
    BY Zenon, <1>3 DEF Close, Reopen, vars
  <2> QED
    BY Zenon, <2>1
<1> QED
  BY Zenon, <1>1, <1>2, <1>3 DEF Next

\* A call that gives up at its first read of the enqueuing word does so in
\* LoadEnqueuing.
LEMMA OnlyLoads ==
    ASSUME IInv, NEW c \in Consumers, [Next]_vars,
           consumer[c].pc = "load", consumer'[c].pc = "store"
    PROVE  LoadEnqueuing(c)
<1>1. Dequeue(c) \/ Resize(c) \/ UseHandle(c)
  <2>1. consumer'[c] # consumer[c]
    BY Zenon
  <2> QED
    BY Zenon, <2>1, OwnStep
<1>2. ~Resize(c) /\ ~UseHandle(c)
  BY Zenon DEF Resize, TryDequeueAndResize, LockDequeuing, ResizeBuffer,
     InsertMore, InsertMorePanics, InsertDone, UseHandle, Release, Requeue,
     IntoIter, IntoSlice, NextValue
<1>3. Dequeue(c) => LoadEnqueuing(c)
  BY Zenon DEF Dequeue, TryDequeue, LockDequeuing, SwapBuffers, SwapRetry,
     PublishCapacity, TakeSlice, GiveUpSpinning, StoreDequeuing
<1> QED
  BY Zenon, <1>1, <1>2, <1>3

\* A call gets past the swap in SwapBuffers only.
LEMMA OnlySwaps ==
    ASSUME IInv, NEW c \in Consumers, [Next]_vars,
           consumer[c].pc = "swap", consumer'[c].pc = "notify"
    PROVE  SwapBuffers(c)
<1>1. Dequeue(c) \/ Resize(c) \/ UseHandle(c)
  <2>1. consumer'[c] # consumer[c]
    BY Zenon
  <2> QED
    BY Zenon, <2>1, OwnStep
<1>2. ~Resize(c) /\ ~UseHandle(c)
  BY Zenon DEF Resize, TryDequeueAndResize, LockDequeuing, ResizeBuffer,
     InsertMore, InsertMorePanics, InsertDone, UseHandle, Release, Requeue,
     IntoIter, IntoSlice, NextValue
<1>3. Dequeue(c) => SwapBuffers(c) \/ SwapRetry(c)
  BY Zenon DEF Dequeue, TryDequeue, LockDequeuing, LoadEnqueuing,
     PublishCapacity, TakeSlice, GiveUpSpinning, StoreDequeuing
<1>4. ~SwapRetry(c)
  <2>1. SUFFICES ASSUME SwapRetry(c) PROVE FALSE
    BY Zenon
  <2>2. consumer'[c] = [consumer[c] EXCEPT !.seen = enqueuing_capacity]
    BY <2>1 DEF SwapRetry, IInv, TypeOK
  <2>3. consumer[c] \in ConsumerRecord
    BY Zenon, HolderFacts
  <2> QED
    BY Zenon, <2>2, <2>3 DEF ConsumerRecord
<1> QED
  BY <1>1, <1>2, <1>3, <1>4

\* A consumer that finds nothing when it reads the enqueuing word, or swaps
\* out an empty buffer it inserted nothing for, finds an empty queue.
LEMMA NothingFound ==
    ASSUME IInv, IInv', NEW c \in Consumers, [Next]_vars, FindsNothing(c)
    PROVE  AbstractQueue = <<>>
<1> DEFINE e == enqueuing_capacity.index
<1>1. consumer[c].pc \in {"load", "swap"}
  BY Zenon DEF FindsNothing
<1>2. Due = <<>>
  BY <1>1, DueHeld, DueToBy
<1>3. buf_capacity[e] - enqueuing_capacity.remaining = 0
  <2>1. CASE consumer[c].pc = "load" /\ consumer'[c].pc = "store"
    <3>1. LoadEnqueuing(c)
      BY Zenon, <2>1, OnlyLoads
    <3>2. consumer[c] \in ConsumerRecord
      BY HolderFacts
    <3>3. consumer'[c] = IF NothingToDequeue(c, enqueuing_capacity)
                         THEN At("store", consumer[c].index, 0)
                         ELSE [Goto(consumer[c], "swap") EXCEPT
                                  !.seen = enqueuing_capacity]
      BY <3>1 DEF LoadEnqueuing, IInv, TypeOK
    <3>4. NothingToDequeue(c, enqueuing_capacity)
      BY <2>1, <3>2, <3>3 DEF Goto, ConsumerRecord
    <3> QED
      BY <3>4, EnqueuedType DEF NothingToDequeue
  <2>2. CASE /\ consumer[c].pc = "swap" /\ consumer'[c].pc = "notify"
             /\ SwappedLength(c) = 0
    <3>1. SwapBuffers(c)
      BY Zenon, <2>2, OnlySwaps
    <3>2. enqueuing_capacity = consumer[c].seen
      BY Zenon, <3>1 DEF SwapBuffers
    <3> QED
      BY <2>2, <3>2 DEF SwappedLength
  <2> QED
    BY Zenon, <2>1, <2>2 DEF FindsNothing
<1>4. Enqueued = <<>>
  BY <1>3, RegionEmpty, EnqueuedType DEF Enqueued
<1> QED
  BY <1>2, <1>4 DEF AbstractQueue

\* try_dequeue returns Empty or Closed only if, at a moment of the call,
\* nothing is reserved, pending or requeued in either buffer.
THEOREM EmptyJustified == Spec => EmptyIsTrue
<1>1. BatchInv /\ BatchInv' /\ [Next]_vars =>
          [\A c \in Consumers : FindsNothing(c) => AbstractQueue = <<>>]_vars
  BY Zenon, NothingFound DEF BatchInv
<1> QED
  BY <1>1, BatchInvariance, PTL DEF Spec, EmptyIsTrue
=============================================================================
